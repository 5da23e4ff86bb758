SPECIFICATION FairSpec
CONSTANTS
  p1 = p1
  p2 = p2
  p3 = p3
  Pods = {p1, p2, p3}
  Nodes = {n1}
  NoPod = NoPod
  NoNode = NoNode
  Namespace <- OneTeam
  PodName <- WebPods
  RetrySteps = 2
INVARIANTS
  TypeOK
  FreshCopy
  NoStrayEntry
  NoEmptyLedger
PROPERTIES
  ImplementsStore
  OthersKept
  AttemptEnds

SPECIFICATION Spec
CONSTANTS
  p1 = p1
  p2 = p2
  p3 = p3
  Pods = {p1, p2}
  Nodes = {n1, n2}
  NoPod = NoPod
  NoNode = NoNode
  Namespace <- OneTeam
  PodName <- WebPods
  RetrySteps = 2
INVARIANT ReservationKept

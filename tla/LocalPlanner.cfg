SPECIFICATION Spec
CONSTANTS
  Dims = {"gpu", "tps"}
  GPU = "gpu"
  GPUDims = {"gpu"}
  KVDims = {}
  TokenDims = {"tps"}
  Nil = Nil
  Priorities = {"high", "low"}
  Lower <- LowerOf
  Inputs <- GrowingLists
  Nodes <- SmallNodes
INVARIANTS
  TypeOK
  NoOvercommit
  RequiredMet
  PeakKeepsRequired
  HigherPriorityFirst
  DegradedOnlyWithoutGPU

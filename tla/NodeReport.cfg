SPECIFICATION FairSpec
CONSTANTS
  Dims = {"gpus", "memory", "kv"}
  GPUCount = "gpus"
  GPUMemory = "memory"
  Nil = Nil
  Broken = Broken
  Specs <- SmallSpecs
  Sources <- SmallSources
  MaxEdits = 2
  MaxFailures = 1
INVARIANTS
  TypeOK
  SecondPassPlansCurrent
PROPERTIES
  NodeComesBack
  RiskFollows

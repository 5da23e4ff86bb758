SPECIFICATION Spec
CONSTANTS
  HoursPerDay = 3
  MinutesPerHour = 1
  Dims = {"gpu", "kv"}
  GPU = "gpu"
  KVCache = "kv"
  TokenDims = {}
  Prefill = "prefill"
  Decode = "decode"
  Nil = Nil
  Workloads = {"day", "night", "dawn", "batch"}
  Profile <- AlignedProfiles
  Capacity <- FourGPUs
  MaxAdmitted = 3
  MaxLeft = 1
  MaxFailures = 1
INVARIANTS
  TypeOK
  PeakFits
  AdmittedServed

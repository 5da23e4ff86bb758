SPECIFICATION Spec
CONSTANTS
  HoursPerDay = 2
  MinutesPerHour = 2
  Dims = {"gpu", "kv"}
  KVCache = "kv"
  Prefill = "prefill"
  Decode = "decode"
  TokenDims = {}
  Nil = Nil
  Nodes = {n1, n2}
  Profiles <- MCProfiles
  NodeProfiles <- TightNodeProfiles
  MaxChanges = 0
INVARIANT
  LosersBelow

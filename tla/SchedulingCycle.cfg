SPECIFICATION Spec
CONSTANTS
  HoursPerDay = 2
  MinutesPerHour = 2
  Dims = {"gpu", "kv"}
  KVCache = "kv"
  Prefill = "prefill"
  Decode = "decode"
  TokenDims = {}
  Nil = Nil
  Nodes = {n1, n2, n3}
  Profiles <- MCProfiles
  NodeProfiles <- MCNodeProfiles
  MaxChanges = 1
INVARIANTS
  TypeOK
  BestTier
  LosersBelow
  ReservationFits

CONSTANTS
  d1 = d1
  d2 = d2
  c1 = c1
  c2 = c2
  Db = {d1, d2}
  Caller = {c1, c2}
  Configs <- AllConfigs
  MaxPools = 2
SPECIFICATION FairSpec
INVARIANTS
  DatabaseLives
  WorkSerialized
  ClosedReleases
PROPERTIES
  NobodyWaitsForever

SPECIFICATION PopulatedSpec
CONSTANTS
  User = {u1}
  Key = {k1, k2}
  Server = {s1}
  None = None
  PoolSize = 3
  KeyLimit = {2}
  DefaultKeyLimit = 2
  Request = {r1, r2}
  Operations = {"newkey"}
  Crashes = FALSE
INVARIANT KeyCountExact

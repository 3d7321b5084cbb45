SPECIFICATION FairPopulatedSpec
CONSTANTS
  User = {u1}
  Key = {k1, k2}
  Server = {s1}
  None = None
  PoolSize = 2
  KeyLimit = {2}
  DefaultKeyLimit = 2
  Request = {r1, r2}
  Operations = {"newkey", "deletekey", "verify", "deleteuser", "toggle", "deleteserver", "register", "newserver"}
  Crashes = FALSE
INVARIANT TypeOK
INVARIANT ReferentialIntegrity
INVARIANT RequestsOK
PROPERTY EveryRequestEnds
PROPERTY LeftOutOnlyByRace

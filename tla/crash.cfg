SPECIFICATION Spec
CONSTANTS
  User = {u1, u2}
  Key = {k1, k2, k3}
  Server = {s1, s2}
  None = None
  PoolSize = 3
  KeyLimit = {1, 2}
  DefaultKeyLimit = 2
  Request = {r1}
  Operations <- AllOperations
  Crashes = TRUE
SYMMETRY Symmetry
INVARIANT KeyCountExact
INVARIANT AddressesDistinct
INVARIANT EveryClientHasPeer
PROPERTY WgMirrorsDatabase
PROPERTY ImplementsRegistry
PROPERTY StartLoadsVerified

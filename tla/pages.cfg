SPECIFICATION Spec
CONSTANTS
  User = {u1, u2}
  Key = {k1, k2}
  Server = {s1, s2}
  None = None
  PoolSize = 2
  KeyLimit = {2}
  DefaultKeyLimit = 2
SYMMETRY Symmetry
INVARIANT TypeOK
INVARIANT PageTruthful
INVARIANT PageFailsOnlyRaced

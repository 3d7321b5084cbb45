SPECIFICATION Spec
CONSTANTS
  Server = {s1, s2}
  Client = {k1, k2, k3}
  Bits = 3
  NumAddresses <- Powers
  Port = {p1, p2, p3}
  MaxName = 2
SYMMETRY Symmetry
INVARIANT AddressPlan
INVARIANT ServerAddressesDistinct
INVARIANT RunningMatchesRows
INVARIANT DownloadUsable
PROPERTY RenumberedWithNetwork

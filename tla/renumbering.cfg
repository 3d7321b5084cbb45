SPECIFICATION RequestSpec
CONSTANTS
  Server = {s1}
  Client = {k1, k2}
  Bits = 3
  NumAddresses <- Powers
  Port = {p1, p2}
  MaxName = 0
SYMMETRY Symmetry
INVARIANT OnlyStraysMisplaced
INVARIANT OnlyStaleDiffers
PROPERTY OnlyStraysTakeAddresses

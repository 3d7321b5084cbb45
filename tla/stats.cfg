SPECIFICATION FairSpec
CONSTANTS
  Peer = {p1, p2}
  Server = {s1, s2}
  Home <- OneServer
  Collector = {c1}
  MaxTraffic <- FirstMore
  MaxCrashes = 1
INVARIANT TypeOK
INVARIANT NoOvercount
PROPERTY TotalsNeverShrink
PROPERTY KnownPeersCounted

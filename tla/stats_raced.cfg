SPECIFICATION Spec
CONSTANTS
  Peer = {p1, p2}
  Server = {s1, s2}
  Home <- OneServer
  Collector = {c1, c2}
  MaxTraffic <- FirstMore
  MaxCrashes = 1
INVARIANT NoOvercount

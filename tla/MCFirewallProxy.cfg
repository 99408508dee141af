SPECIFICATION Spec
CONSTANTS
  Clients = {c1, c2}
  Workers = {w1, w2}
  Main = Main
  Targets <- Open
  Rows <- NoProxy
  Ops = {"client", "iface", "proxy"}
  MaxNft = 1
  c1 = c1
  c2 = c2
  w1 = w1
  w2 = w2
INVARIANTS
  FirewallStays
SYMMETRY TaskSymmetry

SPECIFICATION FairSpec
CONSTANTS
  Workers = {w1, w2}
  Main = main
  LastPort = 3
  PublicPorts = {2, 3}
  BackendPorts = {0, 2}
  Protocols = {"quic", "dns"}
  Params = {"h1", "h2"}
  MaxOps = 3
  MaxBinds = 3
  MaxCrashes = 1
INVARIANTS
  Reconciled
  Confined
PROPERTIES
  RequestsAnswered
CHECK_DEADLOCK FALSE

SPECIFICATION PartsSpec
CONSTANTS
  Clients = {c1, c2}
  Workers = {w1, w2}
  Main = Main
  Targets <- Open
  Rows <- NoProxy
  Ops = {"client", "iface", "restart", "proxy"}
  MaxNft = 1
  c1 = c1
  c2 = c2
  w1 = w1
  w2 = w2
  MaxTokens = 2
  NoLink = NoLink
  Reqs = {r1}
  Predates <- MCPredates
  Applied = {0, 7, 11, 12}
  Ports = {7001, 7002}
  Edits = {7003}
  MaxWrites = 6
  MaxSnapshots = 2
  Modes = {"disk", "ram"}
  Inits = {"off", "good", "bad"}
  MaxCrashes = 2
INVARIANTS
  UpgradeComplete
  LosesOnlyTail
  SetupConsistent
  UsesBounded
  NoOrphanLink
  DefaultDeny
  GrantsHold
  DnsRedirected
PROPERTIES
  NeverHalfApplied
CHECK_DEADLOCK FALSE

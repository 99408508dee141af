SPECIFICATION FairSpec
CONSTANTS
  Clients = {c1, c2}
  Protocols = {"dns", "quic"}
  Modes = {"auto", "dns"}
  MaxSessions = 1
  MaxMetrics = 2
  Permits = 1
  MaxGen = 2
PROPERTIES
  OrphanEnds
CHECK_DEADLOCK FALSE

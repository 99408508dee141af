SPECIFICATION FairSpec
CONSTANTS
  MaxAddr = 7
  BlockSizes = {4, 8}
  NoAddr = NoAddr
  MaxClients = 2
  Users = {}
  Admin = Admin
  Quota = 2
  Workers = {w1}
  Cron = Cron
  Main = Main
  Cidrs <- OneBlock
  Expiries = {"ahead"}
  Changes <- Renew
  Ops = {"create", "enable", "disable", "update", "delete", "restart"}
  FaultKinds = {}
  MaxFaults = 0
  MaxSaves = 1
  Absent = Absent
  Keep = Keep
  u1 = u1
  w1 = w1
  w2 = w2
INVARIANTS
  AccessCovered
PROPERTIES
  PublisherSpec
  ExpiryEnforced
CHECK_DEADLOCK FALSE

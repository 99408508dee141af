SPECIFICATION FairSpec
CONSTANTS
  MaxAddr = 7
  BlockSizes = {4, 8}
  NoAddr = NoAddr
  MaxClients = 1
  Users = {u1}
  Admin = Admin
  Quota = 2
  Workers = {w1}
  Cron = Cron
  Main = Main
  Cidrs <- OneBlock
  Expiries = {"ahead"}
  Changes = {}
  Ops = {"create"}
  FaultKinds = {"save"}
  MaxFaults = 1
  MaxSaves = 1
  Absent = Absent
  Keep = Keep
  u1 = u1
  w1 = w1
  w2 = w2
PROPERTIES
  ExpiryEnforced
CHECK_DEADLOCK FALSE

SPECIFICATION Spec
CONSTANTS
  MaxAddr = 7
  BlockSizes = {4, 8}
  NoAddr = NoAddr
  MaxClients = 3
  Users = {u1}
  Admin = Admin
  Quota = 2
  Workers = {w1}
  Cron = Cron
  Main = Main
  Cidrs <- ThreeBlocks
  Expiries = {"behind"}
  Changes = {}
  Ops = {"create", "delete", "cidr", "iface"}
  FaultKinds = {}
  MaxFaults = 0
  MaxSaves = 1
  Absent = Absent
  Keep = Keep
  u1 = u1
  w1 = w1
  w2 = w2
INVARIANTS
  TypeOK
  CidrMoved
CHECK_DEADLOCK FALSE

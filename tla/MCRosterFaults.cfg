SPECIFICATION Spec
CONSTANTS
  MaxAddr = 7
  BlockSizes = {4, 8}
  NoAddr = NoAddr
  MaxClients = 3
  Users = {u1}
  Admin = Admin
  Quota = 1
  Workers = {w1, w2}
  Cron = Cron
  Main = Main
  Cidrs <- TwoBlocks
  Expiries = {}
  Changes <- MoveClient
  Ops = {"create", "delete", "update", "restart", "cidr", "iface"}
  FaultKinds = {"save", "crash"}
  MaxFaults = 1
  MaxSaves = 1
  Absent = Absent
  Keep = Keep
  u1 = u1
  w1 = w1
  w2 = w2
INVARIANTS
  RevokedStaysOut
  KernelAddressesUnique
  QuotaBound
SYMMETRY TaskSymmetry
CHECK_DEADLOCK FALSE

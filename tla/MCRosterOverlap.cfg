SPECIFICATION Spec
CONSTANTS
  MaxAddr = 7
  BlockSizes = {4, 8}
  NoAddr = NoAddr
  MaxClients = 3
  Users = {u1}
  Admin = Admin
  Quota = 2
  Workers = {w1, w2}
  Cron = Cron
  Main = Main
  Cidrs <- OneBlock
  Expiries = {}
  Changes = {}
  Ops = {"create", "delete"}
  FaultKinds = {}
  MaxFaults = 0
  MaxSaves = 2
  Absent = Absent
  Keep = Keep
  u1 = u1
  w1 = w1
  w2 = w2
INVARIANTS
  AccessCovered
SYMMETRY TaskSymmetry
CHECK_DEADLOCK FALSE

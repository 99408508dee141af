SPECIFICATION FairSpec
CONSTANTS
  Children = {c1, c2, c3, c4}
  Workers = {w1, w2}
  Main = Main
  NoChild = NoChild
  Styles = {"hup", "respawn", "notify"}
  Ops = {"change", "restart", "disable"}
  Cap = 1
  MaxOps = 2
  MaxFails = 1
  MaxCrashed = 1
  Parallel = {"hup"}
INVARIANTS
  FileLoaded
PROPERTIES
  NoOverwrite
  OutageEnds
  GivesUp
CHECK_DEADLOCK FALSE

SPECIFICATION Spec
CONSTANTS
  Children = {c1, c2, c3, c4}
  Workers = {w1, w2}
  Main = Main
  NoChild = NoChild
  Styles = {"hup"}
  Ops = {"change", "disable"}
  Cap = 1
  MaxOps = 2
  MaxFails = 0
  MaxCrashed = 0
  Parallel = {"hup"}
INVARIANTS
  DisabledIsDown
CHECK_DEADLOCK FALSE

SPECIFICATION Spec
CONSTANTS
  Calls = {k1, k2}
  MaxTasks = 3
  MaxCalls = 3
  MaxTeardowns = 1
INVARIANTS
  AnswersInvite
CHECK_DEADLOCK FALSE

SPECIFICATION FairSpec
CONSTANTS
  Calls = {k1, k2}
  MaxTasks = 3
  MaxCalls = 3
  MaxTeardowns = 1
PROPERTIES
  StageForward
  AnswersOwnCall
  CallSettles
CHECK_DEADLOCK FALSE

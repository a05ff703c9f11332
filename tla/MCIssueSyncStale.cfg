SPECIFICATION FewSmoothSpec
CONSTANTS
  r1 = r1
  r2 = r2
  w1 = w1
  w2 = w2
  None = None
  Runs <- TwoRuns
  Workers <- TwoWorkers
  MaxAttempts = 1
  MaxTroubles = 0
  Tree <- ChangedTree
  Errors <- ErrorInSecond
CHECK_DEADLOCK FALSE
INVARIANTS
  DashboardIsCurrent

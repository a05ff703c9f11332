SPECIFICATION FewSpec
CONSTANTS
  r1 = r1
  r2 = r2
  w1 = w1
  w2 = w2
  None = None
  Runs <- TwoRuns
  Workers <- TwoWorkers
  MaxAttempts = 1
  MaxTroubles = 1
  Tree <- SameTree
  Errors <- ErrorInSecond
SYMMETRY Symmetry
CHECK_DEADLOCK FALSE
INVARIANTS
  TypeOK
  SyncStatusIsTrue
  JobsAreBounded
PROPERTIES
  IssueIsKept

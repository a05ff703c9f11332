SPECIFICATION FewFairSpec
CONSTANTS
  r1 = r1
  r2 = r2
  w1 = w1
  w2 = w2
  None = None
  Runs <- TwoRuns
  Workers <- OneWorker
  MaxAttempts = 2
  MaxTroubles = 1
  Tree <- ChangedTree
  Errors <- ErrorInSecond
CHECK_DEADLOCK FALSE
INVARIANTS
  CommentIsOnIssue
  DashboardIsCurrent
PROPERTIES
  EveryJobIsTaken

SPECIFICATION FairSpec
CONSTANTS
  r1 = r1
  r2 = r2
  c1 = c1
  c2 = c2
  w1 = w1
  w2 = w2
  None = None
  Runs <- OneRun
  Runners <- OneRunner
  Workers <- OneWorker
  MaxAttempts = 2
PROPERTIES
  EveryRunEnds
  StagingIsCleaned
  KeysAreCleared

\* With twelve hours never passing, the system rests once both runs are over.
SPECIFICATION ShortSpec
CONSTANTS
  r1 = r1
  r2 = r2
  c1 = c1
  c2 = c2
  w1 = w1
  w2 = w2
  None = None
  Runs <- TwoRuns
  Runners <- OneRunner
  Workers <- TwoWorkers
  MaxAttempts = 1
SYMMETRY Symmetry
PROPERTIES
  BaselineWasImported
CHECK_DEADLOCK FALSE

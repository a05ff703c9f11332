SPECIFICATION FairSpec
CONSTANTS
  Rows <- MCRows
  Times <- MCTimes
  Limits <- MCLimits
  DefaultLimit = 1
  MaxLimit = 2
  None = None
INVARIANTS
  ShownOnce
  NothingMissed
PROPERTY
  WalkEnds

SPECIFICATION FewSpec
CONSTANTS
  j1 = j1
  j2 = j2
  p1 = p1
  p2 = p2
  k1 = k1
  k2 = k2
  Jobs = {j1, j2}
  Keys = {k1, k2}
  Projects = {p1, p2}
  Dirs <- MCDirs
  Trees <- MCTrees
  Excludes <- MCExcludes
  Builds <- MCBuilds
  Gates <- MCGates
  MaxTries = 2
  None = None
  MaxTroubles = 1
CHECK_DEADLOCK FALSE
INVARIANTS
  TypeOK
  GreenMeansSaved
  SkipIsSaved
  FailedArtifactIsHarmless
PROPERTIES
  LedgerIsKept
  EveryJobEnds

SPECIFICATION FewFairSpec
CONSTANTS
  Repos = {r1}
  Installations = {i1, i2}
  Workers = {w1}
  MinInterval = 1
  StaleAfter = 1
  MaxPerSweep = 2
  None = None
  MaxChanges = 2
  MaxTroubles = 1
INVARIANTS
  TypeOK
PROPERTIES
  RemovalIsOwn
  SyncsAreSpaced
  RowsConverge

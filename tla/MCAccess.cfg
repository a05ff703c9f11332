SPECIFICATION ScenarioSpec
CONSTANTS
  r1 = r1
  a1 = a1
  a2 = a2
  q1 = q1
  q2 = q2
  Users = {u1}
  Repos = {r1}
  Sessions = {s1, s2}
  Tokens = {t1}
  Requests = {q1, q2}
  Artifacts = {a1, a2}
  RepoOf <- MCRepoOf
  TypeOf <- MCTypeOf
  Viewers = {"fabrication"}
  Needs <- MCNeeds
  Outcomes <- MCOutcomes
  Installed = {r1}
  CacheTtl = 1
  StaleMax = 2
  SyncTtl = 1
  UrlTtl = 1
  SessionTtl = 3
  MaxLag = 1
  MaxTime = 6
  MaxLogins = 2
  None = None
SYMMETRY MCSymmetry
CHECK_DEADLOCK FALSE
INVARIANTS
  TypeOK
  ListIsRecent
  LinksAreGood
  TokensAreGood
PROPERTY
  OutageIsBridged

SPECIFICATION Spec
CONSTANTS
  r1 = r1
  r2 = r2
  c1 = c1
  c2 = c2
  w1 = w1
  w2 = w2
  None = None
  Runs <- OneRun
  Runners <- TwoRunners
  Workers <- TwoWorkers
  MaxAttempts = 2
SYMMETRY Symmetry
INVARIANTS
  TypeOK
  ClaimsAreExclusive
  OneSubmissionPerRun
  PublishedIsAccepted
  ImportIsAtomic
  AttemptsBounded
  RetentionStartsAtTheEnd
  StagingIsNamed
PROPERTIES
  TerminalIsFinal
  SubmissionIsFinal
  ImplementsLedger

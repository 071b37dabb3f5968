SPECIFICATION Spec
CONSTANTS
  add = add
  svc = svc
  Tests <- MCTests
  TestSeq <- MCTestSeq
  KnownFailure <- MCKnownFailure
  MaxSessions = 2
INVARIANTS TypeOK FreshCode LitterIsFromKills SummaryAddsUp
PROPERTY CorpusSpec
CHECK_DEADLOCK FALSE

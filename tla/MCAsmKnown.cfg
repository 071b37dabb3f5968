SPECIFICATION Spec
CONSTANTS
  add = add
  svc = svc
  Tests <- MCTests
  TestSeq <- MCTestSeq
  KnownFailure <- MCKnownFailure
  MaxSessions = 2
INVARIANT KnownFailureHolds
CHECK_DEADLOCK FALSE

SPECIFICATION Spec
CONSTANTS
  Suites <- MCSuites
  Corrected <- MCCorrected
  Wrong <- MCWrong
INVARIANTS TypeOK WrongTestsAreKnown HostsAgree RegDataIsNoInput
CHECK_DEADLOCK FALSE

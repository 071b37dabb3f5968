SPECIFICATION Spec
CONSTANTS
  Suites <- MCExtended
  Corrected <- MCNone
  Wrong <- MCNone
INVARIANT TestsDescribeTheArchitecture
CHECK_DEADLOCK FALSE

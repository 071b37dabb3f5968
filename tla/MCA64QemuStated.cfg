SPECIFICATION Spec
CONSTANTS
  File <- MCFile
  TestSeq <- MCStated
INVARIANT PassedMeansStated
CHECK_DEADLOCK FALSE

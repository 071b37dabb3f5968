SPECIFICATION Spec
CONSTANTS
  File <- MCFile
  TestSeq <- MCTestSeq
INVARIANTS TypeOK StartsAsOnDynarmic MemoryAsConfigured DataMapped PassedMeansExpected JudgedAsOnDynarmic SummaryAddsUp
PROPERTY CorpusSpec
CHECK_DEADLOCK FALSE

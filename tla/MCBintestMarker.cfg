SPECIFICATION Spec
CONSTANTS
  MaxTicks = 4
  MaxCharge = 2
  StuckLimit = 3
  TotalMem = 8
  IntRange = 4
  Statuses = {0, 1, 4}
  Lines = {2, 7}
  Writes <- MCWrites
PROPERTY EndMarkerEnds
CHECK_DEADLOCK FALSE

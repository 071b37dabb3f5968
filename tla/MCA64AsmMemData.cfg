SPECIFICATION Spec
CONSTANTS
  RegionSize = 9
  ArenaSize = 38
  AddrLimit = 42
  Value <- MCValue
  Zero = 0
  HipcHigh = 14
  Magic = 77
  CodeLen = 11
  CodeMem <- MCCodeMem
  Configs <- MCConfigs
  Loads <- MCLoads
  Stores <- MCStores
  Swis = {0, 5, 23, 33}
  SvcOffsets = {7, 8}
  SvcWords <- MCSvcWords
INVARIANT MemDataVisible
CHECK_DEADLOCK FALSE

SPECIFICATION Spec
CONSTANTS
  RegionSize = 9
  ArenaSize = 38
  AddrLimit = 42
  Value <- MCValue
  Zero = 0
  HipcHigh = 14
  Magic = 77
  CodeLen = 3
  CodeMem <- MCCodeMem
  Configs <- MCConfigs
  Loads <- MCLoads
  Stores <- MCStores
  Swis = {0, 5, 16, 17, 32, 33, 99, 255}
  SvcOffsets = {4, 8}
  SvcWords <- MCSvcWords
INVARIANTS TypeOK Coherent
PROPERTIES FlatSpec LoadedInOrder NoStoreLost
CHECK_DEADLOCK FALSE

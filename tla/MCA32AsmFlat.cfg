SPECIFICATION Spec
CONSTANTS
  RegionSize = 8
  Value = {0, 1}
  Zero = 0
  CodeLen = 2
  CodeMem <- MCCodeMem
  Configs <- MCConfigs
  Loads <- MCLoads
  Stores <- MCStores
  Swis = {16, 17, 18}
  RegWords <- MCRegWords
INVARIANTS TypeOK PassMatchesMemory
PROPERTIES FlatSpec NoStoreLost
CHECK_DEADLOCK FALSE

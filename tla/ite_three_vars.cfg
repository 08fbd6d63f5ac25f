SPECIFICATION ProjSpec
CONSTANTS
  Radix = 4
  VarRadix = 4
  MaxOffset = 60
  MaxVars = 3
  MaxLen = 9
  Handles = {0, 1, 2, 3}
  CacheSlots = 2
  IteSlot <- SpreadSlot
  DebugBuild = TRUE
INVARIANTS
  CacheSound
  WorkSound
  IteInv
PROPERTIES
  CallsAreBoolFns
  IteTerminates

SPECIFICATION CarelessSpec
CONSTANTS
  Radix = 4
  VarRadix = 4
  MaxOffset = 60
  MaxVars = 2
  MaxLen = 6
  MaxWire = 3
  Handles = {0, 1}
  CacheSlots = 2
  IteSlot <- OneSlot
  DebugBuild = TRUE
PROPERTIES
  DiffMeansSent

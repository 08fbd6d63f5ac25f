SPECIFICATION SharedSpec
CONSTANTS
  Radix = 4
  VarRadix = 4
  MaxOffset = 60
  MaxVars = 3
  MaxLen = 9
  Handles = {k1, k2}
  CacheSlots = 2
  IteSlot <- OneSlot
  DebugBuild = TRUE
INVARIANTS
  WalkEntersOnce
  CopyOneToOne
  CopySound
  GcInv
PROPERTIES
  BaseUntouched
  CleanTail

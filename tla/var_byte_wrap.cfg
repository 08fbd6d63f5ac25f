SPECIFICATION Spec
CONSTANTS
  Radix = 4
  VarRadix = 2
  MaxOffset = 60
  MaxVars = 3
  MaxLen = 6
  Handles = {k1, k2}
  CacheSlots = 2
  IteSlot <- OneSlot
  DebugBuild = FALSE
INVARIANTS
  SameTripleSameOffset

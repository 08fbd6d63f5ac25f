SPECIFICATION Spec
CONSTANTS
  Radix = 4
  VarRadix = 4
  MaxOffset = 60
  MaxVars = 2
  MaxLen = 6
  Handles = {k1, k2}
  CacheSlots = 2
  IteSlot <- OneSlot
  DebugBuild = TRUE
SYMMETRY HandleSymmetry
INVARIANTS
  TypeOK
  UniqueExact
  Canonical
  IInv
PROPERTIES
  ImplementsBoolFns

SPECIFICATION Spec
CONSTANTS
  Radix = 4
  VarRadix = 4
  MaxOffset = 60
  MaxVars = 4
  Slabs <- SomeSlabs
  Precision = 2
  ShiftBits = 4
  DebugBuild = FALSE
INVARIANTS
  SatCountExact

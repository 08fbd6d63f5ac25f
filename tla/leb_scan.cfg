SPECIFICATION Spec
CONSTANTS
  Radix = 8
  VarRadix = 16
  MaxOffset = 20
  Word = 256
  Nodes <- BoundaryNodes
  MaxNodes = 2
CHECK_DEADLOCK FALSE
INVARIANTS
  ScanFindsNodes
  CutsAreSeen
  LebInv
PROPERTIES
  WholeArenaRead

SPECIFICATION Spec
CONSTANTS
  Keys = {0, 1, 2, 3, 4, 5}
  InitialCap = 4
  HashFns <- SomeHashFns
INVARIANTS
  ChainsUnbroken
  TableInv
  HoldsGiven
PROPERTIES
  RebuildNeverGrows
  ImplementsKeySet
  CallsReturn

SPECIFICATION Spec
CONSTANTS
  MaxPages = 5
  Data = Data
INVARIANTS
  FreeListEnds
  OwnedOrFree
PROPERTIES
  ImplementsFilePages

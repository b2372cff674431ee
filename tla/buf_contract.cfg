SPECIFICATION Spec
CONSTANTS
  numBufs = 2
  File = {f1}
  MaxPages = 3
  Value = {v1}
  Client = {c1, c2}
  NoFile = NoFile
  Zero = Zero
  FreeMark = FreeMark
  Faults = FALSE
SYMMETRY Symmetry
INVARIANTS
  HashComplete
  PinAccount
  FreePagesIntact
PROPERTIES
  ExceededOnlyWhenPinned
  ImplementsPageStore

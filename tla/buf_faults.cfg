SPECIFICATION Spec
CONSTANTS
  numBufs = 2
  File = {f1}
  MaxPages = 3
  Value = {}
  Client = {c1}
  NoFile = NoFile
  Zero = Zero
  FreeMark = Zero
  Faults = TRUE
SYMMETRY Symmetry
INVARIANTS
  TypeOK
  HashSound
  WriteBackSafe

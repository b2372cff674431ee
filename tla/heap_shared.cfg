SPECIFICATION Spec
CONSTANTS
  Scanner = {s1, s2}
  Inserter = {i1}
  Reader = {}
  MaxPages = 3
  Val = {v1}
  NoVal = NoVal
  Filter = {NoVal}
  MaxDrift = 1
  RecLen = 2
  Lens = {2}
  SlotSize = 1
  DataSize = 3
SYMMETRY Symmetry
INVARIANTS
  ChangesReported
  ScanComplete

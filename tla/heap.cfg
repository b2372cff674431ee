SPECIFICATION Spec
CONSTANTS
  Scanner = {s1}
  Inserter = {i1}
  Reader = {r1}
  MaxPages = 3
  Val = {v1, v2}
  NoVal = NoVal
  Filter = {v1, v2}
  MaxDrift = 1
  RecLen = 2
  Lens = {2, 6, 7}
  SlotSize = 1
  DataSize = 6
SYMMETRY Symmetry
INVARIANTS
  PinsBalanced
  ChangesReported
  ChainComplete
  ScanComplete
  RecCntBound

SPECIFICATION Spec
CONSTANTS
  Sorter = {s1, s2}
  KeyVal <- MCKeyVal
  Id = {i1, i2}
  MaxRecs = 5
  MaxItems = 2
  INT_MAX = 3
  NoRun = NoRun
  NoMark = NoMark
  MaxOpen = 2
SYMMETRY Symmetry
INVARIANTS
  RunFilesKept
  RunFilesOwned
PROPERTIES
  ImplementsSortCursor

SPECIFICATION Spec
CONSTANTS
  Name = {n1, n2}
  Addr = {a1, a2}
  NULL = NULL
  Obj = {o1, o2, o3}
  NumFrames = 3
  PageNo = {1, 2}
SYMMETRY Symmetry
INVARIANTS
  OpenCntExact
  FramesNameTheirFile
  ReportedKept
  OpenFileExists

SPECIFICATION Spec
CONSTANTS
  HTSIZE = 2
  NUL = NUL
  NoTuple = NoTuple
  MaxRecs = 2
  INT_MAX = 3
  P = 2
  KeyVal <- MCKeyVal
  FullKey <- MCFullKey
  Tuple <- MCTuple
  ProjNames <- MCProjNames
INVARIANTS
  LookupsExact
  JoinExact
  HashLookupExact
  PartitionExact
PROPERTIES
  CallsEnd

SPECIFICATION Spec
CONSTANTS
  DataSize = 10
  SlotSize = 2
  Lens = {1, 2, 3}
  Tag = {t1, t2}
  Blank = Blank
  NoRecord = NoRecord
INVARIANTS
  SpaceAdds
  Compact
PROPERTIES
  ImplementsRecordMap

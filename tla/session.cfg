SPECIFICATION Spec
CONSTANTS
  Rel = {r1, r2}
  Rec = {d1, d2}
  MaxOpen = 2
INVARIANTS
  AttrsHaveRelation
  DescribedIsOpenable
  DestroyedIsGone
PROPERTIES
  OrphansAnnounced

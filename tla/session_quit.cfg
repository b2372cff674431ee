SPECIFICATION Spec
CONSTANTS
  Rel = {r1}
  Rec = {d1}
  MaxOpen = 2
PROPERTY
  QuitKeepsAll

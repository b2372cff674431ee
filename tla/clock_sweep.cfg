SPECIFICATION LoopSpec
CONSTANTS
  numBufs = 3
  MaxPins = 2
INVARIANTS
  MatchesClosedForm
PROPERTIES
  Returns
CHECK_DEADLOCK FALSE

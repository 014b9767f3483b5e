SPECIFICATION McSpec
CONSTANTS
  Call = {c1, c2}
  MaxStages = 2
  MaxSaved = 1
CHECK_DEADLOCK FALSE
INVARIANTS RefusedIsAskedAgain

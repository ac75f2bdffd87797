SPECIFICATION Spec
CONSTANTS
  SIZE = 12
  WORD = 4
  Calls <- MCCalls
INVARIANTS FillsItsRegion NeverStrays ReturnsRight
PROPERTY EndsForward
CHECK_DEADLOCK FALSE

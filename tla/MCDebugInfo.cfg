SPECIFICATION Spec
CONSTANTS
  MaxStab = 6
  MaxAddr = 3
INVARIANTS TypeOK SearchBrackets FunctionHoldsAddress
PROPERTY LookupEnds
CHECK_DEADLOCK FALSE

SPECIFICATION HistSpec
CONSTANTS
  CONSBUFSIZE = 3
  KbdDepth = 2
  Char = {x, y}
  MaxAccepted = 7
INVARIANTS TypeOK NothingLostBelowCapacity LostInWholeBuffers
PROPERTIES ImplementsQueue GetcharDrains

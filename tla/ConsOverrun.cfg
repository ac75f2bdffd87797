SPECIFICATION HistSpec
CONSTANTS
  CONSBUFSIZE = 3
  KbdDepth = 2
  Char = {x}
  MaxAccepted = 4
PROPERTY ZeroOnlyIfNoneWaiting

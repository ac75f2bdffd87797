SPECIFICATION OFairSpec
CONSTANTS
  CRT_ROWS = 3
  CRT_COLS = 2
  Printable = {"x"}
  MaxWait = 2
  MaxPrinted = 3
  FirstScreens <- MCFirstScreens
INVARIANTS SerialCarriesAll DevicesAgree
PROPERTIES ImplementsTerminal OutputEnds

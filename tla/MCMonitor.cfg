SPECIFICATION KernelSpec
CONSTANTS
  CRT_ROWS = 3
  CRT_COLS = 2
  Printable = {"a", "DEL"}
  BUFLEN = 6
  DEL = "DEL"
  Prompt <- MCPrompt
  MAXARGS = 3
  TestDepth = 2
  Help <- MCHelp
  Kerninfo <- MCKerninfo
  Backtrace <- MCBacktrace
  Message <- MCMessage
  MaxCalls = 9
INVARIANTS MonitorTypeOK ShowsLine ArgumentsAreWords BacktraceListsCallers FirstPanicReported
PROPERTIES RefusesTooMany PanicNeverReturns PromptsAgain

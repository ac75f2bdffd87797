SPECIFICATION Spec
CONSTANTS
  LIMIT = 2
  ROOM = 2
  MaxSize = 3
  MaxCalls = 3
  MaxStrays = 2
INVARIANTS OneAnswerOwed OwnReply DiesForErrorsOnly
CHECK_DEADLOCK FALSE

SPECIFICATION Spec
CONSTANTS
  SECTSIZE = 2
  HdrSects = 2
  LowMem = 12
  Elfhdr = 0
  Images <- MCImages
INVARIANTS HeaderSurvives KernelAsLinked
PROPERTY Boots
CHECK_DEADLOCK FALSE

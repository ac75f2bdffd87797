SPECIFICATION Spec
CONSTANTS
  Char <- MCChar
  Formats <- MCFormats
  BufSizes = {0, 1, 4, 16}
  IntBits = 6
  LongLongBits = 8
  IntArg <- MCIntArg
  LongLongArg <- MCLongLongArg
  StarArg <- MCStarArg
  StrArg <- MCStrArg
  ErrArg <- MCErrArg
  MAXERROR = 2
INVARIANTS PrintsMeaning TruncatesAndTerminates ReadsBack
PROPERTY FormatEnds
CHECK_DEADLOCK FALSE

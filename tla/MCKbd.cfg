SPECIFICATION KbdSpec
CONSTANTS
  Key <- MCKey
  KbdBufSize = 2
INVARIANT NoStuckModifier
PROPERTY ImplementsKeyboard

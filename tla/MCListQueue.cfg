SPECIFICATION Spec
CONSTANTS
  Elem = {e1, e2, e3, e4}
  LHead = {h1, h2}
  NULL = NULL
INVARIANTS LinksAgree LoopMeetsAll
PROPERTY ImplementsSequences

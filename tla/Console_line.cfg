CONSTANTS
  NREADER = 2
  INPUT_BUF = 2
  WRAP = 4
  START = 3
  Keys <- MCKeys
  Chars <- MCChars
  Sizes = {1, 3}
  MaxTyped = 4
  MaxPending = 1
SPECIFICATION Spec
INVARIANT NoLostInput
PROPERTY LineRefinement
CHECK_DEADLOCK FALSE

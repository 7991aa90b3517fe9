SPECIFICATION Spec
CONSTANTS
  Char = {a, b}
  Blank = Blank
  NUL = NUL
  MaxLen = 5
INVARIANTS
  LeftBlanksAreRemoved
CHECK_DEADLOCK FALSE

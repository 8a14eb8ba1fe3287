SPECIFICATION Spec
CONSTANTS
  Rows = 2
  Cols = 4
  Tab = 2
  Byte = 8
  Nibbles = 2
  Ink = {0, 4, 15, 255}
  White = 15
  Black = 0
  Flash = 255
  Texts <- MCTexts
  Numbers = {0, 10, 127, 160}
  MaxPut = 5
INVARIANT TypeOK
INVARIANT CursorShown
PROPERTY WindowOnPaper
PROPERTY NumbersReadBack
CHECK_DEADLOCK FALSE

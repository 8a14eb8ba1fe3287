SPECIFICATION Spec
CONSTANTS
  Reader = {shell, game}
  Strokes <- MCStrokes
  MaxCodes = 5
INVARIANT TypeOK
INVARIANT Announced
INVARIANT KeysInOrder
INVARIANT KeysDecoded
PROPERTY KeysServed
CHECK_DEADLOCK FALSE

SPECIFICATION Spec
CONSTANTS
  Pages = 8
  Frames = 5
  Tables = 3
  FirstFree = 1
  HeapTable = 1
  HeapPages = 9
  MaxImage = 2
  Junk <- MCZero
INVARIANT HeapPagesDistinct
CHECK_DEADLOCK FALSE

SPECIFICATION Spec
CONSTANTS
  Pages = 8
  Frames = 8
  Tables = 3
  FirstFree = 1
  HeapTable = 1
  HeapPages = 9
  MaxImage = 2
  Junk <- MCLazy
INVARIANT TypeOK
INVARIANT FramesNotShared
 
PROPERTY ImageKept
CHECK_DEADLOCK FALSE

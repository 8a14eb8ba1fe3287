SPECIFICATION Spec
CONSTANTS
  Size = 5
  Key = {0, 8, 10, 32, 101, 103}
  Echo <- MCEcho
  Exec <- MCExec
  Game <- MCGame
  Known <- MCKnown
  MaxKeys = 8
INVARIANT TypeOK
INVARIANT LineBuffered
INVARIANT CleanBehind
INVARIANT InsideBuffer
INVARIANT RunsAsTyped
CHECK_DEADLOCK FALSE

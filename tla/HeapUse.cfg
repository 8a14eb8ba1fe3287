SPECIFICATION Spec
CONSTANTS
  Clients = {c1, c2, c3}
  Requests = {1, 4}
  HeapSize = 15
  Hdr = 1
  Wrap = 64
SYMMETRY ClientSymmetry
CONSTRAINT UntilMisled
INVARIANT TypeOK
INVARIANT SoundUntilMisled
INVARIANT Coalesced
CHECK_DEADLOCK FALSE

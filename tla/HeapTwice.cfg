SPECIFICATION KernelSpec
CONSTANTS
  Clients = {c1, c2, c3}
  Requests = {1, 3, 4}
  HeapSize = 12
  Hdr = 1
  Wrap = 64
SYMMETRY ClientSymmetry
INVARIANT GivenOnce
CHECK_DEADLOCK FALSE

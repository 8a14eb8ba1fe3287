SPECIFICATION Spec
CONSTANTS
  Boot = boot
  Task = {boot, a, b}
  Val <- MCVal
  Entry = entry
  Trap = trap
  Plain = {v}
  Faulty = {a, b}
  Plenty = FALSE
  NoTask = none
INVARIANT TypeOK
INVARIANT RingClosed
INVARIANT Coherent
PROPERTY FirstKillDeserved
PROPERTY NeverRequeued
PROPERTY QueueServed
CHECK_DEADLOCK FALSE

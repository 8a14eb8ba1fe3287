SPECIFICATION Spec
CONSTANTS
  Boot = boot
  Task = {boot, a, b, c}
  Val <- MCVal
  Entry = entry
  Trap = trap
  Plain = {}
  Faulty = {a}
  Plenty = TRUE
  NoTask = none
INVARIANT LoadedStaysQueued
CHECK_DEADLOCK FALSE

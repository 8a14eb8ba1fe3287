SPECIFICATION Spec
CONSTANTS
  Boot = boot
  Task = {boot, a, b, c}
  Val <- MCVal
  Entry = entry
  Trap = trap
  Plain = {v}
  Faulty = {}
  Plenty = TRUE
  NoTask = none
PROPERTY PreemptiveMultitasking
PROPERTY EveryoneServed

\* Plain use by three timers. The clock stops at its bound, so that a state
\* without successor is no error.
CONSTANTS
  a = a
  b = b
  c = c
  Timers = {a, b, c}
  NULL = NULL
  None = None
  Ms = 3
  Cycles = 4
  Times = {1, 3}
  Habits = {}
  Prompt = FALSE
  MaxClock = 6
SYMMETRY Symmetry
SPECIFICATION Spec
INVARIANTS TypeOK ListOrdered ScheduledIsHead
PROPERTIES ImplementsQueue
CHECK_DEADLOCK FALSE

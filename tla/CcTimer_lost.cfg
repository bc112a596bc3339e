\* One timer, calls that take no time, and a time that is no whole number of
\* seconds. The clock stops at its bound.
CONSTANTS
  a = a
  Timers = {a}
  NULL = NULL
  None = None
  Ms = 3
  Cycles = 4
  Times = {4}
  Habits = {}
  Prompt = TRUE
  MaxClock = 6
SPECIFICATION Spec
PROPERTIES AlarmAfterInterrupt
CHECK_DEADLOCK FALSE

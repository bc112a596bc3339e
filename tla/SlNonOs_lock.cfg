\* An event is announced just after the response of a command.
CONSTANTS
  NONOS_MAX_SPAWN_ENTRIES = 5
  CntMod = 256
  MaxOut = 2
  MaxDepth = 6
SPECIFICATION Spec
INVARIANTS EntryGetsLock
CHECK_DEADLOCK FALSE

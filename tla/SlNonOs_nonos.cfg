\* Two slots, so that the table fills up; nested calls up to the second entry.
\* The thread may lock itself out, so a state without successor is no error here.
CONSTANTS
  NONOS_MAX_SPAWN_ENTRIES = 2
  CntMod = 4
  MaxOut = 2
  MaxDepth = 6
SPECIFICATION FairSpec
INVARIANTS TypeOK ReadHasMessage AnnouncedHasReader NoResponseInMainLoop
PROPERTIES CallsEnd AnnouncedIsRead
CHECK_DEADLOCK FALSE

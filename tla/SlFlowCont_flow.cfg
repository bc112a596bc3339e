\* Two tasks on a socket that changes from blocking to non-blocking.
CONSTANTS
  t1 = t1
  t2 = t2
  RxCtx = RxCtx
  Nobody = Nobody
  Threads = {t1, t2}
  Sockets <- LowerSocket
  NonBlocking <- LowerSocket
  FLOW_CONT_MIN = 1
  Buffers = 4
SPECIFICATION FairSpec
INVARIANTS TypeOK NoOvercommit CreditHeld
PROPERTIES DataMovesOn

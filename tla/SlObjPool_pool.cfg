\* Three tasks, an object for each, three calls. The bound on the calls ends the system.
CONSTANTS
  t1 = t1
  t2 = t2
  t3 = t3
  Nobody = Nobody
  Threads = {t1, t2, t3}
  Ops <- OneKindOps
  MAX_CONCURRENT_ACTIONS = 3
  SL_MAX_SOCKETS = 2
  OobOpcodes <- AcceptOpcode
  PingHabits = {"callback"}
  MaxCalls = 3
SPECIFICATION FairSpec
INVARIANTS TypeOK ListsPartition AnswerFindsItsCall NoLostWakeup
PROPERTIES ImplementsActions PendingIsServed
CHECK_DEADLOCK FALSE

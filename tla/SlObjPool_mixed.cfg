\* One task waits for data on a socket while another connects it.
CONSTANTS
  t1 = t1
  t2 = t2
  Nobody = Nobody
  Threads = {t1, t2}
  Ops <- MixedOps
  MAX_CONCURRENT_ACTIONS = 3
  SL_MAX_SOCKETS = 1
  OobOpcodes <- NoOobOpcode
  PingHabits = {}
  MaxCalls = 2
SPECIFICATION Spec
INVARIANTS NoLostWakeup
CHECK_DEADLOCK FALSE

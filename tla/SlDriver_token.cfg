\* The HTTP server of the processor asks for a token while a command waits.
CONSTANTS
  t1 = t1
  t2 = t2
  SpawnTask = SpawnTask
  Nobody = Nobody
  Threads = {t1, t2}
  RelayThreads = {}
  Events <- AllEvents
  slQUEUE_SIZE = 3
  CntMod = 4
  MaxEvent = 3
  MaxCall = 4
SPECIFICATION Spec
INVARIANTS NoResponseInSpawnCtx

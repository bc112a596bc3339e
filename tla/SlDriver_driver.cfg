\* No HTTP tokens. Both tasks in relay mode, and a spawn queue of one entry so
\* that entries are dropped.
CONSTANTS
  t1 = t1
  t2 = t2
  SpawnTask = SpawnTask
  Nobody = Nobody
  Threads = {t1, t2}
  RelayThreads = {t1, t2}
  Events <- PlainEvents
  slQUEUE_SIZE = 1
  CntMod = 3
  MaxEvent = 3
  MaxCall = 4
SPECIFICATION FairSpec
INVARIANTS TypeOK Handshake ReadHasMessage AnnouncedHasReader NoResponseInSpawnCtx
PROPERTIES ImplementsRpc AnnouncedIsRead

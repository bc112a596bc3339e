\* One task closes a file with a certificate name while the other issues a command.
CONSTANTS
  t1 = t1
  t2 = t2
  SpawnTask = SpawnTask
  Nobody = Nobody
  Threads = {t1, t2}
  RelayThreads = {t1}
  Events <- PlainEvents
  slQUEUE_SIZE = 3
  CntMod = 4
  MaxEvent = 3
  MaxCall = 4
SPECIFICATION Spec
INVARIANTS RelayForItsCommand

\* Both directions, files and buffers of nothing, of full segments and of a part of one.
CONSTANTS
  Tids = {1, 2}
  PORT_TFTP = 69
  SEGSIZE = 2
  BlockMod = 16
  MAX_SYNC_TRIES = 4
  FileSizes = {0, 3, 4}
  BufferSizes = {0, 2, 3, 4}
  Strays <- OtherHost
SPECIFICATION FairSpec
INVARIANTS TypeOK CopyIsExact NoBlockSkipped
PROPERTIES ImplementsCopy Ends
CHECK_DEADLOCK FALSE

\* Resets at any time; the write that asks for a test may fail.
CONSTANTS
  v1 = v1
  v2 = v2
  v3 = v3
  NoImage = NoImage
  Images = {v1, v2, v3}
  UpdateLists <- AnyList
  FailingWrites = {"test"}
SPECIFICATION FairSpec
INVARIANTS TypeOK DownloadIsAlternate NeverStuck
PROPERTIES ImplementsUpdate ReturnsToCommitted

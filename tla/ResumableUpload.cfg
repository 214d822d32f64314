SPECIFICATION FairSpec
CONSTANTS
  Clients = {c1, c2}
  Handlers = {h1, h2, h3}
  Mutexes = {m1, m2, m3, m4}
  Inodes = {i1, i2, i3, i4, i5}
  FileSize = 3
  ChunkSize = 2
  Retries = 1
  None = None
  MaxFaults = 2
INVARIANTS
  SavedWholeWhenSerialized
  AckedBytesKept
  CopiesMatchSuccesses
  NoEmptyFileLeftBehind
PROPERTY
  UploadsEnd
CHECK_DEADLOCK FALSE

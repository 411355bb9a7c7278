SPECIFICATION FairSpec
CONSTANTS
  c1 = c1
  c2 = c2
  None = None
  Client = {c1}
  Spawner = {}
  Restorer = {}
  MemoryCap = 2
  DiskCap = 2
  ClientCap = 1
  JournalCap = 1
  MaxWritten = 3
  MaxConnects = 3
  MaxSnapshots = 2
  Upsets = {"drop"}
PROPERTIES ViewSpec CatchesUp
CHECK_DEADLOCK FALSE

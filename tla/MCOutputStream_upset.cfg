SPECIFICATION Spec
CONSTANTS
  c1 = c1
  c2 = c2
  None = None
  Client = {c1}
  Spawner = {c1}
  Restorer = {c1}
  MemoryCap = 1
  DiskCap = 3
  ClientCap = 1
  JournalCap = 1
  MaxWritten = 3
  MaxConnects = 2
  MaxSnapshots = 1
  Upsets = {"drop", "stall", "persist"}
INVARIANTS InSequence
CHECK_DEADLOCK FALSE

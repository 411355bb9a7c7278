SPECIFICATION Spec
CONSTANTS
  c1 = c1
  c2 = c2
  None = None
  Client = {c1, c2}
  Spawner = {}
  Restorer = {}
  MemoryCap = 1
  DiskCap = 2
  ClientCap = 1
  JournalCap = 1
  MaxWritten = 2
  MaxConnects = 3
  MaxSnapshots = 2
  Upsets = {}
SYMMETRY Terminals
INVARIANTS TypeOK ScreenExact HistoryShown CheckpointWhole
CHECK_DEADLOCK FALSE

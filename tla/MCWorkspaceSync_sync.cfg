CONSTANTS
  w1 = w1
  t1 = t1
  t2 = t2
  None = None
  Conflict = Conflict
  Failed = Failed
  Workspace = {w1}
  Tab = {t1, t2}
  MaxEdits = 3
  MaxOthers = 1
  MaxDrops = 1
  Races = {}
SPECIFICATION Spec
INVARIANTS TypeOK Converged EditsShown OneEditPerVersion
PROPERTIES CopySpec Settles
CHECK_DEADLOCK FALSE

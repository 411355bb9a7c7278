SPECIFICATION Spec
CONSTANTS
  Client = {c1, c2}
  Workspace = {w1}
  Sweeper = Sweeper
  None = None
  Ttl = 1
  QueueCap = 1
  MaxUnread = 1
  MaxRequests = 4
  Budget <- FullBudget
SYMMETRY Symmetric
INVARIANTS TypeOK BeliefsDisjoint NoGhostLease
PROPERTIES EpochsGrow LiveLeaseKept
CHECK_DEADLOCK FALSE

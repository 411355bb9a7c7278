SPECIFICATION Spec
CONSTANTS
  c1 = c1
  c2 = c2
  s1 = s1
  s2 = s2
  None = None
  Client = {c1, c2}
  Size = {s1, s2}
  FirstClient = c1
  FirstSize = s1
  MaxFits = 2
  MaxTakes = 2
INVARIANT WatchersFollow
CHECK_DEADLOCK FALSE

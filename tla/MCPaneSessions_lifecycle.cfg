SPECIFICATION Spec
CONSTANTS
  h1 = h1
  h2 = h2
  p1 = p1
  p2 = p2
  s1 = s1
  s2 = s2
  None = None
  Connection = {h1, h2}
  Pane = {p1, p2}
  Session = {s1, s2}
SYMMETRY Alike
INVARIANTS TypeOK NoStrayShell LiveShellBound
PROPERTIES SparesOpenPanes

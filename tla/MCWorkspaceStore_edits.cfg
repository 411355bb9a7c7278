CONSTANTS
  f1 = f1
  None = None
  File = {f1}
  MaxEdits = 3
  MaxOthers = 1
  MaxPins = 1
SPECIFICATION Spec
INVARIANTS TypeOK FocusExists
PROPERTIES SidesAgree LocalViewKept
CHECK_DEADLOCK FALSE

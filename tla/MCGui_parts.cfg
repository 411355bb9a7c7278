CONSTANTS
  None = None
  h1 = h1
  h2 = h2
  d1 = d1
  p1 = p1
  p2 = p2
  t0 = t0
  t1 = t1
  odd = odd
  proxy0 = proxy0
  Host = {h1, h2}
  Device = {d1}
  DeviceOf <- OneDevice
  Local = h1
  MaxTries = 2
  Hasty = FALSE
  MaxFails = 1
  MaxClicks = 3
  MaxIds = 5
  MaxSteps = 2
  MaxSends = 2
  MaxCalls = 2
  MaxRelease = 3
  UpdateClicks = 4
  Pane = {p1, p2}
  Tab = {p1, p2}
  TabOf <- OwnTab
  Idle = 2
  MaxEvents = 3
  HostOf <- OwnHost
  Path = {a, b}
  GitEvents = 2
  MaxLines = 4
  Dir = {a, b}
  a = a
  b = b
  Asked = Asked
  MaxShells = 3
  Osc7 = {TRUE, FALSE}
  RunEvents = 4
  Theme = {t0, t1}
  DefaultTheme = t0
  Proxy = {proxy0, p1}
  DefaultProxy = proxy0
  Bad = Bad
  Blank = Blank
  Edited <- Edits
  EditClicks = 2
  FileEvents = 2
  Client = {h1, h2}
  Size = {a, b}
  FirstClient = h1
  FirstSize = a
  MaxFits = 1
  MaxTakes = 2
  SavedPane = {p1}
  MaxTexts = 2
  Viewable = {a}
  Chunks <- Shrinking
  MaxTabs = 2
  FileClicks = 3
  Char = {a, b}
  MaxKeys = 5
  Cols = 3
  Outputs <- Printed
  MaxOutputs = 5
SPECIFICATION Spec
INVARIANTS TypesOK HostsAgree CallsAnswered ReadyIsInstallable ActivityTracksOutput PanelSettles ResumedAsLeft DiskAgrees GridsAgree ClicksLeadRight TypedOnce
PROPERTIES GuiSettles
CHECK_DEADLOCK FALSE

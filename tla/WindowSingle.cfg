SPECIFICATION FairSpec
CONSTANTS
  t1 = t1
  t2 = t2
  Tasks <- TwoTasks
  Blacklisted <- OneBlacklisted
  MultiWindows = FALSE
  BackgroundStart = FALSE
  MaxLayers = 2
  MaxWindows = 3
INVARIANTS
  OpenWindowsAccurate
  WindowsFitMode
  CreateIsFresh
  ClosedAppStaysClosed
  FocusedWindowAlive
PROPERTIES
  RegistrySafety
  SetCompletes
  CloseCompletes

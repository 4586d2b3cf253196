SPECIFICATION Spec
CONSTANTS
  t1 = t1
  t2 = t2
  Tasks <- TwoTasks
  Blacklisted <- OneBlacklisted
  MultiWindows = FALSE
  BackgroundStart = FALSE
  MaxLayers = 1
  MaxWindows = 3
INVARIANT NestedFocusedWindowAlive

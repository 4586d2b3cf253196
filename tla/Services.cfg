SPECIFICATION MCSpec
CONSTANTS
  t1 = t1
  t2 = t2
  Tasks <- TwoTasks
  Blacklisted <- OneBlacklisted
  MultiWindows = TRUE
  BackgroundStart = TRUE
  MaxLayers = 2
  MaxWindows = 3
  MaxSources = 2
  Apps = {"maps", "mail"}
  NumTasks = 2
  MaxPointers = 2
  Objects = {1, 2, 3}
  ObjectIds = {101, 102}
  NoObject = 0
INVARIANTS
  ServicesTypeOK
  MultiShowsEveryTask
  ClipboardSettles
  CapturedPointersMove
  CallbacksFindTheirData
PROPERTY ReadsReturn

SPECIFICATION MCSpec
CONSTANTS
  MaxLayers = 3
  MaxFailures = 1
  MaxUndrawn = 1
  Tasks = {t1, t2}
  Configs <- MCConfigs
  Period = 3
  MaxTime = 8
  Stamps <- MCStamps
  SyncPoints = 4
SYMMETRY AnyTask
INVARIANTS
  FramesTypeOK
  FencesClosedOnce
  EveryLayerShownOnce
  ZOrderKept
  ShowsTheFrame
  OneCursor
  VsyncsAdvance
  OneLateVsync
  OnlyLastFencePending

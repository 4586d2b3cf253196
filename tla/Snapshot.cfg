SPECIFICATION FairSpec
CONSTANTS
  t1 = t1
  t2 = t2
  h1 = h1
  h2 = h2
  m1 = m1
  m2 = m2
  Tasks <- TwoTasks
  Handles <- TwoHandles
  Metas <- TwoMetas
  Configs <- AllConfigs
  MaxLayers = 1
INVARIANTS
  HandOverExclusive
  QueuedWindowsOpen
  UncomposedReadsLiveBuffer
  SwitchLeavesSnapshot
PROPERTY SetCompletes

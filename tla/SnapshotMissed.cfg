SPECIFICATION Spec
CONSTANTS
  t1 = t1
  t2 = t2
  h1 = h1
  h2 = h2
  m1 = m1
  m2 = m2
  Tasks <- TwoTasks
  Handles <- TwoHandles
  Metas <- OneMeta
  Configs <- Dmabuf
  MaxLayers = 1
INVARIANT InactiveShowsSnapshot

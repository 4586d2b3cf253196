SPECIFICATION Spec
CONSTANTS
  h1 = h1
  h2 = h2
  Handles <- OneHandle
  LocalUnregister = TRUE
  MaxLocks = 2
INVARIANT HandlesHaveBuffers

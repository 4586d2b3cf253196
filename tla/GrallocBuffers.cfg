SPECIFICATION Spec
CONSTANTS
  h1 = h1
  h2 = h2
  Handles <- TwoHandles
  LocalUnregister = FALSE
  MaxLocks = 2
INVARIANTS
  HandlesHaveBuffers
  MappedWhileLocked
  HeldLocksCount
SYMMETRY AnyHandle

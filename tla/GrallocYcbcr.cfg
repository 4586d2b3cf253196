SPECIFICATION Spec
CONSTANTS
  h1 = h1
  h2 = h2
  Handles <- OneHandle
  LocalUnregister = FALSE
  MaxLocks = 2
INVARIANT NoLockWithoutHolder

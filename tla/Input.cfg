SPECIFICATION MCSpec
CONSTANTS
  Threads <- MCThreads
  Fingers = {f1, f2, f3}
  NoFinger = none
  NumKeys = 2
  MAX_TOUCHPOINTS = 2
  Step = 4
  Deltas <- MCDeltas
  Positions <- MCPositions
  MaxLost = 12
SYMMETRY AnyFinger
INVARIANTS
  InputTypeOK
  ReleasedAreUp
  ContactsAreFingers
  LiftedFingersFreeSlots
  MotionKept

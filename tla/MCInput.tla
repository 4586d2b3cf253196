------------------------------ MODULE MCInput -------------------------------
(***************************************************************************)
(* Model checking InputDevices and PointerMotion.  They share no state, so  *)
(* a behaviour is one of the one or one of the other.                      *)
(***************************************************************************)
EXTENDS InputDevices, PointerMotion, TLC

VARIABLE part   (* "devices" or "motion" *)

MCThreads == {"wayland", "hwc"}

MCDeltas == {-6, -3, -1, 1, 3, 6}
MCPositions == {-1, 0, 2}

MCInit ==
  /\ Init /\ MotionInit
  /\ \/ part = "devices" /\ group = "wheel"
     \/ part = "motion" /\ device = "keyboard"

MCNext ==
  \/ part = "devices" /\ Next /\ UNCHANGED <<motionVars, part>>
  \/ part = "motion" /\ MotionNext /\ UNCHANGED <<vars, part>>

MCSpec == MCInit /\ [][MCNext]_<<vars, motionVars, part>>

AnyFinger == Permutations(Fingers)
=============================================================================

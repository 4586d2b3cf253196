------------------------------- MODULE MCFrames -------------------------------
(***************************************************************************)
(* Model checking what becomes of a frame: FrameComposition (who composes,  *)
(* fences), WindowSurfaces (what the windows show) and FrameTiming (vsync   *)
(* and retire fences).  They abstract the same hwc_set in different ways    *)
(* and share no variable, so a behaviour is one of one of them.             *)
(***************************************************************************)
EXTENDS FrameComposition, WindowSurfaces, FrameTiming, TLC

VARIABLE part   (* "composition", "surfaces", "timing" *)

(* Full-ui and single-window mode on the framebuffer target and on layers   *)
(* of their own, and the multi-window mode; the cursor on a subsurface or   *)
(* as the pointer's image.                                                  *)
MCConfigs ==
  {[composing |-> FALSE, multi |-> FALSE, subsurface |-> TRUE,  shm |-> FALSE, apps |-> 1],
   [composing |-> FALSE, multi |-> FALSE, subsurface |-> FALSE, shm |-> TRUE,  apps |-> 1],
   [composing |-> TRUE,  multi |-> FALSE, subsurface |-> TRUE,  shm |-> FALSE, apps |-> 1],
   [composing |-> TRUE,  multi |-> FALSE, subsurface |-> FALSE, shm |-> FALSE, apps |-> 2],
   [composing |-> TRUE,  multi |-> TRUE,  subsurface |-> TRUE,  shm |-> FALSE, apps |-> 2]}

(* The compositor's clock behind, near and ahead of ours.                   *)
MCStamps == {-4, 1, 5, 11}

MCInit ==
  /\ Init /\ SurfacesInit /\ TimingInit
  /\ \/ part = "surfaces"
     \/ part \in {"composition", "timing"} /\ config = CHOOSE c \in Configs : TRUE

MCNext ==
  \/ part = "composition" /\ Next /\ UNCHANGED <<surfacesVars, timingVars, part>>
  \/ part = "surfaces" /\ SurfacesNext /\ UNCHANGED <<vars, timingVars, part>>
  \/ part = "timing" /\ TimingNext /\ UNCHANGED <<vars, surfacesVars, part>>

MCSpec == MCInit /\ [][MCNext]_<<vars, surfacesVars, timingVars, part>>

(* Every variable of the three has its type.                                *)
FramesTypeOK == TypeOK /\ SurfacesTypeOK /\ TimingTypeOK

AnyTask == Permutations(Tasks)
===============================================================================

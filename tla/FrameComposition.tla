-------------------------- MODULE FrameComposition --------------------------
(***************************************************************************)
(* How one frame passes through hwc_prepare and hwc_set: who composes each  *)
(* layer (SurfaceFlinger into the framebuffer target, or the wayland        *)
(* compositor from a surface of its own), in which order surfaces are       *)
(* committed, and what happens to the acquire fence of every layer.         *)
(* Windows are WindowLifecycle's business: here a mode either shows the     *)
(* frame or does not.                                                       *)
(***************************************************************************)
EXTENDS Naturals, Sequences, FiniteSets

CONSTANTS
  MaxLayers,   (* BOUND: layers in front of the framebuffer target          *)
  MaxFailures  (* BOUND: layers whose buffer cannot be had, per frame       *)

ASSUME CompositionAssumption == MaxLayers \in Nat /\ MaxFailures \in Nat

(* compositing_* and non_compositing_* modes, for full-ui and single-window *)
Modes == {"closed", "composing", "nonComposing", "multi"}

Types == {"framebuffer", "overlay", "background", "target"}

(* A layer: kind is what its flags say (HWC_SKIP_LAYER,                     *)
(* HWC_IS_CURSOR_LAYER), type its compositionType.  SurfaceFlinger marks no *)
(* layer as both, keeps skipped layers at HWC_FRAMEBUFFER, sends no buffer   *)
(* with a background colour, and a fence only with a buffer.                *)
Layers ==
  {l \in [kind : {"plain", "skip", "cursor"}, type : {"framebuffer", "overlay", "background"},
          handle : BOOLEAN, fence : BOOLEAN] :
     /\ l.fence => l.handle
     /\ l.kind = "skip" => l.type = "framebuffer"
     /\ l.kind = "cursor" => l.handle /\ l.type = "framebuffer"
     /\ l.type = "background" => ~l.handle}

(* The framebuffer target is the last layer of the contents.                *)
TargetLayers == [kind : {"plain"}, type : {"target"}, handle : {TRUE}, fence : BOOLEAN]

(* Shown, dropped with its fence closed (subsurface_cursor_handler with no  *)
(* window under the pointer) or left alone altogether                       *)
(* (wl_cursor_cursor_handler without a pointer).                            *)
Cursors == {"shown", "dropped", "untouched"}

VARIABLES
  pc,       (* "frame" between two frames, "set" in hwc_set                 *)
  mode,     (* pdev->selected_mode                                          *)
  show,     (* should_show() of the single-window modes, else TRUE          *)
  cursor,   (* what the cursor handler can do with a cursor layer           *)
  layers,   (* hwLayers                                                     *)
  first,    (* skipped_layers.first_skipped(), 0 if unset                   *)
  last,     (* skipped_layers.last_skipped()                                *)
  idx,      (* the layer of hwc_set's loop                                  *)
  closed,   (* how often close() was called on each acquire fence           *)
  drawn,    (* the layers whose buffer was committed, bottom to top         *)
  failed    (* the layers whose buffer was not to be had                    *)

vars == <<pc, mode, show, cursor, layers, first, last, idx, closed, drawn, failed>>

Indices == DOMAIN layers
Target  == Len(layers)

-----------------------------------------------------------------------------
(* hwc_prepare.                                                             *)

SkippedIn(ls) == {i \in DOMAIN ls : ls[i].kind = "skip"}
Least(S)    == CHOOSE i \in S : \A j \in S : i <= j
Greatest(S) == CHOOSE i \in S : \A j \in S : j <= i

(* Mutant: one past the last skipped layer.                                 *)
LastSkippedPastIt(ls) == IF SkippedIn(ls) = {} THEN 0 ELSE Greatest(SkippedIn(ls)) + 1

(* Mutant: first_skipped is overwritten by every skipped layer.             *)
FirstSkippedOverwritten(ls) == IF SkippedIn(ls) = {} THEN 0 ELSE Greatest(SkippedIn(ls))

(* skipped_layers_helper::setup_for_each_layer over all layers.             *)
FirstSkipped(ls) == IF SkippedIn(ls) = {} THEN 0 ELSE Least(SkippedIn(ls))
LastSkipped(ls)  == IF SkippedIn(ls) = {} THEN 0 ELSE Greatest(SkippedIn(ls))

(* Mutant: only the skipped layers themselves are left to SurfaceFlinger.   *)
ComposingTypeOfSkippedOnly(ls, i) ==
  IF ls[i].type = "framebuffer" THEN "overlay" ELSE ls[i].type

(* compositing_window_mode::prepare: everything between the first and the   *)
(* last skipped layer is left to SurfaceFlinger.                            *)
ComposingType(ls, i) ==
  IF FirstSkipped(ls) # 0 /\ FirstSkipped(ls) <= i /\ i <= LastSkipped(ls) THEN "framebuffer"
  ELSE IF ls[i].type = "framebuffer" THEN "overlay"
  ELSE ls[i].type

(* The compositionType of layer i after hwc_prepare in mode m.              *)
PreparedType(m, ls, i) ==
  IF ls[i].kind = "cursor" THEN "overlay"
  ELSE IF ls[i].type = "target" \/ ls[i].kind = "skip" \/ m = "closed" THEN ls[i].type
  ELSE IF m = "composing" THEN ComposingType(ls, i)
  ELSE IF m = "nonComposing" THEN "framebuffer"
  ELSE IF ls[i].type = "framebuffer" THEN "overlay"
  ELSE ls[i].type

(* SurfaceFlinger brings n layers and its target; hwc_prepare, then the     *)
(* part of hwc_set before its loop.                                         *)
PrepareFrame ==
  /\ pc = "frame"
  /\ \E m \in Modes, s \in BOOLEAN, c \in Cursors, n \in 0..MaxLayers, t \in TargetLayers :
       \E ls \in [1..n -> Layers] :
         LET all == Append(ls, t) IN
         /\ m \in {"closed", "multi"} => s
         /\ mode' = m
         /\ show' = s
         /\ cursor' = c
         /\ layers' = [i \in DOMAIN all |-> [all[i] EXCEPT !.type = PreparedType(m, all, i)]]
         /\ first' = FirstSkipped(all)
         /\ last' = LastSkipped(all)
         /\ closed' = [i \in DOMAIN all |-> 0]
  /\ pc' = "set"
  /\ idx' = 1
  /\ drawn' = << >>
  /\ failed' = {}

-----------------------------------------------------------------------------
(* The loop of hwc_set.                                                     *)

(* close() on the fences of the layers in S that have one (fd # -1).        *)
Close(S) ==
  closed' = [i \in Indices |-> IF i \in S /\ layers[i].fence THEN closed[i] + 1 ELSE closed[i]]

(* apply_hwc_layer_to_window: with a wl_buffer the layer is committed,      *)
(* without one (or without a window, in the multi-window mode) it is not;   *)
(* the caller closes the fence in both cases.                               *)
Apply(i) ==
  \/ drawn' = Append(drawn, i) /\ UNCHANGED failed
  \/ /\ Cardinality(failed) < MaxFailures
     /\ failed' = failed \cup {i}
     /\ UNCHANGED drawn

Skip == UNCHANGED <<drawn, failed>>

AtLayer == pc = "set" /\ idx <= Target

NextLayer == idx' = idx + 1 /\ UNCHANGED <<pc, mode, show, cursor, layers, first, last>>

Plain == AtLayer /\ layers[idx].kind # "cursor" /\ NextLayer

(* cursor_handler->apply_cursor.                                            *)
SetCursor ==
  /\ AtLayer
  /\ layers[idx].kind = "cursor"
  /\ NextLayer
  /\ IF cursor = "shown" THEN Apply(idx) ELSE Skip
  /\ IF cursor = "untouched" THEN UNCHANGED closed ELSE Close({idx})

(* closed_mode::handle_layer, and the single-window modes without target.   *)
SetHidden ==
  /\ Plain
  /\ mode = "closed" \/ ~show
  /\ Close({idx})
  /\ Skip

Composing == Plain /\ mode = "composing" /\ show

InsideSkipped == first # 0 /\ first < idx /\ idx <= last

(* compositing_window_mode::handle_layer, branch by branch.                 *)
SetFirstSkipped ==
  /\ Composing
  /\ idx = first
  /\ Close({idx, Target})
  /\ Apply(Target)

SetInsideSkipped ==
  /\ Composing
  /\ InsideSkipped
  /\ Close({idx})
  /\ Skip

(* Mutant: the target's fence is closed here even if it was drawn before.   *)
SetUnusedTargetClosingTwice ==
  /\ Composing
  /\ idx = Target
  /\ Close({idx})
  /\ Skip

SetUnusedTarget ==
  /\ Composing
  /\ idx = Target
  /\ IF first = 0 THEN Close({idx}) ELSE UNCHANGED closed
  /\ Skip

OwnSurface == Composing /\ idx # first /\ ~InsideSkipped /\ idx # Target

SetUnsupported ==
  /\ OwnSurface
  /\ layers[idx].type # "overlay"
  /\ Close({idx})
  /\ Skip

SetNoBuffer ==
  /\ OwnSurface
  /\ layers[idx].type = "overlay"
  /\ ~layers[idx].handle
  /\ UNCHANGED closed
  /\ Skip

SetOverlay ==
  /\ OwnSurface
  /\ layers[idx].type = "overlay"
  /\ layers[idx].handle
  /\ Close({idx})
  /\ Apply(idx)

(* non_compositing_window_mode: the target is drawn at the first layer that *)
(* SurfaceFlinger composed, or at its own place.                            *)
DrawTargetAt == Least({i \in Indices : layers[i].type \in {"framebuffer", "target"}})

SetNonComposing ==
  /\ Plain
  /\ mode = "nonComposing"
  /\ show
  /\ IF idx = DrawTargetAt
     THEN Close({idx, Target}) /\ Apply(Target)
     ELSE Close({idx} \ {Target}) /\ Skip

(* multi_window_mode::handle_layer.                                         *)
Multi == Plain /\ mode = "multi"
CanHandle == layers[idx].type = "overlay" /\ layers[idx].kind # "skip"

SetMultiUnsupported ==
  /\ Multi
  /\ ~CanHandle
  /\ Close({idx})
  /\ Skip

SetMultiOverlay ==
  /\ Multi
  /\ CanHandle
  /\ layers[idx].handle
  /\ Close({idx})
  /\ Apply(idx)

(* Between two frames: the mode object is replaced by the next hwc_prepare  *)
(* and the contents belong to SurfaceFlinger.                               *)
NoFrame ==
  /\ pc' = "frame"
  /\ mode' = "closed"
  /\ show' = TRUE
  /\ cursor' = "shown"
  /\ layers' = << >>
  /\ first' = 0
  /\ last' = 0
  /\ idx' = 1
  /\ closed' = << >>
  /\ drawn' = << >>
  /\ failed' = {}

(* assert(hwc_layer->handle): the process aborts (or, built with NDEBUG,    *)
(* dereferences the handle) and is restarted.                               *)
SetMultiAbort ==
  /\ AtLayer
  /\ mode = "multi"
  /\ layers[idx].kind # "cursor"
  /\ CanHandle
  /\ ~layers[idx].handle
  /\ NoFrame

(* hwc_set returns.                                                         *)
EndFrame ==
  /\ pc = "set"
  /\ idx > Target
  /\ NoFrame

Init ==
  /\ pc = "frame"
  /\ mode = "closed"
  /\ show = TRUE
  /\ cursor = "shown"
  /\ layers = << >>
  /\ first = 0
  /\ last = 0
  /\ idx = 1
  /\ closed = << >>
  /\ drawn = << >>
  /\ failed = {}

Next ==
  \/ PrepareFrame
  \/ SetCursor
  \/ SetHidden
  \/ SetFirstSkipped
  \/ SetInsideSkipped
  \/ SetUnusedTarget
  \/ SetUnsupported
  \/ SetNoBuffer
  \/ SetOverlay
  \/ SetNonComposing
  \/ SetMultiUnsupported
  \/ SetMultiOverlay
  \/ SetMultiAbort
  \/ EndFrame

Spec == Init /\ [][Next]_vars

-----------------------------------------------------------------------------
(* Every variable has its type.                                             *)
TypeOK ==
  /\ pc \in {"frame", "set"}
  /\ mode \in Modes
  /\ show \in BOOLEAN /\ cursor \in Cursors
  /\ \A i \in Indices : layers[i].type \in Types
  /\ first \in 0..MaxLayers /\ last \in 0..MaxLayers
  /\ idx \in 1..(MaxLayers + 2)
  /\ closed \in [Indices -> Nat]
  /\ \A n \in DOMAIN drawn : drawn[n] \in Indices
  /\ failed \subseteq Indices

SetDone == pc = "set" /\ idx > Target

(* A cursor layer that wl_cursor_cursor_handler leaves alone: the fence      *)
(* stays open.                                                              *)
LeakedCursor(i) == layers[i].kind = "cursor" /\ cursor = "untouched"

(* At no time is a fence closed twice (its number may be in use again), and *)
(* when hwc_set returns every fence it was given is closed, whatever mode,  *)
(* skipped range, failure or visibility decided about the layer.            *)
FencesClosedOnce ==
  /\ \A i \in Indices : closed[i] <= 1
  /\ SetDone => \A i \in Indices : layers[i].fence /\ ~LeakedCursor(i) => closed[i] = 1

(* What a committed buffer shows: its own layer, or, for the target, the    *)
(* layers SurfaceFlinger composed into it.                                  *)
Shown(i) ==
  IF i = Target THEN {j \in Indices : layers[j].type = "framebuffer"} ELSE {i}

(* The layers the mode has to show: with content, of a supported type, and  *)
(* not dropped for want of a buffer.  Multi-window mode has no composed     *)
(* target and drops skipped layers.                                         *)
ToShow ==
  {i \in Indices \ {Target} :
     /\ show /\ mode # "closed"
     /\ layers[i].handle
     /\ layers[i].type \in {"overlay", "framebuffer"}
     /\ mode = "multi" => layers[i].kind # "skip"
     /\ \A f \in failed : i \notin Shown(f)
     /\ layers[i].kind # "cursor"}

(* When hwc_set returns, each of these layers was committed exactly once:   *)
(* from its own surface or within the target, never both and never neither. *)
EveryLayerShownOnce ==
  SetDone => \A i \in ToShow : Cardinality({n \in DOMAIN drawn : i \in Shown(drawn[n])}) = 1

(* Surfaces are stacked in the order they are committed: no layer ends up   *)
(* below one that SurfaceFlinger put under it.                              *)
ZOrderKept ==
  \A m, n \in DOMAIN drawn : m < n =>
    \A i \in Shown(drawn[m]) \cap ToShow, j \in Shown(drawn[n]) \cap ToShow : i < j
=============================================================================

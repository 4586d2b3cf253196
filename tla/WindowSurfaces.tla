---------------------------- MODULE WindowSurfaces ----------------------------
(***************************************************************************)
(* What the surfaces of a window show, and where the mouse cursor is committed. *)
(* A window has a stack of layer surfaces that one hwc_set after the other  *)
(* uses again from the bottom (window::get_next_layer); surfaces left over  *)
(* have to be emptied by somebody.  The cursor layer goes to the window the *)
(* pointer is in, as one more surface of it (subsurface_cursor_handler) or  *)
(* to the compositor as the pointer's image (wl_cursor_cursor_handler).     *)
(* hwc_set holds windowsMutex, so windows close between two sets only; the  *)
(* pointer moves at any time.  Close handlers nested in window::create are  *)
(* in WindowLifecycle, fences and skipped layers in FrameComposition, the   *)
(* EGL worker in SnapshotWorker.                                            *)
(***************************************************************************)
EXTENDS Naturals, Sequences, SequencesExt, FiniteSets

CONSTANTS
  Tasks,       (* the apps                                                   *)
  Configs,     (* the configurations of the display, with BOUND apps: the    *)
               (* layers of apps per frame                                   *)
  MaxUndrawn  (* BOUND: layers that fail to be committed, per behaviour         *)

ASSUME SurfacesAssumption ==
  /\ Tasks \cap {"none", "Waydroid", "cursor"} = {}
  /\ Configs \subseteq [composing : BOOLEAN, multi : BOOLEAN, subsurface : BOOLEAN, shm : BOOLEAN,
                       apps : Nat]
  /\ MaxUndrawn \in Nat

None   == "none"
FullUi == "Waydroid"
Cursor == "cursor"

Keys  == Tasks \cup {FullUi}
WindowModes == {"closed", "fullUi", "single", "multi"}

(* Which windows a frame of mode m with target t draws on.                  *)
Drawable(m, t) ==
  CASE m = "closed" -> {}
    [] m = "fullUi" -> {FullUi}
    [] m = "single" -> {t} \ {None}
    [] m = "multi"  -> Tasks

(* A frame as the loop of hwc_set draws it, bottom to top: each element is  *)
(* the key of the window an app's layer is committed on, or the cursor, of      *)
(* which there is one at most; without composing the framebuffer target is  *)
(* the only other layer.                                                    *)
AppsIn(ls) == {i \in DOMAIN ls : ls[i] # Cursor}

FrameLayers(c, m, t) ==
  {ls \in UNION {[1..n -> Drawable(m, t) \cup {Cursor}] : n \in 0..(c.apps + 1)} :
     /\ \A i, j \in DOMAIN ls \ AppsIn(ls) : i = j
     /\ Cardinality(AppsIn(ls)) <= c.apps
     /\ ~c.composing => Cardinality(AppsIn(ls)) = (IF Drawable(m, t) = {} THEN 0 ELSE 1)}

(* select_mode, by should_compose and multi_windows.  target is             *)
(* target_layer_tid or None, geometry the flag HWC_GEOMETRY_CHANGED.        *)
ModesOf(multi) == WindowModes \ (IF multi THEN {"single"} ELSE {"multi"})

Frames(c) ==
  {f \in UNION {[mode : {m}, target : {t}, geometry : BOOLEAN, layers : FrameLayers(c, m, t)] :
                m \in ModesOf(c.multi), t \in Tasks \cup {None}} :
     f.mode # "single" => f.target = None}

NoContents == [mode |-> "closed", target |-> None, geometry |-> FALSE, layers |-> << >>]

VARIABLES
  config,     (* composing: should_compose; multi: multi_windows;            *)
              (* subsurface: cursor_on_subsurface; shm: no dmabuf.  Constant *)
  surfaces,   (* window->layers: what each shows; << >> without a window     *)
  lastLayer,  (* window->lastLayer                                           *)
  lastBuffer, (* whose buffer window->last_layer_buffer is                   *)
  snapped,    (* the windows with a snapshot_buffer                          *)
  windowKey,  (* subsurface_cursor_handler::window_key                       *)
  under,      (* the window display->pointer_surface belongs to              *)
  image,      (* the image wl_pointer_set_cursor gave the pointer            *)
  frame,      (* the contents of this hwc_set                                *)
  next,       (* the layer handled next                                      *)
  setPc,         (* "idle", "layers" in the loop of hwc_set, "done" after it    *)
  committed,      (* history: what this set committed to each window, in order   *)
  failures,   (* history: layers that could not be committed                     *)
  entered,    (* history: the pointer entered a window since hwc_set began   *)
  reborn      (* history: windowKey's window was closed with its cursor      *)

windowVars  == <<surfaces, lastLayer, lastBuffer, snapped>>
historyVars == <<committed, failures, entered, reborn>>
surfacesVars == <<config, windowVars, windowKey, under, image, frame, next, setPc, historyVars>>

Open == {k \in Keys : surfaces[k] # << >>}

-----------------------------------------------------------------------------
(* hwc_set up to its loop.                                                  *)

(* The windows cleanup_stale_windows keeps.                                 *)
Kept(f) ==
  CASE f.mode = "closed" -> {}
    [] f.mode = "fullUi" -> {FullUi}
    [] f.mode = "single" -> Tasks
    [] f.mode = "multi"  -> ToSet(f.layers)

(* snapshot_inactive_app_window: the bottom surface of an inactive window   *)
(* gets a copy of the buffer committed last, unless that one is shm.            *)
Snapshots(f) ==
  IF f.mode # "single" \/ f.target = None \/ config.shm THEN {}
  ELSE {k \in Open \cap Kept(f) : k # f.target /\ k \notin snapped /\ lastBuffer[k] # None}

(* cleanup_stale_windows and reset_per_commit_state_window.                 *)
StartSet(f) ==
  /\ setPc = "idle"
  /\ surfaces' = [k \in Keys |->
       IF k \notin Kept(f) THEN << >>
       ELSE IF k \in Snapshots(f) THEN [surfaces[k] EXCEPT ![1] = lastBuffer[k]]
       ELSE surfaces[k]]
  /\ lastLayer' = [k \in Keys |-> 0]
  /\ lastBuffer' = [k \in Keys |-> None]
  /\ snapped' = (snapped \cap Kept(f)) \cup Snapshots(f)
  /\ under' = IF under \in Kept(f) THEN under ELSE None
  /\ frame' = f
  /\ next' = 1
  /\ setPc' = "layers"
  /\ entered' = FALSE
  /\ reborn' = (reborn \/ windowKey \in Open \ Kept(f))
  /\ UNCHANGED <<config, windowKey, image, committed, failures>>

-----------------------------------------------------------------------------
(* The loop of hwc_set.                                                     *)

(* get_window: an open window, or a new one with one surface, still empty.  *)
Opened(k) == IF k \in Open THEN surfaces[k] ELSE <<None>>

(* attach and commit on window::get_next_layer.                             *)
Commit(k, what) ==
  LET i == lastLayer[k] + 1
      s == Opened(k) IN
  /\ surfaces' = [surfaces EXCEPT ![k] =
       IF i > Len(s) THEN Append(s, what) ELSE [s EXCEPT ![i] = what]]
  /\ lastLayer' = [lastLayer EXCEPT ![k] = i]
  /\ committed' = [committed EXCEPT ![k] = Append(@, what)]

(* apply_hwc_layer_to_window returns 0.                                     *)
ApplyLayer(k, what) ==
  /\ Commit(k, what)
  /\ lastBuffer' = [lastBuffer EXCEPT ![k] = what]
  /\ snapped' = snapped \ {k}
  /\ UNCHANGED failures

(* It returns -1: there is no wl_buffer, or sync_wait on the acquire fence  *)
(* fails, after which the buffer is committed all the same.                 *)
ApplyFails(k, what) ==
  /\ failures < MaxUndrawn
  /\ failures' = failures + 1
  /\ \/ surfaces' = [surfaces EXCEPT ![k] = Opened(k)] /\ UNCHANGED <<lastLayer, committed>>
     \/ Commit(k, what)
  /\ UNCHANGED <<lastBuffer, snapped>>

HandleNext ==
  /\ setPc = "layers"
  /\ next <= Len(frame.layers)
  /\ next' = next + 1
  /\ UNCHANGED <<config, under, frame, setPc, entered, reborn>>

(* mode->handle_layer                                                       *)
DrawApp ==
  /\ HandleNext
  /\ LET k == frame.layers[next] IN
     /\ k # Cursor
     /\ ApplyLayer(k, "app") \/ ApplyFails(k, "app")
  /\ UNCHANGED <<windowKey, image>>

AtCursor == HandleNext /\ frame.layers[next] = Cursor

(* Mutant: clear_previous_subsurface_if_needed keeps the surface.           *)
ClearPreviousKeeping ==
  /\ windowKey' = None
  /\ UNCHANGED surfaces

(* clear_previous_subsurface_if_needed.  The assert on the number of        *)
(* surfaces is compiled out: the last one is emptied whatever it shows.     *)
ClearPrevious ==
  IF config.composing \/ windowKey = None
  THEN windowKey' = None /\ UNCHANGED surfaces
  ELSE IF windowKey \notin Open
  THEN UNCHANGED <<windowKey, surfaces>>
  ELSE /\ surfaces' = [surfaces EXCEPT ![windowKey] = [@ EXCEPT ![Len(@)] = None]]
       /\ windowKey' = None

(* subsurface_cursor_handler::apply_cursor                                  *)
DrawCursorOnWindow ==
  /\ AtCursor
  /\ config.subsurface
  /\ under # None
  /\ \/ ApplyLayer(under, Cursor) /\ windowKey' = under
     \/ ApplyFails(under, Cursor) /\ windowKey' = None
  /\ UNCHANGED image

DropCursor ==
  /\ AtCursor
  /\ config.subsurface
  /\ under = None
  /\ ClearPrevious
  /\ UNCHANGED <<lastLayer, lastBuffer, snapped, committed, failures, image>>

(* wl_cursor_cursor_handler::apply_cursor: the compositor shows an image    *)
(* only if the pointer is in one of this client's windows.                  *)
DrawCursorImage ==
  /\ AtCursor
  /\ ~config.subsurface
  /\ \/ image' = (IF under = None THEN image ELSE Cursor) /\ UNCHANGED failures
     \/ failures < MaxUndrawn /\ failures' = failures + 1 /\ UNCHANGED image
  /\ UNCHANGED <<windowVars, windowKey, committed>>

-----------------------------------------------------------------------------
(* hwc_set after its loop.                                                  *)

(* neutralize_remaining_subsurfaces                                         *)
Neutralized(s, k) ==
  IF lastLayer[k] = 0 THEN s ELSE [i \in DOMAIN s |-> IF i <= lastLayer[k] THEN s[i] ELSE None]

PostProcessing ==
  IF config.composing /\ frame.mode # "closed" /\ frame.geometry
  THEN [k \in Keys |-> Neutralized(surfaces[k], k)]
  ELSE surfaces

FinishSet ==
  /\ setPc = "layers"
  /\ next > Len(frame.layers)
  /\ setPc' = "done"
  /\ UNCHANGED <<config, lastLayer, lastBuffer, snapped, under, frame, next, historyVars>>

(* The cursor was handled within the loop, or reset_cursor and nothing is   *)
(* left to be done for it.                                                  *)
FinishWithCursor ==
  /\ FinishSet
  /\ Cursor \in ToSet(frame.layers)
  /\ surfaces' = PostProcessing
  /\ UNCHANGED <<windowKey, image>>

(* Mutant: the pointer keeps its image.                                     *)
ImageKept == image

(* wl_cursor_cursor_handler::reset_cursor                                   *)
ResetImage == IF config.subsurface THEN image ELSE None

(* Without a cursor layer: reset_cursor.  ClearPrevious empties something   *)
(* only in the modes that have no post_processing.                          *)
FinishWithoutCursor ==
  /\ FinishSet
  /\ Cursor \notin ToSet(frame.layers)
  /\ IF config.subsurface
     THEN IF config.composing THEN windowKey' = None /\ surfaces' = PostProcessing
          ELSE ClearPrevious
     ELSE surfaces' = PostProcessing /\ UNCHANGED windowKey
  /\ image' = ResetImage

(* hwc_set commits the windows and releases the mutex; the contents go back *)
(* to SurfaceFlinger.                                                       *)
EndSet ==
  /\ setPc = "done"
  /\ setPc' = "idle"
  /\ frame' = NoContents
  /\ next' = 1
  /\ committed' = [k \in Keys |-> << >>]
  /\ UNCHANGED <<config, windowVars, windowKey, under, image, failures, entered, reborn>>

-----------------------------------------------------------------------------
(* The wayland thread.                                                      *)

(* pointer_handle_enter and on_cursor_enter                                 *)
PointerEnter(k) ==
  /\ k \in Open
  /\ under = None
  /\ under' = k
  /\ image' = IF config.subsurface THEN None ELSE Cursor
  /\ entered' = (setPc # "idle")
  /\ UNCHANGED <<config, windowVars, windowKey, frame, next, setPc, committed, failures, reborn>>

(* pointer_handle_leave                                                     *)
PointerLeave ==
  /\ under # None
  /\ under' = None
  /\ image' = None
  /\ UNCHANGED <<config, windowVars, windowKey, frame, next, setPc, historyVars>>

(* xdg_toplevel_handle_close.  Leave event or not, pointer_surface belongs  *)
(* to no window from then on.                                               *)
CloseWindow(k) ==
  /\ setPc = "idle"
  /\ k \in Open
  /\ surfaces' = [surfaces EXCEPT ![k] = << >>]
  /\ lastLayer' = [lastLayer EXCEPT ![k] = 0]
  /\ lastBuffer' = [lastBuffer EXCEPT ![k] = None]
  /\ snapped' = snapped \ {k}
  /\ under' = IF under = k THEN None ELSE under
  /\ image' = IF under = k THEN None ELSE image
  /\ reborn' = (reborn \/ windowKey = k)
  /\ UNCHANGED <<config, windowKey, frame, next, setPc, committed, failures, entered>>

-----------------------------------------------------------------------------
SurfacesInit ==
  /\ config \in Configs
  /\ surfaces = [k \in Keys |-> << >>]
  /\ lastLayer = [k \in Keys |-> 0]
  /\ lastBuffer = [k \in Keys |-> None]
  /\ snapped = {}
  /\ windowKey = None
  /\ under = None
  /\ image = None
  /\ frame = NoContents
  /\ next = 1
  /\ setPc = "idle"
  /\ committed = [k \in Keys |-> << >>]
  /\ failures = 0
  /\ entered = FALSE
  /\ reborn = FALSE

SurfacesNext ==
  \/ setPc = "idle" /\ \E f \in Frames(config) : StartSet(f)
  \/ DrawApp
  \/ DrawCursorOnWindow
  \/ DropCursor
  \/ DrawCursorImage
  \/ FinishWithCursor
  \/ FinishWithoutCursor
  \/ EndSet
  \/ \E k \in Keys : PointerEnter(k)
  \/ PointerLeave
  \/ \E k \in Keys : CloseWindow(k)

SurfacesSpec == SurfacesInit /\ [][SurfacesNext]_surfacesVars

-----------------------------------------------------------------------------
(* Every variable has its type.                                             *)
SurfacesTypeOK ==
  /\ surfaces \in [Keys -> Seq({None, "app", Cursor})]
  /\ lastLayer \in [Keys -> 0..(config.apps + 1)]
  /\ lastBuffer \in [Keys -> {None, "app", Cursor}]
  /\ snapped \subseteq Open
  /\ windowKey \in Keys \cup {None}
  /\ under \in Open \cup {None}
  /\ image \in {None, Cursor}
  /\ setPc # "idle" =>
       frame \in [mode : WindowModes, target : Tasks \cup {None}, geometry : BOOLEAN,
                  layers : Seq(Keys \cup {Cursor})]
  /\ next \in 1..(Len(frame.layers) + 1)
  /\ setPc \in {"idle", "layers", "done"}

(* Surfaces s show the layers ls, bottom to top, and nothing else.          *)
Shows(s, ls) ==
  /\ Len(ls) <= Len(s)
  /\ \A i \in DOMAIN s : s[i] = IF i <= Len(ls) THEN ls[i] ELSE None

(* The set that ended last had to bring every window it drew up to date:    *)
(* composing modes empty leftovers only if the geometry changed, the others *)
(* only the cursor of a window that stayed open and was committed without       *)
(* failures; of inactive windows nothing is promised.                       *)
Settled ==
  /\ setPc = "done"
  /\ IF config.composing THEN frame.geometry
     ELSE failures = 0 /\ ~reborn /\ frame.mode = "fullUi"

(* A window that was committed shows exactly the layers this set drew on it, in *)
(* their order, and nothing of earlier sets.                                *)
ShowsTheFrame ==
  Settled => \A k \in Open : committed[k] # << >> => Shows(surfaces[k], committed[k])

CursorsShown ==
  {p \in Keys \X (1..(config.apps + 1)) :
     LET s == surfaces[p[1]] IN
     committed[p[1]] # << >> /\ p[2] \in DOMAIN s /\ s[p[2]] = Cursor}

(* Where every window is committed with every set, no two cursors are shown in  *)
(* them, and none that is not in the frame, unless the pointer brought the  *)
(* last image back with it.                                                 *)
OneCursor ==
  Settled /\ failures = 0 /\ frame.mode \in {"fullUi", "multi"} =>
    /\ \A c, d \in CursorsShown : c = d
    /\ CursorsShown # {} => image = None /\ Cursor \in ToSet(frame.layers)
    /\ image = Cursor /\ ~entered => Cursor \in ToSet(frame.layers)

=============================================================================

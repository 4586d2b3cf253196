--------------------------- MODULE SnapshotWorker ---------------------------
(***************************************************************************)
(* The buffers behind the windows of the single-window mode, and the EGL    *)
(* worker thread.  hwc_set caches a wl_buffer per buffer handle             *)
(* (display->buffer_map), every window points into that cache               *)
(* (last_layer_buffer), and the worker replaces the content of inactive     *)
(* windows with a snapshot, or fills an shm buffer before it is committed.  *)
(* SurfaceFlinger's thread hands work over through egl_work_queue and the   *)
(* semaphores egl_go and egl_done; it keeps windowsMutex meanwhile, so the  *)
(* wayland thread closes windows only outside of the critical section.      *)
(***************************************************************************)
EXTENDS Naturals, Sequences, FiniteSets

CONSTANTS
  Tasks,     (* the apps with a window                                       *)
  Handles,   (* buffer handles                                               *)
  Metas,     (* buffer_metadata values                                       *)
  Configs,   (* the configurations of the display                            *)
  MaxLayers  (* BOUND: layers drawn per frame                                *)

ASSUME SnapshotAssumption ==
  /\ Configs \subseteq [composing : BOOLEAN, shm : BOOLEAN]
  /\ MaxLayers \in Nat \ {0}
  /\ Metas # {}
  /\ {"none", "freed", "render"} \cap (Tasks \cup Handles \cup Metas) = {}

None   == "none"    \* no task, no buffer, nullptr
Freed  == "freed"   \* a pointer to a buffer that was erased from the cache
Render == "render"  \* the work item egl_render_to_pixels for an shm buffer

(* What hwc_set gets: the first task (or None), whether the geometry        *)
(* changed, the handles of the layers it draws and their metadata.          *)
Frames == [target : Tasks \cup {None}, geometry : BOOLEAN,
           drawn : UNION {[1..n -> Handles] : n \in 0..MaxLayers}, meta : [Handles -> Metas]]

VARIABLES
  config,   (* composing: pdev->should_compose; shm: the worker has to copy *)
            (* buffers to shm, there is no dmabuf.  Set once, when opened.  *)
  open,     (* the tasks with a window                                      *)
  last,     (* window->last_layer_buffer: None, a handle or Freed           *)
  snap,     (* the windows with a snapshot_buffer                           *)
  content,  (* what a window shows: "empty", "live" or "snapshot"           *)
  cache,    (* buffer_map: the metadata of each handle's buffer, or None    *)
  frame,    (* the contents of this hwc_set                                 *)
  next,     (* the layer handled next                                       *)
  hwcPc,    (* where SurfaceFlinger's thread is                             *)
  wPc,      (* "waiting" or "working": the EGL worker                       *)
  queue,    (* egl_work_queue: the items not worked on yet                  *)
  go,       (* semaphore egl_go                                             *)
  done,     (* semaphore egl_done                                           *)
  shown,    (* history: the window drawn by the previous set                *)
  lost      (* history: windows whose snapshot buffer could not be had      *)

windowVars == <<open, last, snap, content>>
hwcVars    == <<frame, next, hwcPc>>
workVars   == <<wPc, queue, go, done>>
vars       == <<config, windowVars, cache, hwcVars, workVars, shown, lost>>

Target == frame.target
NoFrame == [target |-> None, geometry |-> FALSE, drawn |-> << >>,
            meta |-> CHOOSE f \in [Handles -> Metas] : TRUE]

-----------------------------------------------------------------------------
(* SurfaceFlinger's thread.                                                 *)

(* Pointers to the buffers of the handles in H dangle from now on.          *)
Dangling(H) == [t \in Tasks |-> IF last[t] \in H THEN Freed ELSE last[t]]

(* Mutant: reset_per_commit_state_window runs before the cleanup.           *)
BeginSetResetting(f) ==
  /\ hwcPc = "idle"
  /\ frame' = f
  /\ next' = 1
  /\ hwcPc' = "unlocked"
  /\ last' = [t \in Tasks |-> None]
  /\ UNCHANGED <<config, open, snap, content, cache, workVars, shown, lost>>

(* Mutant: the cache is cleared whether or not this side composes.          *)
BeginSetClearing(f) ==
  /\ hwcPc = "idle"
  /\ frame' = f
  /\ next' = 1
  /\ hwcPc' = "unlocked"
  /\ IF f.geometry
     THEN cache' = [h \in Handles |-> None] /\ last' = Dangling(Handles)
     ELSE UNCHANGED <<cache, last>>
  /\ UNCHANGED <<config, open, snap, content, workVars, shown, lost>>

(* hwc_set before it takes windowsMutex: buffer_map.clear().                *)
BeginSet(f) ==
  /\ hwcPc = "idle"
  /\ frame' = f
  /\ next' = 1
  /\ hwcPc' = "unlocked"
  /\ IF config.composing /\ f.geometry
     THEN cache' = [h \in Handles |-> None] /\ last' = Dangling(Handles)
     ELSE UNCHANGED <<cache, last>>
  /\ UNCHANGED <<config, open, snap, content, workVars, shown, lost>>

ResetLast == last' = [t \in Tasks |-> None]

(* cleanup_stale_windows: the inactive windows without a snapshot are       *)
(* queued, and the worker is started if there is something to do.           *)
Inactive == IF Target = None THEN {} ELSE open \ (snap \cup {Target})

CleanupSnapshots ==
  /\ hwcPc = "unlocked"
  /\ Inactive # {}
  /\ queue' = queue \cup Inactive
  /\ go' = go + 1
  /\ hwcPc' = "snapshots"
  /\ UNCHANGED <<config, windowVars, cache, frame, next, wPc, done, shown, lost>>

(* Nothing to snapshot; reset_per_commit_state_window follows at once.      *)
CleanupNothing ==
  /\ hwcPc = "unlocked"
  /\ Inactive = {}
  /\ ResetLast
  /\ hwcPc' = "layers"
  /\ UNCHANGED <<config, open, snap, content, cache, frame, next, workVars, shown, lost>>

(* Mutant: sem_wait(&egl_done) is forgotten.                                *)
SnapshotsDoneAtOnce ==
  /\ hwcPc = "snapshots"
  /\ ResetLast
  /\ hwcPc' = "layers"
  /\ UNCHANGED <<config, open, snap, content, cache, frame, next, workVars, shown, lost>>

SnapshotsDone ==
  /\ hwcPc = "snapshots"
  /\ done > 0
  /\ done' = done - 1
  /\ ResetLast
  /\ hwcPc' = "layers"
  /\ UNCHANGED <<config, open, snap, content, cache, frame, next, wPc, queue, go, shown, lost>>

Layer == frame.drawn[next]

AtLayer == hwcPc = "layers" /\ Target # None /\ next <= Len(frame.drawn)

(* windows.add for a target without a window; it shows nothing yet.         *)
WithTarget == open \cup {Target}
ContentWithTarget == IF Target \in open THEN content ELSE [content EXCEPT ![Target] = "empty"]

(* find_cached_buffer: a hit, or an entry with other metadata is erased.    *)
Hit == cache[Layer] = frame.meta[Layer]

LastAfterLookup == IF Hit THEN last ELSE Dangling({Layer})

(* apply_hwc_layer_to_window past get_wl_buffer: the buffer is committed.   *)
Commit(l, c) ==
  /\ last' = [l EXCEPT ![Target] = Layer]
  /\ snap' = snap \ {Target}
  /\ content' = [c EXCEPT ![Target] = "live"]
  /\ lost' = lost \ {Target}
  /\ next' = next + 1

(* A layer whose buffer is in the cache or can be created.                  *)
SetLayer ==
  /\ AtLayer
  /\ ~config.shm
  /\ open' = WithTarget
  /\ cache' = [cache EXCEPT ![Layer] = frame.meta[Layer]]
  /\ Commit(LastAfterLookup, ContentWithTarget)
  /\ UNCHANGED <<config, frame, hwcPc, workVars, shown>>

(* The same for an shm buffer: update_shm_buffer_generic hands it to the    *)
(* worker first.                                                            *)
StartRender ==
  /\ AtLayer
  /\ config.shm
  /\ open' = WithTarget
  /\ content' = ContentWithTarget
  /\ cache' = [cache EXCEPT ![Layer] = frame.meta[Layer]]
  /\ last' = LastAfterLookup
  /\ queue' = queue \cup {Render}
  /\ go' = go + 1
  /\ hwcPc' = "render"
  /\ UNCHANGED <<config, snap, frame, next, wPc, done, shown, lost>>

RenderDone ==
  /\ hwcPc = "render"
  /\ done > 0
  /\ done' = done - 1
  /\ Commit(last, content)
  /\ hwcPc' = "layers"
  /\ UNCHANGED <<config, open, cache, frame, wPc, queue, go, shown>>

(* create_buffer fails: the layer is dropped.                               *)
SetLayerFails ==
  /\ AtLayer
  /\ ~Hit
  /\ open' = WithTarget
  /\ content' = ContentWithTarget
  /\ cache' = [cache EXCEPT ![Layer] = None]
  /\ last' = LastAfterLookup
  /\ next' = next + 1
  /\ UNCHANGED <<config, snap, frame, hwcPc, workVars, shown, lost>>

EndSet ==
  /\ hwcPc = "layers"
  /\ ~AtLayer
  /\ hwcPc' = "idle"
  /\ frame' = NoFrame
  /\ next' = 1
  /\ shown' = IF Target # None /\ last[Target] # None THEN Target ELSE None
  /\ UNCHANGED <<config, windowVars, cache, workVars, lost>>

-----------------------------------------------------------------------------
(* The EGL worker: egl_loop.                                                *)

WorkerStart ==
  /\ wPc = "waiting"
  /\ go > 0
  /\ go' = go - 1
  /\ wPc' = "working"
  /\ UNCHANGED <<config, windowVars, cache, hwcVars, queue, done, shown, lost>>

(* snapshot_inactive_app_window returns early: no buffer, shm or a snapshot.*)
WorkerSkip(t) ==
  /\ wPc = "working"
  /\ t \in queue
  /\ last[t] \in {None, Freed} \/ config.shm \/ t \in snap
  /\ queue' = queue \ {t}
  /\ UNCHANGED <<config, windowVars, cache, hwcVars, wPc, go, done, shown, lost>>

(* It renders the last buffer of the window and attaches the copy.          *)
WorkerSnapshot(t) ==
  /\ wPc = "working"
  /\ t \in queue
  /\ last[t] # None /\ ~config.shm /\ t \notin snap
  /\ snap' = snap \cup {t}
  /\ content' = [content EXCEPT ![t] = "snapshot"]
  /\ last' = [last EXCEPT ![t] = None]
  /\ queue' = queue \ {t}
  /\ UNCHANGED <<config, open, cache, hwcVars, wPc, go, done, shown, lost>>

(* create_shm_wl_buffer fails.                                              *)
WorkerSnapshotFails(t) ==
  /\ wPc = "working"
  /\ t \in queue
  /\ last[t] # None /\ ~config.shm /\ t \notin snap
  /\ lost' = lost \cup {t}
  /\ queue' = queue \ {t}
  /\ UNCHANGED <<config, windowVars, cache, hwcVars, wPc, go, done, shown>>

WorkerRender ==
  /\ wPc = "working"
  /\ Render \in queue
  /\ queue' = queue \ {Render}
  /\ UNCHANGED <<config, windowVars, cache, hwcVars, wPc, go, done, shown, lost>>

(* Mutant: the worker never posts egl_done.                                 *)
WorkerFinishSilently ==
  /\ wPc = "working"
  /\ queue = {}
  /\ wPc' = "waiting"
  /\ UNCHANGED <<config, windowVars, cache, hwcVars, queue, go, done, shown, lost>>

WorkerFinish ==
  /\ wPc = "working"
  /\ queue = {}
  /\ done' = done + 1
  /\ wPc' = "waiting"
  /\ UNCHANGED <<config, windowVars, cache, hwcVars, queue, go, shown, lost>>

-----------------------------------------------------------------------------
(* Mutant: the close handler does not take windowsMutex.                    *)
CloseWindowUnlocked(t) ==
  /\ t \in open
  /\ open' = open \ {t}
  /\ last' = [last EXCEPT ![t] = None]
  /\ snap' = snap \ {t}
  /\ content' = [content EXCEPT ![t] = "empty"]
  /\ lost' = lost \ {t}
  /\ UNCHANGED <<config, cache, hwcVars, workVars, shown>>

(* A window goes: closed by the user on the wayland thread, which needs     *)
(* windowsMutex, or erased by another mode between two sets of this one.    *)
CloseWindow(t) ==
  /\ hwcPc \in {"idle", "unlocked"}
  /\ t \in open
  /\ open' = open \ {t}
  /\ last' = [last EXCEPT ![t] = None]
  /\ snap' = snap \ {t}
  /\ content' = [content EXCEPT ![t] = "empty"]
  /\ lost' = lost \ {t}
  /\ UNCHANGED <<config, cache, hwcVars, workVars, shown>>

Init ==
  /\ config \in Configs
  /\ open = {}
  /\ last = [t \in Tasks |-> None]
  /\ snap = {}
  /\ content = [t \in Tasks |-> "empty"]
  /\ cache = [h \in Handles |-> None]
  /\ frame = NoFrame
  /\ next = 1
  /\ hwcPc = "idle"
  /\ wPc = "waiting"
  /\ queue = {}
  /\ go = 0
  /\ done = 0
  /\ shown = None
  /\ lost = {}

Hwc ==
  \/ CleanupSnapshots
  \/ CleanupNothing
  \/ SnapshotsDone
  \/ SetLayer
  \/ StartRender
  \/ RenderDone
  \/ SetLayerFails
  \/ EndSet

Worker ==
  \/ WorkerStart
  \/ \E t \in Tasks : WorkerSkip(t)
  \/ \E t \in Tasks : WorkerSnapshot(t)
  \/ \E t \in Tasks : WorkerSnapshotFails(t)
  \/ WorkerRender
  \/ WorkerFinish

Next ==
  \/ \E f \in Frames : BeginSet(f)
  \/ Hwc
  \/ Worker
  \/ \E t \in Tasks : CloseWindow(t)

Spec == Init /\ [][Next]_vars

(* Both threads run; nobody else takes their semaphores.                    *)
FairSpec == Spec /\ WF_vars(Hwc) /\ WF_vars(Worker)

-----------------------------------------------------------------------------
(* Every variable has its type.                                             *)
TypeOK ==
  /\ config \in Configs
  /\ open \subseteq Tasks
  /\ last \in [Tasks -> {None, Freed} \cup Handles]
  /\ snap \subseteq Tasks
  /\ content \in [Tasks -> {"empty", "live", "snapshot"}]
  /\ cache \in [Handles -> {None} \cup Metas]
  /\ frame \in Frames
  /\ next \in 1..(MaxLayers + 1)
  /\ hwcPc \in {"idle", "unlocked", "snapshots", "layers", "render"}
  /\ wPc \in {"waiting", "working"}
  /\ queue \subseteq Tasks \cup {Render}
  /\ go \in Nat /\ done \in Nat
  /\ shown \in Tasks \cup {None}
  /\ lost \subseteq Tasks

HwcWaits == hwcPc \in {"snapshots", "render"}

(* egl_work_queue, the windows and the buffers are shared without a lock:   *)
(* the worker touches them only while SurfaceFlinger's thread waits, and    *)
(* every hand-over has exactly one token, so neither a second round nor a   *)
(* stale egl_done can be mistaken for this one.                             *)
HandOverExclusive ==
  /\ go + done + (IF wPc = "working" THEN 1 ELSE 0) = (IF HwcWaits THEN 1 ELSE 0)
  /\ queue # {} => HwcWaits /\ done = 0

(* The queue holds plain window pointers: none of them is destroyed while   *)
(* queued, because windowsMutex is held through the hand-over.              *)
QueuedWindowsOpen == queue \cap Tasks \subseteq open

(* last_layer_buffer, a plain pointer into buffer_map, points to a buffer   *)
(* that is still there when the worker takes it.                            *)
SnapshotReadsLiveBuffer ==
  wPc = "working" => \A t \in queue \cap Tasks : last[t] # Freed

(* The same where SurfaceFlinger composes: the cache is not cleared then,   *)
(* and an entry is only erased after the windows forgot their buffers.      *)
UncomposedReadsLiveBuffer == ~config.composing => SnapshotReadsLiveBuffer

(* When an app takes over from the one drawn by the previous set, the       *)
(* latter's window shows a copy: Android may overwrite its buffer now.  (Of *)
(* buffers in shm memory it has one anyway; composing, see above.)          *)
SwitchLeavesSnapshot ==
  /\ ~config.composing /\ ~config.shm
  /\ hwcPc = "layers" /\ Target # None
  /\ shown \in open \ (lost \cup {Target})
  => content[shown] = "snapshot"

(* Every inactive window shows a copy while another app is shown.           *)
InactiveShowsSnapshot ==
  hwcPc = "layers" /\ Target # None /\ ~config.shm =>
    \A t \in open \ (lost \cup {Target}) : content[t] # "live"

(* hwc_set gets through the hand-over: no semaphore is waited for in vain.  *)
SetCompletes == hwcPc = "unlocked" ~> hwcPc = "idle"
=============================================================================

------------------------- MODULE SnapshotWorkerProofs -------------------------
(***************************************************************************)
(* Theorems about SnapshotWorker, for any windows, buffers and layers.      *)
(***************************************************************************)
EXTENDS SnapshotWorker, FiniteSetTheorems, TLAPS

(* What the worker is asked to do: the open windows, or one buffer.         *)
QueueInv ==
  /\ QueuedWindowsOpen
  /\ hwcPc = "render" => queue \subseteq {Render}

(* While layers are drawn only the target has a buffer, one in the cache    *)
(* with the metadata of this frame.                                         *)
LastInv ==
  hwcPc \in {"layers", "render"} =>
    \A t \in Tasks : last[t] # None =>
      /\ t = Target /\ t \in open /\ t \notin snap
      /\ last[t] \in Handles /\ cache[last[t]] = frame.meta[last[t]]

(* The buffer that is being rendered belongs to the target's next layer.    *)
RenderInv ==
  hwcPc = "render" =>
    /\ config.shm
    /\ Target \in open
    /\ next \in 1..MaxLayers
    /\ Layer \in Handles
    /\ cache[Layer] = frame.meta[Layer]

(* Without composing no window points to an erased buffer.                  *)
FreedInv == ~config.composing => \A t \in Tasks : last[t] # Freed

(* How the window drawn by the previous set gets its snapshot.              *)
Dmabuf == ~config.composing /\ ~config.shm

ShownInv ==
  Dmabuf /\ shown \in open =>
    /\ hwcPc \in {"idle", "unlocked"} => last[shown] # None /\ shown \notin snap
    /\ hwcPc = "snapshots" /\ shown # Target =>
         \/ shown \in queue /\ last[shown] # None /\ shown \notin snap
         \/ content[shown] = "snapshot"
         \/ shown \in lost
    /\ hwcPc = "layers" /\ Target # None /\ shown # Target =>
         content[shown] = "snapshot" \/ shown \in lost

SnapshotInv ==
  /\ TypeOK /\ HandOverExclusive
  /\ QueueInv /\ LastInv /\ RenderInv /\ FreedInv /\ ShownInv

(* The strings of the model are nobody's names.                             *)
LEMMA Names ==
  /\ None \notin Tasks /\ None \notin Handles /\ None \notin Metas
  /\ Freed \notin Handles /\ Freed # None
  /\ Render \notin Tasks
BY SnapshotAssumption DEF None, Freed, Render

(* The layers of a frame are a sequence of at most MaxLayers handles.       *)
LEMMA FrameLayers ==
  ASSUME NEW f \in Frames
  PROVE  /\ f.target \in Tasks \cup {None}
         /\ f.meta \in [Handles -> Metas]
         /\ Len(f.drawn) \in 0..MaxLayers
         /\ \A i \in 1..Len(f.drawn) : f.drawn[i] \in Handles
<1>1. PICK n \in 0..MaxLayers : f.drawn \in [1..n -> Handles]
  BY DEF Frames
<1>2. f.drawn \in Seq(Handles) /\ Len(f.drawn) = n
  BY <1>1, SnapshotAssumption
<1>. QED BY <1>1, <1>2 DEF Frames

(* The frame between two sets is a frame.                                   *)
LEMMA NoFrameIsFrame == NoFrame \in Frames
<1>1. \E f \in [Handles -> Metas] : TRUE
  <2>1. PICK m \in Metas : TRUE
    BY SnapshotAssumption
  <2>2. [h \in Handles |-> m] \in [Handles -> Metas]
    OBVIOUS
  <2>. QED BY <2>2
<1>2. (CHOOSE f \in [Handles -> Metas] : TRUE) \in [Handles -> Metas]
  BY <1>1
<1>3. << >> \in [1..0 -> Handles]
  OBVIOUS
<1>4. << >> \in UNION {[1..n -> Handles] : n \in 0..MaxLayers}
  BY <1>3, SnapshotAssumption
<1>. QED BY <1>2, <1>4 DEF NoFrame, Frames

(* The layer hwc_set is at.                                                 *)
LEMMA LayerIsHandle ==
  ASSUME TypeOK, AtLayer
  PROVE  /\ Target \in Tasks /\ Layer \in Handles
         /\ next \in 1..MaxLayers
         /\ frame.meta \in [Handles -> Metas]
<1>1. next \in 1..Len(frame.drawn)
  BY FrameLayers DEF TypeOK, AtLayer
<1>2. frame \in Frames /\ Target # None
  BY DEF TypeOK, AtLayer
<1>3. Len(frame.drawn) \in 0..MaxLayers /\ Layer \in Handles
  BY <1>1, <1>2, FrameLayers DEF Layer
<1>. QED BY <1>1, <1>2, <1>3, FrameLayers, SnapshotAssumption DEF Target

(* Before the first frame nothing is queued and nothing is cached.          *)
LEMMA InitInv == Init => SnapshotInv
<1> SUFFICES ASSUME Init PROVE SnapshotInv
  OBVIOUS
<1>1. TypeOK
  BY Names, NoFrameIsFrame, SnapshotAssumption DEF Init, TypeOK
<1>2. HandOverExclusive /\ QueueInv
  BY DEF Init, HandOverExclusive, HwcWaits, QueueInv, QueuedWindowsOpen
<1>3. LastInv /\ RenderInv /\ FreedInv /\ ShownInv
  BY Names DEF Init, LastInv, RenderInv, FreedInv, ShownInv
<1>. QED BY <1>1, <1>2, <1>3 DEF SnapshotInv

(* Without the worker's part in a hand-over there is nothing to wait for.   *)
LEMMA NothingHandedOver ==
  ASSUME SnapshotInv, ~HwcWaits
  PROVE  queue = {} /\ go = 0 /\ done = 0 /\ wPc = "waiting"
BY DEF SnapshotInv, HandOverExclusive, TypeOK

(* hwc_set begins: the cache may be cleared, and nothing is drawn yet.      *)
LEMMA StepBeginSet ==
  ASSUME SnapshotInv, NEW f \in Frames, BeginSet(f)
  PROVE  SnapshotInv'
<1>0. TypeOK /\ HandOverExclusive /\ QueueInv /\ FreedInv /\ ShownInv
  BY DEF SnapshotInv
<1>1. cache' \in [Handles -> {None} \cup Metas] /\ last' \in [Tasks -> {None, Freed} \cup Handles]
  BY <1>0 DEF TypeOK, BeginSet, Dangling
<1>2. TypeOK'
  BY <1>0, <1>1, SnapshotAssumption DEF TypeOK, BeginSet, workVars
<1>3. (HandOverExclusive /\ QueueInv)'
  BY <1>0 DEF HandOverExclusive, HwcWaits, QueueInv, QueuedWindowsOpen, BeginSet, workVars
<1>4. (LastInv /\ RenderInv)'
  BY DEF LastInv, RenderInv, BeginSet
<1>5. (FreedInv /\ ShownInv)'
  BY <1>0 DEF FreedInv, ShownInv, Dmabuf, BeginSet
<1>. QED BY <1>2, <1>3, <1>4, <1>5 DEF SnapshotInv

(* cleanup_stale_windows queues the windows that need a snapshot.           *)
LEMMA StepCleanupSnapshots ==
  ASSUME SnapshotInv, CleanupSnapshots
  PROVE  SnapshotInv'
<1>0. TypeOK /\ HandOverExclusive /\ QueueInv /\ FreedInv /\ ShownInv
  BY DEF SnapshotInv
<1>1. queue = {} /\ go = 0 /\ done = 0 /\ wPc = "waiting"
  BY NothingHandedOver DEF CleanupSnapshots, HwcWaits
<1>2. Inactive \subseteq open
  BY DEF Inactive
<1>3. TypeOK'
  BY <1>0, <1>2 DEF TypeOK, CleanupSnapshots, windowVars
<1>4. (HandOverExclusive /\ QueueInv)'
  BY <1>1, <1>2
     DEF HandOverExclusive, HwcWaits, QueueInv, QueuedWindowsOpen, CleanupSnapshots, windowVars
<1>5. (LastInv /\ RenderInv /\ FreedInv)'
  BY <1>0 DEF LastInv, RenderInv, FreedInv, CleanupSnapshots, windowVars
<1>6. ShownInv'
  <2>1. Dmabuf /\ shown \in open => last[shown] # None /\ shown \notin snap
    BY <1>0 DEF ShownInv, CleanupSnapshots
  <2>2. shown \in open \ snap /\ shown # Target => shown \in Inactive
    BY DEF CleanupSnapshots, Inactive
  <2>. QED BY <2>1, <2>2 DEF ShownInv, Dmabuf, CleanupSnapshots, windowVars, Target
<1>. QED BY <1>3, <1>4, <1>5, <1>6 DEF SnapshotInv

(* cleanup_stale_windows finds none.                                        *)
LEMMA StepCleanupNothing ==
  ASSUME SnapshotInv, CleanupNothing
  PROVE  SnapshotInv'
<1>0. TypeOK /\ HandOverExclusive /\ QueueInv /\ ShownInv
  BY DEF SnapshotInv
<1>1. TypeOK'
  BY <1>0 DEF TypeOK, CleanupNothing, ResetLast, workVars
<1>2. (HandOverExclusive /\ QueueInv)'
  BY <1>0 DEF HandOverExclusive, HwcWaits, QueueInv, QueuedWindowsOpen, CleanupNothing, workVars
<1>3. (LastInv /\ RenderInv /\ FreedInv)'
  BY Names DEF LastInv, RenderInv, FreedInv, CleanupNothing, ResetLast
<1>4. ShownInv'
  <2>1. Dmabuf /\ shown \in open => shown \notin snap
    BY <1>0 DEF ShownInv, CleanupNothing
  <2>2. Target # None /\ shown \in open \ snap => shown = Target
    BY DEF CleanupNothing, Inactive
  <2>. QED BY <2>1, <2>2 DEF ShownInv, Dmabuf, CleanupNothing, Target
<1>. QED BY <1>1, <1>2, <1>3, <1>4 DEF SnapshotInv

(* The worker has posted egl_done: the inactive windows are given up.       *)
LEMMA StepSnapshotsDone ==
  ASSUME SnapshotInv, SnapshotsDone
  PROVE  SnapshotInv'
<1>0. TypeOK /\ HandOverExclusive /\ QueueInv /\ ShownInv
  BY DEF SnapshotInv
<1>1. queue = {} /\ go = 0 /\ done = 1 /\ wPc = "waiting"
  BY <1>0 DEF SnapshotsDone, HandOverExclusive, HwcWaits, TypeOK
<1>2. TypeOK'
  BY <1>0, <1>1 DEF TypeOK, SnapshotsDone, ResetLast
<1>3. (HandOverExclusive /\ QueueInv)'
  BY <1>1 DEF HandOverExclusive, HwcWaits, QueueInv, QueuedWindowsOpen, SnapshotsDone
<1>4. (LastInv /\ RenderInv /\ FreedInv)'
  BY Names DEF LastInv, RenderInv, FreedInv, SnapshotsDone, ResetLast
<1>5. ShownInv'
  BY <1>0, <1>1 DEF ShownInv, Dmabuf, SnapshotsDone, Target
<1>. QED BY <1>2, <1>3, <1>4, <1>5 DEF SnapshotInv

(* What a lookup in the cache does to the windows' pointers: nothing, since *)
(* an entry that is erased is not the one of the target's last layer.       *)
LEMMA LookupKeepsLast ==
  ASSUME SnapshotInv, AtLayer
  PROVE  LastAfterLookup = last
<1>0. TypeOK /\ LastInv
  BY DEF SnapshotInv
<1>1. CASE ~Hit
  <2>1. \A t \in Tasks : last[t] # Layer
    BY <1>0, <1>1, LayerIsHandle, Names DEF LastInv, AtLayer, Hit
  <2>. QED BY <1>0, <1>1, <2>1 DEF LastAfterLookup, Dangling, TypeOK
<1>. QED BY <1>1 DEF LastAfterLookup

(* The window of the layer is there, and only it shows something else.      *)
LEMMA TargetAtLayer ==
  ASSUME SnapshotInv, AtLayer
  PROVE  /\ ContentWithTarget \in [Tasks -> {"empty", "live", "snapshot"}]
         /\ \A t \in Tasks \ {Target} : ContentWithTarget[t] = content[t]
         /\ WithTarget \subseteq Tasks /\ Target \in WithTarget
         /\ \A t \in WithTarget \ {Target} : t \in open
BY LayerIsHandle DEF SnapshotInv, TypeOK, ContentWithTarget, WithTarget

(* A layer of the frame whose buffer is found or created.                   *)
LEMMA StepSetLayer ==
  ASSUME SnapshotInv, SetLayer
  PROVE  SnapshotInv'
<1>0. TypeOK /\ HandOverExclusive /\ QueueInv /\ LastInv /\ FreedInv /\ ShownInv /\ AtLayer
  BY DEF SnapshotInv, SetLayer
<1>1. /\ Target \in Tasks /\ Layer \in Handles /\ next \in 1..MaxLayers
      /\ frame.meta \in [Handles -> Metas]
  BY <1>0, LayerIsHandle
<1>2. last' = [last EXCEPT ![Target] = Layer]
  BY <1>0, LookupKeepsLast DEF SetLayer, Commit
<1>3. TypeOK'
  <2>1. content' \in [Tasks -> {"empty", "live", "snapshot"}]
    BY <1>0, <1>1, TargetAtLayer DEF SetLayer, Commit
  <2>2. cache' \in [Handles -> {None} \cup Metas] /\ last' \in [Tasks -> {None, Freed} \cup Handles]
    BY <1>0, <1>1, <1>2 DEF TypeOK, SetLayer
  <2>3. next' \in 1..(MaxLayers + 1)
    BY <1>1, SnapshotAssumption DEF SetLayer, Commit
  <2>4. open' \subseteq Tasks /\ snap' \subseteq Tasks /\ lost' \subseteq Tasks
    BY <1>0, TargetAtLayer DEF TypeOK, SetLayer, Commit
  <2>. QED BY <1>0, <2>1, <2>2, <2>3, <2>4 DEF TypeOK, SetLayer, workVars
<1>4. (HandOverExclusive /\ QueueInv)'
  BY <1>0, NothingHandedOver
     DEF HandOverExclusive, HwcWaits, QueueInv, QueuedWindowsOpen, SetLayer, AtLayer, workVars
<1>5. LastInv'
  BY <1>0, <1>1, <1>2 DEF LastInv, SetLayer, Commit, AtLayer, WithTarget, Target, TypeOK
<1>6. (RenderInv /\ FreedInv)'
  BY <1>0, <1>1, <1>2, Names DEF RenderInv, FreedInv, SetLayer, AtLayer, TypeOK
<1>7. ShownInv'
  BY <1>0, <1>1, TargetAtLayer DEF ShownInv, Dmabuf, SetLayer, Commit, AtLayer, Target, TypeOK
<1>. QED BY <1>3, <1>4, <1>5, <1>6, <1>7 DEF SnapshotInv

(* A layer with an shm buffer: the worker is asked to render it.            *)
LEMMA StepStartRender ==
  ASSUME SnapshotInv, StartRender
  PROVE  SnapshotInv'
<1>0. TypeOK /\ LastInv /\ FreedInv /\ AtLayer /\ last' = last
  BY LookupKeepsLast DEF SnapshotInv, StartRender
<1>1. /\ Target \in Tasks /\ Layer \in Handles /\ next \in 1..MaxLayers
      /\ frame.meta \in [Handles -> Metas]
  BY <1>0, LayerIsHandle
<1>2. queue = {} /\ go = 0 /\ done = 0 /\ wPc = "waiting"
  BY <1>0, NothingHandedOver DEF AtLayer, HwcWaits
<1>3. TypeOK'
  BY <1>0, <1>1, <1>2, TargetAtLayer DEF TypeOK, StartRender
<1>4. (HandOverExclusive /\ QueueInv)'
  BY <1>2, Names DEF HandOverExclusive, HwcWaits, QueueInv, QueuedWindowsOpen, StartRender
<1>5. LastInv'
  BY <1>0, <1>1 DEF LastInv, StartRender, AtLayer, WithTarget, Target, TypeOK
<1>6. (RenderInv /\ FreedInv)'
  BY <1>0, <1>1 DEF RenderInv, FreedInv, StartRender, WithTarget, Target, Layer, TypeOK
<1>7. ShownInv'
  BY DEF ShownInv, Dmabuf, StartRender
<1>. QED BY <1>3, <1>4, <1>5, <1>6, <1>7 DEF SnapshotInv

(* The worker has rendered it, and the layer is drawn.                      *)
LEMMA StepRenderDone ==
  ASSUME SnapshotInv, RenderDone
  PROVE  SnapshotInv'
<1>0. TypeOK /\ HandOverExclusive /\ LastInv /\ RenderInv /\ FreedInv
  BY DEF SnapshotInv
<1>1. queue = {} /\ go = 0 /\ done = 1 /\ wPc = "waiting"
  BY <1>0 DEF RenderDone, HandOverExclusive, HwcWaits, TypeOK
<1>2. /\ Target \in open /\ Layer \in Handles /\ next \in 1..MaxLayers
      /\ cache[Layer] = frame.meta[Layer]
  BY <1>0 DEF RenderInv, RenderDone
<1>3. TypeOK'
  BY <1>0, <1>1, <1>2, SnapshotAssumption DEF TypeOK, RenderDone, Commit
<1>4. (HandOverExclusive /\ QueueInv)'
  BY <1>1 DEF HandOverExclusive, HwcWaits, QueueInv, QueuedWindowsOpen, RenderDone
<1>5. LastInv'
  BY <1>0, <1>2 DEF LastInv, RenderDone, Commit, Target, TypeOK
<1>6. (RenderInv /\ FreedInv)'
  BY <1>0, <1>2, Names DEF RenderInv, FreedInv, RenderDone, Commit, TypeOK
<1>7. ShownInv'
  BY <1>0 DEF RenderInv, ShownInv, Dmabuf, RenderDone
<1>. QED BY <1>3, <1>4, <1>5, <1>6, <1>7 DEF SnapshotInv

(* A layer whose buffer cannot be created is dropped.                       *)
LEMMA StepSetLayerFails ==
  ASSUME SnapshotInv, SetLayerFails
  PROVE  SnapshotInv'
<1>0. /\ TypeOK /\ HandOverExclusive /\ QueueInv /\ LastInv /\ FreedInv /\ ShownInv
      /\ AtLayer /\ last' = last
  BY LookupKeepsLast DEF SnapshotInv, SetLayerFails
<1>1. /\ Target \in Tasks /\ Layer \in Handles /\ next \in 1..MaxLayers
  BY <1>0, LayerIsHandle
<1>2. TypeOK'
  BY <1>0, <1>1, TargetAtLayer, SnapshotAssumption DEF TypeOK, SetLayerFails, workVars
<1>3. (HandOverExclusive /\ QueueInv)'
  BY <1>0, NothingHandedOver
     DEF HandOverExclusive, HwcWaits, QueueInv, QueuedWindowsOpen, SetLayerFails, AtLayer, workVars
<1>4. LastInv'
  BY <1>0, <1>1 DEF LastInv, SetLayerFails, AtLayer, WithTarget, Target, TypeOK, Hit
<1>5. (RenderInv /\ FreedInv)'
  BY <1>0 DEF RenderInv, FreedInv, SetLayerFails, AtLayer
<1>6. ShownInv'
  BY <1>0, <1>1, TargetAtLayer DEF ShownInv, Dmabuf, SetLayerFails, AtLayer, Target, TypeOK
<1>. QED BY <1>2, <1>3, <1>4, <1>5, <1>6 DEF SnapshotInv

(* hwc_set ends.                                                            *)
LEMMA StepEndSet ==
  ASSUME SnapshotInv, EndSet
  PROVE  SnapshotInv'
<1>0. TypeOK /\ HandOverExclusive /\ QueueInv /\ LastInv /\ FreedInv
  BY DEF SnapshotInv
<1>1. Target \in Tasks \cup {None}
  BY <1>0, FrameLayers DEF TypeOK, Target
<1>2. TypeOK'
  BY <1>0, <1>1, NoFrameIsFrame, SnapshotAssumption DEF TypeOK, EndSet, windowVars, workVars
<1>3. (HandOverExclusive /\ QueueInv)'
  BY <1>0 DEF HandOverExclusive, HwcWaits, QueueInv, QueuedWindowsOpen, EndSet, windowVars, workVars
<1>4. (LastInv /\ RenderInv /\ FreedInv)'
  BY <1>0 DEF LastInv, RenderInv, FreedInv, EndSet, windowVars
<1>5. ShownInv'
  <2>1. shown' \in open => last[shown'] # None /\ shown' \notin snap
    BY <1>0, <1>1, Names DEF EndSet, LastInv, TypeOK
  <2>. QED BY <2>1 DEF ShownInv, Dmabuf, EndSet, windowVars
<1>. QED BY <1>2, <1>3, <1>4, <1>5 DEF SnapshotInv

(* The worker acts only while it is waited for.                             *)
LEMMA WorkerIsWaitedFor ==
  ASSUME SnapshotInv, wPc = "working" \/ go > 0
  PROVE  HwcWaits /\ done = 0
BY DEF SnapshotInv, HandOverExclusive, TypeOK

(* The worker takes the head of its queue.                                  *)
LEMMA StepWorkerStart ==
  ASSUME SnapshotInv, WorkerStart
  PROVE  SnapshotInv'
<1>0. TypeOK /\ HandOverExclusive /\ QueueInv
  BY DEF SnapshotInv
<1>1. HwcWaits /\ go = 1 /\ done = 0
  BY <1>0 DEF HandOverExclusive, TypeOK, WorkerStart
<1>2. TypeOK'
  BY <1>0, <1>1 DEF TypeOK, WorkerStart, windowVars, hwcVars
<1>3. (HandOverExclusive /\ QueueInv)'
  BY <1>0, <1>1
     DEF HandOverExclusive, HwcWaits, QueueInv, QueuedWindowsOpen, WorkerStart, windowVars, hwcVars
<1>4. (LastInv /\ RenderInv /\ FreedInv /\ ShownInv)'
  BY
     DEF SnapshotInv, LastInv, RenderInv, FreedInv, ShownInv, Dmabuf, Target, Layer, WorkerStart,
         windowVars, hwcVars
<1>. QED BY <1>2, <1>3, <1>4 DEF SnapshotInv

(* The worker passes a window without a buffer to copy.                     *)
LEMMA StepWorkerSkip ==
  ASSUME SnapshotInv, NEW t \in Tasks, WorkerSkip(t)
  PROVE  SnapshotInv'
<1>0. TypeOK /\ HandOverExclusive /\ QueueInv /\ FreedInv /\ ShownInv
  BY DEF SnapshotInv
<1>1. (TypeOK /\ HandOverExclusive /\ QueueInv)'
  BY <1>0
     DEF TypeOK, HandOverExclusive, HwcWaits, QueueInv, QueuedWindowsOpen, WorkerSkip, windowVars,
         hwcVars
<1>2. (LastInv /\ RenderInv /\ FreedInv)'
  BY DEF SnapshotInv, LastInv, RenderInv, FreedInv, Target, Layer, WorkerSkip, windowVars, hwcVars
<1>3. ShownInv'
  <2>1. Dmabuf /\ shown = t => last[shown] \in {None} \/ shown \in snap
    BY <1>0 DEF FreedInv, Dmabuf, WorkerSkip
  <2>2. hwcPc \notin {"idle", "unlocked"}
    BY <1>0 DEF HandOverExclusive, HwcWaits, WorkerSkip
  <2>. QED BY <1>0, <2>1, <2>2 DEF ShownInv, Dmabuf, Target, WorkerSkip, windowVars, hwcVars
<1>. QED BY <1>1, <1>2, <1>3 DEF SnapshotInv

(* What the worker takes from the queue as a window, it takes for cleanup.  *)
LEMMA WindowsQueuedByCleanup ==
  ASSUME SnapshotInv, NEW t \in Tasks, t \in queue
  PROVE  hwcPc = "snapshots" /\ t \in open
BY Names DEF SnapshotInv, HandOverExclusive, HwcWaits, QueueInv, QueuedWindowsOpen

(* The worker copies the last buffer of a window.                           *)
LEMMA StepWorkerSnapshot ==
  ASSUME SnapshotInv, NEW t \in Tasks, WorkerSnapshot(t)
  PROVE  SnapshotInv'
<1>0. TypeOK /\ HandOverExclusive /\ QueueInv /\ FreedInv /\ ShownInv
  BY DEF SnapshotInv
<1>1. hwcPc = "snapshots" /\ hwcPc' = "snapshots"
  BY WindowsQueuedByCleanup DEF WorkerSnapshot, hwcVars
<1>2. (TypeOK /\ HandOverExclusive /\ QueueInv)'
  BY <1>0
     DEF TypeOK, HandOverExclusive, HwcWaits, QueueInv, QueuedWindowsOpen, WorkerSnapshot, hwcVars
<1>3. (LastInv /\ RenderInv)'
  BY <1>1 DEF LastInv, RenderInv
<1>4. FreedInv'
  BY <1>0, Names DEF FreedInv, TypeOK, WorkerSnapshot
<1>5. ShownInv'
  BY <1>0, <1>1 DEF ShownInv, Dmabuf, Target, TypeOK, WorkerSnapshot, hwcVars
<1>. QED BY <1>2, <1>3, <1>4, <1>5 DEF SnapshotInv

(* The worker gets no buffer for the copy.                                  *)
LEMMA StepWorkerSnapshotFails ==
  ASSUME SnapshotInv, NEW t \in Tasks, WorkerSnapshotFails(t)
  PROVE  SnapshotInv'
<1>0. TypeOK /\ HandOverExclusive /\ QueueInv /\ FreedInv /\ ShownInv
  BY DEF SnapshotInv
<1>1. hwcPc = "snapshots" /\ hwcPc' = "snapshots"
  BY WindowsQueuedByCleanup DEF WorkerSnapshotFails, hwcVars
<1>2. (TypeOK /\ HandOverExclusive /\ QueueInv)'
  BY <1>0
     DEF TypeOK, HandOverExclusive, HwcWaits, QueueInv, QueuedWindowsOpen, WorkerSnapshotFails,
         windowVars, hwcVars
<1>3. (LastInv /\ RenderInv /\ FreedInv)'
  BY <1>0, <1>1 DEF LastInv, RenderInv, FreedInv, WorkerSnapshotFails, windowVars
<1>4. ShownInv'
  BY <1>0, <1>1 DEF ShownInv, Dmabuf, Target, WorkerSnapshotFails, windowVars, hwcVars
<1>. QED BY <1>2, <1>3, <1>4 DEF SnapshotInv

(* The worker renders the buffer of a layer.                                *)
LEMMA StepWorkerRender ==
  ASSUME SnapshotInv, WorkerRender
  PROVE  SnapshotInv'
<1>0. TypeOK /\ HandOverExclusive /\ QueueInv /\ ShownInv
  BY DEF SnapshotInv
<1>1. (TypeOK /\ HandOverExclusive /\ QueueInv)'
  BY <1>0
     DEF TypeOK, HandOverExclusive, HwcWaits, QueueInv, QueuedWindowsOpen, WorkerRender,
         windowVars, hwcVars
<1>2. (LastInv /\ RenderInv /\ FreedInv)'
  BY DEF SnapshotInv, LastInv, RenderInv, FreedInv, Target, Layer, WorkerRender, windowVars, hwcVars
<1>3. ShownInv'
  BY <1>0, Names
     DEF ShownInv, Dmabuf, Target, TypeOK, QueueInv, QueuedWindowsOpen, WorkerRender, windowVars,
         hwcVars
<1>. QED BY <1>1, <1>2, <1>3 DEF SnapshotInv

(* The worker is at the end of its queue and posts egl_done.                *)
LEMMA StepWorkerFinish ==
  ASSUME SnapshotInv, WorkerFinish
  PROVE  SnapshotInv'
<1>0. TypeOK /\ HandOverExclusive /\ QueueInv
  BY DEF SnapshotInv
<1>1. (TypeOK /\ HandOverExclusive /\ QueueInv)'
  BY <1>0
     DEF TypeOK, HandOverExclusive, HwcWaits, QueueInv, QueuedWindowsOpen, WorkerFinish,
         windowVars, hwcVars
<1>2. (LastInv /\ RenderInv /\ FreedInv /\ ShownInv)'
  BY
     DEF SnapshotInv, LastInv, RenderInv, FreedInv, ShownInv, Dmabuf, Target, Layer, WorkerFinish,
         windowVars, hwcVars
<1>. QED BY <1>1, <1>2 DEF SnapshotInv

(* A window is closed between two sets.                                     *)
LEMMA StepCloseWindow ==
  ASSUME SnapshotInv, NEW t \in Tasks, CloseWindow(t)
  PROVE  SnapshotInv'
<1>0. TypeOK /\ HandOverExclusive /\ FreedInv /\ ShownInv
  BY DEF SnapshotInv
<1>1. hwcPc \in {"idle", "unlocked"} /\ queue = {}
  BY NothingHandedOver DEF CloseWindow, HwcWaits
<1>2. TypeOK'
  BY <1>0 DEF TypeOK, CloseWindow, hwcVars, workVars
<1>3. (HandOverExclusive /\ QueueInv)'
  BY <1>0, <1>1
     DEF HandOverExclusive, HwcWaits, QueueInv, QueuedWindowsOpen, CloseWindow, hwcVars, workVars
<1>4. (LastInv /\ RenderInv)'
  BY <1>1 DEF LastInv, RenderInv, CloseWindow, hwcVars
<1>5. FreedInv'
  BY <1>0, Names DEF FreedInv, TypeOK, CloseWindow
<1>6. ShownInv'
  BY <1>0, <1>1 DEF ShownInv, Dmabuf, TypeOK, CloseWindow, hwcVars
<1>. QED BY <1>2, <1>3, <1>4, <1>5, <1>6 DEF SnapshotInv

(* Every step of the composer and the worker keeps the invariant.           *)
LEMMA StepInv == SnapshotInv /\ [Next]_vars => SnapshotInv'
<1> SUFFICES ASSUME SnapshotInv, [Next]_vars PROVE SnapshotInv'
  OBVIOUS
<1>1. CASE \E f \in Frames : BeginSet(f)
  BY <1>1, StepBeginSet
<1>2. CASE Hwc
  BY <1>2, StepCleanupSnapshots, StepCleanupNothing, StepSnapshotsDone, StepSetLayer,
     StepStartRender, StepRenderDone, StepSetLayerFails, StepEndSet DEF Hwc
<1>3. CASE Worker
  BY <1>3, StepWorkerStart, StepWorkerSkip, StepWorkerSnapshot, StepWorkerSnapshotFails,
     StepWorkerRender, StepWorkerFinish DEF Worker
<1>4. CASE \E t \in Tasks : CloseWindow(t)
  BY <1>4, StepCloseWindow
<1>5. CASE UNCHANGED vars
  <2>1. (TypeOK /\ HandOverExclusive /\ QueueInv)'
    BY <1>5 DEF SnapshotInv, TypeOK, HandOverExclusive, HwcWaits, QueueInv, QueuedWindowsOpen,
       vars, windowVars, hwcVars, workVars
  <2>2. (LastInv /\ RenderInv /\ FreedInv /\ ShownInv)'
    BY <1>5 DEF SnapshotInv, LastInv, RenderInv, FreedInv, ShownInv, Dmabuf, Target, Layer,
       vars, windowVars, hwcVars, workVars
  <2>. QED BY <2>1, <2>2 DEF SnapshotInv
<1>. QED BY <1>1, <1>2, <1>3, <1>4, <1>5 DEF Next

(* The invariant holds in every state.                                      *)
LEMMA SpecInv == Spec => []SnapshotInv
BY InitInv, StepInv, PTL DEF Spec

(* Every variable of hwc_set and of the worker keeps its type.              *)
THEOREM TypeCorrect == Spec => []TypeOK
<1>1. SnapshotInv => TypeOK
  BY DEF SnapshotInv
<1>. QED BY <1>1, SpecInv, PTL

(* egl_go and egl_done: each hand-over to egl_loop has one token, and the   *)
(* queue is filled only while SurfaceFlinger's thread waits for it.         *)
THEOREM HandOversAreExclusive == Spec => []HandOverExclusive
<1>1. SnapshotInv => HandOverExclusive
  BY DEF SnapshotInv
<1>. QED BY <1>1, SpecInv, PTL

(* No window in egl_work_queue is ever a destroyed one.                     *)
THEOREM QueuedWindowsAreOpen == Spec => []QueuedWindowsOpen
<1>1. SnapshotInv => QueuedWindowsOpen
  BY DEF SnapshotInv, QueueInv
<1>. QED BY <1>1, SpecInv, PTL

(* Where SurfaceFlinger composes, snapshot_inactive_app_window follows no   *)
(* last_layer_buffer that was erased from buffer_map.                       *)
THEOREM UncomposedReadsAreLive == Spec => []UncomposedReadsLiveBuffer
<1>1. SnapshotInv => UncomposedReadsLiveBuffer
  BY DEF SnapshotInv, FreedInv, UncomposedReadsLiveBuffer, SnapshotReadsLiveBuffer
<1>. QED BY <1>1, SpecInv, PTL

(* After cleanup_stale_windows the app drawn by the previous set shows a    *)
(* snapshot, unless it is drawn again, closed or could not be given one.    *)
THEOREM SwitchesLeaveSnapshots == Spec => []SwitchLeavesSnapshot
<1>1. SnapshotInv => SwitchLeavesSnapshot
  BY DEF SnapshotInv, ShownInv, Dmabuf, SwitchLeavesSnapshot
<1>. QED BY <1>1, SpecInv, PTL

-----------------------------------------------------------------------------
(* A set ends.  SetCompletes is out of the provers' reach; what makes it    *)
(* true under fairness is proved here: there is always a thread that can go *)
(* on, and every step brings the set closer to its end.                     *)

LayersLeft == Len(frame.drawn) + 1 - next

(* The steps from where the hand-over is to the end of sem_wait(&egl_done). *)
HandOverLeft ==
  CASE done > 0                      -> 1
    [] done = 0 /\ wPc = "working"   -> 2 + Cardinality(queue)
    [] done = 0 /\ wPc = "waiting"   -> 3 + Cardinality(queue)

(* The most steps that the two threads still take in this set: five for a   *)
(* layer, and for a cleanup five and one per window.                        *)
StepsLeft ==
  CASE hwcPc = "idle"      -> 0
    [] hwcPc = "unlocked"  -> 5 * LayersLeft + 5 + Cardinality(open)
    [] hwcPc = "snapshots" -> 5 * LayersLeft + 1 + HandOverLeft
    [] hwcPc = "layers"    -> 5 * LayersLeft + 1
    [] hwcPc = "render"    -> 5 * LayersLeft - 4 + HandOverLeft

StepsInv ==
  /\ IsFiniteSet(open)
  /\ next <= Len(frame.drawn) + 1
  /\ hwcPc = "render" => next <= Len(frame.drawn)

(* SurfaceFlinger's thread waits for egl_done and the worker for egl_go.    *)
BothWait == HwcWaits /\ done = 0 /\ wPc = "waiting" /\ go = 0

(* The sets behind the counts are finite and the counts are numbers.        *)
LEMMA Counts ==
  ASSUME SnapshotInv, StepsInv
  PROVE  /\ LayersLeft \in Nat
         /\ hwcPc = "render" => LayersLeft > 0
         /\ IsFiniteSet(queue)
         /\ Cardinality(queue) \in Nat /\ Cardinality(open) \in Nat
<1>. USE DEF StepsInv
<1>1. Len(frame.drawn) \in Nat /\ next \in Nat
  BY FrameLayers, SnapshotAssumption DEF SnapshotInv, TypeOK
<1>2. LayersLeft \in Nat /\ (hwcPc = "render" => LayersLeft > 0)
  BY <1>1 DEF LayersLeft
<1>3. IsFiniteSet(open \cup {Render})
  BY FS_AddElement
<1>4. queue \subseteq open \cup {Render}
  BY DEF SnapshotInv, TypeOK, QueueInv, QueuedWindowsOpen
<1>5. IsFiniteSet(queue)
  BY <1>3, <1>4, FS_Subset
<1>. QED BY <1>2, <1>5, FS_CardinalityType

(* The measure is a number.                                                 *)
LEMMA MeasureIsNat ==
  ASSUME SnapshotInv, StepsInv
  PROVE  StepsLeft \in Nat
<1>1. HandOverLeft \in Nat
  BY Counts DEF HandOverLeft, SnapshotInv, TypeOK
<1>. QED BY <1>1, Counts DEF StepsLeft, SnapshotInv, TypeOK

(* The windows stay finite and the layers are counted to the last.          *)
LEMMA StepsInvStep ==
  ASSUME SnapshotInv, StepsInv, [Next]_vars
  PROVE  StepsInv'
<1>. USE DEF StepsInv
<1>0. TypeOK
  BY DEF SnapshotInv
<1>1. Len(frame.drawn) \in Nat /\ next \in Nat
  BY <1>0, FrameLayers, SnapshotAssumption DEF TypeOK
<1>2. ASSUME NEW f \in Frames, BeginSet(f)
      PROVE  StepsInv'
  BY <1>2, FrameLayers DEF BeginSet
<1>3. ASSUME SetLayer \/ StartRender \/ SetLayerFails
      PROVE  StepsInv'
  <2>1. IsFiniteSet(open')
    BY <1>3, FS_AddElement DEF SetLayer, StartRender, SetLayerFails, WithTarget
  <2>2. next <= Len(frame.drawn) /\ frame' = frame
    BY <1>3 DEF SetLayer, StartRender, SetLayerFails, AtLayer
  <2>3. \/ hwcPc' = "layers" /\ next' = next + 1
        \/ hwcPc' = "render" /\ next' = next
    BY <1>3 DEF SetLayer, StartRender, SetLayerFails, AtLayer, Commit
  <2>. QED BY <1>1, <2>1, <2>2, <2>3
<1>4. ASSUME RenderDone
      PROVE  StepsInv'
  BY <1>1, <1>4 DEF RenderDone, Commit
<1>5. ASSUME EndSet
      PROVE  StepsInv'
  BY <1>5 DEF EndSet, windowVars, NoFrame
<1>6. ASSUME NEW t \in Tasks, CloseWindow(t)
      PROVE  StepsInv'
  BY <1>6, FS_RemoveElement DEF CloseWindow, hwcVars
<1>7. CASE CleanupSnapshots \/ CleanupNothing \/ SnapshotsDone
  BY <1>7 DEF CleanupSnapshots, CleanupNothing, SnapshotsDone, windowVars
<1>8. CASE Worker \/ UNCHANGED vars
  BY <1>8 DEF Worker, WorkerStart, WorkerSkip, WorkerSnapshot, WorkerSnapshotFails, WorkerRender,
              WorkerFinish, vars, windowVars, hwcVars
<1>. QED BY <1>2, <1>3, <1>4, <1>5, <1>6, <1>7, <1>8 DEF Next, Hwc

(* SurfaceFlinger's thread gets on.                                         *)
LEMMA HwcGetsOn ==
  ASSUME SnapshotInv, StepsInv, StepsInv', SnapshotInv', Hwc
  PROVE  StepsLeft' < StepsLeft
<1>0. TypeOK /\ LayersLeft \in Nat /\ Cardinality(open) \in Nat /\ Cardinality(queue) \in Nat
  BY Counts DEF SnapshotInv
<1>1. ~HwcWaits => queue = {} /\ go = 0 /\ done = 0 /\ wPc = "waiting"
  BY NothingHandedOver
<1>2. CASE CleanupSnapshots
  <2>1. queue' = Inactive /\ done' = 0 /\ wPc' = "waiting" /\ LayersLeft' = LayersLeft
    BY <1>1, <1>2 DEF CleanupSnapshots, HwcWaits, LayersLeft
  <2>2. Inactive \subseteq open
    BY DEF Inactive
  <2>3. Cardinality(Inactive) <= Cardinality(open) /\ Cardinality(Inactive) \in Nat
    BY <2>2, FS_Subset, FS_CardinalityType DEF StepsInv
  <2>4. HandOverLeft' = 3 + Cardinality(Inactive)
    BY <2>1 DEF HandOverLeft
  <2>5. StepsLeft = 5 * LayersLeft + 5 + Cardinality(open)
    BY <1>2 DEF CleanupSnapshots, StepsLeft
  <2>6. StepsLeft' = 5 * LayersLeft + 1 + (3 + Cardinality(Inactive))
    BY <1>2, <2>1, <2>4 DEF CleanupSnapshots, StepsLeft
  <2>. QED BY <1>0, <2>3, <2>5, <2>6
<1>3. CASE CleanupNothing
  <2>1. LayersLeft' = LayersLeft
    BY <1>3 DEF CleanupNothing, LayersLeft
  <2>. QED BY <1>0, <1>3, <2>1 DEF CleanupNothing, StepsLeft
<1>4. CASE SnapshotsDone
  <2>1. LayersLeft' = LayersLeft
    BY <1>4 DEF SnapshotsDone, LayersLeft
  <2>2. HandOverLeft = 1
    BY <1>4 DEF SnapshotsDone, HandOverLeft
  <2>. QED BY <1>0, <1>4, <2>1, <2>2 DEF SnapshotsDone, StepsLeft
<1>5. CASE SetLayer \/ SetLayerFails
  <2>1. next \in Nat /\ Len(frame.drawn) \in Nat
    BY <1>0, FrameLayers, SnapshotAssumption DEF TypeOK
  <2>2. next' = next + 1 /\ frame' = frame /\ hwcPc = "layers" /\ hwcPc' = "layers"
    BY <1>5 DEF SetLayer, SetLayerFails, AtLayer, Commit
  <2>3. LayersLeft' = LayersLeft - 1
    <3>1. PICK n \in Nat : n = Len(frame.drawn)
      BY <2>1
    <3>2. LayersLeft = n + 1 - next /\ LayersLeft' = n + 1 - next'
      BY <2>2, <3>1 DEF LayersLeft
    <3>. QED BY <2>1, <2>2, <3>2
  <2>. QED BY <1>0, <2>2, <2>3 DEF StepsLeft
<1>6. CASE StartRender
  <2>1. LayersLeft' = LayersLeft /\ hwcPc = "layers" /\ hwcPc' = "render"
    BY <1>6 DEF StartRender, AtLayer, LayersLeft
  <2>2. queue' = {Render} /\ done' = 0 /\ wPc' = "waiting"
    BY <1>1, <1>6 DEF StartRender, AtLayer, HwcWaits
  <2>3. Cardinality(queue') = 1
    BY <2>2, FS_Singleton
  <2>4. HandOverLeft' = 4
    BY <2>2, <2>3 DEF HandOverLeft
  <2>. QED BY <1>0, <2>1, <2>4 DEF StepsLeft
<1>7. CASE RenderDone
  <2>0. next \in Nat /\ Len(frame.drawn) \in Nat
    BY <1>0, FrameLayers, SnapshotAssumption DEF TypeOK
  <2>1. next' = next + 1 /\ frame' = frame /\ hwcPc = "render" /\ hwcPc' = "layers"
    BY <1>7 DEF RenderDone, Commit
  <2>3. LayersLeft' = LayersLeft - 1
    <3>1. PICK n \in Nat : n = Len(frame.drawn)
      BY <2>0
    <3>2. LayersLeft = n + 1 - next /\ LayersLeft' = n + 1 - next'
      BY <2>1, <3>1 DEF LayersLeft
    <3>. QED BY <2>0, <2>1, <3>2
  <2>2. HandOverLeft = 1
    BY <1>7 DEF RenderDone, HandOverLeft
  <2>. QED BY <1>0, <2>1, <2>2, <2>3 DEF StepsLeft
<1>8. CASE EndSet
  BY <1>0, <1>8 DEF EndSet, StepsLeft
<1>. QED BY <1>2, <1>3, <1>4, <1>5, <1>6, <1>7, <1>8 DEF Hwc

(* Taking an item off the queue is one step of the hand-over.               *)
LEMMA TakingGetsOn ==
  ASSUME SnapshotInv, StepsInv, wPc = "working", NEW q \in queue, queue' = queue \ {q},
         UNCHANGED <<hwcVars, wPc, done>>
  PROVE  StepsLeft' < StepsLeft
<1>1. HwcWaits /\ done = 0
  BY WorkerIsWaitedFor
<1>2. Cardinality(queue') = Cardinality(queue) - 1 /\ Cardinality(queue) \in Nat
  BY Counts, FS_RemoveElement
<1>3. HandOverLeft' = HandOverLeft - 1 /\ HandOverLeft \in Nat
  BY <1>1, <1>2 DEF HandOverLeft
<1>4. LayersLeft' = LayersLeft /\ LayersLeft \in Nat
  BY Counts DEF LayersLeft, hwcVars
<1>. QED BY <1>1, <1>3, <1>4 DEF StepsLeft, HwcWaits, hwcVars

(* The worker gets on.                                                      *)
LEMMA WorkerGetsOn ==
  ASSUME SnapshotInv, StepsInv, Worker
  PROVE  StepsLeft' < StepsLeft
<1>1. LayersLeft \in Nat /\ Cardinality(queue) \in Nat
  BY Counts
<1>2. CASE WorkerStart
  <2>1. HwcWaits /\ done = 0
    BY <1>2, WorkerIsWaitedFor DEF WorkerStart
  <2>2. HandOverLeft = 3 + Cardinality(queue) /\ HandOverLeft' = 2 + Cardinality(queue)
    BY <1>2, <2>1 DEF WorkerStart, HandOverLeft
  <2>3. LayersLeft' = LayersLeft
    BY <1>2 DEF WorkerStart, LayersLeft, hwcVars
  <2>. QED BY <1>1, <1>2, <2>1, <2>2, <2>3 DEF WorkerStart, StepsLeft, HwcWaits, hwcVars
<1>3. CASE WorkerFinish
  <2>1. HwcWaits /\ done = 0
    BY <1>3, WorkerIsWaitedFor DEF WorkerFinish
  <2>2. HandOverLeft = 2 /\ HandOverLeft' = 1
    BY <1>3, <2>1, FS_EmptySet DEF WorkerFinish, HandOverLeft
  <2>3. LayersLeft' = LayersLeft
    BY <1>3 DEF WorkerFinish, LayersLeft, hwcVars
  <2>. QED BY <1>1, <1>3, <2>1, <2>2, <2>3 DEF WorkerFinish, StepsLeft, HwcWaits, hwcVars
<1>4. CASE \E t \in Tasks : WorkerSkip(t) \/ WorkerSnapshot(t) \/ WorkerSnapshotFails(t)
  BY <1>4, TakingGetsOn DEF WorkerSkip, WorkerSnapshot, WorkerSnapshotFails
<1>5. CASE WorkerRender
  BY <1>5, TakingGetsOn DEF WorkerRender
<1>. QED BY <1>2, <1>3, <1>4, <1>5 DEF Worker

(* A window that is closed before the cleanup is one less to copy.          *)
LEMMA CloseGetsOn ==
  ASSUME SnapshotInv, StepsInv, NEW t \in Tasks, CloseWindow(t), hwcPc # "idle"
  PROVE  StepsLeft' < StepsLeft
<1>1. hwcPc = "unlocked" /\ hwcPc' = "unlocked" /\ LayersLeft' = LayersLeft
  BY DEF CloseWindow, hwcVars, LayersLeft
<1>2. Cardinality(open') = Cardinality(open) - 1
  BY FS_RemoveElement DEF CloseWindow, StepsInv
<1>. QED BY <1>1, <1>2, Counts DEF StepsLeft

(* egl_go and egl_done never have both threads waiting for the other.       *)
THEOREM OneCanGoOn == Spec => []~BothWait
<1>1. SnapshotInv => ~BothWait
  BY DEF SnapshotInv, HandOverExclusive, BothWait
<1>. QED BY <1>1, SpecInv, PTL

(* A set ends after at most StepsLeft steps: whatever a thread does while   *)
(* hwc_set runs, be it SurfaceFlinger's, the worker or the wayland thread   *)
(* that closes a window, one step fewer is left, and the steps left are a   *)
(* number, for any frame and windows.                                       *)
THEOREM SetsEnd ==
  Spec => [](StepsLeft \in Nat) /\ [][hwcPc # "idle" => StepsLeft' < StepsLeft]_vars
<1>1. Init => StepsInv
  BY FS_EmptySet DEF Init, StepsInv, NoFrame
<1>2. SnapshotInv /\ StepsInv /\ [Next]_vars => StepsInv'
  BY StepsInvStep
<1>3. SnapshotInv /\ StepsInv => StepsLeft \in Nat
  BY MeasureIsNat
<1>4. SnapshotInv /\ StepsInv /\ SnapshotInv' /\ StepsInv' /\ [Next]_vars
        => [hwcPc # "idle" => StepsLeft' < StepsLeft]_vars
  BY HwcGetsOn, WorkerGetsOn, CloseGetsOn DEF Next, BeginSet
<1>. QED BY <1>1, <1>2, <1>3, <1>4, SpecInv, PTL DEF Spec
=============================================================================

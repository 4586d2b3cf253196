# Verification of the Waydroid HALs

TLA+ models of the stateful parts of Waydroid's hardware abstraction layers: the
hwcomposer, which shows Android's layers as Wayland windows and brings its input to Android,
the audio HAL and the GBM gralloc module. Every definition is translated from the source; `PROJECT.json`
("map") names the lines it stands for.

    tlasany M.tla                              parse
    tlc -workers 2 -config X.cfg M             model-check (the runs are listed below)
    tlapm WindowLifecycleProofs.tla            check proofs (each *Proofs.tla)

## 1. Inventory

### The process and its threads

The hwcomposer runs inside SurfaceFlinger (or its composer service). Four kinds of thread meet there:

| thread | runs | shares |
|---|---|---|
| SurfaceFlinger's | `hwc_prepare`, `hwc_set` (one frame: prepare, then set) | everything below |
| wayland thread | `hwc_wayland_thread`: `wl_display_dispatch`, hence close, input, output and feedback handlers | windows, ignored apps (under `windowsMutex`), input state, vsync times |
| EGL worker | `egl_loop`: work items of `egl_work_queue` | windows, buffers (semaphores `egl_go`, `egl_done`) |
| vsync thread, binder threads | vsync callback; clipboard, display and window services | `last_vsync`, clipboard string, `layer_names` |

`windowsMutex` is recursive. `hwc_set` holds it from the cleanup of stale windows to the
end of the frame, also while `window::create` waits for its first configure event with
`wl_display_roundtrip`. A roundtrip dispatches whatever events are pending, so the close and
input handlers run *on either thread*, and on SurfaceFlinger's they find the mutex already
theirs.

### Components

| component | state | operations | what is hard | correct when |
|---|---|---|---|---|
| windows (`hwcomposer.cpp`, `modes/`, `wayland-hwc.cpp`) | `windows` map, `ignored_apps`, `selected_mode`, properties `waydroid.open_windows`, `active_apps` | select a mode, clean stale windows, create, close, focus | nested handlers, recursive mutex, closing by key, modes changing between frames | a closed app stays closed; the property tells the truth; only windows of the mode; the asserts hold; nobody deadlocks |
| frame composition (`modes/waydroid_mode_impl.h`, `hwcomposer.cpp`) | composition types, skipped range, fences | `prepare`, `handle_layer` of each mode, cursor | skipped ranges, failing buffers, a fence to be closed once on each path | each layer is shown once, in order; each fence is closed once |
| buffers (`hwcomposer.cpp`, `wayland-hwc.cpp`, `egl-tools.cpp`) | `buffer_map`, `last_layer_buffer`, `snapshot_buffer`, work queue, semaphores | look up, create, clear; snapshot; render to shm | plain pointers across threads, caches cleared at the wrong time | hand-overs are exclusive; the worker reads live windows and buffers; inactive windows show a copy |
| audio (`audio_hw.c`) | streams, pcm pointers, `standby`, two kinds of mutex | write, read, standby, set_parameters, open, close | two lock orders, a mutex dropped before the transfer, failing starts | transfers have an open pcm; active streams exist; every call returns |
| gralloc (`gralloc.cpp`, `gralloc_gbm.cpp`) | handle map, device, lock counts | alloc, free, register, unregister, lock, unlock | addresses used again, nested and refused locks | each live handle has its buffer; mapped exactly while locked |
| input (`wayland-hwc.cpp`) | pressed keys, touch slots, scroll accumulators, pipes | pointer, keyboard, touch, tablet handlers | two dispatching threads, lost focus with keys held, slot limits, full pipes | nothing stays down in Android that is up; contacts are fingers; slots come back; motion adds up |
| surfaces and cursor (`wayland-hwc.cpp`, `cursor_handler.cpp`) | layer surfaces, `lastLayer`, cursor window key | get_next_layer, neutralize, apply and clear the cursor | surfaces used again from set to set, windows re-created, a pointer that moves between the sets | a drawn window shows the frame and nothing older; there is one cursor |
| vsync and retire fence (`hwcomposer.cpp`) | `last_vsync`, `vsync_callback_enabled`, `next_sync_point`, timeline | vsync loop, event control, feedback, the end of `hwc_set` | rounding with a clock that is not ours, unlocked fields, counters that wrap | vsyncs are on the grid, in order, and stop when disabled; only the last set's fence is pending |
| clipboard (`WaydroidClipboard.cpp`) | clipboard string, offered types | selection, send, get | a binder thread and two that dispatch, a nested event loop and a blocking read on the thread that may have to write | Android ends up with the desktop's selection; reads return |
| window service (`WaydroidWindow.cpp`) | `locked_pointer` and `idle_inhibitor` of each window, the shared relative pointer | pointer capture, idle inhibition, minimize | windows close and the pointer is unplugged between the calls | a captured pointer moves; no relative pointer is left over |
| display service (`extension.cpp`) | layer names and handle infos | setters | unlocked maps | not modelled: a frame of the models has any names and metadata |
| resource wrappers (`wayland/`, `resource_wrapper.h`) | `user_data_map`, ownership | add_listener, reset, get_user_data | object ids used again, two threads | a callback gets its own object's data or none; no id is registered twice |
| task service and binder proxies | two proxies | forwarding calls | services that are not up yet | not modelled: one call, one answer |
| gatekeeper, sensors, lights, vibrator, power, memtrack, health | little or none | stubs, forwarding | - | not modelled: no logic of their own |

`PROJECT.json` lists all of them with the reason where one is left out, and the hazards, each
at its line.

## 2. Modules

    WindowRegistry          abstract: window instances and their keys
      ^ implemented by
    WindowLifecycle         modes, hwc_set, close and enter handlers
      MCWindowLifecycle     model values
      WindowLifecycleProofs theorems
    Clipboard               Android's and the desktop's clipboard
    WindowService           pointer capture, idle inhibition
    UserData                object ids and the data of their callbacks
      MCServices            composes the three and WindowLifecycle for TLC
      ServicesProofs        theorems about the three and their composition
    FrameComposition        one frame through every mode: who is drawn, fences
    FrameTiming             vsync thread, feedback, retire fence
    WindowSurfaces          what windows and the pointer show, set after set
      WindowSurfacesProofs  theorems
      MCFrames              composes the three for TLC
      FramesProofs          theorems about the other two and the composition
    SnapshotWorker          buffer cache, snapshots, EGL worker
      MCSnapshotWorker
      SnapshotWorkerProofs  theorems
    AudioHal                streams, mutexes, pcm
      MCAudioHal
      AudioHalProofs        theorems
    GrallocBuffers          handle map, device, locks
      MCGrallocBuffers
      GrallocBuffersProofs  theorems
    InputDevices            keys, touch slots, buttons, tools and the pipes to Android
    PointerMotion           accumulators and relative motion of the pointer
      InputDevicesProofs    theorems about the two
      MCInput               composes them for TLC

The hwcomposer's modules are composed by interface, not by `INSTANCE`: `WindowLifecycle` says which windows
exist and when `hwc_set` holds the mutex; `FrameComposition` takes one frame of such a set and looks at its
layers; `SnapshotWorker` takes the critical section as given and looks at the buffers under it;
`WindowSurfaces` follows what becomes of the windows' surfaces over many sets. The parts that an MC module
composes share no variable: a behaviour is one of *one* of them, and its states are those of the parts
added, not multiplied. FramesProofs and ServicesProofs extend the MC module of their parts and prove that in
the composition, too, each part keeps its invariant; the other proof modules extend the same modules as the
MC module does. So a run and a theorem state the same definition.

### WindowRegistry

What the hwcomposer promises about windows, and nothing of how: an instance is *unborn*,
*creating*, *open*, *closed*, in this order and each at most once, and two instances that are
being created or open never share a key. A step moves any set of open instances to closed, so
it allows a cleanup that erases several.

### WindowLifecycle

| state | in the code |
|---|---|
| `windows`, `openProp`, `ignored` | `display->windows`, `waydroid.open_windows`, `display->ignored_apps` |
| `lock` | owner of `windowsMutex` |
| `hwcPc`, `frame`, `mode`, `target`, `next`, `pending` | how far `hwc_set` is, `selected_mode`, `target_layer_tid`, the window in `window::create` |
| `wlPc`, `wlWin`, `wlFocus`, `hwcFocus` | the wayland thread's handlers and the windows they use; the nested enter handler |
| `keyOf`, `created`, `early` | names of instances; history of instances closed before they were in the map |

`Prepare` is `hwc_prepare` with `select_mode`; `BeginSet` takes the mutex and runs the mode's
`cleanup_stale_windows`; `HandleLayer` is a layer that needs no new window; `StartCreate` and
`FinishCreate` enclose the roundtrips of `window::create`, between which `NestedClose` and
`NestedEnter` may run; `CloseBegin`, `CloseErase` and `CloseReturn` are the wayland thread's
`xdg_toplevel_handle_close` before, under and after the mutex; `EnterBegin` and `EnterReturn`
enclose the binder call of `keyboard_handle_enter`.

A frame is any sequence of layers. A layer is the key its name carries and whether the mode
draws it; why it is drawn is FrameComposition's.

### FrameComposition

One frame from `hwc_prepare` to the end of `hwc_set`, then another. For each layer: the type
SurfaceFlinger gave it, what `prepare` made of it, and what `handle_layer` of the mode did, with
`SetX` named after the branch. A layer ends up shown on a surface, behind the framebuffer target,
or dropped, and the fence of each is counted. The mode is `closed`, `multi`, or a full-ui or
single-window mode, `composing` or `nonComposing`. Up to `MaxFailures` buffers cannot be created.

### WindowSurfaces

A window is the sequence of what its surfaces show, bottom to top: an app's buffer, the cursor's, or
nothing. `StartSet` is `hwc_set` up to its loop, with the snapshots that replace the bottom surface of
inactive windows; `DrawApp`, `DrawCursorOnWindow`, `DropCursor` and `DrawCursorImage` are one layer each,
with `Commit` for `get_next_layer`, attach and commit; `FinishWithCursor` and `FinishWithoutCursor` are
`reset_cursor` and `post_processing`. `PointerEnter` and `PointerLeave` come at any time, also within a set,
`CloseWindow` between two sets, as `hwc_set` holds the mutex. `committed` is history: what this set
committed to each window.

The properties say when a set has to bring a window up to date, since not every set does: composing modes empty
surplus surfaces only after a geometry change, the others only the cursor's. They except, by name, what the
code gets wrong or leaves open: a window that was closed while the cursor was drawn on it and came back
(`reborn`; the key still names it, and its last surface is emptied whatever it shows), and failed layers.

### FrameTiming

`ReadLastVsync`, `GoToSleep`, `Awoken` and `CallVsync` are the steps of `hwc_vsync_thread` between which the
other threads may write: `last_vsync` is read before the clock, the flag and the callbacks after the sleep.
Feedback sets `last_vsync` to any stamp, in the future too (`Quotient` rounds towards zero, as the division
of durations does). `RetireFence` is the end of `hwc_set`; sync points are compared as the kernel does,
modulo `SyncPoints` (2^32 in the program).

### Clipboard

| state | in the code |
|---|---|
| `clipboard`, `mimeTypes` | `display->clipboard`, `clipboard_offer_mime_types` |
| `reads` | the calls of `read_selection` in the order they began, each with its thread and its pipe; those that ended stay in the list |
| `slow` | the thread that took the first event off the queue and has not run its handler yet (libwayland runs handlers without its lock) |
| `binder` | the binder thread between the first line of `sendClipboardData` and the rest |
| `requests`, `events` | the connection: to the compositor, to us |
| `selection`, `owner`, `asked` | the compositor and the other clients (external) |
| `overtaken` | history: the last selection was handled while an earlier event was in the other thread's hands or while a read ran |

The wayland thread dispatches in its main loop, SurfaceFlinger's in the roundtrips of `window::create`, which
is whenever it likes: `Dispatch(t)` lets either thread take the next event, in the main loop, in a roundtrip
or in the roundtrip of a read, but not in `read()`. So `read_selection` may run on both threads at once, as
well as nested on one. `ReadSelection` is `read_selection` up to its roundtrip, `RoundtripReturns`, `ReadText`
and `ReadEnds` the rest. A selection of our own comes back to us as an offer, and `HandleSend` has to write the
text that `ReadText` waits for: that works because the `send` comes before the callback of the roundtrip, so
that the reading thread runs it itself or the other one has it in its hands. A callback that the other thread
runs, between the look of the one in the roundtrip at its flag and that one's sleep in `poll()`, leaves it
asleep until there is another event (`HandleDone`, `Wake`; `Stranded` in `ReadsReturn`).

### WindowService

Windows are visited in the order of their keys and only the first one of an app counts (`First`, the loop's
`break`). `PointerCaptureBegin` tests the pointer before it takes the mutex; `CaptureAborts` is what happens
when the wayland thread drops it in between. `CloseWindow` takes lock and inhibitor with the window, and not
the relative pointer; `PointerVanishes` leaves it on a pointer that is gone: `stray` names these two cases.

### UserData

`AddListener` and `Reset` with its two calls, by either thread; `Create`, `DeleteId` and the start of a
callback are libwayland's: an id is free again once the compositor confirmed the deletion, which also either
thread may dispatch. `found` is what `get_user_data` gives the callback.

### SnapshotWorker

`BeginSet` is `hwc_set` up to the mutex, with the clearing of the cache; `CleanupSnapshots`
queues the inactive windows and posts `egl_go`, `SnapshotsDone` is the return of
`sem_wait(egl_done)`. `SetLayer` is a layer with a dmabuf; `StartRender` and `RenderDone` are an shm
buffer, handed to the same worker. The worker's actions are the steps of `egl_loop`. Pointers into
the cache whose buffer was erased become `Freed`; reading one is what
`SnapshotReadsLiveBuffer` forbids. What a freed buffer holds is undefined, so the worker may skip
such a window or draw it.

### AudioHal

A call of a stream is `Call`, `LockFirst`, `LockSecond`, and then the body: `StartSucceeds`,
`StartFails` (open, parameters, prepare or state, which differ in what is left in `pcm`),
`KeepRunning`, the transfer with only the stream's mutex, `Standby`, `SetParameters`. Outputs
lock the device first and inputs the stream. A failed read goes on with `in_standby` before it returns.
`adev_open_*`, `adev_close_output_stream` and `adev_set_mic_mute` take no mutex. AudioFlinger's
side (external): one thread reads an input at a time, nobody uses a stream being closed, and an output
is put in standby before it is closed.

### GrallocBuffers

Each call runs under `dmod->mutex` (except for `gbm_mod_close_gpu0`), so each is an action. Handles are
*addresses*: a freed one comes back for another buffer. `boOf` is the map with the NULL entries that
`operator[]` leaves behind. `TakeLock` is the common end of a successful lock, `LockYcbcr` the lock that may
fail after it. `held` is a history variable: the locks clients think they have. Clients unlock only what
they hold. After the device has been destroyed its users' behaviour is undefined, and the model stops there.

### InputDevices

`wl_display_dispatch` (wayland thread) and `wl_display_roundtrip` (SurfaceFlinger's, from
`window::create`) dispatch the same queue, and libwayland runs handlers without a lock. `Dispatch` takes
an event off the queue, in the order the compositor sent them; the handler's steps follow and may
interleave with those of the other thread. A step is a write into the pipe, or the change of `keysDown` or `touch_id` before or after it.

| state | in the code |
|---|---|
| `keysDown`, `touch_id`, `surface`, `fd` | `display->keysDown`, `touch_id`, `pointer_surface` or `tablet_surface`, `input_fd` |
| `plugged`, `focus`, `held` | the seat's capability; the compositor's view: has our surface the focus, and what did it tell us is down (external) |
| `android` | what is down once InputFlinger has read the pipe (external: a pipe keeps its order, so reading later changes nothing) |
| `run` | the handler of each thread |
| `excused` | history: whose last event did not fit into the pipe or overlapped another handler |

A write is complete or, when the pipe is full or nobody reads it, lost: the handlers only log that. What
then remains wrong in Android is what `excused` names, key by key and slot by slot: a release that is lost
leaves its key down, a motion event sent after the up event of another thread leaves a ghost contact, and a
down event overlapped by its up event leaves a slot taken. The code does all of this, and the properties do
not say otherwise: they say that *nothing else* can go wrong. An event that
gets through without overlap clears its entry. The devices share no state, so each behaviour follows one.

### PointerMotion

Doubles are counted in fractions of 1.0. `Axis` has the source's use of the vertical accumulator for
the horizontal remainder (`Remainder`). Each handler reduces its accumulator, or moves `ptrPrvX` on, and then
writes: a write that does not fit loses the motion for good. `wheelOwed` and `owed` are history, what came in
less what Android read; `wheelLost` and `lost` what was in the events that did not fit. `pointer_handle_motion`
and `handle_relative_motion` write REL_X to the same device, so they are one group and count together. The
handlers are atomic.

## 3. Runs

| run | module, cfg | what it shows | bounds |
|---|---|---|---|
| `window_single` | MCWindowLifecycle, WindowSingle | single-window and full-ui modes: `OpenWindowsAccurate`, `WindowsFitMode`, `CreateIsFresh`, `ClosedAppStaysClosed`, `FocusedWindowAlive`, refinement of WindowRegistry; `SetCompletes` and `CloseCompletes` | 2 tasks, one blacklisted, 2 layers, 3 windows |
| `services` | MCServices, Services | the multi-window mode, started in the background: `MultiShowsEveryTask`; `ClipboardSettles`, `ReadsReturn`; `CapturedPointersMove`; `CallbacksFindTheirData` | 2 tasks, 2 layers, 3 windows; 2 selections; 2 apps, 2 tasks and the full-ui window, 2 pointers; 3 objects, 2 ids |
| `window_nested_focus` | WindowNestedFocus | violation, see findings | |
| `frame_composition` | MCFrames, Frames | `FencesClosedOnce`, `EveryLayerShownOnce`, `ZOrderKept`; `ShowsTheFrame`, `OneCursor`; `VsyncsAdvance`, `OneLateVsync`, `OnlyLastFencePending` | 3 layers, target, 1 failure; 2 tasks, 2 layers and the cursor, 5 configurations, 1 failure (`MaxUndrawn`); period 3, time 8, 4 stamps, 4 sync points |
| `snapshot` | MCSnapshotWorker, Snapshot | all four configurations of composition and buffers: `HandOverExclusive`, `QueuedWindowsOpen`, `UncomposedReadsLiveBuffer`, `SwitchLeavesSnapshot`, `SetCompletes` | 2 tasks, 2 handles, 2 metadata, 1 layer |
| `snapshot_freed_buffer`, `snapshot_missed` | SnapshotFreedBuffer, SnapshotMissed | violations | 1 metadata |
| `audio` | MCAudioHal, Audio | `TransferHasPcm`, `ActiveStreamRuns`, `FailedReadReopens`, `CallsReturn` | 2 outputs, 1 input, 2 threads |
| `gralloc_buffers` | MCGrallocBuffers, GrallocBuffers | `HandlesHaveBuffers`, `MappedWhileLocked`, `HeldLocksCount` | 2 handles, 2 locks each |
| `input` | MCInput, Input | `ReleasedAreUp`, `ContactsAreFingers`, `LiftedFingersFreeSlots`; `MotionKept` | 2 threads, 2 keys, 3 fingers, 2 slots; 4 fractions, 12 of them lost per axis (`MaxLost`) |
| `gralloc_unregister`, `gralloc_ycbcr` | GrallocUnregister, GrallocYcbcr | violations | 1 handle |

**Why the bounds are enough.** The windows' code treats tasks alike but for the blacklist, and the
single-window mode tells apart only the first task and the others: two tasks, one of each kind, give every
case. Three windows let a key be closed and re-created while another one is open. In a frame the skipped
range has a first, an inner and a last layer, and the target comes after all of them: three layers give each
place to each kind of layer. Two apps are needed to switch, and two handles to have a buffer lost and
another kept. A deadlock of two mutex orders needs two threads, as does a standby in the middle of a
transfer. Gralloc's handles do not interact except through an address used again; two locks are needed for
nesting. Two keys let the leave handler pass one and stop at another; three fingers are one more than there
are slots. Two app layers and a cursor leave surfaces over when the next set draws fewer, and two tasks let
the pointer move from one drawn window to another. Feedback may lie more than a period behind, between,
before and more than a period ahead of the clock; four sync points wrap around within five sets. Two
selections give two reads, which nest on one thread or run on both, and one to be overtaken by the other; a
source of ours and one of the desktop's, and one cancelled while its text is written. `MaxLost` is three whole
steps, so that losses add up and cancel out. Three objects on two ids have an id used again
while the callback of its former object runs. The proofs lift the bounds where they reach.

**Symmetry** is used in `gralloc_buffers` (handle addresses), `input` (fingers) and `frame_composition`
(tasks): none is ever told apart from its like, and no liveness is checked there.

**Fairness.** *Windows*: each thread goes on running its handlers (WF); taking the mutex is SF, because the
wayland thread and SurfaceFlinger give it back again and again; `FinishCreate` is SF because a roundtrip
returns after finitely many nested handlers. No fairness on Android's side, on the user or on frames.
*SnapshotWorker*: WF of SurfaceFlinger's thread and of the worker; nobody else waits on their semaphores.
*AudioHal*: SF of each thread, as a mutex released again and again is got at last, and pulse answers every
transfer; no fairness on callers. *Clipboard*: WF of the wayland thread, which dispatches all the time; of
SurfaceFlinger's while it has a handler or a read to finish (`Busy`), not of its coming to dispatch; of the
compositor once a roundtrip has flushed (`Flushed`); and of a client that was asked for its text (without it
`read()` blocks for ever, which is the client's doing). None on Android or on users.

**Deadlock** is checked in every run.

**Types.** The type invariant of every module is a theorem. Runs repeat it where one composes several
modules, as one (`FramesTypeOK`, `ServicesTypeOK`), and `InputTypeOK`: that what is
down in Android is a key, or a slot, of the one device there is.

## 4. Findings

Disagreements of the source with its own comments and messages, each shown by a run that TLC ends with a
counterexample:

1. `window_nested_focus`: `keyboard_handle_enter` takes windowsMutex against "Window was destroyed in
   hwc_set", but a close handler destroys its window after it has released the mutex.
2. `snapshot_freed_buffer`: when this side composes, a geometry change clears the buffer cache before the
   snapshots are made from it.
3. `snapshot_missed`: after a set that shows no app, the app shown before never gets its snapshot.
4. `gralloc_unregister`: "no-op for handles created locally" is not so.
5. `gralloc_ycbcr`: a lock refused for its format stays.

Two more are visible in `GrallocBuffers` without a run: "allow multiple locks with compatible usages"
(`gralloc_gbm.cpp:484`) holds for hardware locks only, as `Mappable` shows, and closing gpu0 leaves a
dangling device that the next open takes for initialized (`CloseGpu0`, then `OpenDevice`). And
`pointer_handle_axis` keeps the fraction of the *vertical* accumulator for horizontal scrolling
(`wayland-hwc.cpp:906`), which `PointerMotion` has as it is; nothing in the source says otherwise, so it is
no run.

Further things the models have as the code does, without a run because nothing in the source claims otherwise:

- A selection that is handled within the roundtrip of another read, on the same thread or on the other, is overtaken: the
  older read may finish last and leave the older text, or none, and two reads on two threads may both empty the string and then
  both append, which leaves two texts put together (`overtaken` in Clipboard). The next selection that is handled alone repairs it.
- A callback of `read_selection`'s roundtrip that SurfaceFlinger's thread runs may leave the wayland thread asleep until the next
  event, and the other way round (`Stranded` in Clipboard).
- A window closed while it locks the pointer leaves the relative pointer behind, and a pointer that is unplugged leaves one of
  the old pointer, which a later capture keeps (`stray` in WindowService).
- After a window was closed with the cursor drawn on it and opened again, the next set without a cursor empties the new window's only
  surface (`reborn` in WindowSurfaces).
- A button held while its window closes stays down in Android (`wayland-hwc.cpp:857`).
- `wl_cursor_cursor_handler::apply_cursor` leaves the layer's fence open without a pointer (`cursor_handler.cpp:115`), and `apply_hwc_layer_to_window`
  commits a buffer although it reports a failed `sync_wait`.
- `WaydroidTask::getAppName` reads the text of a temporary `String8` after its end (`WaydroidTask.cpp`, not modelled).

## 5. Proofs

**WindowLifecycleProofs**: for any finite set of tasks, any blacklist, both modes and any bounds
(`WindowAssumption`), `Spec => []IInv` with

    IInv == TypeOK, OpenWindowsAccurate, LockInv, PendingInv, MapInv,
            CloserInv, FocusInv, ModeInv, IgnoredInv

The invariants the runs check are not inductive as they stand. `CreateIsFresh` needs to know who owns the
mutex while a window is created (`LockInv`), that the pending instance is the newest and for a key of the
frame (`PendingInv`), and that the map holds created instances under their own keys (`MapInv`), or else a
close by key could touch another one. `WindowsFitMode` needs the same for the target of the single-window
mode (`ModeInv`). `ClosedAppStaysClosed` rests on `IgnoredInv`: an ignored task that is the target has no
window that was not closed early, which the cleanup establishes and every close keeps. `FocusedWindowAlive`
follows from `FocusInv`: while the wayland thread has the mutex nobody erases what it focuses. There is one
lemma per action that changes the map, one for the handlers that do not. `ImplementsRegistry` shows that
each step is a step of WindowRegistry or leaves it alone, under the mapping `phase <- PhaseOf`.

**GrallocBuffersProofs**: for any handles and any number of locks, `LocksInv` (types, `MappedWhileLocked`,
`HeldLocksCount`, and that an unlocked buffer is locked for nothing) is inductive. The last part is what a
first lock needs, since it joins its usage to `locked_for`; the count's lower bound needs
`HeldLocksCount`, so that even the types are not inductive alone. `HandlesHaveBuffers` is proved under the
assumption that clients unregister only what they registered; `gralloc_unregister` shows it false without.

**SnapshotWorkerProofs**: for any windows, handles, metadata, configurations and layers
(`SnapshotAssumption`), `Spec => []SnapshotInv`, which gives every safety property of the run `snapshot`.
`HandOverExclusive` is the part the others lean on: whoever holds the token of a hand-over, SurfaceFlinger's
thread waits, so the queue is empty whenever a layer is drawn or a window closes (`QueueInv`).
`UncomposedReadsLiveBuffer` needs to know that a cache entry which is erased for other metadata is nobody's
last buffer (`LastInv`: while layers are drawn only the target has a buffer, and its entry has the metadata
of this frame, hence would have been a hit). `SwitchLeavesSnapshot` says something of one moment only, so
`ShownInv` follows the window of the previous set through the next: it has its buffer and no snapshot until
the cleanup, is queued there, and has its copy or is `lost` when the worker answers.

**AudioHalProofs**: for any outputs, inputs and threads (`AudioAssumption`), `AudioInv` is inductive.
`TransferHasPcm` is about the transfer, which runs with the stream's mutex alone: it needs who owns which
mutex (`LockInv`), that a stream out of standby has its pcm and a transfer runs on such a stream (`RunInv`),
and that nobody closes a stream in use (`CloseInv`, AudioFlinger's part). `ActiveStreamRuns` needs the same
of the stream the device points to. `FailedReadReopens` needs that one thread at a time reads an input
(`ReadInv`, AudioFlinger's part) and that a failed read has its standby still before it (`BrokenInv`).

**FramesProofs**, for frames of any length and any number of failing buffers (`CompositionAssumption`): the
invariant is a loop invariant of `hwc_set`. `FencesClosedOnce` needs when the framebuffer target's fence is
closed, which may be long before its turn: exactly if it had its turn or was drawn in the place of the first
layer it shows (`TargetDrawn`, `ClosedInv`). `EveryLayerShownOnce` and `ZOrderKept` need that the layers
drawn so far are those that were handled and have a surface (`DrawnInv`), and that what they show lies below
what is still to come (`OrderInv`). Its last part is about FrameTiming, for any positive period, length of
time and stamps, and four or more sync points (`TimingAssumption`). `NextPoint` is arithmetic: with the
source's division, which rounds towards zero (`RoundsTowardsZero`), the next vsync is on the grid of the
last feedback, later than now, and less than two periods away, also for feedback from the future.
`VsyncsAdvance` follows with the clock's part (`ClockInv`). `OneLateVsync` needs that the vsync thread is
past its test only if the callback was enabled at the time of the test (`LateInv`). `OnlyLastFencePending`
needs that the next sync point is the one after the timeline (`FenceInv`), and arithmetic modulo
`SyncPoints` for the wrap-around (`WrapSmall`, `WrapOver`); its types need `ClockInv` and `FenceInv` both.
`FramesTypes` is about the specification that TLC runs: a step of one part leaves the variables of the other
two alone, so the three invariants hold together (`FramesInv`).

**WindowSurfacesProofs**, for any apps, any configurations and numbers of layers (`SurfacesAssumption`):
with composing surfaces, `ShowsTheFrame` is about one set: `lastLayer` counts what was committed
(`Counted`), the bottom surfaces show it, and `post_processing` empties the others (`ComposedInv`). Without,
it is about several sets, since the cursor's surface is emptied in a later set than it was committed in, and
as the *last* surface of the window, whatever that is. `FullUiInv` says why that is never the app's: the
full-ui window has two surfaces once a cursor was committed on it, and `windowKey` tells whether the second
one shows something (`TwoSurfaces`), for each of the three frames such a set can have and each point in it
(`FullUiLayers`, `Progress`). `OneCursor` adds that a cursor is committed on one window at most, and not
before its layer (`CursorInv`).

**InputDevicesProofs**, for any number of threads, keys, fingers and slots (`InputAssumption`): handlers are
several steps long and may overlap, so `IInv` says of all that is not as it should be which running handler
is going to mend it, or that it is `excused`: its last event was lost or written by an overlapped handler. A
key that is down in Android is held, excused, or some handler `Releases` it; a contact that differs from a
finger is excused, or a handler `Writes` its slot; a slot is of a finger on the screen, excused, or a handler
`Frees` it. A handler that nobody overlapped is alone (`OverlapInv`), so nothing but its own steps happened
since its event. `ReleasedKeysAreUp`, `ContactsFollowSlots` and `SlotsComeBack` have that exception in their
statements, and so do not say that a stuck key or a ghost contact is impossible: it is not. The second part
is about PointerMotion, for any step, deltas, positions and number of lost events (`MotionAssumption`):
`MotionKept` needs that the previous position the code keeps is the last event's, and that each handler takes
from its accumulator what it writes, whether or not that fits (`FractionFacts` is the arithmetic of the
remainders).

**ServicesProofs**. *UserData*, for any objects and any non-empty set of ids (`UserDataAssumption`):
`CallbacksFindTheirData` needs that ids in use are unique (`IdsUnique`, libwayland's part), that the map
leads each id to the object which listens with it and to no other (`MapExact`, the repository's part), and
that while a callback runs, another object has its id only if the id was used again meanwhile
(`HandlingKnown`). *WindowService*, for any number of tasks and of pointers that come and go
(`ServiceAssumption`): `CapturedPointersMove` needs that only open windows hold locks and which pointer the
relative one is of (`ServiceInv`). *Clipboard*, for any number of selections: `ClipboardSettles` speaks of
the moment when everything was handled, so `ClipboardInv` says what is on its way. What is said of a read
travels in one line, the events before the requests (`Line`): its pipe as `receive` and then as `send`, its
callback as `sync` and then as `done`. `LineInv`: each of them is in one place and the pipe comes first; an
open pipe is in the line or in the hands of a client that was asked; and a pipe outlasts its roundtrip only in
the hands of the other thread. So each text comes once. `OffersInv`: an offer is followed by its selection, so
`mimeTypes` fits when that is handled, unless an earlier event was in another thread's hands; the last
selection among the events is the compositor's. `SettlingInv`: if no selection is on its way any more and the
last was handled alone, then at most one read runs, and the string will hold the selection's text once
(`OneRead`), or does already. The exception, `overtaken`, is in the statement: nothing is said of the
string after two handlers or reads that overlapped. `ServicesTypes` is about the specification that TLC runs, as `FramesTypes` is.

**What liveness rests on.** `SetCompletes`, `CloseCompletes`, `CallsReturn` and `ReadsReturn` hold under
fairness and are out of the prover's reach. What the code has to provide for them is safety, and proved for
every value of the constants:

- *AudioHal*: no circle of threads that wait for each other's mutex, although outputs take the device's first
  and inputs the stream's: a waiting thread waits for one of lower `Rank` (`MutexWaitsDescend`, from who holds
  what at each step, `HoldInv`). So while a call is under way, one can go on (`AudioNeverStuck`).
- *SnapshotWorker*: `egl_go` and `egl_done` never have both threads waiting (`OneCanGoOn`), and every step of
  either thread during a set, and a window closed meanwhile, takes at least one from `StepsLeft`, a natural
  number (`SetsEnd`).
- *WindowLifecycle*: the loop of `hwc_set` always has a next step, and who has the mutex waits for nobody
  (`LoopGoesOn`); `hwc_set` ends after at most `2 * MaxLayers + 2` of its own steps, whatever handlers are
  nested in them (`SetsEnd`).
- *Clipboard*: a thread in `read_selection` waits neither for itself nor for nobody (`ReadsGoOn`). In its
  roundtrip the callback is on its way, for either thread to take; in `read()` the pipe has no writer any more,
  or a desktop client has been asked, or the other thread has the `send` in its hands and is not in `read()`
  itself, so the two never block on each other. It follows from `LineInv` and from what `ReadsInv` says of
  the threads.

Only model-checked is the step from there to liveness under fairness. Every invariant and action property of
a passing run is stated by a theorem. The violated properties are not theorems.

## 6. Abstractions

- Names, geometry, damage, pixels, and Wayland requests that no other state depends on are left out.
- `window::create` succeeds: it fails only if the memory of its background buffer cannot be had, and then its
  callers dereference the null pointer.
- `assert` is compiled out, as in a release build. (The wrappers' conversion asserts an object, and the code
  converts null wrappers to test them.) What an assert says is a property where a run can tell.
- `waydroid.*` properties that are read once are constants; `active_apps` changes at any time.
- Calls to the task service have no effect but the layers of later frames, which are arbitrary.
- Data races: one on a string, on the list of offered types or on a flag is an order of whole accesses (Clipboard, FrameTiming);
  races on other containers (`layer_names`, `layers` under an input handler) are hazards without a model.
- A text fits into a pipe (64 KiB): `data_source_handle_send` does not block. Larger texts of our own would stop the
  wayland thread in `write()`, since nobody else reads.
- WindowSurfaces: windows close between two sets only (WindowLifecycle has the nested close handlers); `pointer_surface` of a
  closed window belongs to no window; the single-window mode with a blacklisted first task is like `closed`; a frame has at most one
  cursor; with an empty full-ui frame the windows keep what they show; a snapshot is a copy of the last buffer, which may be the cursor's.
- Clipboard: a text that is freed while the other thread writes it is any text or none; SurfaceFlinger's thread dispatches at any
  time, not only while it creates a window; a string written by two threads is only left out of `ClipboardSettles`, by `overtaken`.
- PointerMotion's handlers are atomic, although two threads may run them: a race on the doubles is a hazard without a model;
  WindowService's calls are, but for the test before the mutex.
- Stubs and forwarding services (sensors, lights, vibrator, power, memtrack, health, task, binder proxies) keep no state a property
  could relate to another. Gatekeeper's logic is in a library outside of the repository.

## 7. Plan

1. Done: windows, their refinement and proofs; frames; buffers and worker; audio; gralloc; input.
2. Done: surfaces and the cursor (`WindowSurfaces`), vsync and retire fence (`FrameTiming`), clipboard, window service, user data.
3. Done: theorems of every module: types, and every safety property that a run checks.
4. Done: the safety part of each liveness property; the composed specifications.
5. Done: the clipboard's handlers on both dispatching threads, and the motion that a full pipe loses on every axis.
6. Next: PointerMotion's handlers in steps, on two threads, as InputDevices has them; and what `window_nested_focus` shows,
   restated for a fixed `keyboard_handle_enter`.

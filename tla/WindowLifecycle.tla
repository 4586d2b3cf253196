-------------------------- MODULE WindowLifecycle --------------------------
(***************************************************************************)
(* The toplevel windows of the hwcomposer: SurfaceFlinger's thread picks a  *)
(* mode in hwc_prepare and creates and erases windows in hwc_set; the       *)
(* wayland thread handles "close" and "keyboard enter" events and takes     *)
(* display->windowsMutex to do so.  window::create waits for its first      *)
(* configure event with wl_display_roundtrip while hwc_set holds the mutex, *)
(* and the mutex is recursive: the same handlers then also run, nested, on  *)
(* SurfaceFlinger's thread.  Android (the container's session manager and   *)
(* the apps) writes the property waydroid.active_apps and chooses the       *)
(* layers of every frame.                                                   *)
(***************************************************************************)
EXTENDS Naturals, Sequences, FiniteSets

CONSTANTS
  Tasks,           (* task ids that appear in layer names "TID:<task>#..."    *)
  Blacklisted,     (* the tasks for which is_blacklisted(aid, component)      *)
  MultiWindows,    (* persist.waydroid.multi_windows, read once               *)
  BackgroundStart, (* waydroid.background_start                               *)
  MaxLayers,       (* BOUND: layers per frame                                 *)
  MaxWindows       (* BOUND: windows ever created                             *)

ASSUME WindowAssumption ==
  /\ IsFiniteSet(Tasks)
  /\ Tasks \cap {"Waydroid", "InputMethod", "BootAnimation"} = {}
  /\ Blacklisted \subseteq Tasks
  /\ MultiWindows \in BOOLEAN
  /\ BackgroundStart \in BOOLEAN
  /\ MaxLayers \in Nat
  /\ MaxWindows \in Nat \ {0}

Keys == Tasks \cup {"Waydroid", "InputMethod"}
Ids  == 1..MaxWindows
None == 0   \* no window, no instance

(* A layer as hwc_set sees it: the window key its name carries, and whether *)
(* the mode draws it (overlay and not skipped, with a buffer handle).       *)
Layers == [name : Tasks \cup {"InputMethod", "BootAnimation"}, drawn : BOOLEAN]
Frames == UNION {[1..n -> Layers] : n \in 0..MaxLayers}

Modes == {"closed", "fullUi", "single", "multi"}

VARIABLES
  windows,    (* display->windows: the instance open for each key, or None  *)
  keyOf,      (* the key of every instance created so far                   *)
  created,    (* how many instances were created                            *)
  openProp,   (* the property waydroid.open_windows                         *)
  ignored,    (* display->ignored_apps                                      *)
  activeApps, (* the property waydroid.active_apps                          *)
  lock,       (* the owner of display->windowsMutex                         *)
  hwcPc,      (* where SurfaceFlinger's thread is                           *)
  frame,      (* the layers of the current frame                            *)
  mode,       (* pdev->selected_mode                                        *)
  target,     (* {} or {target_layer_tid} of the single-window mode         *)
  next,       (* the layer hwc_set handles next                             *)
  pending,    (* the instance inside window::create, or None                *)
  hwcFocus,   (* the instance a nested keyboard_handle_enter works on       *)
  wlPc,       (* where the wayland thread is                                *)
  wlWin,      (* the instance its close handler holds a strong reference to *)
  wlFocus,    (* the instance its keyboard_handle_enter works on            *)
  early       (* history: instances closed before they were in the map      *)

hwcVars == <<hwcPc, frame, mode, target, next, pending, hwcFocus>>
wlVars  == <<wlPc, wlWin, wlFocus>>
mapVars == <<windows, openProp, ignored>>
vars    == <<mapVars, keyOf, created, activeApps, lock, hwcVars, wlVars, early>>

-----------------------------------------------------------------------------
(* The map of open windows.                                                 *)

OpenKeys == {k \in Keys : windows[k] # None}

(* The instances some shared_ptr keeps alive: the map, window::create, and  *)
(* the close handler of the wayland thread.                                 *)
Alive(i) ==
  /\ i # None
  /\ i \in {windows[k] : k \in Keys} \cup {pending, wlWin}

CountOpen(w) == Cardinality({k \in Keys : w[k] # None})

Keeping(S) == [k \in Keys |-> IF k \in S THEN windows[k] ELSE None]

(* open_windows::erase_if: the property is written whether or not something *)
(* was erased.                                                              *)
EraseAllBut(S) ==
  /\ windows' = Keeping(S)
  /\ openProp' = CountOpen(windows')

(* Mutant: erase(key) forgets to write the property.                        *)
EraseKeySilently(k) ==
  /\ windows' = [windows EXCEPT ![k] = None]
  /\ UNCHANGED openProp

(* open_windows::erase(key): the property is written only if key was there. *)
EraseKey(k) ==
  /\ windows' = [windows EXCEPT ![k] = None]
  /\ openProp' = IF windows[k] # None THEN CountOpen(windows') ELSE openProp

(* clear_open_windows                                                       *)
ClearOpenWindows ==
  /\ windows' = Keeping({})
  /\ openProp' = 0
  /\ ignored' = {}

(* The part of xdg_toplevel_handle_close that runs under windowsMutex: it   *)
(* erases by key, whatever instance has that key now.                       *)
CloseUnderLock(i) ==
  /\ ignored' = ignored \cup {keyOf[i]}
  /\ EraseKey(keyOf[i])

(* Its part before the lock: the full-ui window (task id "0") switches      *)
(* active_apps to "none"; removeTask and removeAllVisibleRecentTasks only   *)
(* ask Android to change its layers.                                        *)
NotifyTaskService(i) ==
  activeApps' = IF keyOf[i] = "Waydroid" THEN "none" ELSE activeApps

-----------------------------------------------------------------------------
(* hwc_prepare and hwc_set, on SurfaceFlinger's thread.                     *)

LayerNames(f) == {f[n].name : n \in DOMAIN f}

(* select_mode: a boot animation forces the full-ui mode unless Android was *)
(* started in the background.                                               *)
SelectMode(f) ==
  LET apps == IF /\ activeApps # "Waydroid"
                 /\ ~BackgroundStart
                 /\ "BootAnimation" \in LayerNames(f)
              THEN "Waydroid" ELSE activeApps
  IN IF apps = "none" THEN "closed"
     ELSE IF apps = "Waydroid" THEN "fullUi"
     ELSE IF MultiWindows THEN "multi" ELSE "single"

(* The first layer that names a task, as a set of at most one task.         *)
FirstTask(f) ==
  {f[n].name : n \in {m \in DOMAIN f : /\ f[m].name \in Tasks
                                       /\ \A l \in 1..(m - 1) : f[l].name \notin Tasks}}

(* How many windows one set may create: one per layer in the multi-window   *)
(* mode, one in the others.                                                 *)
NewPerSet == IF MultiWindows THEN MaxLayers ELSE 1

(* hwc_prepare.  The guard on created bounds the windows a model creates.   *)
Prepare(f) ==
  /\ hwcPc = "idle"
  /\ created + NewPerSet <= MaxWindows
  /\ frame' = f
  /\ mode' = SelectMode(f)
  /\ target' = {}
  /\ next' = 1
  /\ hwcPc' = "prepared"
  /\ UNCHANGED <<mapVars, keyOf, created, activeApps, lock, pending, hwcFocus, wlVars, early>>

(* closed_mode::cleanup_stale_windows                                       *)
CleanupClosed ==
  /\ mode = "closed"
  /\ ClearOpenWindows
  /\ UNCHANGED target

(* Mutant: full-ui leaves the windows of the apps open.                     *)
CleanupFullUiKeepingApps ==
  /\ mode = "fullUi"
  /\ EraseAllBut(Keys)
  /\ UNCHANGED <<ignored, target>>

(* full_ui_mode_base::cleanup_stale_windows: ignored_apps is left alone.    *)
CleanupFullUi ==
  /\ mode = "fullUi"
  /\ EraseAllBut({"Waydroid"})
  /\ UNCHANGED <<ignored, target>>

(* multi_window_mode::cleanup_stale_windows: windows without a layer that   *)
(* this mode draws go.                                                      *)
DrawnNames == {frame[n].name : n \in {m \in DOMAIN frame : frame[m].drawn}}
CleanupMulti ==
  /\ mode = "multi"
  /\ EraseAllBut(DrawnNames)
  /\ ignored' = {}
  /\ UNCHANGED target

(* single_window_mode_base::cleanup_stale_windows, a blacklisted app first: *)
(* everything closes and nothing is shown.                                  *)
CleanupSingleBlacklisted ==
  /\ mode = "single"
  /\ FirstTask(frame) \cap Blacklisted # {}
  /\ ClearOpenWindows
  /\ UNCHANGED target

(* Mutant: the target is chosen without asking ignored_apps.                *)
CleanupSingleIgnoringCloses ==
  /\ mode = "single"
  /\ FirstTask(frame) \cap Blacklisted = {}
  /\ target' = FirstTask(frame)
  /\ EraseKey("Waydroid")
  /\ ignored' = ignored \cap Tasks \cap LayerNames(frame)

(* Otherwise the first task is the target unless the user closed it; the    *)
(* full-ui window goes, the others stay (their snapshots are taken here);   *)
(* apps that Android no longer shows are no longer ignored.                 *)
CleanupSingle ==
  /\ mode = "single"
  /\ FirstTask(frame) \cap Blacklisted = {}
  /\ target' = FirstTask(frame) \ ignored
  /\ EraseKey("Waydroid")
  /\ ignored' = ignored \cap Tasks \cap LayerNames(frame)

(* hwc_set up to its loop: takes the mutex and cleans up.                   *)
BeginSet ==
  /\ hwcPc = "prepared"
  /\ lock = "free"
  /\ lock' = "hwc"
  /\ \/ CleanupClosed
     \/ CleanupFullUi
     \/ CleanupMulti
     \/ CleanupSingleBlacklisted
     \/ CleanupSingle
  /\ hwcPc' = "layers"
  /\ UNCHANGED <<keyOf, created, activeApps, frame, mode, next, pending, hwcFocus, wlVars, early>>

(* The key of the window that the mode's get_window looks up for layer l,   *)
(* as a set of at most one key.                                             *)
WindowKeyFor(l) ==
  IF ~l.drawn \/ mode = "closed" THEN {}
  ELSE IF mode = "fullUi" THEN {"Waydroid"}
  ELSE IF mode = "single" THEN target
  ELSE {l.name} \ (Blacklisted \cup {"BootAnimation"})

(* Mutant: a layer whose window is missing is passed over.                  *)
HandleLayerWithoutWindow ==
  /\ hwcPc = "layers"
  /\ next <= Len(frame)
  /\ next' = next + 1
  /\ UNCHANGED <<mapVars, keyOf, created, activeApps, lock, hwcPc, frame, mode, target,
                 pending, hwcFocus, wlVars, early>>

(* handle_layer when no window is needed or get_window finds it.            *)
HandleLayer ==
  /\ hwcPc = "layers"
  /\ next <= Len(frame)
  /\ WindowKeyFor(frame[next]) \subseteq OpenKeys
  /\ next' = next + 1
  /\ UNCHANGED <<mapVars, keyOf, created, activeApps, lock, hwcPc, frame, mode, target,
                 pending, hwcFocus, wlVars, early>>

(* Mutant: get_window adds a window without looking for the open one.       *)
StartCreateAgain ==
  /\ hwcPc = "layers"
  /\ next <= Len(frame)
  /\ created < MaxWindows
  /\ \E k \in WindowKeyFor(frame[next]) :
        keyOf' = [keyOf EXCEPT ![created + 1] = k]
  /\ created' = created + 1
  /\ pending' = created + 1
  /\ hwcPc' = "creating"
  /\ UNCHANGED <<mapVars, activeApps, lock, frame, mode, target, next, hwcFocus, wlVars, early>>

(* get_window finds no window and calls windows.add: window::create makes   *)
(* the surfaces and waits for the first configure event.                    *)
StartCreate ==
  /\ hwcPc = "layers"
  /\ next <= Len(frame)
  /\ created < MaxWindows
  /\ \E k \in WindowKeyFor(frame[next]) \ OpenKeys :
        keyOf' = [keyOf EXCEPT ![created + 1] = k]
  /\ created' = created + 1
  /\ pending' = created + 1
  /\ hwcPc' = "creating"
  /\ UNCHANGED <<mapVars, activeApps, lock, frame, mode, target, next, hwcFocus, wlVars, early>>

(* window::create returns and open_windows::add emplaces the window.        *)
FinishCreate ==
  /\ hwcPc = "creating"
  /\ hwcFocus = None
  /\ windows' = [windows EXCEPT ![keyOf[pending]] = pending]
  /\ openProp' = CountOpen(windows')
  /\ pending' = None
  /\ next' = next + 1
  /\ hwcPc' = "layers"
  /\ UNCHANGED <<ignored, keyOf, created, activeApps, lock, frame, mode, target, hwcFocus,
                 wlVars, early>>

(* All layers are handled: hwc_set commits and releases the mutex.  The     *)
(* contents go back to SurfaceFlinger; the mode object is replaced by the   *)
(* next hwc_prepare.                                                        *)
EndSet ==
  /\ hwcPc = "layers"
  /\ next > Len(frame)
  /\ hwcPc' = "idle"
  /\ lock' = "free"
  /\ frame' = << >>
  /\ target' = {}
  /\ next' = 1
  /\ UNCHANGED <<mapVars, keyOf, created, activeApps, mode, pending, hwcFocus, wlVars, early>>

(* A close event dispatched by the roundtrip inside window::create: the     *)
(* recursive mutex lets the whole handler run on SurfaceFlinger's thread.   *)
NestedClose(i) ==
  /\ hwcPc = "creating"
  /\ hwcFocus = None
  /\ Alive(i)
  /\ NotifyTaskService(i)
  /\ CloseUnderLock(i)
  /\ early' = IF keyOf[i] = keyOf[pending] THEN early \cup {pending} ELSE early
  /\ UNCHANGED <<keyOf, created, lock, hwcVars, wlVars>>

(* A keyboard enter event dispatched there: setFocusedTask is a binder call *)
(* on the window found through wl_surface_get_user_data, a plain pointer.   *)
NestedEnter(i) ==
  /\ hwcPc = "creating"
  /\ hwcFocus = None
  /\ Alive(i)
  /\ keyOf[i] \in Tasks
  /\ hwcFocus' = i
  /\ UNCHANGED <<mapVars, keyOf, created, activeApps, lock, hwcPc, frame, mode, target, next,
                 pending, wlVars, early>>

NestedEnterReturn ==
  /\ hwcFocus # None
  /\ hwcFocus' = None
  /\ UNCHANGED <<mapVars, keyOf, created, activeApps, lock, hwcPc, frame, mode, target, next,
                 pending, wlVars, early>>

-----------------------------------------------------------------------------
(* The wayland thread.                                                      *)

(* xdg_toplevel_handle_close up to the lock: weak_ptr::lock succeeds, the   *)
(* task service is told.                                                    *)
CloseBegin(i) ==
  /\ wlPc = "idle"
  /\ Alive(i)
  /\ NotifyTaskService(i)
  /\ wlPc' = "closing"
  /\ wlWin' = i
  /\ UNCHANGED <<mapVars, keyOf, created, lock, hwcVars, wlFocus, early>>

(* It takes the mutex, erases and releases the mutex; its own reference is  *)
(* still there, the window is destroyed only when the handler returns.      *)
CloseErase ==
  /\ wlPc = "closing"
  /\ lock = "free"
  /\ CloseUnderLock(wlWin)
  /\ wlPc' = "returning"
  /\ UNCHANGED <<keyOf, created, activeApps, lock, hwcVars, wlWin, wlFocus, early>>

(* The shared_ptr of the handler goes: ~window runs outside the mutex.      *)
CloseReturn ==
  /\ wlPc = "returning"
  /\ wlPc' = "idle"
  /\ wlWin' = None
  /\ UNCHANGED <<mapVars, keyOf, created, activeApps, lock, hwcVars, wlFocus, early>>

(* Mutant: keyboard_handle_enter does not take the mutex.                   *)
EnterBeginUnlocked(i) ==
  /\ wlPc = "idle"
  /\ Alive(i)
  /\ keyOf[i] \in Tasks
  /\ wlPc' = "focusing"
  /\ wlFocus' = i
  /\ UNCHANGED <<mapVars, keyOf, created, activeApps, lock, hwcVars, wlWin, early>>

(* keyboard_handle_enter: setFocusedTask is called with the mutex held.     *)
EnterBegin(i) ==
  /\ wlPc = "idle"
  /\ lock = "free"
  /\ Alive(i)
  /\ keyOf[i] \in Tasks
  /\ lock' = "wl"
  /\ wlPc' = "focusing"
  /\ wlFocus' = i
  /\ UNCHANGED <<mapVars, keyOf, created, activeApps, hwcVars, wlWin, early>>

(* Mutant: the mutex stays taken.                                           *)
EnterReturnLocked ==
  /\ wlPc = "focusing"
  /\ wlPc' = "idle"
  /\ wlFocus' = None
  /\ UNCHANGED <<mapVars, keyOf, created, activeApps, lock, hwcVars, wlWin, early>>

EnterReturn ==
  /\ wlPc = "focusing"
  /\ lock' = "free"
  /\ wlPc' = "idle"
  /\ wlFocus' = None
  /\ UNCHANGED <<mapVars, keyOf, created, activeApps, hwcVars, wlWin, early>>

-----------------------------------------------------------------------------
(* Android's side: waydroid.active_apps is set by the session manager.      *)
SetActiveApps(a) ==
  /\ activeApps' = a
  /\ UNCHANGED <<mapVars, keyOf, created, lock, hwcVars, wlVars, early>>

-----------------------------------------------------------------------------
(* After hwc_open: the first window is kept only without background_start.  *)
Init ==
  /\ windows = [k \in Keys |-> IF k = "Waydroid" /\ ~BackgroundStart THEN 1 ELSE None]
  /\ keyOf = [i \in Ids |-> "Waydroid"]
  /\ created = IF BackgroundStart THEN 0 ELSE 1
  /\ openProp = CountOpen(windows)
  /\ ignored = {}
  /\ activeApps = IF BackgroundStart THEN "none" ELSE "Waydroid"
  /\ lock = "free"
  /\ hwcPc = "idle"
  /\ frame = << >>
  /\ mode = "closed"
  /\ target = {}
  /\ next = 1
  /\ pending = None
  /\ hwcFocus = None
  /\ wlPc = "idle"
  /\ wlWin = None
  /\ wlFocus = None
  /\ early = {}

Next ==
  \/ \E f \in Frames : Prepare(f)
  \/ BeginSet
  \/ HandleLayer
  \/ StartCreate
  \/ FinishCreate
  \/ EndSet
  \/ \E i \in Ids : NestedClose(i)
  \/ \E i \in Ids : NestedEnter(i)
  \/ NestedEnterReturn
  \/ \E i \in Ids : CloseBegin(i)
  \/ CloseErase
  \/ CloseReturn
  \/ \E i \in Ids : EnterBegin(i)
  \/ EnterReturn
  \/ \E a \in {"none", "Waydroid", "app"} : SetActiveApps(a)

Spec == Init /\ [][Next]_vars

(* Both threads keep running their handlers; a thread waiting for the mutex *)
(* gets it if it is free again and again; a roundtrip dispatches finitely   *)
(* many events; the task service answers.                                   *)
Fairness ==
  /\ SF_vars(BeginSet)
  /\ WF_vars(HandleLayer)
  /\ WF_vars(StartCreate)
  /\ SF_vars(FinishCreate)
  /\ WF_vars(EndSet)
  /\ WF_vars(NestedEnterReturn)
  /\ SF_vars(CloseErase)
  /\ WF_vars(CloseReturn)
  /\ WF_vars(EnterReturn)

FairSpec == Spec /\ Fairness

-----------------------------------------------------------------------------
(* Every variable has the type the code gives it.                           *)
TypeOK ==
  /\ windows \in [Keys -> {None} \cup Ids]
  /\ keyOf \in [Ids -> Keys]
  /\ created \in {None} \cup Ids
  /\ openProp \in Nat
  /\ ignored \subseteq Keys
  /\ activeApps \in {"none", "Waydroid", "app"}
  /\ lock \in {"free", "hwc", "wl"}
  /\ hwcPc \in {"idle", "prepared", "layers", "creating"}
  /\ frame \in Frames
  /\ mode \in Modes
  /\ target \subseteq Tasks
  /\ next \in Nat \ {0}
  /\ pending \in {None} \cup Ids
  /\ hwcFocus \in {None} \cup Ids
  /\ wlPc \in {"idle", "closing", "returning", "focusing"}
  /\ wlWin \in {None} \cup Ids
  /\ wlFocus \in {None} \cup Ids
  /\ early \subseteq Ids

(* waydroid.open_windows always tells the number of open windows: every     *)
(* path that changes the map (erase_if, erase, clear, add, from either      *)
(* thread, nested or not) writes it.                                        *)
OpenWindowsAccurate == openProp = Cardinality(OpenKeys)

(* While hwc_set handles layers, the open windows are those of its mode,    *)
(* whatever the close handlers erase meanwhile.  Full-ui is what the        *)
(* asserts of full_ui_mode_base::get_window check.                          *)
WindowsFitMode ==
  hwcPc \in {"layers", "creating"} =>
    /\ mode = "closed" => OpenKeys = {}
    /\ mode = "fullUi" => OpenKeys \subseteq {"Waydroid"}
    /\ mode = "single" => "Waydroid" \notin OpenKeys
    /\ mode = "multi"  => OpenKeys \subseteq DrawnNames

(* When a multi-window set is done, every drawn layer of a task that is not *)
(* blacklisted has its window, except for a task that the user closed while *)
(* this set was waiting for a configure event.                              *)
MultiShowsEveryTask ==
  hwcPc = "layers" /\ next > Len(frame) /\ mode = "multi" =>
    (DrawnNames \ (Blacklisted \cup {"BootAnimation"})) \subseteq OpenKeys \cup ignored

(* assert(res.second) in open_windows::add: nothing puts a window for the   *)
(* same key into the map while window::create is waiting.                   *)
CreateIsFresh == hwcPc = "creating" => windows[keyOf[pending]] = None

(* In the single-window mode an app that the user closed has no window as   *)
(* long as Android still shows it, except when the close request came while *)
(* its window was being created, which the handler cannot erase yet.        *)
ClosedAppStaysClosed ==
  ~MultiWindows =>
    \A t \in Tasks \cap ignored : windows[t] # None => windows[t] \in early

(* keyboard_handle_enter on the wayland thread uses a window that stays     *)
(* alive until it returns: windowsMutex keeps hwc_set out.                  *)
FocusedWindowAlive == wlPc = "focusing" => Alive(wlFocus)

(* The same for a keyboard_handle_enter that runs nested in hwc_set.        *)
NestedFocusedWindowAlive == hwcFocus # None => Alive(hwcFocus)

(* A set that has begun ends, and a close request that was taken from the   *)
(* queue is carried out: the mutex, taken by both threads and recursively   *)
(* by one, deadlocks nobody.                                                *)
SetCompletes   == hwcPc = "prepared" ~> hwcPc = "idle"
CloseCompletes == wlPc = "closing" ~> wlPc = "idle"

(* The windows as WindowRegistry sees them.                                 *)
PhaseOf(i) ==
  IF i > created THEN "unborn"
  ELSE IF i = pending THEN "creating"
  ELSE IF windows[keyOf[i]] = i THEN "open"
  ELSE "closed"

Registry == INSTANCE WindowRegistry WITH phase <- [i \in Ids |-> PhaseOf(i)]

(* Every window instance is created once, enters the map once, leaves it    *)
(* for good, and no two live instances share a key.                         *)
RegistrySafety == Registry!RegistrySpec
=============================================================================

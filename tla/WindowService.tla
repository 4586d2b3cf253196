---------------------------- MODULE WindowService -----------------------------
(***************************************************************************)
(* WaydroidWindow, which Android calls on the binder thread: capture the    *)
(* pointer for an app, keep the screen on for a task (minimize changes      *)
(* nothing of the program's).  A captured pointer is locked by a wayland    *)
(* object of the window and moves by the events of one relative pointer that *)
(* all windows share, created with the first lock and destroyed with the    *)
(* last.  Windows come and go between the calls, and the wayland thread drops *)
(* the pointer and gets a new one when the seat's capabilities change       *)
(* (seat_handle_capabilities).                                              *)
(***************************************************************************)
EXTENDS Naturals, FiniteSets

CONSTANTS
  Apps,         (* app ids                                                   *)
  NumTasks,     (* BOUND: tasks, in the order of their keys                  *)
  MaxPointers   (* BOUND: pointers the seat has had                          *)

ASSUME ServiceAssumption == NumTasks \in Nat /\ MaxPointers \in Nat

NoPointer == 0
FullUi    == "Waydroid"

(* The keys of display->windows: the tasks and then "Waydroid", the order   *)
(* in which the calls visit the windows.                                    *)
WindowKeys == 1..(NumTasks + 1)
FullUiKey == NumTasks + 1

(* "*" for a task id.                                                       *)
AllTasks == 0

VARIABLES
  appID,      (* the app of each window; FullUi for the full-ui window       *)
  open,       (* the open windows                                            *)
  fullUi,     (* waydroid.active_apps is "Waydroid"                          *)
  pointer,    (* display->pointer: the how manieth, or NoPointer             *)
  pointers,   (* how many pointers the seat has had                          *)
  lockedBy,   (* window->locked_pointer: the pointer it locks, or NoPointer  *)
  relative,   (* display->relative_pointer: the one it is of, or NoPointer   *)
  inhibitors, (* the windows with an idle_inhibitor                          *)
  call,       (* setPointerCapture past its test of the pointer              *)
  stray       (* history: why the relative pointer may be of no use:         *)
              (* "closed", a window was closed while it locked the pointer;  *)
              (* "replugged", it is of a pointer that is gone                *)

serviceVars == <<appID, open, fullUi, pointer, pointers, lockedBy, relative,
                 inhibitors, call, stray>>

NoCall == [app |-> "none", enabled |-> FALSE]

(* The first window of an app, if there is one.                             *)
Windows(app) == {k \in open : appID[k] = app}
First(K) == CHOOSE k \in K : \A j \in K : k <= j

Locking(lock) == {k \in WindowKeys : lock[k] # NoPointer}

-----------------------------------------------------------------------------
(* setPointerCapture tests the pointer before it takes windowsMutex.        *)
PointerCaptureBegin(app, enabled) ==
  /\ call = NoCall
  /\ pointer # NoPointer
  /\ call' = [app |-> IF fullUi THEN FullUi ELSE app, enabled |-> enabled]
  /\ UNCHANGED <<appID, open, fullUi, pointer, pointers, lockedBy, relative, inhibitors,
                 stray>>

Return == call' = NoCall

Lock(k) ==
  /\ lockedBy[k] = NoPointer
  /\ pointer # NoPointer
  /\ lockedBy' = [lockedBy EXCEPT ![k] = pointer]
  /\ relative' = IF relative = NoPointer THEN pointer ELSE relative
  /\ UNCHANGED stray

(* Mutant: the relative pointer goes with the window's lock.                *)
UnlockAlone(k) ==
  /\ lockedBy[k] # NoPointer
  /\ lockedBy' = [lockedBy EXCEPT ![k] = NoPointer]
  /\ relative' = NoPointer
  /\ stray' = {}

Unlock(k) ==
  /\ lockedBy[k] # NoPointer
  /\ lockedBy' = [lockedBy EXCEPT ![k] = NoPointer]
  /\ IF Locking(lockedBy') = {}
     THEN relative' = NoPointer /\ stray' = {}
     ELSE UNCHANGED <<relative, stray>>

CaptureFirst ==
  /\ call # NoCall
  /\ Windows(call.app) # {}
  /\ IF call.enabled THEN Lock(First(Windows(call.app))) ELSE Unlock(First(Windows(call.app)))
  /\ Return
  /\ UNCHANGED <<appID, open, fullUi, pointer, pointers, inhibitors>>

(* The wayland thread took the pointer away meanwhile: lock_pointer gets a  *)
(* null it must not get, libwayland aborts the process and it starts anew.  *)
CaptureAborts ==
  /\ call.enabled
  /\ pointer = NoPointer
  /\ \E k \in Windows(call.app) : k = First(Windows(call.app)) /\ lockedBy[k] = NoPointer
  /\ open' = {} /\ inhibitors' = {}
  /\ lockedBy' = [k \in WindowKeys |-> NoPointer] /\ relative' = NoPointer /\ stray' = {}
  /\ Return
  /\ UNCHANGED <<appID, fullUi, pointer, pointers>>

(* No window, or nothing to be done for the first one.                      *)
CaptureNothing ==
  /\ call # NoCall
  /\ \A k \in Windows(call.app) : k = First(Windows(call.app)) =>
       (call.enabled <=> lockedBy[k] # NoPointer)
  /\ Return
  /\ UNCHANGED <<appID, open, fullUi, pointer, pointers, lockedBy, relative, inhibitors,
                 stray>>

(* setIdleInhibit, for one task or "*".  In full-ui mode the task is "0",   *)
(* the taskID of the full-ui window.                                        *)
SetIdleInhibit(task, enabled) ==
  /\ LET found == open \cap (IF task = AllTasks /\ ~fullUi THEN WindowKeys
                             ELSE IF fullUi THEN {FullUiKey} ELSE {task}) IN
     inhibitors' = IF enabled THEN inhibitors \cup found ELSE inhibitors \ found
  /\ UNCHANGED <<appID, open, fullUi, pointer, pointers, lockedBy, relative,
                 call, stray>>

-----------------------------------------------------------------------------
(* The other threads, under windowsMutex as far as windows go.              *)

OpenWindow(k, app) ==
  /\ k \notin open
  /\ (k = FullUiKey) <=> (app = FullUi)
  /\ open' = open \cup {k}
  /\ appID' = [appID EXCEPT ![k] = app]
  /\ UNCHANGED <<fullUi, pointer, pointers, lockedBy, relative, inhibitors,
                 call, stray>>

(* ~window destroys its lock and its inhibitor, and knows nothing of the    *)
(* relative pointer.                                                        *)
CloseWindow(k) ==
  /\ k \in open
  /\ open' = open \ {k}
  /\ lockedBy' = [lockedBy EXCEPT ![k] = NoPointer]
  /\ inhibitors' = inhibitors \ {k}
  /\ stray' = IF lockedBy[k] # NoPointer THEN stray \cup {"closed"} ELSE stray
  /\ UNCHANGED <<appID, fullUi, pointer, pointers, relative, call>>

SwitchActiveApps(on) ==
  /\ fullUi' = on
  /\ UNCHANGED <<appID, open, pointer, pointers, lockedBy, relative, inhibitors,
                 call, stray>>

(* seat_handle_capabilities                                                 *)
PointerArrives ==
  /\ pointer = NoPointer
  /\ pointers < MaxPointers
  /\ pointers' = pointers + 1
  /\ pointer' = pointers + 1
  /\ UNCHANGED <<appID, open, fullUi, lockedBy, relative, inhibitors, call, stray>>

PointerVanishes ==
  /\ pointer # NoPointer
  /\ pointer' = NoPointer
  /\ stray' = IF relative # NoPointer THEN stray \cup {"replugged"} ELSE stray
  /\ UNCHANGED <<appID, open, fullUi, pointers, lockedBy, relative, inhibitors, call>>

-----------------------------------------------------------------------------
ServiceInit ==
  /\ appID = [k \in WindowKeys |-> FullUi] /\ open = {} /\ fullUi \in BOOLEAN
  /\ pointer = NoPointer /\ pointers = 0
  /\ lockedBy = [k \in WindowKeys |-> NoPointer] /\ relative = NoPointer
  /\ inhibitors = {}
  /\ call = NoCall /\ stray = {}

ServiceNext ==
  \/ \E app \in Apps, enabled \in BOOLEAN : PointerCaptureBegin(app, enabled)
  \/ CaptureFirst
  \/ CaptureAborts
  \/ CaptureNothing
  \/ \E task \in WindowKeys \cup {AllTasks}, enabled \in BOOLEAN : SetIdleInhibit(task, enabled)
  \/ \E k \in WindowKeys, app \in Apps \cup {FullUi} : OpenWindow(k, app)
  \/ \E k \in WindowKeys : CloseWindow(k)
  \/ \E on \in BOOLEAN : SwitchActiveApps(on)
  \/ PointerArrives
  \/ PointerVanishes

ServiceSpec == ServiceInit /\ [][ServiceNext]_serviceVars

-----------------------------------------------------------------------------
(* Every variable has its type; locks and inhibitors are of open windows.   *)
ServiceTypeOK ==
  /\ appID \in [WindowKeys -> Apps \cup {FullUi}]
  /\ open \subseteq WindowKeys
  /\ {pointer, relative} \subseteq 0..pointers
  /\ lockedBy \in [WindowKeys -> 0..pointers]
  /\ Locking(lockedBy) \cup inhibitors \subseteq open
  /\ call \in [app : Apps \cup {FullUi}, enabled : BOOLEAN] \cup {NoCall}

(* While a window locks the pointer there is a relative pointer to move it  *)
(* by, of the same pointer unless that was unplugged since; and without a   *)
(* lock there is none unless a window took its lock to the grave.           *)
CapturedPointersMove ==
  /\ Locking(lockedBy) # {} => relative # NoPointer
  /\ "replugged" \notin stray => \A k \in Locking(lockedBy) : lockedBy[k] = relative
  /\ Locking(lockedBy) = {} /\ relative # NoPointer => "closed" \in stray
=============================================================================

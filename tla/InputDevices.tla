---------------------------- MODULE InputDevices ----------------------------
(***************************************************************************)
(* The keyboard, touch, pointer-button and tablet handlers of               *)
(* wayland-hwc.cpp: what they write into the pipes Android's InputFlinger    *)
(* reads, and the tables (keysDown, touch_id) they keep beside it.          *)
(*                                                                         *)
(* wl_display_dispatch of the wayland thread and wl_display_roundtrip of    *)
(* SurfaceFlinger's thread both take events from the default queue and run  *)
(* their handlers without a lock, so two handlers may overlap.  The devices *)
(* share no state: a behaviour follows one of them.                        *)
(***************************************************************************)
EXTENDS Naturals, FiniteSets

CONSTANTS
  Threads,         (* the threads that dispatch events                      *)
  Fingers,         (* the ids of wl_touch                                   *)
  NoFinger,        (* touch_id[i] = -1                                      *)
  NumKeys,         (* BOUND: key codes below keysDown.size(), or buttons    *)
  MAX_TOUCHPOINTS

(* The two key codes that the tablet needs are named 1 and 2 below, and a    *)
(* finger is not a slot.                                                    *)
ASSUME InputAssumption ==
  /\ NoFinger \notin Fingers
  /\ Fingers \cap 1..MAX_TOUCHPOINTS = {}
  /\ NumKeys \in Nat \ {0, 1}
  /\ MAX_TOUCHPOINTS \in Nat \ {0}

Keys  == 1..NumKeys
Slots == 1..MAX_TOUCHPOINTS

(* KEY_POWER and codes beyond keysDown.                                     *)
OtherKey == 0
(* Slot -1: create_touch_id found no free slot.                             *)
NoSlot   == 0
(* The tablet's BTN_TOOL_*, and BTN_TOUCH, which its other buttons are like. *)
Tool == 1
Tip  == 2

Devices == {"keyboard", "touch", "pointer", "tablet"}

VARIABLES
  device,    (* the device this behaviour follows                           *)
  plugged,   (* the seat has it: the pipe exists and Android reads it       *)
  fd,        (* input_fd[device] # -1                                       *)
  run,       (* the handler each thread is in                               *)
  focus,     (* compositor: our surface has the focus                       *)
  held,      (* compositor: the keys, fingers or buttons it told us are down *)
  surface,   (* pointer_surface or tablet_surface is set                    *)
  keysDown,  (* display->keysDown                                           *)
  touch_id,  (* display->touch_id                                           *)
  android,   (* the keys or slots that are down once the pipe is read       *)
  excused    (* history: keys, slots and fingers whose last event was lost   *)
             (* or overlapped another handler                               *)

seatVars == <<device, plugged, focus, held>>
tables   == <<surface, keysDown, touch_id>>
pipeVars == <<fd, android, excused>>
vars     == <<seatVars, tables, pipeVars, run>>

Idle == [op |-> "idle", arg |-> OtherKey, i |-> 1, overlap |-> FALSE]

Busy(t) == run[t].op # "idle"

-----------------------------------------------------------------------------
(* Taking events off the queue.                                             *)

Overlapped(t) == [u \in Threads |-> [run[u] EXCEPT !.overlap = u # t /\ Busy(u)]]

(* Thread t runs handler o with argument x.                                 *)
Dispatch(t, o, x) ==
  /\ ~Busy(t)
  /\ run' = [Overlapped(t) EXCEPT
       ![t] = [op |-> o, arg |-> x, i |-> 1, overlap |-> \E u \in Threads : Busy(u)]]

(* Thread t runs a handler that is over at once.                            *)
DispatchAtOnce(t) == ~Busy(t) /\ run' = Overlapped(t)

Return(t)     == run' = [run EXCEPT ![t] = Idle]
GoOn(t, o, n) == run' = [run EXCEPT ![t] = [@ EXCEPT !.op = o, !.i = n]]

(* ensure_pipe: open() fails as long as nobody reads the pipe.              *)
PipeFails  == ~fd /\ UNCHANGED pipeVars
PipeIsOpen == fd' = TRUE

(* What a handler that overlapped another did to x is anybody's guess.      *)
Excuse(t, x) == excused' = IF run[t].overlap THEN excused \cup {x} ELSE excused

(* write(): complete, or not at all when the pipe is full or has no reader. *)
Write(t, x, down) ==
  \/ /\ plugged
     /\ android' = IF down THEN android \cup {x} ELSE android \ {x}
     /\ excused' = IF run[t].overlap THEN excused \cup {x} ELSE excused \ {x}
  \/ /\ UNCHANGED android
     /\ excused' = excused \cup {x}

(* seat_handle_capabilities.  Android notices in /dev/input that a device   *)
(* has gone and forgets what it held down.                                  *)
Plug(t) ==
  /\ ~plugged
  /\ DispatchAtOnce(t)
  /\ plugged' = TRUE
  /\ fd' = FALSE
  /\ touch_id' = IF device = "touch" THEN [s \in Slots |-> NoFinger] ELSE touch_id
  /\ UNCHANGED <<device, focus, held, surface, keysDown, android, excused>>

Unplug(t) ==
  /\ plugged
  /\ device # "tablet"
  /\ DispatchAtOnce(t)
  /\ plugged' = FALSE
  /\ focus' = FALSE
  /\ held' = {}
  /\ android' = {}
  /\ excused' = {}
  /\ UNCHANGED <<device, fd, tables>>

-----------------------------------------------------------------------------
(* The keyboard.                                                            *)

KeyboardEvent == device = "keyboard" /\ plugged

(* keyboard_handle_enter touches none of this (see WindowLifecycle); the    *)
(* keys that are already pressed come in an array it ignores.               *)
KeyboardEnter(t) ==
  /\ KeyboardEvent
  /\ ~focus
  /\ focus' = TRUE
  /\ DispatchAtOnce(t)
  /\ UNCHANGED <<device, plugged, held, tables, pipeVars>>

KeyEvent(t, k) ==
  /\ KeyboardEvent
  /\ focus
  /\ \/ k \notin held /\ held' = held \cup {k} /\ Dispatch(t, "press", k)
     \/ held' = held \ {k} /\ Dispatch(t, "release", k)
  /\ UNCHANGED <<device, plugged, focus, tables, pipeVars>>

KeyboardLeave(t) ==
  /\ KeyboardEvent
  /\ focus
  /\ focus' = FALSE
  /\ held' = {}
  /\ Dispatch(t, "leave", OtherKey)
  /\ UNCHANGED <<device, plugged, tables, pipeVars>>

(* Mutant: without the checks for KEY_POWER and the size of keysDown.       *)
SendAnyKey(t) ==
  /\ device = "keyboard"
  /\ run[t].op \in {"press", "release"}
  /\ \/ PipeFails /\ Return(t)
     \/ /\ PipeIsOpen
        /\ Write(t, run[t].arg, run[t].op = "press")
        /\ GoOn(t, IF run[t].op = "press" THEN "pressed" ELSE "released", 1)
  /\ UNCHANGED <<seatVars, tables>>

(* keyboard_handle_key and send_key_event up to the write.                  *)
SendKey(t) ==
  /\ device = "keyboard"
  /\ run[t].op \in {"press", "release"}
  /\ LET k == run[t].arg IN
     \/ (k \notin Keys \/ PipeFails) /\ Return(t) /\ UNCHANGED pipeVars
     \/ /\ k \in Keys
        /\ PipeIsOpen
        /\ Write(t, k, run[t].op = "press")
        /\ GoOn(t, IF run[t].op = "press" THEN "pressed" ELSE "released", 1)
  /\ UNCHANGED <<seatVars, tables>>

(* Mutant: a key is stored only when it is released.                        *)
StoreRelease(t) ==
  /\ run[t].op \in {"pressed", "released"}
  /\ keysDown' = keysDown \ {run[t].arg}
  /\ Excuse(t, run[t].arg)
  /\ Return(t)
  /\ UNCHANGED <<seatVars, surface, touch_id, fd, android>>

(* The last line of send_key_event, whether or not the write went through.  *)
StoreKey(t) ==
  /\ run[t].op \in {"pressed", "released"}
  /\ keysDown' = IF run[t].op = "pressed" THEN keysDown \cup {run[t].arg}
                                          ELSE keysDown \ {run[t].arg}
  /\ Excuse(t, run[t].arg)
  /\ Return(t)
  /\ UNCHANGED <<seatVars, surface, touch_id, fd, android>>

(* keyboard_handle_leave: its loop over keysDown.                           *)
LeaveSkips(t) ==
  /\ device = "keyboard"
  /\ run[t].op = "leave"
  /\ run[t].i \in Keys
  /\ run[t].i \notin keysDown \/ PipeFails
  /\ GoOn(t, "leave", run[t].i + 1)
  /\ UNCHANGED <<seatVars, tables, pipeVars>>

LeaveSends(t) ==
  /\ device = "keyboard"
  /\ run[t].op = "leave"
  /\ run[t].i \in keysDown
  /\ PipeIsOpen
  /\ Write(t, run[t].i, FALSE)
  /\ GoOn(t, "leaveStore", run[t].i)
  /\ UNCHANGED <<seatVars, tables>>

LeaveStores(t) ==
  /\ run[t].op = "leaveStore"
  /\ keysDown' = keysDown \ {run[t].i}
  /\ Excuse(t, run[t].i)
  /\ GoOn(t, "leave", run[t].i + 1)
  /\ UNCHANGED <<seatVars, surface, touch_id, fd, android>>

LeaveReturns(t) ==
  /\ device = "keyboard"
  /\ run[t].op = "leave"
  /\ run[t].i > NumKeys
  /\ Return(t)
  /\ UNCHANGED <<seatVars, tables, pipeVars>>

-----------------------------------------------------------------------------
(* Touch.                                                                   *)

TouchEvent == device = "touch" /\ plugged

SlotsOf(f) == {s \in Slots : touch_id[s] = f}
Least(S)   == CHOOSE s \in S : \A r \in S : s <= r

(* get_touch_id.                                                            *)
get_touch_id(f) == IF SlotsOf(f) = {} THEN NoSlot ELSE Least(SlotsOf(f))

(* create_touch_id: the slot of a finger, a new one, or none.               *)
create_touch_id(f) ==
  IF get_touch_id(f) # NoSlot THEN get_touch_id(f) ELSE get_touch_id(NoFinger)

(* A down event whose surface has been destroyed is dropped.                *)
TouchDown(t, f) ==
  /\ TouchEvent
  /\ f \notin held
  /\ held' = held \cup {f}
  /\ Dispatch(t, "down", f) \/ DispatchAtOnce(t)
  /\ UNCHANGED <<device, plugged, focus, tables, pipeVars>>

TouchUp(t, f) ==
  /\ TouchEvent
  /\ f \in held
  /\ held' = held \ {f}
  /\ Dispatch(t, "up", f)
  /\ UNCHANGED <<device, plugged, focus, tables, pipeVars>>

TouchMotion(t, f) ==
  /\ TouchEvent
  /\ f \in held
  /\ Dispatch(t, "motion", f)
  /\ UNCHANGED <<seatVars, tables, pipeVars>>

TouchCancel(t) ==
  /\ TouchEvent
  /\ held' = {}
  /\ Dispatch(t, "cancel", OtherKey)
  /\ UNCHANGED <<device, plugged, focus, tables, pipeVars>>

(* touch_handle_down: take a slot, then send it.                            *)
DownTakesSlot(t) ==
  /\ device = "touch"
  /\ run[t].op = "down"
  /\ LET f == run[t].arg
         s == create_touch_id(f) IN
     \/ PipeFails /\ Return(t) /\ UNCHANGED touch_id
     \/ /\ PipeIsOpen
        /\ touch_id' = IF s = NoSlot THEN touch_id ELSE [touch_id EXCEPT ![s] = f]
        /\ excused' = IF run[t].overlap THEN excused \cup {f} ELSE excused \ {f}
        /\ GoOn(t, "sendDown", s)
        /\ UNCHANGED android
  /\ UNCHANGED <<seatVars, surface, keysDown>>

(* InputFlinger ignores slot -1.                                            *)
SendDown(t) ==
  /\ run[t].op = "sendDown"
  /\ IF run[t].i = NoSlot THEN UNCHANGED <<android, excused>> ELSE Write(t, run[t].i, TRUE)
  /\ Return(t)
  /\ UNCHANGED <<seatVars, tables, fd>>

(* touch_handle_up: flush_touch_id, then the event for its slot if any.     *)
UpFreesSlot(t) ==
  /\ run[t].op = "up"
  /\ LET s == get_touch_id(run[t].arg) IN
     IF s = NoSlot
     THEN Return(t) /\ UNCHANGED touch_id
     ELSE GoOn(t, "sendUp", s) /\ touch_id' = [touch_id EXCEPT ![s] = NoFinger]
  /\ UNCHANGED <<seatVars, surface, keysDown, pipeVars>>

SendUp(t) ==
  /\ device = "touch"
  /\ run[t].op = "sendUp"
  /\ \/ PipeFails
     \/ PipeIsOpen /\ Write(t, run[t].i, FALSE)
  /\ Return(t)
  /\ UNCHANGED <<seatVars, tables>>

(* touch_handle_motion and touch_handle_shape.                              *)
MotionFindsSlot(t) ==
  /\ run[t].op = "motion"
  /\ LET s == get_touch_id(run[t].arg) IN
     IF s = NoSlot THEN Return(t) ELSE GoOn(t, "sendMotion", s)
  /\ UNCHANGED <<seatVars, tables, pipeVars>>

(* The event names slot and tracking id, so it also puts the finger down.   *)
SendMotion(t) ==
  /\ device = "touch"
  /\ run[t].op = "sendMotion"
  /\ \/ PipeFails
     \/ PipeIsOpen /\ Write(t, run[t].i, TRUE)
  /\ Return(t)
  /\ UNCHANGED <<seatVars, tables>>

(* touch_handle_cancel.                                                     *)
CancelStarts(t) ==
  /\ device = "touch"
  /\ run[t].op = "cancel"
  /\ \/ PipeFails /\ Return(t)
     \/ PipeIsOpen /\ GoOn(t, "cancelSlot", 1) /\ UNCHANGED <<android, excused>>
  /\ UNCHANGED <<seatVars, tables>>

(* Mutant: the slots are freed, but Android is not told.                    *)
CancelSilently(t) ==
  /\ run[t].op = "cancelSlot"
  /\ run[t].i \in Slots
  /\ touch_id' = [touch_id EXCEPT ![run[t].i] = NoFinger]
  /\ GoOn(t, "cancelSlot", run[t].i + 1)
  /\ UNCHANGED <<seatVars, surface, keysDown, pipeVars>>

CancelFreesSlot(t) ==
  /\ run[t].op = "cancelSlot"
  /\ run[t].i \in Slots
  /\ IF touch_id[run[t].i] = NoFinger
     THEN GoOn(t, "cancelSlot", run[t].i + 1) /\ UNCHANGED touch_id
     ELSE /\ touch_id' = [touch_id EXCEPT ![run[t].i] = NoFinger]
          /\ GoOn(t, "sendCancel", run[t].i)
  /\ UNCHANGED <<seatVars, surface, keysDown, pipeVars>>

SendCancel(t) ==
  /\ run[t].op = "sendCancel"
  /\ Write(t, run[t].i, FALSE)
  /\ GoOn(t, "cancelSlot", run[t].i + 1)
  /\ UNCHANGED <<seatVars, tables, fd>>

(* Mutant: the loop ends one slot early.                                    *)
CancelReturnsEarly(t) ==
  /\ run[t].op = "cancelSlot"
  /\ run[t].i >= MAX_TOUCHPOINTS
  /\ Return(t)
  /\ UNCHANGED <<seatVars, tables, pipeVars>>

CancelReturns(t) ==
  /\ run[t].op = "cancelSlot"
  /\ run[t].i > MAX_TOUCHPOINTS
  /\ Return(t)
  /\ UNCHANGED <<seatVars, tables, pipeVars>>

-----------------------------------------------------------------------------
(* Pointer buttons.                                                         *)

PointerEvent == device = "pointer" /\ plugged

(* With a destroyed surface the handler returns at once.                    *)
PointerEnter(t) ==
  /\ PointerEvent
  /\ ~focus
  /\ focus' = TRUE
  /\ Dispatch(t, "enter", OtherKey) \/ DispatchAtOnce(t)
  /\ UNCHANGED <<device, plugged, held, tables, pipeVars>>

(* A button that is held keeps the focus where it is, except that the       *)
(* window may close under it; nobody tells Android of its release then.     *)
PointerLeave(t) ==
  /\ PointerEvent
  /\ focus
  /\ focus' = FALSE
  /\ held' = {}
  /\ excused' = excused \cup held
  /\ Dispatch(t, "leave", OtherKey)
  /\ UNCHANGED <<device, plugged, tables, fd, android>>

ButtonEvent(t, b) ==
  /\ PointerEvent
  /\ focus
  /\ \/ b \notin held /\ held' = held \cup {b} /\ Dispatch(t, "press", b)
     \/ b \in held /\ held' = held \ {b} /\ Dispatch(t, "release", b)
  /\ UNCHANGED <<device, plugged, focus, tables, pipeVars>>

(* pointer_handle_enter, pointer_handle_leave.                              *)
SetSurface(t) ==
  /\ device = "pointer"
  /\ run[t].op \in {"enter", "leave"}
  /\ surface' = (run[t].op = "enter")
  /\ Return(t)
  /\ UNCHANGED <<seatVars, keysDown, touch_id, pipeVars>>

(* pointer_handle_button.                                                   *)
SendButton(t) ==
  /\ device = "pointer"
  /\ run[t].op \in {"press", "release"}
  /\ \/ PipeFails
     \/ /\ PipeIsOpen
        /\ IF surface THEN Write(t, run[t].arg, run[t].op = "press")
           ELSE UNCHANGED android /\ Excuse(t, run[t].arg)
  /\ Return(t)
  /\ UNCHANGED <<seatVars, tables>>

-----------------------------------------------------------------------------
(* The tablet: a tool comes near, touches, lifts and goes, in this order.   *)

TabletEvent(t) ==
  /\ device = "tablet"
  /\ plugged
  /\ \/ held = {} /\ held' = {Tool} /\ Dispatch(t, "press", Tool)
     \/ held = {Tool} /\ held' = {} /\ Dispatch(t, "release", Tool)
     \/ held = {Tool} /\ held' = {Tool, Tip} /\ Dispatch(t, "press", Tip)
     \/ held = {Tool, Tip} /\ held' = {Tool} /\ Dispatch(t, "release", Tip)
  /\ UNCHANGED <<device, plugged, focus, tables, pipeVars>>

TabletAxis(t) ==
  /\ device = "tablet"
  /\ plugged
  /\ Tool \in held
  /\ Dispatch(t, "axis", OtherKey)
  /\ UNCHANGED <<seatVars, tables, pipeVars>>

(* tablet_tool_proximity_in and _out (which set tablet_surface, to NULL too  *)
(* when the surface has been destroyed), _down, _up, _button_state.         *)
SendTool(t) ==
  /\ device = "tablet"
  /\ run[t].op \in {"press", "release"}
  /\ \/ PipeFails /\ UNCHANGED surface
     \/ /\ PipeIsOpen
        /\ Write(t, run[t].arg, run[t].op = "press")
        /\ IF run[t].arg # Tool THEN UNCHANGED surface
           ELSE surface' \in IF run[t].op = "press" THEN BOOLEAN ELSE {FALSE}
  /\ Return(t)
  /\ UNCHANGED <<seatVars, keysDown, touch_id>>

(* tablet_tool_motion (only over a surface), _pressure, _distance, _tilt:   *)
(* they open the pipe, and their values are not kept.                       *)
SendAxis(t) ==
  /\ run[t].op = "axis"
  /\ \/ PipeFails
     \/ PipeIsOpen /\ UNCHANGED <<android, excused>>
     \/ ~surface /\ UNCHANGED pipeVars
  /\ Return(t)
  /\ UNCHANGED <<seatVars, tables>>

-----------------------------------------------------------------------------
Init ==
  /\ device \in Devices
  /\ plugged = FALSE
  /\ fd = FALSE
  /\ run = [t \in Threads |-> Idle]
  /\ focus = FALSE
  /\ held = {}
  /\ surface = FALSE
  /\ keysDown = {}
  /\ touch_id = [s \in Slots |-> NoFinger]
  /\ android = {}
  /\ excused = {}

Next ==
  \E t \in Threads :
    \/ Plug(t)
    \/ Unplug(t)
    \/ KeyboardEnter(t)
    \/ \E k \in Keys \cup {OtherKey} : KeyEvent(t, k)
    \/ KeyboardLeave(t)
    \/ SendKey(t)
    \/ StoreKey(t)
    \/ LeaveSkips(t)
    \/ LeaveSends(t)
    \/ LeaveStores(t)
    \/ LeaveReturns(t)
    \/ \E f \in Fingers : TouchDown(t, f)
    \/ \E f \in Fingers : TouchUp(t, f)
    \/ \E f \in Fingers : TouchMotion(t, f)
    \/ TouchCancel(t)
    \/ DownTakesSlot(t)
    \/ SendDown(t)
    \/ UpFreesSlot(t)
    \/ SendUp(t)
    \/ MotionFindsSlot(t)
    \/ SendMotion(t)
    \/ CancelStarts(t)
    \/ CancelFreesSlot(t)
    \/ SendCancel(t)
    \/ CancelReturns(t)
    \/ PointerEnter(t)
    \/ PointerLeave(t)
    \/ \E b \in Keys : ButtonEvent(t, b)
    \/ SetSurface(t)
    \/ SendButton(t)
    \/ TabletEvent(t)
    \/ TabletAxis(t)
    \/ SendTool(t)
    \/ SendAxis(t)

Spec == Init /\ [][Next]_vars

-----------------------------------------------------------------------------
(* Every variable has its type.                                             *)
InputTypeOK ==
  /\ device \in Devices
  /\ plugged \in BOOLEAN /\ fd \in BOOLEAN /\ focus \in BOOLEAN /\ surface \in BOOLEAN
  /\ keysDown \subseteq Keys
  /\ touch_id \in [Slots -> Fingers \cup {NoFinger}]
  /\ android \subseteq IF device = "touch" THEN Slots ELSE Keys
  /\ \A t \in Threads : run[t].overlap \in BOOLEAN /\ run[t].i \in Nat

Quiet == plugged /\ \A t \in Threads : ~Busy(t)

(* Between two events nothing is down in Android that the compositor told    *)
(* us is up, be it by a release, by a loss of focus (the leave handler walks *)
(* keysDown) or with the device.  Excepted is what had its last event lost   *)
(* in a full pipe or handled while another handler ran, or a window closed  *)
(* under the button: that may stick until its next event.                   *)
ReleasedAreUp ==
  Quiet /\ device # "touch" => android \subseteq held \cup excused

(* Between two events a slot is a contact in Android exactly when it holds  *)
(* a finger: no ghost contact that no up event will lift, no finger lost.   *)
(* Excepted are the slots whose last event was lost or was written by a     *)
(* handler that overlapped another: a motion after its finger's up event    *)
(* leaves a ghost.                                                          *)
ContactsAreFingers ==
  Quiet /\ device = "touch" =>
    \A s \in Slots \ excused : s \in android <=> touch_id[s] # NoFinger

(* A finger that was lifted or cancelled gives its slot back, also when it  *)
(* was dropped, refused a slot, or known before under the same id: slots    *)
(* do not run out.  Excepted are the fingers whose down event was handled   *)
(* while another handler ran: a down that takes its slot after its own up   *)
(* event keeps it until that finger, or a cancel, comes again.              *)
LiftedFingersFreeSlots ==
  Quiet /\ device = "touch" =>
    \A s \in Slots : touch_id[s] \in held \cup {NoFinger} \cup excused
=============================================================================

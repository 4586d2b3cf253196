------------------------- MODULE InputDevicesProofs -------------------------
(***************************************************************************)
(* Proofs about InputDevices, for any threads, fingers, keys and slots: the *)
(* types, and that what is down in Android is what the compositor last said *)
(* (ReleasedAreUp, ContactsAreFingers, LiftedFingersFreeSlots).             *)
(*                                                                         *)
(* The handlers are several steps long and may overlap, so the inductive    *)
(* invariant says of everything that is not yet as it should be which       *)
(* running handler is going to mend it.  A handler that nobody overlapped   *)
(* is alone: nothing but its own steps happened since its event.            *)
(*                                                                         *)
(* The last part is about PointerMotion, for any deltas and lengths of a    *)
(* step: what was read, what was lost and what waits add up (MotionKept).   *)
(***************************************************************************)
EXTENDS InputDevices, PointerMotion, WellFoundedInduction, TLAPS

-----------------------------------------------------------------------------
(* The inductive invariant.                                                 *)

HandlerOps ==
  {"idle", "press", "pressed", "release", "released", "leave", "leaveStore", "down", "sendDown",
   "up", "sendUp", "motion", "sendMotion", "cancel", "cancelSlot", "sendCancel", "enter", "axis"}

HandlerTypes ==
  [op : HandlerOps, arg : Fingers \cup Keys \cup {OtherKey}, i : Nat, overlap : BOOLEAN]

(* What a handler works on, and for which device.                           *)
Fits(r) ==
  /\ r.op \in {"press", "release"} =>
       /\ device \in {"keyboard", "pointer", "tablet"}
       /\ r.arg \in Keys \cup {OtherKey}
       /\ device # "keyboard" => r.arg \in Keys
  /\ r.op \in {"pressed", "released"} => device = "keyboard" /\ r.arg \in Keys
  /\ r.op = "leave" => device \in {"keyboard", "pointer"} /\ r.i # 0
  /\ r.op = "leaveStore" => device = "keyboard" /\ r.i \in Keys
  /\ r.op \in {"down", "up", "motion"} => device = "touch" /\ r.arg \in Fingers
  /\ r.op = "sendDown" => device = "touch" /\ r.i \in Slots \cup {NoSlot}
  /\ r.op \in {"sendUp", "sendMotion", "sendCancel"} => device = "touch" /\ r.i \in Slots
  /\ r.op = "cancel" => device = "touch"
  /\ r.op = "cancelSlot" => device = "touch" /\ r.i # 0
  /\ r.op = "enter" => device = "pointer"
  /\ r.op = "axis" => device = "tablet"

TypeInv ==
  /\ InputTypeOK
  /\ run \in [Threads -> HandlerTypes]
  /\ \A t \in Threads : Fits(run[t])

(* Two handlers that run at the same time know it.                          *)
OverlapInv ==
  \A t, u \in Threads : t # u /\ Busy(t) /\ Busy(u) => run[t].overlap

Alone(t) == Busy(t) /\ ~run[t].overlap

(* Nothing is down in Android while the device is not there; a pipe that is *)
(* not open yet has delivered nothing (but for a touch handler that wrote   *)
(* while the device went and came back).                                    *)
PipeInv ==
  /\ ~plugged => android = {}
  /\ ~fd => android \subseteq excused
  /\ ~fd /\ device = "touch" => \A s \in Slots : touch_id[s] = NoFinger
  /\ device = "touch" => \A t \in Threads :
       Alone(t) /\ run[t].op \in {"sendDown", "cancelSlot", "sendCancel"} => fd

(* Handler r is going to release key k, or to excuse it.                    *)
Releases(r, k) ==
  \/ r.op = "release" /\ r.arg = k
  \/ r.op = "pressed" /\ r.arg = k /\ r.overlap
  \/ device = "keyboard" /\ r.op = "leave" /\ k >= r.i
  \/ r.op = "leaveStore" /\ k > r.i

KeysInv ==
  device # "touch" =>
    /\ \A k \in android : \/ k \in held \cup excused
                          \/ \E t \in Threads : Releases(run[t], k)
    /\ \A t \in Threads :
         Alone(t) /\ run[t].op \in {"press", "pressed"} => run[t].arg \in held

(* Android holds no key that keysDown forgot.                               *)
KeysDownInv ==
  device = "keyboard" =>
    /\ \A k \in android : \/ k \in keysDown \cup excused
                          \/ \E t \in Threads : run[t].op = "pressed" /\ run[t].arg = k
    /\ \A t \in Threads :
         /\ Alone(t) /\ run[t].op = "released" => run[t].arg \notin android \ excused
         /\ Alone(t) /\ run[t].op = "leaveStore" => run[t].i \notin android \ excused

(* Without a surface no release is written, and none is owed.               *)
SurfaceInv ==
  device = "pointer" /\ (~surface \/ \E t \in Threads : run[t].op = "leave") =>
    \A k \in android : \/ k \in excused
                       \/ \E t \in Threads : /\ run[t].op = "release"
                                             /\ run[t].arg = k
                                             /\ run[t].overlap

(* Handler r is going to write what slot s holds now, or to excuse it.      *)
Writes(r, s) ==
  r.op \in {"sendDown", "sendUp", "sendMotion", "sendCancel"} /\ r.i = s

ContactInv ==
  device = "touch" =>
    /\ plugged => \A s \in Slots : \/ s \in excused
                                   \/ s \in android <=> touch_id[s] # NoFinger
                                   \/ \E t \in Threads : Writes(run[t], s)
    /\ \A t \in Threads :
         /\ Alone(t) /\ run[t].op \in {"sendDown", "sendMotion"} /\ run[t].i # NoSlot =>
              touch_id[run[t].i] # NoFinger
         /\ Alone(t) /\ run[t].op \in {"sendUp", "sendCancel"} => touch_id[run[t].i] = NoFinger

(* Handler r is going to free the slot s of finger f.                       *)
Frees(r, s, f) ==
  \/ r.op = "up" /\ r.arg = f
  \/ r.op = "cancel"
  \/ r.op = "cancelSlot" /\ s >= r.i
  \/ r.op = "sendCancel" /\ s > r.i

SlotInv ==
  device = "touch" =>
    /\ \A s, r \in Slots : s # r /\ touch_id[s] = touch_id[r] => touch_id[s] = NoFinger
    /\ plugged => \A s \in Slots : \/ touch_id[s] \in held \cup {NoFinger} \cup excused
                                   \/ \E t \in Threads : Frees(run[t], s, touch_id[s])
    /\ \A t \in Threads : Alone(t) /\ run[t].op = "down" => run[t].arg \in held

IInv ==
  /\ TypeInv
  /\ OverlapInv
  /\ PipeInv
  /\ KeysInv
  /\ KeysDownInv
  /\ SurfaceInv
  /\ ContactInv
  /\ SlotInv

-----------------------------------------------------------------------------
(* What a step of thread t does to the handlers.                            *)

(* The other threads' handlers go on with what they were doing; one that    *)
(* was overlapped stays so.                                                 *)
OthersGoOn(t) ==
  \A u \in Threads \ {t} : /\ run'[u].op = run[u].op
                           /\ run'[u].arg = run[u].arg
                           /\ run'[u].i = run[u].i
                           /\ Busy(u) /\ run[u].overlap => run'[u].overlap

(* Only t's handler can be alone after a step of t.                         *)
OnlyAlone(t) == \A u \in Threads : Alone(u)' => u = t

(* What an event does.                                                      *)
EventFacts(t) ==
  /\ OthersGoOn(t)
  /\ OnlyAlone(t)
  /\ ~Busy(t)
  /\ OverlapInv'
  /\ run' \in [Threads -> HandlerTypes]

(* What a step of a handler does.                                           *)
HandlerFacts(t) ==
  /\ OthersGoOn(t)
  /\ OnlyAlone(t)
  /\ Alone(t)' => Alone(t)
  /\ Alone(t) => \A u \in Threads \ {t} : ~Busy(u)
  /\ OverlapInv'
  /\ run' \in [Threads -> HandlerTypes]

(* The handlers after an event that none of them is for.                    *)
LEMMA OverlappedFacts ==
  ASSUME TypeInv, NEW t \in Threads
  PROVE  /\ Overlapped(t) \in [Threads -> HandlerTypes]
         /\ \A u \in Threads : /\ Overlapped(t)[u].op = run[u].op
                               /\ Overlapped(t)[u].arg = run[u].arg
                               /\ Overlapped(t)[u].i = run[u].i
                               /\ Overlapped(t)[u].overlap <=> u # t /\ Busy(u)
  <1>1. run \in [Threads -> HandlerTypes]  BY DEF TypeInv
  <1>2. \A u \in Threads : (u # t /\ Busy(u)) \in BOOLEAN  OBVIOUS
  <1> QED  BY <1>1, <1>2 DEF Overlapped, HandlerTypes, Busy

(* A handler that is one step: it is over when it begins.                   *)
LEMMA AtOnceFacts ==
  ASSUME TypeInv, OverlapInv, NEW t \in Threads, DispatchAtOnce(t)
  PROVE  EventFacts(t) /\ run'[t].op = "idle"
  <1>1. run' = Overlapped(t) /\ ~Busy(t)  BY DEF DispatchAtOnce
  <1>2. run \in [Threads -> HandlerTypes]  BY DEF TypeInv
  <1>3. OverlapInv'  BY <1>1, OverlappedFacts DEF OverlapInv, Busy
  <1>4. OthersGoOn(t)  BY <1>1, OverlappedFacts DEF OthersGoOn
  <1>5. OnlyAlone(t)  BY <1>1, OverlappedFacts DEF OnlyAlone, Alone, Busy
  <1> QED  BY <1>1, <1>3, <1>4, <1>5, OverlappedFacts DEF EventFacts, Busy

(* A handler starts: those that run from now on are overlapped.             *)
LEMMA DispatchFacts ==
  ASSUME TypeInv, OverlapInv, NEW t \in Threads, NEW o, NEW x, Dispatch(t, o, x),
         [op |-> o, arg |-> x, i |-> 1, overlap |-> FALSE] \in HandlerTypes, o # "idle"
  PROVE  /\ EventFacts(t)
         /\ run'[t].op = o /\ run'[t].arg = x /\ run'[t].i = 1
  <1> DEFINE r == [op |-> o, arg |-> x, i |-> 1, overlap |-> \E u \in Threads : Busy(u)]
  <1>1. run' = [Overlapped(t) EXCEPT ![t] = r] /\ ~Busy(t)  BY DEF Dispatch
  <1>2. (\E u \in Threads : Busy(u)) \in BOOLEAN  OBVIOUS
  <1>3. r \in HandlerTypes  BY <1>2 DEF HandlerTypes
  <1>4. /\ run' \in [Threads -> HandlerTypes]
        /\ run'[t] = r
        /\ \A u \in Threads \ {t} : run'[u] = Overlapped(t)[u]
    BY <1>1, <1>3, OverlappedFacts
  <1>5. r.op = o /\ r.arg = x /\ r.i = 1 /\ (r.overlap <=> \E u \in Threads : Busy(u))
    OBVIOUS
  <1> HIDE DEF r
  <1>6. \A u \in Threads \ {t} : /\ run'[u].op = run[u].op /\ run'[u].arg = run[u].arg
                                 /\ run'[u].i = run[u].i /\ (run'[u].overlap <=> Busy(u))
    BY <1>4, OverlappedFacts DEF Busy
  <1>7. OverlapInv'  BY <1>1, <1>4, <1>5, <1>6 DEF OverlapInv, Busy
  <1>8. OthersGoOn(t)  BY <1>6 DEF OthersGoOn
  <1>9. OnlyAlone(t)  BY <1>6 DEF OnlyAlone, Alone, Busy
  <1> QED  BY <1>1, <1>4, <1>5, <1>7, <1>8, <1>9 DEF EventFacts

(* A handler returns: nobody else moves.                                    *)
LEMMA ReturnFacts ==
  ASSUME TypeInv, OverlapInv, NEW t \in Threads, Busy(t), Return(t)
  PROVE  HandlerFacts(t) /\ run'[t].op = "idle" /\ ~Alone(t)'
  <1>1. Idle \in HandlerTypes /\ Idle.op = "idle"  BY DEF Idle, HandlerTypes, HandlerOps
  <1>2. run \in [Threads -> HandlerTypes]  BY DEF TypeInv
  <1>3. /\ run' \in [Threads -> HandlerTypes]
        /\ run'[t] = Idle
        /\ \A u \in Threads \ {t} : run'[u] = run[u]
    BY <1>1, <1>2 DEF Return
  <1> QED
    BY <1>1, <1>3 DEF HandlerFacts, OthersGoOn, OnlyAlone, Alone, Busy, OverlapInv

(* A handler goes on to its next step: nobody else moves.                   *)
LEMMA GoOnFacts ==
  ASSUME TypeInv, OverlapInv, NEW t \in Threads, Busy(t),
         NEW o \in HandlerOps \ {"idle"}, NEW n \in Nat, GoOn(t, o, n)
  PROVE  /\ HandlerFacts(t)
         /\ run'[t].op = o /\ run'[t].i = n
         /\ run'[t].arg = run[t].arg /\ run'[t].overlap = run[t].overlap
         /\ Alone(t)' <=> Alone(t)
  <1>1. run \in [Threads -> HandlerTypes]  BY DEF TypeInv
  <1>3. run[t] \in HandlerTypes  BY <1>1
  <1>0. [run[t] EXCEPT !.op = o, !.i = n] \in HandlerTypes  BY <1>3 DEF HandlerTypes
  <1>2. /\ run' \in [Threads -> HandlerTypes]
        /\ run'[t] = [run[t] EXCEPT !.op = o, !.i = n]
        /\ \A u \in Threads \ {t} : run'[u] = run[u]
    BY <1>0, <1>1 DEF GoOn
  <1>4. /\ run'[t].op = o /\ run'[t].i = n
        /\ run'[t].arg = run[t].arg /\ run'[t].overlap = run[t].overlap
    BY <1>2, <1>3 DEF HandlerTypes
  <1>5. OverlapInv'
    <2>1. \A u \in Threads : Busy(u)' => Busy(u)  BY <1>2 DEF Busy
    <2>2. \A u \in Threads : run'[u].overlap = run[u].overlap  BY <1>2, <1>4
    <2> QED  BY <2>1, <2>2 DEF OverlapInv
  <1>6. OthersGoOn(t)  BY <1>2 DEF OthersGoOn
  <1>7. OnlyAlone(t)
    <2> SUFFICES ASSUME NEW u \in Threads \ {t}, Busy(u)', ~run'[u].overlap PROVE FALSE
      BY DEF OnlyAlone, Alone
    <2>1. Busy(u) /\ ~run[u].overlap  BY <1>2 DEF Busy
    <2> QED  BY <2>1 DEF OverlapInv
  <1>8. Alone(t) => \A u \in Threads \ {t} : ~Busy(u)  BY DEF Alone, OverlapInv
  <1> QED  BY <1>2, <1>4, <1>5, <1>6, <1>7, <1>8 DEF HandlerFacts, Alone, Busy

-----------------------------------------------------------------------------
(* The types.                                                               *)

(* The types of the variables other than run.                               *)
VarTypes ==
  /\ device \in Devices
  /\ plugged \in BOOLEAN /\ fd \in BOOLEAN /\ focus \in BOOLEAN /\ surface \in BOOLEAN
  /\ keysDown \subseteq Keys
  /\ touch_id \in [Slots -> Fingers \cup {NoFinger}]
  /\ android \subseteq IF device = "touch" THEN Slots ELSE Keys

(* A step of one handler leaves the types of the others alone.              *)
LEMMA TypesHold ==
  ASSUME TypeInv, NEW t \in Threads, OthersGoOn(t), run' \in [Threads -> HandlerTypes],
         VarTypes', device' = device, Fits(run[t])'
  PROVE  TypeInv'
  <1>1. \A u \in Threads : Fits(run[u])'
    <2> SUFFICES ASSUME NEW u \in Threads \ {t} PROVE Fits(run[u])'  OBVIOUS
    <2> QED  BY DEF OthersGoOn, Fits, TypeInv
  <1>2. \A u \in Threads : run'[u].overlap \in BOOLEAN /\ run'[u].i \in Nat
    BY DEF HandlerTypes
  <1> QED  BY <1>1, <1>2 DEF TypeInv, InputTypeOK, VarTypes

(* A handler that is over fits any device.                                  *)
LEMMA IdleFits ==
  ASSUME NEW t \in Threads, run'[t].op = "idle"
  PROVE  Fits(run[t])'
  BY DEF Fits

(* What a write changes, whether or not it goes through.                    *)
LEMMA WriteTypes ==
  ASSUME NEW t, NEW x, NEW down, Write(t, x, down)
  PROVE  android' \subseteq android \cup {x}
  BY DEF Write

(* The handler of an event starts with its first step.                      *)
LEMMA StartTypes ==
  ASSUME NEW o \in {"press", "release", "leave", "down", "up", "motion", "cancel", "enter",
                    "axis"},
         NEW x \in Fingers \cup Keys \cup {OtherKey}
  PROVE  [op |-> o, arg |-> x, i |-> 1, overlap |-> FALSE] \in HandlerTypes /\ o # "idle"
  BY DEF HandlerTypes, HandlerOps

-----------------------------------------------------------------------------
(* What a step leaves to the other handlers.                                *)
LEMMA OthersRelease ==
  ASSUME TypeInv, NEW t \in Threads, OthersGoOn(t), device' = device,
         NEW k, NEW u \in Threads \ {t}, Releases(run[u], k)
  PROVE  Releases(run[u], k)'
  BY DEF Releases, OthersGoOn, Busy

(* A write about k leaves the other keys as they are: held, excused, or     *)
(* about to be released by another handler.                                 *)
LEMMA OtherKeysStay ==
  ASSUME TypeInv, NEW t \in Threads, OthersGoOn(t), UNCHANGED <<device, held>>,
         NEW k, NEW down, Write(t, k, down),
         \A j \in android \ {k} : \/ j \in held \cup excused
                                \/ \E u \in Threads \ {t} : Releases(run[u], j)
  PROVE  \A j \in android' \ {k} : \/ j \in held' \cup excused'
                                  \/ \E u \in Threads \ {t} : Releases(run[u], j)'
  <1>1. android' \ {k} \subseteq android /\ excused \ {k} \subseteq excused'  BY DEF Write
  <1>2. SUFFICES ASSUME NEW j \in android' \ {k}
                 PROVE  \/ j \in held' \cup excused'
                        \/ \E u \in Threads \ {t} : Releases(run[u], j)'
    OBVIOUS
  <1>3. CASE j \in held \cup excused  BY <1>1, <1>3
  <1>4. ASSUME NEW u \in Threads \ {t}, Releases(run[u], j)
        PROVE  Releases(run[u], j)'
    BY <1>4, OthersRelease
  <1> QED  BY <1>1, <1>3, <1>4

(* Another handler that is going to write to a slot still is.               *)
LEMMA OthersWrite ==
  ASSUME NEW t \in Threads, OthersGoOn(t), NEW s, NEW u \in Threads \ {t}, Writes(run[u], s)
  PROVE  Writes(run[u], s)'
  BY DEF Writes, OthersGoOn

(* Another handler that is going to free a slot still is.                   *)
LEMMA OthersFree ==
  ASSUME NEW t \in Threads, OthersGoOn(t), NEW s, NEW f, NEW u \in Threads \ {t},
         Frees(run[u], s, f)
  PROVE  Frees(run'[u], s, f)
  BY DEF Frees, OthersGoOn

(* Each device needs only a part of the invariant.                          *)
LEMMA OnKeyboard ==
  ASSUME device' = "keyboard", TypeInv', OverlapInv', PipeInv', KeysInv', KeysDownInv'
  PROVE  IInv'
  BY DEF IInv, SurfaceInv, ContactInv, SlotInv

(* With a pointer, the parts about keysDown and touch say nothing.          *)
LEMMA OnPointer ==
  ASSUME device' = "pointer", TypeInv', OverlapInv', PipeInv', KeysInv', SurfaceInv'
  PROVE  IInv'
  BY DEF IInv, KeysDownInv, ContactInv, SlotInv

(* With a tablet, the parts about keysDown, surfaces and touch say nothing. *)
LEMMA OnTablet ==
  ASSUME device' = "tablet", TypeInv', OverlapInv', PipeInv', KeysInv'
  PROVE  IInv'
  BY DEF IInv, KeysDownInv, SurfaceInv, ContactInv, SlotInv

(* With a touch screen, the parts about keys and surfaces say nothing.      *)
LEMMA OnTouch ==
  ASSUME device' = "touch", TypeInv', OverlapInv', PipeInv', ContactInv', SlotInv'
  PROVE  IInv'
  BY DEF IInv, KeysInv, KeysDownInv, SurfaceInv

-----------------------------------------------------------------------------
(* The seat.                                                                *)
LEMMA PlugInv == ASSUME IInv, NEW t \in Threads, Plug(t) PROVE IInv'
  <1> USE DEF IInv
  <1>1. EventFacts(t) /\ run'[t].op = "idle"  BY AtOnceFacts DEF Plug
  <1>2. OthersGoOn(t) /\ OnlyAlone(t)  BY <1>1 DEF EventFacts
  <1>3. device' = device /\ android = {} /\ android' = {}  BY DEF Plug, PipeInv
  <1>4. TypeInv'
    <2>1. VarTypes'  BY <1>3 DEF Plug, VarTypes, TypeInv, InputTypeOK
    <2> QED  BY <1>1, <1>2, <1>3, <2>1, TypesHold, IdleFits DEF EventFacts
  <1>5. PipeInv'
    BY <1>1, <1>2, <1>3 DEF Plug, PipeInv, OnlyAlone, Alone
  <1>6. \A u \in Threads : ~Alone(u)'  BY <1>1, <1>2 DEF OnlyAlone, Alone, Busy
  <1>7. KeysInv' /\ KeysDownInv' /\ SurfaceInv'
    BY <1>3, <1>6 DEF KeysInv, KeysDownInv, SurfaceInv
  <1>8. ContactInv' /\ SlotInv'
    BY <1>3, <1>6 DEF ContactInv, SlotInv, Plug
  <1> QED  BY <1>1, <1>4, <1>5, <1>7, <1>8 DEF EventFacts

(* The device goes: what was down on it is not held any more, and Android   *)
(* forgets it.                                                              *)
LEMMA UnplugInv == ASSUME IInv, NEW t \in Threads, Unplug(t) PROVE IInv'
  <1> USE DEF IInv
  <1>1. EventFacts(t) /\ run'[t].op = "idle"  BY AtOnceFacts DEF Unplug
  <1>2. OthersGoOn(t) /\ OnlyAlone(t)  BY <1>1 DEF EventFacts
  <1>3. device' = device /\ android' = {} /\ ~plugged' /\ UNCHANGED <<fd, tables>>
    BY DEF Unplug
  <1>4. TypeInv'
    <2>1. VarTypes'  BY <1>3 DEF Unplug, VarTypes, TypeInv, InputTypeOK, tables
    <2> QED  BY <1>1, <1>2, <1>3, <2>1, TypesHold, IdleFits DEF EventFacts
  <1>6. \A u \in Threads : ~Alone(u)'  BY <1>1, <1>2 DEF OnlyAlone, Alone, Busy
  <1>5. PipeInv'  BY <1>3, <1>6 DEF PipeInv, tables
  <1>7. KeysInv' /\ KeysDownInv' /\ SurfaceInv'
    BY <1>3, <1>6 DEF KeysInv, KeysDownInv, SurfaceInv
  <1>8. ContactInv' /\ SlotInv'
    BY <1>3, <1>6 DEF ContactInv, SlotInv, tables
  <1> QED  BY <1>1, <1>4, <1>5, <1>7, <1>8 DEF EventFacts

(* Where neither the keys nor Android changes and t stored nothing.         *)
LEMMA KeysDownKept ==
  ASSUME KeysDownInv, NEW t \in Threads, OthersGoOn(t), OnlyAlone(t),
         UNCHANGED <<device, keysDown, android, excused>>,
         run[t].op # "pressed", run'[t].op \notin {"released", "leaveStore"}
  PROVE  KeysDownInv'
  <1> SUFFICES ASSUME device = "keyboard" PROVE KeysDownInv'  BY DEF KeysDownInv
  <1>1. ASSUME NEW k \in android', k \notin keysDown' \cup excused'
        PROVE  \E u \in Threads : run'[u].op = "pressed" /\ run'[u].arg = k
    <2>1. PICK u \in Threads : run[u].op = "pressed" /\ run[u].arg = k
      BY <1>1 DEF KeysDownInv
    <2> QED  BY <2>1 DEF OthersGoOn
  <1>2. \A u \in Threads : Alone(u)' => run'[u].op \notin {"released", "leaveStore"}
    BY DEF OnlyAlone
  <1> QED  BY <1>1, <1>2 DEF KeysDownInv

-----------------------------------------------------------------------------
(* The keyboard.                                                            *)
LEMMA KeyboardEnterInv == ASSUME IInv, NEW t \in Threads, KeyboardEnter(t) PROVE IInv'
  <1> USE DEF IInv
  <1>1. EventFacts(t) /\ run'[t].op = "idle"  BY AtOnceFacts DEF KeyboardEnter
  <1>2. OthersGoOn(t) /\ OnlyAlone(t)  BY <1>1 DEF EventFacts
  <1>3. device = "keyboard" /\ device' = device /\ UNCHANGED <<plugged, held, keysDown, fd>>
        /\ UNCHANGED <<surface, touch_id, android, excused>> /\ focus' = TRUE
    BY DEF KeyboardEnter, KeyboardEvent, tables, pipeVars
  <1>4. TypeInv'
    <2>1. VarTypes'  BY <1>3 DEF VarTypes, TypeInv, InputTypeOK
    <2> QED  BY <1>1, <1>2, <1>3, <2>1, TypesHold, IdleFits DEF EventFacts
  <1>5. PipeInv'  BY <1>3 DEF PipeInv
  <1>6. \A u \in Threads : ~Alone(u)'  BY <1>1, <1>2 DEF OnlyAlone, Alone, Busy
  <1>7. KeysInv'
    BY <1>1, <1>2, <1>3, <1>6, OthersRelease DEF KeysInv, Releases, EventFacts, Busy
  <1>8. KeysDownInv'  BY <1>1, <1>2, <1>3, KeysDownKept DEF EventFacts, Busy
  <1> QED  BY <1>1, <1>3, <1>4, <1>5, <1>7, <1>8, OnKeyboard DEF EventFacts

(* keyboard_handle_key starts: the key is pressed or released.              *)
LEMMA KeyEventInv ==
  ASSUME IInv, NEW t \in Threads, NEW k \in Keys \cup {OtherKey}, KeyEvent(t, k) PROVE IInv'
  <1> USE DEF IInv
  <1>1. PICK o \in {"press", "release"} :
          /\ Dispatch(t, o, k)
          /\ o = "press" => held' = held \cup {k}
          /\ o = "release" => held' = held \ {k}
    BY DEF KeyEvent
  <1>2. EventFacts(t) /\ run'[t].op = o /\ run'[t].arg = k /\ run'[t].i = 1
    BY <1>1, StartTypes, DispatchFacts
  <1>3. OthersGoOn(t) /\ OnlyAlone(t) /\ ~Busy(t)  BY <1>2 DEF EventFacts
  <1>4. device = "keyboard" /\ device' = device /\ UNCHANGED <<plugged, focus, keysDown, fd>>
        /\ UNCHANGED <<surface, touch_id, android, excused>>
    BY DEF KeyEvent, KeyboardEvent, tables, pipeVars
  <1>5. TypeInv'
    <2>1. VarTypes'  BY <1>4 DEF VarTypes, TypeInv, InputTypeOK
    <2>2. Fits(run[t])'  BY <1>2, <1>4 DEF Fits
    <2> QED  BY <1>2, <1>3, <1>4, <2>1, <2>2, TypesHold DEF EventFacts
  <1>6. PipeInv'  BY <1>4 DEF PipeInv
  <1>7. KeysInv'
    <2>1. \A j \in android : (\E u \in Threads : Releases(run[u], j)) =>
                               (\E u \in Threads : Releases(run[u], j)')
      BY <1>3, <1>4, OthersRelease DEF Releases, Busy
    <2>2. o = "release" => Releases(run[t], k)'  BY <1>2 DEF Releases
    <2>3. \A j \in android : \/ j \in held' \cup excused
                             \/ \E u \in Threads : Releases(run[u], j)'
      BY <1>1, <1>4, <2>1, <2>2 DEF KeysInv
    <2>4. \A u \in Threads : Alone(u)' /\ run'[u].op \in {"press", "pressed"} =>
                               run'[u].arg \in held'
      BY <1>1, <1>2, <1>3 DEF OnlyAlone
    <2> QED  BY <1>4, <2>3, <2>4 DEF KeysInv
  <1>8. KeysDownInv'  BY <1>2, <1>3, <1>4, KeysDownKept DEF Busy
  <1> QED  BY <1>2, <1>4, <1>5, <1>6, <1>7, <1>8, OnKeyboard DEF EventFacts

(* keyboard_handle_leave starts: every key is to be released.               *)
LEMMA KeyboardLeaveInv == ASSUME IInv, NEW t \in Threads, KeyboardLeave(t) PROVE IInv'
  <1> USE DEF IInv
  <1>1. Dispatch(t, "leave", OtherKey)  BY DEF KeyboardLeave
  <1>2. EventFacts(t) /\ run'[t].op = "leave" /\ run'[t].i = 1
    BY <1>1, StartTypes, DispatchFacts
  <1>3. OthersGoOn(t) /\ OnlyAlone(t) /\ ~Busy(t)  BY <1>2 DEF EventFacts
  <1>4. device = "keyboard" /\ device' = device /\ UNCHANGED <<plugged, keysDown, fd>>
        /\ UNCHANGED <<surface, touch_id, android, excused>> /\ focus' = FALSE
    BY DEF KeyboardLeave, KeyboardEvent, tables, pipeVars
  <1>5. TypeInv'
    <2>1. VarTypes'  BY <1>4 DEF VarTypes, TypeInv, InputTypeOK
    <2>2. Fits(run[t])'  BY <1>2, <1>4 DEF Fits
    <2> QED  BY <1>2, <1>3, <1>4, <2>1, <2>2, TypesHold DEF EventFacts
  <1>6. PipeInv'  BY <1>4 DEF PipeInv
  <1>7. KeysInv'
    <2>1. \A j \in android : Releases(run[t], j)'
      BY <1>2, <1>4, InputAssumption DEF Releases, TypeInv, InputTypeOK, Keys
    <2> QED  BY <1>2, <1>3, <1>4, <2>1 DEF KeysInv, OnlyAlone
  <1>8. KeysDownInv'  BY <1>2, <1>3, <1>4, KeysDownKept DEF Busy
  <1> QED  BY <1>2, <1>4, <1>5, <1>6, <1>7, <1>8, OnKeyboard DEF EventFacts

(* The write, or a handler that returns without it.                         *)
LEMMA SendKeyInv == ASSUME IInv, NEW t \in Threads, SendKey(t) PROVE IInv'
  <1> USE DEF IInv
  <1> DEFINE k == run[t].arg
  <1>1. /\ device = "keyboard" /\ device' = device
        /\ UNCHANGED <<plugged, focus, held, surface, keysDown, touch_id>>
        /\ run[t].op \in {"press", "release"}
    BY DEF SendKey, seatVars, tables
  <1>2. Busy(t)  BY <1>1 DEF Busy
  <1>3. CASE Return(t) /\ UNCHANGED pipeVars /\ (k \notin Keys \/ ~fd)
    <2>1. HandlerFacts(t) /\ run'[t].op = "idle"  BY <1>2, <1>3, ReturnFacts
    <2>2. OthersGoOn(t) /\ OnlyAlone(t)  BY <2>1 DEF HandlerFacts
    <2>3. UNCHANGED <<fd, android, excused>>  BY <1>3 DEF pipeVars
    <2>4. TypeInv'
      <3>1. VarTypes'  BY <1>1, <2>3 DEF VarTypes, TypeInv, InputTypeOK
      <3> QED  BY <1>1, <2>1, <2>2, <3>1, TypesHold, IdleFits DEF HandlerFacts
    <2>5. PipeInv'  BY <1>1, <2>3 DEF PipeInv
    <2>6. \A u \in Threads : ~Alone(u)'  BY <2>1, <2>2 DEF OnlyAlone, Alone, Busy
    <2>7. KeysInv'
      <3>1. \A j \in android : \/ j \in held \cup excused
                               \/ \E u \in Threads \ {t} : Releases(run[u], j)
        BY <1>1, <1>3 DEF KeysInv, PipeInv, Releases, TypeInv, InputTypeOK
      <3> QED  BY <1>1, <2>2, <2>3, <2>6, <3>1, OthersRelease DEF KeysInv
    <2>8. KeysDownInv'  BY <1>1, <2>1, <2>2, <2>3, KeysDownKept
    <2> QED  BY <1>1, <2>1, <2>4, <2>5, <2>7, <2>8, OnKeyboard DEF HandlerFacts
  <1>4. CASE /\ k \in Keys
             /\ PipeIsOpen
             /\ Write(t, k, run[t].op = "press")
             /\ GoOn(t, IF run[t].op = "press" THEN "pressed" ELSE "released", 1)
    <2>0. PICK o \in {"pressed", "released"} :
            GoOn(t, o, 1) /\ (o = "pressed" <=> run[t].op = "press")
      BY <1>4
    <2>1. /\ HandlerFacts(t) /\ run'[t].op = o /\ run'[t].arg = k /\ run'[t].i = 1
          /\ (run'[t].overlap = run[t].overlap) /\ (Alone(t)' <=> Alone(t))
      BY <1>2, <2>0, GoOnFacts DEF HandlerOps
    <2>2. OthersGoOn(t) /\ OnlyAlone(t)  BY <2>1 DEF HandlerFacts
    <2>3. android' \subseteq android \cup {k} /\ fd'  BY <1>4, WriteTypes DEF PipeIsOpen
    <2>4. TypeInv'
      <3>1. VarTypes'  BY <1>1, <1>4, <2>3 DEF VarTypes, TypeInv, InputTypeOK, PipeIsOpen
      <3>2. Fits(run[t])'  BY <1>1, <1>4, <2>0, <2>1 DEF Fits
      <3> QED  BY <1>1, <2>1, <2>2, <3>1, <3>2, TypesHold DEF HandlerFacts
    <2>5. PipeInv'  BY <1>1, <1>4, <2>3 DEF PipeInv, Write
    <2>6. KeysInv'
      <3>1. \A j \in android \ {k} : \/ j \in held \cup excused
                                     \/ \E u \in Threads \ {t} : Releases(run[u], j)
        BY <1>1 DEF KeysInv, Releases
      <3>2. \A j \in android' \ {k} : \/ j \in held' \cup excused'
                                      \/ \E u \in Threads \ {t} : Releases(run[u], j)'
        BY <1>1, <1>4, <2>2, <3>1, OtherKeysStay
      <3>3. k \in android' => k \in held' \cup excused'
        BY <1>1, <1>2, <1>4 DEF Write, KeysInv, Alone
      <3>4. \A u \in Threads : Alone(u)' /\ run'[u].op \in {"press", "pressed"} =>
                                 run'[u].arg \in held'
        BY <1>1, <2>0, <2>1, <2>2 DEF KeysInv, OnlyAlone
      <3> QED  BY <1>1, <2>3, <3>2, <3>3, <3>4 DEF KeysInv
    <2>7. KeysDownInv'
      <3>1. \A j \in android \ {k} : \/ j \in keysDown \cup excused
                                     \/ \E u \in Threads \ {t} : run[u].op = "pressed"
                                                                 /\ run[u].arg = j
        BY <1>1 DEF KeysDownInv
      <3>2. \A j \in android' \ {k} : \/ j \in keysDown' \cup excused'
                                      \/ \E u \in Threads : run'[u].op = "pressed"
                                                            /\ run'[u].arg = j
        BY <1>1, <1>4, <2>2, <2>3, <3>1 DEF Write, OthersGoOn
      <3>3. k \in android' => k \in excused' \/ o = "pressed"
        BY <1>1, <1>4, <2>0 DEF Write
      <3>4. Alone(t)' /\ o = "released" => k \notin android' \ excused'
        BY <1>1, <1>4, <2>0, <2>1 DEF Write, Alone
      <3> QED  BY <1>1, <2>1, <2>2, <3>2, <3>3, <3>4 DEF KeysDownInv, OnlyAlone
    <2> QED  BY <1>1, <2>1, <2>4, <2>5, <2>6, <2>7, OnKeyboard DEF HandlerFacts
  <1> QED  BY <1>3, <1>4 DEF SendKey, PipeFails

(* The last line of send_key_event stores what the key is now.              *)
LEMMA StoreKeyInv == ASSUME IInv, NEW t \in Threads, StoreKey(t) PROVE IInv'
  <1> USE DEF IInv
  <1> DEFINE k == run[t].arg
  <1>1. /\ run[t].op \in {"pressed", "released"}
        /\ UNCHANGED <<device, plugged, focus, held, surface, touch_id, fd, android>>
        /\ excused' = IF run[t].overlap THEN excused \cup {k} ELSE excused
        /\ keysDown' = IF run[t].op = "pressed" THEN keysDown \cup {k} ELSE keysDown \ {k}
    BY DEF StoreKey, seatVars, Excuse
  <1>2. Busy(t) /\ device = "keyboard" /\ k \in Keys  BY <1>1 DEF Busy, TypeInv, Fits
  <1>3. HandlerFacts(t) /\ run'[t].op = "idle"  BY <1>2, ReturnFacts DEF StoreKey
  <1>4. OthersGoOn(t) /\ OnlyAlone(t)  BY <1>3 DEF HandlerFacts
  <1>5. TypeInv'
    <2>1. VarTypes'  BY <1>1, <1>2 DEF VarTypes, TypeInv, InputTypeOK
    <2> QED  BY <1>1, <1>3, <1>4, <2>1, TypesHold, IdleFits DEF HandlerFacts
  <1>6. PipeInv'  BY <1>1, <1>2 DEF PipeInv
  <1>7. \A u \in Threads : ~Alone(u)'  BY <1>3, <1>4 DEF OnlyAlone, Alone, Busy
  <1>8. KeysInv'
    <2>1. \A j \in android : \/ j \in held' \cup excused'
                             \/ \E u \in Threads \ {t} : Releases(run[u], j)
      BY <1>1, <1>2 DEF KeysInv, Releases
    <2> QED  BY <1>1, <1>4, <1>7, <2>1, OthersRelease DEF KeysInv
  <1>9. KeysDownInv'
    <2>1. k \in android => k \in keysDown' \cup excused'
      BY <1>1, <1>2 DEF KeysDownInv, Alone
    <2>2. ASSUME NEW j \in android \ {k}, j \notin keysDown' \cup excused'
          PROVE  \E u \in Threads : run'[u].op = "pressed" /\ run'[u].arg = j
      <3>1. PICK u \in Threads : run[u].op = "pressed" /\ run[u].arg = j
        BY <1>1, <1>2, <2>2 DEF KeysDownInv
      <3> QED  BY <1>4, <2>2, <3>1 DEF OthersGoOn
    <2> QED  BY <1>1, <1>7, <2>1, <2>2 DEF KeysDownInv
  <1> QED  BY <1>1, <1>2, <1>3, <1>5, <1>6, <1>8, <1>9, OnKeyboard DEF HandlerFacts

(* The loop over keysDown passes a key that is up, or has no pipe.          *)
LEMMA LeaveSkipsInv == ASSUME IInv, NEW t \in Threads, LeaveSkips(t) PROVE IInv'
  <1> USE DEF IInv
  <1> DEFINE k == run[t].i
  <1>1. /\ device = "keyboard" /\ device' = device /\ run[t].op = "leave" /\ k \in Keys
        /\ UNCHANGED <<plugged, focus, held, surface, keysDown, touch_id, fd, android, excused>>
        /\ k \notin keysDown \/ ~fd
    BY DEF LeaveSkips, seatVars, tables, pipeVars, PipeFails
  <1>2. Busy(t) /\ k \in Nat /\ k + 1 \in Nat
    BY <1>1, InputAssumption DEF Busy, Keys
  <1>3. /\ HandlerFacts(t) /\ run'[t].op = "leave" /\ run'[t].i = k + 1
        /\ run'[t].arg = run[t].arg
    BY <1>2, GoOnFacts DEF LeaveSkips, HandlerOps
  <1>4. OthersGoOn(t) /\ OnlyAlone(t)  BY <1>3 DEF HandlerFacts
  <1>5. TypeInv'
    <2>1. VarTypes'  BY <1>1 DEF VarTypes, TypeInv, InputTypeOK
    <2>2. Fits(run[t])'  BY <1>1, <1>2, <1>3 DEF Fits
    <2> QED  BY <1>1, <1>3, <1>4, <2>1, <2>2, TypesHold DEF HandlerFacts
  <1>6. PipeInv'  BY <1>1 DEF PipeInv
  <1>7. KeysInv'
    <2>1. k \in android => \/ k \in excused
                           \/ \E u \in Threads \ {t} : Releases(run[u], k)
      <3> SUFFICES ASSUME k \in android, k \notin excused
                   PROVE  \E u \in Threads \ {t} : Releases(run[u], k)
        OBVIOUS
      <3>1. PICK u \in Threads : run[u].op = "pressed" /\ run[u].arg = k
        BY <1>1 DEF KeysDownInv, PipeInv
      <3> QED  BY <1>1, <1>2, <3>1 DEF OverlapInv, Busy, Releases
    <2>2. ASSUME NEW j \in android, j # k, Releases(run[t], j) PROVE Releases(run[t], j)'
      <3>1. j \in Nat /\ k \in Nat
        BY <1>1, <1>2, InputAssumption DEF TypeInv, InputTypeOK, Keys
      <3> QED  BY <1>1, <1>3, <2>2, <3>1 DEF Releases
    <2>3. \A j \in android : \/ j \in held \cup excused
                             \/ \E u \in Threads : Releases(run[u], j)'
      BY <1>1, <1>4, <2>1, <2>2, OthersRelease DEF KeysInv
    <2> QED  BY <1>1, <1>3, <1>4, <2>3 DEF KeysInv, OnlyAlone
  <1>8. KeysDownInv'  BY <1>1, <1>3, <1>4, KeysDownKept
  <1> QED  BY <1>1, <1>3, <1>5, <1>6, <1>7, <1>8, OnKeyboard DEF HandlerFacts

(* The loop over keysDown sends the release of a key.                       *)
LEMMA LeaveSendsInv == ASSUME IInv, NEW t \in Threads, LeaveSends(t) PROVE IInv'
  <1> USE DEF IInv
  <1> DEFINE k == run[t].i
  <1>1. /\ device = "keyboard" /\ device' = device /\ run[t].op = "leave" /\ k \in keysDown
        /\ UNCHANGED <<plugged, focus, held, surface, keysDown, touch_id>>
        /\ fd' = TRUE /\ Write(t, k, FALSE)
    BY DEF LeaveSends, seatVars, tables, PipeIsOpen
  <1>2. Busy(t) /\ k \in Keys /\ k \in Nat
    BY <1>1, InputAssumption DEF Busy, Keys, TypeInv, InputTypeOK
  <1>3. /\ HandlerFacts(t) /\ run'[t].op = "leaveStore" /\ run'[t].i = k
        /\ (Alone(t)' <=> Alone(t))
    BY <1>2, GoOnFacts DEF LeaveSends, HandlerOps
  <1>4. OthersGoOn(t) /\ OnlyAlone(t)  BY <1>3 DEF HandlerFacts
  <1>5. android' \subseteq android /\ (k \in android' => k \in excused')
        /\ excused \subseteq excused' \cup {k}
    BY <1>1 DEF Write
  <1>6. TypeInv'
    <2>1. VarTypes'  BY <1>1, <1>5 DEF VarTypes, TypeInv, InputTypeOK
    <2>2. Fits(run[t])'  BY <1>1, <1>2, <1>3 DEF Fits
    <2> QED  BY <1>1, <1>3, <1>4, <2>1, <2>2, TypesHold DEF HandlerFacts
  <1>7. PipeInv'  BY <1>1, <1>5 DEF PipeInv
  <1>8. KeysInv'
    <2>1. ASSUME NEW j \in android', j # k, Releases(run[t], j) PROVE Releases(run[t], j)'
      <3>1. j \in Nat
        BY <1>5, <1>1, InputAssumption DEF TypeInv, InputTypeOK, Keys
      <3> QED  BY <1>1, <1>2, <1>3, <2>1, <3>1 DEF Releases
    <2>2. \A j \in android' : \/ j \in held' \cup excused'
                              \/ \E u \in Threads : Releases(run[u], j)'
      BY <1>1, <1>4, <1>5, <2>1, OthersRelease DEF KeysInv
    <2> QED  BY <1>1, <1>3, <1>4, <2>2 DEF KeysInv, OnlyAlone
  <1>9. KeysDownInv'
    <2>1. ASSUME NEW j \in android', j \notin keysDown' \cup excused'
          PROVE  \E u \in Threads : run'[u].op = "pressed" /\ run'[u].arg = j
      <3>1. PICK u \in Threads : run[u].op = "pressed" /\ run[u].arg = j
        BY <1>1, <1>5, <2>1 DEF KeysDownInv
      <3> QED  BY <1>1, <1>4, <2>1, <3>1 DEF OthersGoOn
    <2> QED  BY <1>1, <1>3, <1>4, <1>5, <2>1 DEF KeysDownInv, OnlyAlone
  <1> QED  BY <1>1, <1>3, <1>6, <1>7, <1>8, <1>9, OnKeyboard DEF HandlerFacts

(* The loop over keysDown stores that the key is up.                        *)
LEMMA LeaveStoresInv == ASSUME IInv, NEW t \in Threads, LeaveStores(t) PROVE IInv'
  <1> USE DEF IInv
  <1> DEFINE k == run[t].i
  <1>1. /\ run[t].op = "leaveStore"
        /\ UNCHANGED <<device, plugged, focus, held, surface, touch_id, fd, android>>
        /\ excused' = IF run[t].overlap THEN excused \cup {k} ELSE excused
        /\ keysDown' = keysDown \ {k}
    BY DEF LeaveStores, seatVars, Excuse
  <1>2. Busy(t) /\ device = "keyboard" /\ k \in Keys /\ k \in Nat /\ k + 1 \in Nat
    BY <1>1, InputAssumption DEF Busy, TypeInv, Fits, Keys
  <1>3. HandlerFacts(t) /\ run'[t].op = "leave" /\ run'[t].i = k + 1
    <2>0. PICK n \in Nat : n = k + 1  BY <1>2
    <2>2. GoOn(t, "leave", n)  BY <2>0 DEF LeaveStores
    <2> QED  BY <1>2, <2>0, <2>2, GoOnFacts DEF HandlerOps
  <1>4. OthersGoOn(t) /\ OnlyAlone(t)  BY <1>3 DEF HandlerFacts
  <1>5. TypeInv'
    <2>1. VarTypes'  BY <1>1, <1>2 DEF VarTypes, TypeInv, InputTypeOK
    <2>2. Fits(run[t])'  BY <1>1, <1>2, <1>3 DEF Fits
    <2> QED  BY <1>1, <1>3, <1>4, <2>1, <2>2, TypesHold DEF HandlerFacts
  <1>6. PipeInv'  BY <1>1, <1>2 DEF PipeInv
  <1>7. KeysInv'
    <2>1. ASSUME NEW j \in android, Releases(run[t], j) PROVE Releases(run[t], j)'
      <3>1. j \in Nat
        BY <1>2, InputAssumption DEF TypeInv, InputTypeOK, Keys
      <3> QED  BY <1>1, <1>2, <1>3, <2>1, <3>1 DEF Releases
    <2>2. \A j \in android' : \/ j \in held' \cup excused'
                              \/ \E u \in Threads : Releases(run[u], j)'
      BY <1>1, <1>2, <1>4, <2>1, OthersRelease DEF KeysInv
    <2> QED  BY <1>1, <1>3, <1>4, <2>2 DEF KeysInv, OnlyAlone
  <1>8. KeysDownInv'
    <2>1. k \in android => k \in excused'
      BY <1>1, <1>2 DEF KeysDownInv, Alone
    <2>2. ASSUME NEW j \in android, j # k, j \notin keysDown' \cup excused'
          PROVE  \E u \in Threads : run'[u].op = "pressed" /\ run'[u].arg = j
      <3>1. PICK u \in Threads : run[u].op = "pressed" /\ run[u].arg = j
        BY <1>1, <1>2, <2>2 DEF KeysDownInv
      <3> QED  BY <1>1, <1>4, <2>2, <3>1 DEF OthersGoOn
    <2>3. ASSUME NEW j \in android, j = k, j \notin excused' PROVE FALSE
      BY <2>1, <2>3
    <2> QED  BY <1>1, <1>3, <1>4, <2>1, <2>2 DEF KeysDownInv, OnlyAlone
  <1> QED  BY <1>1, <1>2, <1>3, <1>5, <1>6, <1>7, <1>8, OnKeyboard DEF HandlerFacts

(* The loop over keysDown is at its end.                                    *)
LEMMA LeaveReturnsInv == ASSUME IInv, NEW t \in Threads, LeaveReturns(t) PROVE IInv'
  <1> USE DEF IInv
  <1>1. /\ device = "keyboard" /\ device' = device /\ run[t].op = "leave" /\ run[t].i > NumKeys
        /\ UNCHANGED <<plugged, focus, held, surface, keysDown, touch_id, fd, android, excused>>
    BY DEF LeaveReturns, seatVars, tables, pipeVars
  <1>2. Busy(t)  BY <1>1 DEF Busy
  <1>3. HandlerFacts(t) /\ run'[t].op = "idle"  BY <1>2, ReturnFacts DEF LeaveReturns
  <1>4. OthersGoOn(t) /\ OnlyAlone(t)  BY <1>3 DEF HandlerFacts
  <1>5. TypeInv'
    <2>1. VarTypes'  BY <1>1, <1>2 DEF VarTypes, TypeInv, InputTypeOK
    <2> QED  BY <1>1, <1>3, <1>4, <2>1, TypesHold, IdleFits DEF HandlerFacts
  <1>6. PipeInv'  BY <1>1 DEF PipeInv
  <1>7. KeysInv'
    <2>1. \A j \in android : ~Releases(run[t], j)
      <3> SUFFICES ASSUME NEW j \in android PROVE ~(j >= run[t].i)  BY <1>1 DEF Releases
      <3>1. j \in 1..NumKeys /\ run[t].i \in Nat
        BY <1>1 DEF TypeInv, InputTypeOK, Keys
      <3> QED  BY <1>1, <3>1, InputAssumption
    <2>2. \A j \in android : \/ j \in held \cup excused
                             \/ \E u \in Threads : Releases(run[u], j)'
      BY <1>1, <1>4, <2>1, OthersRelease DEF KeysInv
    <2> QED  BY <1>1, <1>3, <1>4, <2>2 DEF KeysInv, OnlyAlone
  <1>8. KeysDownInv'  BY <1>1, <1>3, <1>4, KeysDownKept
  <1> QED  BY <1>1, <1>3, <1>5, <1>6, <1>7, <1>8, OnKeyboard DEF HandlerFacts

-----------------------------------------------------------------------------
(* The pointer's buttons.                                                   *)

(* Some overlapped handler is going to excuse the release of k.             *)
LateRelease(k) ==
  \E u \in Threads : run[u].op = "release" /\ run[u].arg = k /\ run[u].overlap

(* Unless it is t's, it stays.                                              *)
LEMMA LateReleaseStays ==
  ASSUME NEW t \in Threads, OthersGoOn(t), NEW k, LateRelease(k),
         ~(run[t].op = "release" /\ run[t].arg = k /\ run[t].overlap)
  PROVE  LateRelease(k)'
  BY DEF LateRelease, OthersGoOn, Busy

(* Where Android and the surface stay and no leave handler starts.          *)
LEMMA SurfaceKept ==
  ASSUME SurfaceInv, NEW t \in Threads, OthersGoOn(t),
         device' = device, surface' = surface, android' \subseteq android,
         excused \cap android' \subseteq excused',
         run[t].op # "release", run'[t].op # "leave"
  PROVE  SurfaceInv'
  <1> SUFFICES ASSUME device = "pointer",
                      ~surface \/ \E u \in Threads : run'[u].op = "leave",
                      NEW k \in android', k \notin excused'
               PROVE  LateRelease(k)'
    BY DEF SurfaceInv, LateRelease
  <1>1. ~surface \/ \E u \in Threads : run[u].op = "leave"
    BY DEF OthersGoOn
  <1>2. LateRelease(k)  BY <1>1 DEF SurfaceInv, LateRelease
  <1> QED  BY <1>2, LateReleaseStays

(* pointer_handle_enter starts.                                             *)
LEMMA PointerEnterInv == ASSUME IInv, NEW t \in Threads, PointerEnter(t) PROVE IInv'
  <1> USE DEF IInv
  <1>1. EventFacts(t) /\ run'[t].op \in {"idle", "enter"}
    BY StartTypes, DispatchFacts, AtOnceFacts DEF PointerEnter
  <1>2. OthersGoOn(t) /\ OnlyAlone(t) /\ ~Busy(t)  BY <1>1 DEF EventFacts
  <1>3. device = "pointer" /\ device' = device /\ focus' = TRUE
        /\ UNCHANGED <<plugged, held, keysDown, fd, surface, touch_id, android, excused>>
    BY DEF PointerEnter, PointerEvent, tables, pipeVars
  <1>4. TypeInv'
    <2>1. VarTypes'  BY <1>3 DEF VarTypes, TypeInv, InputTypeOK
    <2>2. Fits(run[t])'  BY <1>1, <1>3 DEF Fits
    <2> QED  BY <1>1, <1>2, <1>3, <2>1, <2>2, TypesHold DEF EventFacts
  <1>5. PipeInv'  BY <1>3 DEF PipeInv
  <1>6. KeysInv'
    BY <1>1, <1>2, <1>3, OthersRelease DEF KeysInv, Releases, Busy, OnlyAlone
  <1>7. SurfaceInv'  BY <1>1, <1>2, <1>3, SurfaceKept DEF Busy
  <1> QED  BY <1>1, <1>3, <1>4, <1>5, <1>6, <1>7, OnPointer DEF EventFacts

(* pointer_handle_leave starts: what is held is excused.                    *)
LEMMA PointerLeaveInv == ASSUME IInv, NEW t \in Threads, PointerLeave(t) PROVE IInv'
  <1> USE DEF IInv
  <1>1. EventFacts(t) /\ run'[t].op = "leave" /\ run'[t].i = 1
    BY StartTypes, DispatchFacts DEF PointerLeave
  <1>2. OthersGoOn(t) /\ OnlyAlone(t) /\ ~Busy(t)  BY <1>1 DEF EventFacts
  <1>3. device = "pointer" /\ device' = device /\ focus' = FALSE
        /\ UNCHANGED <<plugged, keysDown, fd, surface, touch_id, android>>
        /\ held' = {} /\ excused' = excused \cup held
    BY DEF PointerLeave, PointerEvent, tables
  <1>4. TypeInv'
    <2>1. VarTypes'  BY <1>3 DEF VarTypes, TypeInv, InputTypeOK
    <2>2. Fits(run[t])'  BY <1>1, <1>3 DEF Fits
    <2> QED  BY <1>1, <1>2, <1>3, <2>1, <2>2, TypesHold DEF EventFacts
  <1>5. PipeInv'  BY <1>3 DEF PipeInv
  <1>6. KeysInv'
    <2>1. \A k \in android' : \/ k \in held' \cup excused'
                              \/ \E u \in Threads : Releases(run[u], k)'
      BY <1>2, <1>3, OthersRelease DEF KeysInv, Releases, Busy
    <2> QED  BY <1>1, <1>2, <1>3, <2>1 DEF KeysInv, OnlyAlone
  <1>7. SurfaceInv'
    <2> SUFFICES ASSUME NEW k \in android, k \notin excused'
                 PROVE  LateRelease(k)'
      BY <1>3 DEF SurfaceInv, LateRelease
    <2>1. PICK u \in Threads : Releases(run[u], k)  BY <1>3 DEF KeysInv
    <2>2. run[u].op = "release" /\ run[u].arg = k
      BY <1>3, <2>1 DEF Releases, TypeInv, Fits
    <2>3. u # t /\ ~Alone(u)'  BY <1>2, <2>2 DEF Busy, OnlyAlone
    <2>4. run'[u].op = "release" /\ run'[u].arg = k  BY <1>2, <2>2, <2>3 DEF OthersGoOn
    <2> QED  BY <2>3, <2>4 DEF LateRelease, Alone, Busy
  <1> QED  BY <1>1, <1>3, <1>4, <1>5, <1>6, <1>7, OnPointer DEF EventFacts

(* pointer_handle_button starts.                                            *)
LEMMA ButtonEventInv ==
  ASSUME IInv, NEW t \in Threads, NEW b \in Keys, ButtonEvent(t, b) PROVE IInv'
  <1> USE DEF IInv
  <1>1. PICK o \in {"press", "release"} :
          /\ Dispatch(t, o, b)
          /\ o = "press" => held' = held \cup {b}
          /\ o = "release" => held' = held \ {b}
    BY DEF ButtonEvent
  <1>2. EventFacts(t) /\ run'[t].op = o /\ run'[t].arg = b
    BY <1>1, StartTypes, DispatchFacts
  <1>3. OthersGoOn(t) /\ OnlyAlone(t) /\ ~Busy(t)  BY <1>2 DEF EventFacts
  <1>4. device = "pointer" /\ device' = device
        /\ UNCHANGED <<plugged, focus, keysDown, fd, surface, touch_id, android, excused>>
    BY DEF ButtonEvent, PointerEvent, tables, pipeVars
  <1>5. TypeInv'
    <2>1. VarTypes'  BY <1>4 DEF VarTypes, TypeInv, InputTypeOK
    <2>2. Fits(run[t])'  BY <1>2, <1>4 DEF Fits
    <2> QED  BY <1>2, <1>3, <1>4, <2>1, <2>2, TypesHold DEF EventFacts
  <1>6. PipeInv'  BY <1>4 DEF PipeInv
  <1>7. KeysInv'
    <2>1. \A j \in android : (\E u \in Threads : Releases(run[u], j)) =>
                               (\E u \in Threads : Releases(run[u], j)')
      BY <1>3, <1>4, OthersRelease DEF Releases, Busy
    <2>2. o = "release" => Releases(run[t], b)'  BY <1>2 DEF Releases
    <2>3. \A j \in android : \/ j \in held' \cup excused
                             \/ \E u \in Threads : Releases(run[u], j)'
      BY <1>1, <1>4, <2>1, <2>2 DEF KeysInv
    <2>4. \A u \in Threads : Alone(u)' /\ run'[u].op \in {"press", "pressed"} =>
                               run'[u].arg \in held'
      BY <1>1, <1>2, <1>3 DEF OnlyAlone
    <2> QED  BY <1>4, <2>3, <2>4 DEF KeysInv
  <1>8. SurfaceInv'  BY <1>1, <1>2, <1>3, <1>4, SurfaceKept DEF Busy
  <1> QED  BY <1>2, <1>4, <1>5, <1>6, <1>7, <1>8, OnPointer DEF EventFacts

(* The pointer handlers store the surface they are over.                    *)
LEMMA SetSurfaceInv == ASSUME IInv, NEW t \in Threads, SetSurface(t) PROVE IInv'
  <1> USE DEF IInv
  <1>1. device = "pointer" /\ run[t].op \in {"enter", "leave"}
        /\ surface' = (run[t].op = "enter")
        /\ UNCHANGED <<device, plugged, focus, held, keysDown, fd, touch_id, android, excused>>
    BY DEF SetSurface, seatVars, pipeVars
  <1>2. Busy(t)  BY <1>1 DEF Busy
  <1>3. HandlerFacts(t) /\ run'[t].op = "idle"  BY <1>2, ReturnFacts DEF SetSurface
  <1>4. OthersGoOn(t) /\ OnlyAlone(t)  BY <1>3 DEF HandlerFacts
  <1>5. TypeInv'
    <2>1. surface' \in BOOLEAN  BY <1>1
    <2>2. VarTypes'  BY <1>1, <2>1 DEF VarTypes, TypeInv, InputTypeOK
    <2> QED  BY <1>1, <1>3, <1>4, <2>2, TypesHold, IdleFits DEF HandlerFacts
  <1>6. PipeInv'  BY <1>1 DEF PipeInv
  <1>7. KeysInv'
    <2>1. \A k \in android : ~Releases(run[t], k)  BY <1>1 DEF Releases
    <2> QED  BY <1>1, <1>3, <1>4, <2>1, OthersRelease DEF KeysInv, OnlyAlone
  <1>8. SurfaceInv'
    <2> SUFFICES ASSUME ~surface' \/ \E u \in Threads : run'[u].op = "leave",
                        NEW k \in android, k \notin excused
                 PROVE  LateRelease(k)'
      BY <1>1 DEF SurfaceInv, LateRelease
    <2>1. \E u \in Threads : run[u].op = "leave"
      BY <1>1, <1>3, <1>4 DEF OthersGoOn
    <2>2. LateRelease(k)  BY <1>1, <2>1 DEF SurfaceInv, LateRelease
    <2> QED  BY <1>1, <1>4, <2>2, LateReleaseStays
  <1> QED  BY <1>1, <1>3, <1>5, <1>6, <1>7, <1>8, OnPointer DEF HandlerFacts

(* What the last step of a button's or a tool's handler does to k.          *)
LEMMA SentKeys ==
  ASSUME IInv, NEW t \in Threads, device \in {"pointer", "tablet"},
         run[t].op \in {"press", "release"}, Write(t, run[t].arg, run[t].op = "press"),
         UNCHANGED <<device, held>>, HandlerFacts(t), run'[t].op = "idle"
  PROVE  KeysInv'
  <1> USE DEF IInv
  <1> DEFINE k == run[t].arg
  <1>1. OthersGoOn(t) /\ OnlyAlone(t)  BY DEF HandlerFacts
  <1>2. \A j \in android \ {k} : \/ j \in held \cup excused
                                 \/ \E u \in Threads \ {t} : Releases(run[u], j)
    BY DEF KeysInv, Releases
  <1>3. \A j \in android' \ {k} : \/ j \in held' \cup excused'
                                  \/ \E u \in Threads \ {t} : Releases(run[u], j)'
    BY <1>1, <1>2, OtherKeysStay
  <1>4. k \in android' => k \in held' \cup excused'
    BY DEF Write, KeysInv, Alone, Busy
  <1> QED  BY <1>1, <1>3, <1>4 DEF KeysInv, OnlyAlone

(* pointer_handle_button sends the button, if the pointer is over a         *)
(* surface.                                                                 *)
LEMMA SendButtonInv == ASSUME IInv, NEW t \in Threads, SendButton(t) PROVE IInv'
  <1> USE DEF IInv
  <1> DEFINE k == run[t].arg
  <1>1. device = "pointer" /\ device' = device /\ run[t].op \in {"press", "release"}
        /\ UNCHANGED <<plugged, focus, held, surface, keysDown, touch_id>>
    BY DEF SendButton, seatVars, tables
  <1>2. Busy(t) /\ k \in Keys  BY <1>1 DEF Busy, TypeInv, Fits
  <1>3. HandlerFacts(t) /\ run'[t].op = "idle"  BY <1>2, ReturnFacts DEF SendButton
  <1>4. OthersGoOn(t) /\ OnlyAlone(t)  BY <1>3 DEF HandlerFacts
  <1>5. ASSUME VarTypes' PROVE TypeInv'
    BY <1>1, <1>3, <1>4, <1>5, TypesHold, IdleFits DEF HandlerFacts
  <1>6. CASE surface /\ Write(t, k, run[t].op = "press") /\ fd' = TRUE
    <2>1. TypeInv'
      <3>1. android' \subseteq android \cup {k}  BY <1>6, WriteTypes
      <3>2. VarTypes'  BY <1>1, <1>2, <1>6, <3>1 DEF VarTypes, TypeInv, InputTypeOK
      <3> QED  BY <1>5, <3>2
    <2>2. PipeInv'  BY <1>1, <1>6 DEF PipeInv, Write
    <2>3. KeysInv'  BY <1>1, <1>3, <1>6, SentKeys
    <2>4. SurfaceInv'
      <3> SUFFICES ASSUME \E u \in Threads : run'[u].op = "leave",
                          NEW j \in android', j \notin excused'
                   PROVE  LateRelease(j)'
        BY <1>1, <1>6 DEF SurfaceInv, LateRelease
      <3>1. \E u \in Threads \ {t} : run[u].op = "leave"  BY <1>3, <1>4 DEF OthersGoOn
      <3>2. run[t].overlap  BY <1>2, <3>1 DEF OverlapInv, Busy
      <3>3. j # k /\ j \in android /\ j \notin excused  BY <1>6, <3>2 DEF Write
      <3>4. LateRelease(j)  BY <1>1, <3>1, <3>3 DEF SurfaceInv, LateRelease
      <3> QED  BY <1>4, <3>3, <3>4, LateReleaseStays
    <2> QED  BY <1>1, <1>3, <2>1, <2>2, <2>3, <2>4, OnPointer DEF HandlerFacts
  <1>7. CASE (~fd /\ UNCHANGED pipeVars)
             \/ (~surface /\ fd' /\ android' = android /\ Excuse(t, k))
    <2>1. android' = android /\ fd' \in BOOLEAN /\ excused \subseteq excused'
      BY <1>7 DEF pipeVars, Excuse, TypeInv, InputTypeOK
    <2>2. TypeInv'
      <3>1. VarTypes'
        BY <1>1, <2>1, <1>7 DEF VarTypes, TypeInv, InputTypeOK, SendButton, PipeIsOpen
      <3> QED  BY <1>5, <3>1
    <2>3. PipeInv'  BY <1>1, <1>7, <2>1 DEF PipeInv, pipeVars
    <2>4. k \in android => \/ run[t].op = "press" /\ k \in held
                           \/ k \in excused'
                           \/ LateRelease(k) /\ ~run[t].overlap
      BY <1>1, <1>2, <1>7 DEF PipeInv, pipeVars, SurfaceInv, LateRelease, Excuse, KeysInv, Alone
    <2>5. k \in android /\ run[t].op = "release" => k \in excused'
      BY <1>1, <1>2, <2>4 DEF LateRelease, OverlapInv, Busy
    <2>6. KeysInv'
      <3>1. \A j \in android : \/ j \in held \cup excused'
                               \/ \E u \in Threads \ {t} : Releases(run[u], j)
        BY <1>1, <2>1, <2>5 DEF KeysInv, Releases
      <3> QED  BY <1>1, <1>3, <1>4, <2>1, <3>1, OthersRelease DEF KeysInv, OnlyAlone
    <2>7. SurfaceInv'
      <3> SUFFICES ASSUME ~surface \/ \E u \in Threads : run'[u].op = "leave",
                          NEW j \in android, j \notin excused'
                   PROVE  LateRelease(j)'
        BY <1>1, <2>1 DEF SurfaceInv, LateRelease
      <3>1. ~surface \/ \E u \in Threads : run[u].op = "leave"
        BY <1>3, <1>4 DEF OthersGoOn
      <3>2. LateRelease(j)  BY <1>1, <2>1, <3>1 DEF SurfaceInv, LateRelease
      <3> QED  BY <1>4, <2>5, <3>2, LateReleaseStays
    <2> QED  BY <1>1, <1>3, <2>2, <2>3, <2>6, <2>7, OnPointer DEF HandlerFacts
  <1> QED  BY <1>6, <1>7 DEF SendButton, PipeFails, PipeIsOpen

-----------------------------------------------------------------------------
(* The tablet.                                                              *)
LEMMA TabletEventInv == ASSUME IInv, NEW t \in Threads, TabletEvent(t) PROVE IInv'
  <1> USE DEF IInv
  <1>0. {Tool, Tip} \subseteq Keys /\ Tool # Tip
    BY InputAssumption DEF Tool, Tip, Keys
  <1>1. PICK o \in {"press", "release"}, x \in {Tool, Tip} :
          /\ Dispatch(t, o, x)
          /\ o = "press" => held' = held \cup {x}
          /\ o = "release" => held' = held \ {x}
    BY <1>0 DEF TabletEvent
  <1>2. EventFacts(t) /\ run'[t].op = o /\ run'[t].arg = x
    BY <1>0, <1>1, StartTypes, DispatchFacts
  <1>3. OthersGoOn(t) /\ OnlyAlone(t) /\ ~Busy(t)  BY <1>2 DEF EventFacts
  <1>4. device = "tablet" /\ device' = device
        /\ UNCHANGED <<plugged, focus, keysDown, fd, surface, touch_id, android, excused>>
    BY DEF TabletEvent, tables, pipeVars
  <1>5. TypeInv'
    <2>1. VarTypes'  BY <1>4 DEF VarTypes, TypeInv, InputTypeOK
    <2>2. Fits(run[t])'  BY <1>0, <1>2, <1>4 DEF Fits
    <2> QED  BY <1>2, <1>3, <1>4, <2>1, <2>2, TypesHold DEF EventFacts
  <1>6. PipeInv'  BY <1>4 DEF PipeInv
  <1>7. KeysInv'
    <2>1. \A j \in android : (\E u \in Threads : Releases(run[u], j)) =>
                               (\E u \in Threads : Releases(run[u], j)')
      BY <1>3, <1>4, OthersRelease DEF Releases, Busy
    <2>2. o = "release" => Releases(run[t], x)'  BY <1>2 DEF Releases
    <2>3. \A j \in android : \/ j \in held' \cup excused
                             \/ \E u \in Threads : Releases(run[u], j)'
      BY <1>1, <1>4, <2>1, <2>2 DEF KeysInv
    <2>4. \A u \in Threads : Alone(u)' /\ run'[u].op \in {"press", "pressed"} =>
                               run'[u].arg \in held'
      BY <1>1, <1>2, <1>3 DEF OnlyAlone
    <2> QED  BY <1>4, <2>3, <2>4 DEF KeysInv
  <1> QED  BY <1>2, <1>4, <1>5, <1>6, <1>7, OnTablet DEF EventFacts

(* A tablet handler of an axis starts.                                      *)
LEMMA TabletAxisInv == ASSUME IInv, NEW t \in Threads, TabletAxis(t) PROVE IInv'
  <1> USE DEF IInv
  <1>1. EventFacts(t) /\ run'[t].op = "axis"
    BY StartTypes, DispatchFacts DEF TabletAxis
  <1>2. OthersGoOn(t) /\ OnlyAlone(t) /\ ~Busy(t)  BY <1>1 DEF EventFacts
  <1>3. device = "tablet" /\ device' = device
        /\ UNCHANGED <<plugged, focus, held, keysDown, fd, surface, touch_id, android, excused>>
    BY DEF TabletAxis, seatVars, tables, pipeVars
  <1>4. TypeInv'
    <2>1. VarTypes'  BY <1>3 DEF VarTypes, TypeInv, InputTypeOK
    <2>2. Fits(run[t])'  BY <1>1, <1>3 DEF Fits
    <2> QED  BY <1>1, <1>2, <1>3, <2>1, <2>2, TypesHold DEF EventFacts
  <1>5. PipeInv'  BY <1>3 DEF PipeInv
  <1>6. KeysInv'
    BY <1>1, <1>2, <1>3, OthersRelease DEF KeysInv, Releases, Busy, OnlyAlone
  <1> QED  BY <1>1, <1>3, <1>4, <1>5, <1>6, OnTablet DEF EventFacts

(* A tablet handler of the tool or its buttons sends it.                    *)
LEMMA SendToolInv == ASSUME IInv, NEW t \in Threads, SendTool(t) PROVE IInv'
  <1> USE DEF IInv
  <1> DEFINE k == run[t].arg
  <1>1. device = "tablet" /\ device' = device /\ run[t].op \in {"press", "release"}
        /\ UNCHANGED <<plugged, focus, held, keysDown, touch_id>>
    BY DEF SendTool, seatVars
  <1>2. Busy(t) /\ k \in Keys  BY <1>1 DEF Busy, TypeInv, Fits
  <1>3. HandlerFacts(t) /\ run'[t].op = "idle"  BY <1>2, ReturnFacts DEF SendTool
  <1>4. OthersGoOn(t) /\ OnlyAlone(t)  BY <1>3 DEF HandlerFacts
  <1>5. ASSUME VarTypes' PROVE TypeInv'
    BY <1>1, <1>3, <1>4, <1>5, TypesHold, IdleFits DEF HandlerFacts
  <1>6. CASE ~fd /\ UNCHANGED pipeVars /\ UNCHANGED surface
    <2>1. UNCHANGED <<fd, android, excused>>  BY <1>6 DEF pipeVars
    <2>2. TypeInv'
      <3>1. VarTypes'  BY <1>1, <1>6, <2>1 DEF VarTypes, TypeInv, InputTypeOK
      <3> QED  BY <1>5, <3>1
    <2>3. PipeInv'  BY <1>1, <2>1 DEF PipeInv
    <2>4. KeysInv'
      BY <1>1, <1>3, <1>4, <1>6, <2>1 DEF KeysInv, PipeInv, OnlyAlone
    <2> QED  BY <1>1, <1>3, <2>2, <2>3, <2>4, OnTablet DEF HandlerFacts
  <1>7. CASE fd' = TRUE /\ Write(t, k, run[t].op = "press") /\ surface' \in BOOLEAN
    <2>1. TypeInv'
      <3>1. android' \subseteq android \cup {k}  BY <1>7, WriteTypes
      <3>2. VarTypes'  BY <1>1, <1>2, <1>7, <3>1 DEF VarTypes, TypeInv, InputTypeOK
      <3> QED  BY <1>5, <3>2
    <2>2. PipeInv'  BY <1>1, <1>7 DEF PipeInv, Write
    <2>3. KeysInv'  BY <1>1, <1>3, <1>7, SentKeys
    <2> QED  BY <1>1, <1>3, <2>1, <2>2, <2>3, OnTablet DEF HandlerFacts
  <1>8. surface \in BOOLEAN  BY DEF TypeInv, InputTypeOK
  <1> QED  BY <1>6, <1>7, <1>8 DEF SendTool, PipeFails, PipeIsOpen

(* A tablet handler of an axis opens the pipe.                              *)
LEMMA SendAxisInv == ASSUME IInv, NEW t \in Threads, SendAxis(t) PROVE IInv'
  <1> USE DEF IInv
  <1>0. fd \in BOOLEAN  BY DEF TypeInv, InputTypeOK
  <1>1. /\ run[t].op = "axis"
        /\ UNCHANGED <<device, plugged, focus, held, surface, keysDown, touch_id>>
        /\ UNCHANGED <<android, excused>>
        /\ fd' = fd \/ fd' = TRUE
    BY DEF SendAxis, seatVars, tables, pipeVars, PipeFails, PipeIsOpen
  <1>2. Busy(t) /\ device = "tablet"  BY <1>1 DEF Busy, TypeInv, Fits
  <1>3. HandlerFacts(t) /\ run'[t].op = "idle"  BY <1>2, ReturnFacts DEF SendAxis
  <1>4. OthersGoOn(t) /\ OnlyAlone(t)  BY <1>3 DEF HandlerFacts
  <1>5. TypeInv'
    <2>1. VarTypes'  BY <1>0, <1>1, <1>2 DEF VarTypes, TypeInv, InputTypeOK
    <2> QED  BY <1>1, <1>3, <1>4, <2>1, TypesHold, IdleFits DEF HandlerFacts
  <1>6. PipeInv'  BY <1>0, <1>1, <1>2 DEF PipeInv
  <1>7. KeysInv'
    <2>1. \A k \in android : ~Releases(run[t], k)  BY <1>1, <1>2 DEF Releases
    <2> QED  BY <1>1, <1>3, <1>4, <2>1, OthersRelease DEF KeysInv, OnlyAlone
  <1> QED  BY <1>1, <1>2, <1>3, <1>5, <1>6, <1>7, OnTablet DEF HandlerFacts

-----------------------------------------------------------------------------
(* Touch.                                                                   *)

(* The order of the natural numbers is well-founded.                        *)
LessThan == OpToRel(<, Nat)

(* Less-than on the natural numbers is well-founded.                        *)
LEMMA LessThanWellFounded == IsWellFoundedOn(LessThan, Nat)
  BY NatLessThanWellFounded DEF LessThan

(* A smaller number comes before a greater one in that order.               *)
LEMMA LessThanIsLess == \A x, y \in Nat : x < y => <<x, y>> \in LessThan
  BY DEF LessThan, OpToRel

(* A set of numbers that is not empty has a least element.                  *)
LEMMA LeastIsIn ==
  ASSUME NEW S \in SUBSET Nat, S # {}
  PROVE  Least(S) \in S
  <1>1. PICK x \in S : \A y \in S : ~ (<<y, x>> \in LessThan)
    BY LessThanWellFounded, WFMin
  <1>2. \A y \in S : ~(y < x)  BY <1>1, LessThanIsLess
  <1>3. \A y \in S : x <= y  BY <1>2
  <1> QED  BY <1>3 DEF Least

(* get_touch_id finds the slot of a finger that has one.                    *)
LEMMA SlotFound ==
  ASSUME NEW f
  PROVE  /\ get_touch_id(f) # NoSlot => /\ get_touch_id(f) \in Slots
                                        /\ touch_id[get_touch_id(f)] = f
         /\ get_touch_id(f) = NoSlot => \A s \in Slots : touch_id[s] # f
  <1>1. SlotsOf(f) \in SUBSET Nat /\ SlotsOf(f) \subseteq Slots /\ NoSlot \notin Slots
    BY InputAssumption DEF SlotsOf, Slots, NoSlot
  <1>2. CASE SlotsOf(f) = {}  BY <1>2 DEF get_touch_id, SlotsOf
  <1>3. CASE SlotsOf(f) # {}
    <2>1. Least(SlotsOf(f)) \in SlotsOf(f)  BY <1>1, <1>3, LeastIsIn
    <2> QED  BY <1>1, <1>3, <2>1 DEF get_touch_id, SlotsOf
  <1> QED  BY <1>2, <1>3

(* Where neither Android nor the slots change and t writes nothing.         *)
LEMMA ContactKept ==
  ASSUME ContactInv, NEW t \in Threads, OthersGoOn(t), OnlyAlone(t),
         UNCHANGED <<device, plugged, touch_id, android>>,
         excused \cap Slots \subseteq excused', \A s \in Slots : ~Writes(run[t], s),
         run'[t].op \notin {"sendDown", "sendUp", "sendMotion", "sendCancel"}
  PROVE  ContactInv'
  <1> SUFFICES ASSUME device = "touch" PROVE ContactInv'  BY DEF ContactInv
  <1>1. ASSUME plugged, NEW s \in Slots, s \notin excused', ~(s \in android <=> touch_id[s] # NoFinger)
        PROVE  \E u \in Threads : Writes(run[u], s)'
    <2>1. PICK u \in Threads : Writes(run[u], s)  BY <1>1 DEF ContactInv
    <2> QED  BY <2>1, OthersWrite
  <1> QED  BY <1>1 DEF ContactInv, OnlyAlone

(* Where no slot changes and no finger is lifted but by t.                  *)
LEMMA SlotKept ==
  ASSUME SlotInv, TypeInv, NEW t \in Threads, OthersGoOn(t), OnlyAlone(t),
         UNCHANGED <<device, plugged, touch_id>>,
         \A s \in Slots : touch_id[s] \in held \cup excused /\ plugged =>
            touch_id[s] \in held' \cup {NoFinger} \cup excused' \/ Frees(run'[t], s, touch_id[s]),
         \A s \in Slots : Frees(run[t], s, touch_id[s]) =>
            touch_id[s] \in held' \cup {NoFinger} \cup excused' \/ Frees(run'[t], s, touch_id[s]),
         Alone(t)' /\ run'[t].op = "down" => run'[t].arg \in held'
  PROVE  SlotInv'
  <1> SUFFICES ASSUME device = "touch" PROVE SlotInv'  BY DEF SlotInv
  <1>1. ASSUME plugged, NEW s \in Slots, touch_id[s] \notin held' \cup {NoFinger} \cup excused'
        PROVE  \E u \in Threads : Frees(run'[u], s, touch_id[s])
    <2>1. CASE touch_id[s] \in held \cup excused  BY <1>1, <2>1
    <2>2. CASE touch_id[s] \notin held \cup excused
      <3>1. PICK u \in Threads : Frees(run[u], s, touch_id[s])
        BY <1>1, <2>2 DEF SlotInv
      <3>2. CASE u = t  BY <1>1, <3>1, <3>2
      <3>3. CASE u # t  BY <3>1, <3>3, OthersFree
      <3> QED  BY <3>2, <3>3
    <2> QED  BY <2>1, <2>2
  <1> QED  BY <1>1 DEF SlotInv, OnlyAlone

(* The events.                                                              *)
LEMMA TouchEventInv ==
  ASSUME IInv, NEW t \in Threads, device = "touch", EventFacts(t),
         UNCHANGED <<device, plugged, focus, fd, surface, keysDown, touch_id, android, excused>>,
         \/ run'[t].op = "idle" /\ held \subseteq held'
         \/ /\ run'[t].op \in {"down", "motion"} /\ run'[t].arg \in held' \cap Fingers
            /\ held \subseteq held'
         \/ run'[t].op = "up" /\ run'[t].arg \in Fingers /\ held' = held \ {run'[t].arg}
         \/ run'[t].op = "cancel"
  PROVE  IInv'
  <1> USE DEF IInv
  <1>1. OthersGoOn(t) /\ OnlyAlone(t) /\ ~Busy(t)  BY DEF EventFacts
  <1>2. TypeInv'
    <2>1. VarTypes'  BY DEF VarTypes, TypeInv, InputTypeOK
    <2>2. Fits(run[t])'  BY DEF Fits
    <2> QED  BY <1>1, <2>1, <2>2, TypesHold DEF EventFacts
  <1>3. PipeInv'  BY <1>1 DEF PipeInv, OnlyAlone
  <1>4. ContactInv'
    <2>1. \A s \in Slots : ~Writes(run[t], s)  BY <1>1 DEF Writes, Busy
    <2> QED  BY <1>1, <2>1, ContactKept
  <1>5. SlotInv'
    <2>1. \A s \in Slots : ~Frees(run[t], s, touch_id[s])  BY <1>1 DEF Frees, Busy
    <2>2. \A s \in Slots : touch_id[s] \in held \cup excused =>
            touch_id[s] \in held' \cup excused' \/ Frees(run'[t], s, touch_id[s])
      BY DEF Frees
    <2> QED  BY <1>1, <2>1, <2>2, SlotKept
  <1> QED  BY <1>2, <1>3, <1>4, <1>5, OnTouch DEF EventFacts

(* The touch handlers start.                                                *)
LEMMA TouchEventsInv ==
  ASSUME IInv, NEW t \in Threads,
         \/ \E f \in Fingers : TouchDown(t, f) \/ TouchUp(t, f) \/ TouchMotion(t, f)
         \/ TouchCancel(t)
  PROVE  IInv'
  <1> USE DEF IInv
  <1>1. /\ device = "touch"
        /\ UNCHANGED <<device, plugged, focus, fd, surface, keysDown, touch_id, android, excused>>
    BY DEF TouchDown, TouchUp, TouchMotion, TouchCancel, TouchEvent, seatVars, tables, pipeVars
  <1>2. ASSUME NEW f \in Fingers, TouchDown(t, f) PROVE IInv'
    <2>1. EventFacts(t) /\ \/ run'[t].op = "idle"
                           \/ run'[t].op = "down" /\ run'[t].arg = f
      BY ZenonT(30), <1>2, StartTypes, DispatchFacts, AtOnceFacts DEF TouchDown
    <2> QED  BY <1>1, <1>2, <2>1, TouchEventInv DEF TouchDown
  <1>3. ASSUME NEW f \in Fingers, TouchUp(t, f) PROVE IInv'
    <2>1. EventFacts(t) /\ run'[t].op = "up" /\ run'[t].arg = f
      BY <1>3, StartTypes, DispatchFacts DEF TouchUp
    <2> QED  BY <1>1, <1>3, <2>1, TouchEventInv DEF TouchUp
  <1>4. ASSUME NEW f \in Fingers, TouchMotion(t, f) PROVE IInv'
    <2>1. EventFacts(t) /\ run'[t].op = "motion" /\ run'[t].arg = f
      BY <1>4, StartTypes, DispatchFacts DEF TouchMotion
    <2> QED  BY <1>1, <1>4, <2>1, TouchEventInv DEF TouchMotion, seatVars
  <1>5. CASE TouchCancel(t)
    <2>1. EventFacts(t) /\ run'[t].op = "cancel"
      BY <1>5, StartTypes, DispatchFacts DEF TouchCancel
    <2> QED  BY <1>1, <2>1, TouchEventInv
  <1> QED  BY <1>2, <1>3, <1>4, <1>5

(* touch_handle_down takes the first slot that is free.                     *)
LEMMA DownTakesSlotInv == ASSUME IInv, NEW t \in Threads, DownTakesSlot(t) PROVE IInv'
  <1> USE DEF IInv
  <1> DEFINE f == run[t].arg
  <1>0. PICK s : s = create_touch_id(f)  OBVIOUS
  <1>1. /\ device = "touch" /\ device' = device /\ run[t].op = "down"
        /\ UNCHANGED <<plugged, focus, held, surface, keysDown, android>>
    BY DEF DownTakesSlot, seatVars, PipeFails, pipeVars
  <1>2. Busy(t) /\ f \in Fingers /\ f # NoFinger
    BY <1>1, InputAssumption DEF Busy, TypeInv, Fits
  <1>3. CASE ~fd /\ UNCHANGED pipeVars /\ Return(t) /\ touch_id' = touch_id
    <2>1. HandlerFacts(t) /\ run'[t].op = "idle"  BY <1>2, <1>3, ReturnFacts
    <2>2. OthersGoOn(t) /\ OnlyAlone(t)  BY <2>1 DEF HandlerFacts
    <2>3. UNCHANGED <<fd, excused>>  BY <1>3 DEF pipeVars
    <2>4. TypeInv'
      <3>1. VarTypes'  BY <1>1, <1>3, <2>3 DEF VarTypes, TypeInv, InputTypeOK
      <3> QED  BY <1>1, <2>1, <2>2, <3>1, TypesHold, IdleFits DEF HandlerFacts
    <2>5. PipeInv'  BY <1>1, <1>3, <2>1, <2>2, <2>3 DEF PipeInv, OnlyAlone
    <2>6. ContactInv'
      BY <1>1, <1>3, <2>1, <2>2, <2>3, ContactKept DEF Writes
    <2>7. SlotInv'
      BY <1>1, <1>3, <2>1, <2>2, <2>3, SlotKept DEF Frees
    <2> QED  BY <1>1, <2>1, <2>4, <2>5, <2>6, <2>7, OnTouch DEF HandlerFacts
  <1>4. CASE /\ fd' = TRUE
             /\ touch_id' = IF s = NoSlot THEN touch_id ELSE [touch_id EXCEPT ![s] = f]
             /\ excused' = IF run[t].overlap THEN excused \cup {f} ELSE excused \ {f}
             /\ GoOn(t, "sendDown", s)
    <2>1. s # NoSlot => /\ s \in Slots
                        /\ touch_id[s] \in {f, NoFinger}
                        /\ touch_id[s] = NoFinger => \A r \in Slots : touch_id[r] # f
      BY <1>0, <1>2, SlotFound DEF create_touch_id
    <2>2. s \in Slots \cup {NoSlot} /\ s \in Nat /\ NoSlot \notin Slots
      BY <2>1, InputAssumption DEF Slots, NoSlot
    <2>3. /\ HandlerFacts(t) /\ run'[t].op = "sendDown" /\ run'[t].i = s
          /\ (Alone(t)' <=> Alone(t))
      BY <1>2, <1>4, <2>2, GoOnFacts DEF HandlerOps
    <2>4. OthersGoOn(t) /\ OnlyAlone(t)  BY <2>3 DEF HandlerFacts
    <2>5. /\ touch_id' \in [Slots -> Fingers \cup {NoFinger}]
          /\ s # NoSlot => touch_id'[s] = f
          /\ \A r \in Slots \ {s} : touch_id'[r] = touch_id[r]
      BY <1>2, <1>4, <2>1 DEF TypeInv, InputTypeOK
    <2>6. TypeInv'
      <3>1. VarTypes'  BY <1>1, <1>4, <2>5 DEF VarTypes, TypeInv, InputTypeOK
      <3>2. Fits(run[t])'  BY <1>1, <2>2, <2>3 DEF Fits
      <3> QED  BY <1>1, <2>3, <2>4, <3>1, <3>2, TypesHold DEF HandlerFacts
    <2>7. PipeInv'  BY <1>1, <1>4 DEF PipeInv
    <2>8. \A r \in Slots : r \in excused => r \in excused'
      BY <1>2, <1>4, InputAssumption DEF Slots
    <2>9. ContactInv'
      <3>1. \A r \in Slots : Writes(run[t], r) => FALSE  BY <1>1 DEF Writes
      <3>2. ASSUME plugged, NEW r \in Slots, r \notin excused', r # s
            PROVE  \/ r \in android' <=> touch_id'[r] # NoFinger
                   \/ \E u \in Threads : Writes(run[u], r)'
        <4>1. \/ r \in android <=> touch_id[r] # NoFinger
              \/ \E u \in Threads \ {t} : Writes(run[u], r)
          BY <1>1, <2>8, <3>1, <3>2 DEF ContactInv
        <4> QED  BY <1>1, <2>4, <2>5, <3>2, <4>1, OthersWrite
      <3>3. Writes(run[t], s)'  BY <2>3 DEF Writes
      <3>4. run'[t].i # NoSlot => touch_id'[run'[t].i] # NoFinger  BY <1>2, <2>3, <2>5
      <3> QED  BY <1>1, <2>3, <2>4, <3>2, <3>3, <3>4 DEF ContactInv, OnlyAlone
    <2>10. SlotInv'
      <3>1. \A r, q \in Slots : r # q /\ touch_id'[r] = touch_id'[q] => touch_id'[r] = NoFinger
        BY <1>1, <1>2, <2>1, <2>2, <2>5 DEF SlotInv
      <3>2. f \in held' \cup excused'
        BY <1>1, <1>2, <1>4 DEF SlotInv, Alone
      <3>3. excused \subseteq excused' \cup {f}  BY <1>4
      <3>4. ASSUME plugged, NEW r \in Slots,
                   touch_id'[r] \notin held' \cup {NoFinger} \cup excused'
            PROVE  \E u \in Threads : Frees(run'[u], r, touch_id'[r])
        <4>1. touch_id'[r] # f  BY <3>2, <3>4
        <4>2. touch_id'[r] = touch_id[r]  BY <2>2, <2>5, <4>1
        <4>3. PICK u \in Threads : Frees(run[u], r, touch_id[r])
          BY <1>1, <3>3, <3>4, <4>1, <4>2 DEF SlotInv
        <4>4. u # t  BY <1>1, <4>3 DEF Frees
        <4> QED  BY <2>4, <4>2, <4>3, <4>4, OthersFree
      <3> QED  BY <1>1, <2>3, <2>4, <3>1, <3>4 DEF SlotInv, OnlyAlone
    <2> QED  BY <1>1, <2>3, <2>6, <2>7, <2>9, <2>10, OnTouch DEF HandlerFacts
  <1> QED  BY <1>0, <1>3, <1>4 DEF DownTakesSlot, PipeFails, PipeIsOpen

(* What a step that sends slot s does.                                      *)
LEMMA SentContact ==
  ASSUME TypeInv, ContactInv, NEW t \in Threads, HandlerFacts(t), NEW s \in Slots,
         run[t].i = s, NEW down \in BOOLEAN, Write(t, s, down),
         Alone(t) => (down <=> touch_id[s] # NoFinger), Busy(t),
         UNCHANGED <<device, plugged, touch_id>>,
         run'[t].op \in {"idle", "cancelSlot"}
  PROVE  ContactInv'
  <1> SUFFICES ASSUME device = "touch" PROVE ContactInv'  BY DEF ContactInv
  <1>1. OthersGoOn(t) /\ OnlyAlone(t)  BY DEF HandlerFacts
  <1>2. ASSUME plugged, NEW r \in Slots \ {s}, r \notin excused',
               ~(r \in android' <=> touch_id[r] # NoFinger)
        PROVE  \E u \in Threads : Writes(run[u], r)'
    <2>1. r \notin excused /\ ~(r \in android <=> touch_id[r] # NoFinger)
      BY <1>2 DEF Write
    <2>2. PICK u \in Threads \ {t} : Writes(run[u], r)
      BY <1>2, <2>1 DEF ContactInv, Writes
    <2> QED  BY <1>1, <2>2, OthersWrite
  <1>3. s \in excused' \/ (s \in android' <=> touch_id[s] # NoFinger)
    BY DEF Write, Alone
  <1> QED  BY <1>1, <1>2, <1>3 DEF ContactInv, OnlyAlone

(* No finger leaves the excuses when a slot is written.                     *)
LEMMA FingersStayExcused ==
  ASSUME TypeInv, NEW t, NEW s \in Slots, NEW down, Write(t, s, down), NEW r \in Slots,
         touch_id[r] \in excused, touch_id[r] # NoFinger
  PROVE  touch_id[r] \in excused'
  <1>1. touch_id[r] \in Fingers  BY DEF TypeInv, InputTypeOK
  <1>2. touch_id[r] # s  BY <1>1, InputAssumption DEF Slots
  <1> QED  BY <1>2 DEF Write

(* A touch handler's last step, or one that goes on with the next slot.     *)
LEMMA SentInv ==
  ASSUME IInv, NEW t \in Threads, HandlerFacts(t), Busy(t), device = "touch",
         NEW down \in BOOLEAN,
         run[t].op \in {"sendDown", "sendUp", "sendMotion"}, run'[t].op = "idle",
         UNCHANGED <<device, plugged, focus, held, surface, keysDown, touch_id>>,
         \/ UNCHANGED <<fd, android, excused>> /\ (~fd \/ run[t].i = NoSlot)
         \/ /\ run[t].i \in Slots /\ Write(t, run[t].i, down)
            /\ fd' = TRUE \/ (fd' = fd /\ run[t].op = "sendDown")
            /\ down <=> run[t].op # "sendUp"
  PROVE  IInv'
  <1> USE DEF IInv
  <1> DEFINE s == run[t].i
  <1>1. OthersGoOn(t) /\ OnlyAlone(t)  BY DEF HandlerFacts
  <1>2. TypeInv'
    <2>1. s \in Slots \/ android' = android  OBVIOUS
    <2>2. android' \subseteq Slots  BY <2>1, WriteTypes DEF TypeInv, InputTypeOK
    <2>3. VarTypes'  BY <2>2 DEF VarTypes, TypeInv, InputTypeOK
    <2> QED  BY <1>1, <2>3, TypesHold, IdleFits DEF HandlerFacts
  <1>3. PipeInv'
    <2>1. ~plugged => android' = {}  BY DEF PipeInv, Write
    <2>2. ~fd' => android' \subseteq excused'  BY DEF PipeInv, Write, Alone
    <2> QED  BY <1>1, <2>1, <2>2 DEF PipeInv, OnlyAlone
  <1>4. ContactInv'
    <2>1. CASE UNCHANGED <<fd, android, excused>> /\ (~fd \/ s = NoSlot)
      <3>1. ASSUME plugged, NEW r \in Slots, r \notin excused,
                   ~(r \in android <=> touch_id[r] # NoFinger)
            PROVE  \E u \in Threads : Writes(run[u], r)'
        <4>1. fd /\ r # s  BY <2>1, <3>1, InputAssumption DEF PipeInv, Slots, NoSlot
        <4>2. PICK u \in Threads \ {t} : Writes(run[u], r)
          BY <3>1, <4>1 DEF ContactInv, Writes
        <4> QED  BY <1>1, <4>2, OthersWrite
      <3> QED  BY <1>1, <2>1, <3>1 DEF ContactInv, OnlyAlone
    <2>2. CASE s \in Slots /\ Write(t, s, down) /\ (down <=> run[t].op # "sendUp")
      <3>1. Alone(t) => (down <=> touch_id[s] # NoFinger)
        BY <2>2, InputAssumption DEF ContactInv, Slots, NoSlot
      <3> QED  BY <2>2, <3>1, SentContact
    <2> QED  BY <2>1, <2>2
  <1>5. SlotInv'
    <2>1. \A r \in Slots : touch_id[r] \in held \cup excused =>
                             touch_id[r] \in held' \cup {NoFinger} \cup excused'
      BY FingersStayExcused
    <2>2. \A r \in Slots : ~Frees(run[t], r, touch_id[r])  BY DEF Frees
    <2> QED  BY <1>1, <2>1, <2>2, SlotKept
  <1> QED  BY <1>2, <1>3, <1>4, <1>5, OnTouch DEF HandlerFacts

(* The touch handlers send what they found a slot for.                      *)
LEMMA SendsInv ==
  ASSUME IInv, NEW t \in Threads, SendDown(t) \/ SendUp(t) \/ SendMotion(t) PROVE IInv'
  <1> USE DEF IInv
  <1>1. run[t].op \in {"sendDown", "sendUp", "sendMotion"}
    BY DEF SendDown, SendUp, SendMotion
  <1>2. Busy(t) /\ device = "touch" /\ run[t].i \in Slots \cup {NoSlot}
    BY <1>1 DEF Busy, TypeInv, Fits
  <1>3. HandlerFacts(t) /\ run'[t].op = "idle"
    BY <1>2, ReturnFacts DEF SendDown, SendUp, SendMotion
  <1>4. UNCHANGED <<device, plugged, focus, held, surface, keysDown, touch_id>>
    BY DEF SendDown, SendUp, SendMotion, seatVars, tables
  <1>5. CASE SendDown(t)
    <2>1. run[t].i = NoSlot => UNCHANGED <<fd, android, excused>>  BY <1>5 DEF SendDown
    <2>2. run[t].i # NoSlot => Write(t, run[t].i, TRUE) /\ fd' = fd  BY <1>5 DEF SendDown
    <2>3. run[t].op = "sendDown"  BY <1>5 DEF SendDown
    <2> QED  BY <1>2, <1>3, <1>4, <2>1, <2>2, <2>3, SentInv
  <1>6. CASE SendUp(t)
    <2>1. run[t].op = "sendUp" /\ run[t].i \in Slots
      BY <1>6 DEF SendUp, TypeInv, Fits
    <2>2. \/ UNCHANGED <<fd, android, excused>> /\ ~fd
          \/ Write(t, run[t].i, FALSE) /\ fd' = TRUE
      BY <1>6 DEF SendUp, PipeFails, PipeIsOpen, pipeVars
    <2> QED  BY <1>2, <1>3, <1>4, <2>1, <2>2, SentInv
  <1>7. CASE SendMotion(t)
    <2>1. run[t].op = "sendMotion" /\ run[t].i \in Slots
      BY <1>7 DEF SendMotion, TypeInv, Fits
    <2>2. \/ UNCHANGED <<fd, android, excused>> /\ ~fd
          \/ Write(t, run[t].i, TRUE) /\ fd' = TRUE
      BY <1>7 DEF SendMotion, PipeFails, PipeIsOpen, pipeVars
    <2> QED  BY <1>2, <1>3, <1>4, <2>1, <2>2, SentInv
  <1> QED  BY <1>5, <1>6, <1>7

(* A step that changes neither Android nor a slot.                          *)
LEMMA TouchQuietInv ==
  ASSUME IInv, NEW t \in Threads, HandlerFacts(t), device = "touch", fd' \in BOOLEAN,
         UNCHANGED <<device, plugged, focus, held, surface, keysDown, touch_id>>,
         UNCHANGED <<android, excused>>, fd => fd', Fits(run[t])', \A s \in Slots : ~Writes(run[t], s),
         \/ run'[t].op = "idle"
         \/ /\ run'[t].op = "sendMotion" /\ touch_id[run'[t].i] # NoFinger
         \/ run'[t].op = "cancelSlot" /\ fd' = TRUE,
         \A s \in Slots : Frees(run[t], s, touch_id[s]) =>
                            touch_id[s] = NoFinger \/ Frees(run'[t], s, touch_id[s])
  PROVE  IInv'
  <1> USE DEF IInv
  <1>1. OthersGoOn(t) /\ OnlyAlone(t)  BY DEF HandlerFacts
  <1>2. TypeInv'
    <2>1. VarTypes'  BY DEF VarTypes, TypeInv, InputTypeOK
    <2> QED  BY <1>1, <2>1, TypesHold DEF HandlerFacts
  <1>3. PipeInv'
    <2>1. ~fd' => ~fd  OBVIOUS
    <2> QED  BY <1>1, <2>1 DEF PipeInv, OnlyAlone
  <1>4. ContactInv'
    <2>1. ASSUME plugged, NEW s \in Slots, s \notin excused, ~(s \in android <=> touch_id[s] # NoFinger)
          PROVE  \E u \in Threads : Writes(run[u], s)'
      <3>1. PICK u \in Threads \ {t} : Writes(run[u], s)  BY <2>1 DEF ContactInv
      <3> QED  BY <1>1, <3>1, OthersWrite
    <2> QED  BY <1>1, <2>1 DEF ContactInv, OnlyAlone
  <1>5. SlotInv'  BY <1>1, SlotKept
  <1> QED  BY <1>2, <1>3, <1>4, <1>5, OnTouch DEF HandlerFacts

(* touch_handle_motion looks up the slot of its finger.                     *)
LEMMA MotionFindsSlotInv == ASSUME IInv, NEW t \in Threads, MotionFindsSlot(t) PROVE IInv'
  <1> USE DEF IInv
  <1>1. /\ run[t].op = "motion"
        /\ UNCHANGED <<device, plugged, focus, held, surface, keysDown, touch_id>>
        /\ UNCHANGED <<fd, android, excused>>
    BY DEF MotionFindsSlot, seatVars, tables, pipeVars
  <1>2. Busy(t) /\ device = "touch" /\ run[t].arg \in Fingers /\ run[t].arg # NoFinger
    BY <1>1, InputAssumption DEF Busy, TypeInv, Fits
  <1>3. /\ \A s \in Slots : ~Writes(run[t], s) /\ ~Frees(run[t], s, touch_id[s])
        /\ fd' \in BOOLEAN
    BY <1>1 DEF Writes, Frees, TypeInv, InputTypeOK
  <1>4. PICK s : s = get_touch_id(run[t].arg)  OBVIOUS
  <1>5. CASE s = NoSlot
    <2>1. Return(t)  BY <1>4, <1>5 DEF MotionFindsSlot
    <2>2. HandlerFacts(t) /\ run'[t].op = "idle"  BY <1>2, <2>1, ReturnFacts
    <2> QED  BY <1>1, <1>2, <1>3, <2>2, IdleFits, TouchQuietInv
  <1>6. CASE s # NoSlot
    <2>1. GoOn(t, "sendMotion", s)  BY <1>4, <1>6 DEF MotionFindsSlot
    <2>2. s \in Slots /\ s \in Nat /\ touch_id[s] # NoFinger
      BY <1>2, <1>4, <1>6, SlotFound, InputAssumption DEF Slots
    <2>3. HandlerFacts(t) /\ run'[t].op = "sendMotion" /\ run'[t].i = s
      BY <1>2, <2>1, <2>2, GoOnFacts DEF HandlerOps
    <2>4. Fits(run[t])'  BY <1>1, <1>2, <2>2, <2>3 DEF Fits
    <2> QED  BY <1>1, <1>2, <1>3, <2>2, <2>3, <2>4, TouchQuietInv
  <1> QED  BY <1>5, <1>6

(* touch_handle_cancel begins its loop over the slots.                      *)
LEMMA CancelStartsInv == ASSUME IInv, NEW t \in Threads, CancelStarts(t) PROVE IInv'
  <1> USE DEF IInv
  <1>1. /\ device = "touch" /\ run[t].op = "cancel"
        /\ UNCHANGED <<device, plugged, focus, held, surface, keysDown, touch_id>>
        /\ UNCHANGED <<android, excused>>
    BY DEF CancelStarts, seatVars, tables, pipeVars, PipeFails
  <1>2. Busy(t) /\ \A s \in Slots : ~Writes(run[t], s) /\ s \in Nat /\ s >= 1
    BY <1>1, InputAssumption DEF Busy, Writes, Slots
  <1>3. CASE ~fd /\ UNCHANGED fd /\ Return(t)
    <2>1. HandlerFacts(t) /\ run'[t].op = "idle"  BY <1>2, <1>3, ReturnFacts
    <2>2. \A s \in Slots : touch_id[s] = NoFinger  BY <1>1, <1>3 DEF PipeInv
    <2>3. fd' \in BOOLEAN  BY <1>3 DEF TypeInv, InputTypeOK
    <2> QED  BY <1>1, <1>2, <1>3, <2>1, <2>2, <2>3, IdleFits, TouchQuietInv
  <1>4. CASE fd' = TRUE /\ GoOn(t, "cancelSlot", 1)
    <2>1. HandlerFacts(t) /\ run'[t].op = "cancelSlot" /\ run'[t].i = 1
      BY <1>2, <1>4, GoOnFacts DEF HandlerOps
    <2>2. Fits(run[t])'  BY <1>1, <2>1 DEF Fits
    <2>3. \A s \in Slots : Frees(run'[t], s, touch_id[s])  BY <1>2, <2>1 DEF Frees
    <2> QED  BY <1>1, <1>2, <1>4, <2>1, <2>2, <2>3, TouchQuietInv
  <1> QED  BY <1>3, <1>4 DEF CancelStarts, PipeFails, PipeIsOpen, pipeVars

(* The loop of touch_handle_cancel is at its end.                           *)
LEMMA CancelReturnsInv == ASSUME IInv, NEW t \in Threads, CancelReturns(t) PROVE IInv'
  <1> USE DEF IInv
  <1>1. /\ run[t].op = "cancelSlot" /\ run[t].i > MAX_TOUCHPOINTS /\ Return(t)
        /\ UNCHANGED <<device, plugged, focus, held, surface, keysDown, touch_id>>
        /\ UNCHANGED <<fd, android, excused>>
    BY DEF CancelReturns, seatVars, tables, pipeVars
  <1>2. Busy(t) /\ device = "touch"  BY <1>1 DEF Busy, TypeInv, Fits
  <1>3. HandlerFacts(t) /\ run'[t].op = "idle"  BY <1>1, <1>2, ReturnFacts
  <1>4. \A s \in Slots : ~Writes(run[t], s)  BY <1>1 DEF Writes
  <1>5. \A s \in Slots : ~Frees(run[t], s, touch_id[s])
    <2> SUFFICES ASSUME NEW s \in Slots PROVE ~(s >= run[t].i)  BY <1>1 DEF Frees
    <2>1. run[t].i \in Nat /\ s \in 1..MAX_TOUCHPOINTS  BY DEF TypeInv, HandlerTypes, Slots
    <2> QED  BY <1>1, <2>1, InputAssumption
  <1>6. fd' \in BOOLEAN  BY <1>1 DEF TypeInv, InputTypeOK
  <1> QED  BY <1>1, <1>2, <1>3, <1>4, <1>5, <1>6, IdleFits, TouchQuietInv

(* A step that takes the finger off slot s, if it had one.                  *)
LEMMA SlotFreedInv ==
  ASSUME IInv, NEW t \in Threads, HandlerFacts(t), device = "touch", Busy(t), NEW s \in Slots,
         UNCHANGED <<device, plugged, focus, held, surface, keysDown>>,
         UNCHANGED <<fd, android, excused>>,
         touch_id' = [touch_id EXCEPT ![s] = NoFinger], Fits(run[t])',
         \A r \in Slots : ~Writes(run[t], r),
         \/ run'[t].op \in {"sendUp", "sendCancel"} /\ run'[t].i = s
         \/ run'[t].op = "cancelSlot" /\ touch_id[s] = NoFinger,
         Alone(t)' /\ run'[t].op \in {"cancelSlot", "sendCancel"} => fd,
         \A r \in Slots \ {s} : Frees(run[t], r, touch_id[r]) => Frees(run'[t], r, touch_id[r])
  PROVE  IInv'
  <1> USE DEF IInv
  <1>1. OthersGoOn(t) /\ OnlyAlone(t)  BY DEF HandlerFacts
  <1>2. /\ touch_id' \in [Slots -> Fingers \cup {NoFinger}]
        /\ touch_id'[s] = NoFinger
        /\ \A r \in Slots \ {s} : touch_id'[r] = touch_id[r]
    BY DEF TypeInv, InputTypeOK
  <1>3. TypeInv'
    <2>1. VarTypes'  BY <1>2 DEF VarTypes, TypeInv, InputTypeOK
    <2> QED  BY <1>1, <2>1, TypesHold DEF HandlerFacts
  <1>4. PipeInv'
    <2>1. ~fd' => \A r \in Slots : touch_id'[r] = NoFinger  BY <1>2 DEF PipeInv
    <2> QED  BY <1>1, <2>1 DEF PipeInv, OnlyAlone
  <1>5. ContactInv'
    <2>1. ASSUME plugged, NEW r \in Slots, r \notin excused,
                 ~(r \in android <=> touch_id'[r] # NoFinger)
          PROVE  \E u \in Threads : Writes(run[u], r)'
      <3>1. CASE r = s /\ run'[t].i = s /\ run'[t].op \in {"sendUp", "sendCancel"}
        <4>1. Writes(run[t], r)'  BY <3>1 DEF Writes
        <4> QED  BY <4>1
      <3>2. CASE r # s \/ touch_id[s] = NoFinger
        <4>1. ~(r \in android <=> touch_id[r] # NoFinger)  BY <1>2, <2>1, <3>2
        <4>2. PICK u \in Threads \ {t} : Writes(run[u], r)  BY <2>1, <4>1 DEF ContactInv
        <4> QED  BY <1>1, <4>2, OthersWrite
      <3> QED  BY <3>1, <3>2
    <2>2. run'[t].op \in {"sendUp", "sendCancel"} => touch_id'[run'[t].i] = NoFinger
      BY <1>2
    <2> QED  BY <1>1, <2>1, <2>2 DEF ContactInv, OnlyAlone
  <1>6. SlotInv'
    <2>1. \A q, r \in Slots : q # r /\ touch_id'[q] = touch_id'[r] => touch_id'[q] = NoFinger
      BY <1>2 DEF SlotInv
    <2>2. ASSUME plugged, NEW r \in Slots, touch_id'[r] \notin held \cup {NoFinger} \cup excused
          PROVE  \E u \in Threads : Frees(run'[u], r, touch_id'[r])
      <3>1. r # s /\ touch_id'[r] = touch_id[r]  BY <1>2, <2>2
      <3>2. PICK u \in Threads : Frees(run[u], r, touch_id[r])
        BY <2>2, <3>1 DEF SlotInv
      <3>3. CASE u = t  BY <3>1, <3>2, <3>3
      <3>4. CASE u # t  BY <1>1, <3>1, <3>2, <3>4, OthersFree
      <3> QED  BY <3>3, <3>4
    <2> QED  BY <1>1, <2>1, <2>2 DEF SlotInv, OnlyAlone
  <1> QED  BY <1>3, <1>4, <1>5, <1>6, OnTouch DEF HandlerFacts

(* touch_handle_up frees the slot of its finger.                            *)
LEMMA UpFreesSlotInv == ASSUME IInv, NEW t \in Threads, UpFreesSlot(t) PROVE IInv'
  <1> USE DEF IInv
  <1>1. /\ run[t].op = "up"
        /\ UNCHANGED <<device, plugged, focus, held, surface, keysDown>>
        /\ UNCHANGED <<fd, android, excused>>
    BY DEF UpFreesSlot, seatVars, pipeVars
  <1>2. Busy(t) /\ device = "touch" /\ run[t].arg \in Fingers /\ run[t].arg # NoFinger
    BY <1>1, InputAssumption DEF Busy, TypeInv, Fits
  <1>3. \A r \in Slots : ~Writes(run[t], r)  BY <1>1 DEF Writes
  <1>4. PICK s : s = get_touch_id(run[t].arg)  OBVIOUS
  <1>5. CASE s = NoSlot
    <2>1. Return(t) /\ touch_id' = touch_id  BY <1>4, <1>5 DEF UpFreesSlot
    <2>2. HandlerFacts(t) /\ run'[t].op = "idle"  BY <1>2, <2>1, ReturnFacts
    <2>3. \A r \in Slots : ~Frees(run[t], r, touch_id[r])
      BY <1>1, <1>4, <1>5, SlotFound DEF Frees
    <2>4. fd' \in BOOLEAN  BY <1>1 DEF TypeInv, InputTypeOK
    <2> QED  BY <1>1, <1>2, <1>3, <2>1, <2>2, <2>3, <2>4, IdleFits, TouchQuietInv
  <1>6. CASE s # NoSlot
    <2>1. GoOn(t, "sendUp", s) /\ touch_id' = [touch_id EXCEPT ![s] = NoFinger]
      BY <1>4, <1>6 DEF UpFreesSlot
    <2>2. s \in Slots /\ s \in Nat /\ touch_id[s] = run[t].arg
      BY <1>2, <1>4, <1>6, SlotFound, InputAssumption DEF Slots
    <2>3. HandlerFacts(t) /\ run'[t].op = "sendUp" /\ run'[t].i = s
      BY <1>2, <2>1, <2>2, GoOnFacts DEF HandlerOps
    <2>4. Fits(run[t])'  BY <1>1, <1>2, <2>2, <2>3 DEF Fits
    <2>5. \A r \in Slots \ {s} : ~Frees(run[t], r, touch_id[r])
      BY <1>1, <1>2, <2>2 DEF Frees, SlotInv
    <2> QED  BY <1>1, <1>2, <1>3, <2>1, <2>2, <2>3, <2>4, <2>5, SlotFreedInv
  <1> QED  BY <1>5, <1>6

(* touch_handle_cancel frees a slot.                                        *)
LEMMA CancelFreesSlotInv == ASSUME IInv, NEW t \in Threads, CancelFreesSlot(t) PROVE IInv'
  <1> USE DEF IInv
  <1>1. /\ run[t].op = "cancelSlot" /\ run[t].i \in Slots
        /\ UNCHANGED <<device, plugged, focus, held, surface, keysDown>>
        /\ UNCHANGED <<fd, android, excused>>
    BY DEF CancelFreesSlot, seatVars, pipeVars
  <1>2. Busy(t) /\ device = "touch"  BY <1>1 DEF Busy, TypeInv, Fits
  <1>3. \A r \in Slots : ~Writes(run[t], r) /\ r \in Nat
    BY <1>1, InputAssumption DEF Writes, Slots
  <1>4. PICK s \in Slots : s = run[t].i  BY <1>1
  <1>5. s \in Nat /\ s + 1 \in Nat  BY <1>3
  <1>6. Alone(t) => fd  BY <1>1, <1>2 DEF PipeInv
  <1>7. CASE touch_id[s] = NoFinger
    <2>0. PICK n \in Nat : n = s + 1  BY <1>5
    <2>1. GoOn(t, "cancelSlot", n) /\ touch_id' = touch_id
      BY <1>4, <1>7, <2>0 DEF CancelFreesSlot
    <2>2. touch_id' = [touch_id EXCEPT ![s] = NoFinger]
      BY <1>7, <2>1 DEF TypeInv, InputTypeOK
    <2>3. /\ HandlerFacts(t) /\ run'[t].op = "cancelSlot" /\ run'[t].i = n
          /\ Alone(t)' <=> Alone(t)
      BY <1>2, <2>1, GoOnFacts DEF HandlerOps
    <2>4. Fits(run[t])'  BY <1>1, <1>2, <1>5, <2>0, <2>3 DEF Fits
    <2>5. \A r \in Slots \ {s} : Frees(run[t], r, touch_id[r]) => Frees(run'[t], r, touch_id[r])
      BY <1>1, <1>3, <1>4, <2>0, <2>3 DEF Frees
    <2> QED  BY <1>1, <1>2, <1>3, <1>6, <1>7, <2>2, <2>3, <2>4, <2>5, SlotFreedInv
  <1>8. CASE touch_id[s] # NoFinger
    <2>1. GoOn(t, "sendCancel", s) /\ touch_id' = [touch_id EXCEPT ![s] = NoFinger]
      BY <1>4, <1>8 DEF CancelFreesSlot
    <2>3. /\ HandlerFacts(t) /\ run'[t].op = "sendCancel" /\ run'[t].i = s
          /\ Alone(t)' <=> Alone(t)
      BY <1>2, <1>5, <2>1, GoOnFacts DEF HandlerOps
    <2>4. Fits(run[t])'  BY <1>1, <1>2, <2>3 DEF Fits
    <2>5. \A r \in Slots \ {s} : Frees(run[t], r, touch_id[r]) => Frees(run'[t], r, touch_id[r])
      BY <1>1, <1>3, <1>4, <2>3 DEF Frees
    <2> QED  BY <1>1, <1>2, <1>3, <1>6, <2>1, <2>3, <2>4, <2>5, SlotFreedInv
  <1> QED  BY <1>7, <1>8

(* touch_handle_cancel sends that a contact is lifted.                      *)
LEMMA SendCancelInv == ASSUME IInv, NEW t \in Threads, SendCancel(t) PROVE IInv'
  <1> USE DEF IInv
  <1>1. /\ run[t].op = "sendCancel" /\ Write(t, run[t].i, FALSE)
        /\ UNCHANGED <<device, plugged, focus, held, surface, keysDown, touch_id, fd>>
        /\ GoOn(t, "cancelSlot", run[t].i + 1)
    BY DEF SendCancel, seatVars, tables
  <1>2. Busy(t) /\ device = "touch" /\ run[t].i \in Slots  BY <1>1 DEF Busy, TypeInv, Fits
  <1>3. \A r \in Slots : r \in Nat  BY InputAssumption DEF Slots
  <1>4. PICK s \in Slots : s = run[t].i  BY <1>2
  <1>5. PICK n \in Nat : n = s + 1  BY <1>3
  <1>6. /\ HandlerFacts(t) /\ run'[t].op = "cancelSlot" /\ run'[t].i = n
        /\ (Alone(t)' <=> Alone(t))
    <2>2. GoOn(t, "cancelSlot", n)  BY <1>1, <1>4, <1>5
    <2> QED  BY <1>2, <2>2, GoOnFacts DEF HandlerOps
  <1>7. OthersGoOn(t) /\ OnlyAlone(t)  BY <1>6 DEF HandlerFacts
  <1>8. TypeInv'
    <2>1. android' \subseteq Slots
      BY <1>1, <1>2, WriteTypes DEF TypeInv, InputTypeOK
    <2>2. VarTypes'  BY <1>1, <1>2, <2>1 DEF VarTypes, TypeInv, InputTypeOK
    <2>3. Fits(run[t])'  BY <1>1, <1>2, <1>3, <1>5, <1>6 DEF Fits
    <2> QED  BY <1>1, <1>6, <1>7, <2>2, <2>3, TypesHold DEF HandlerFacts
  <1>9. PipeInv'
    <2>1. ~plugged => android' = {}  BY <1>1 DEF PipeInv, Write
    <2>2. ~fd => android' \subseteq excused'
      BY <1>1, <1>2 DEF PipeInv, Write, Alone
    <2>3. Alone(t) => fd  BY <1>1, <1>2 DEF PipeInv
    <2> QED  BY <1>1, <1>6, <1>7, <2>1, <2>2, <2>3 DEF PipeInv, OnlyAlone
  <1>10. ContactInv'
    <2>1. Alone(t) => touch_id[s] = NoFinger  BY <1>1, <1>2, <1>4 DEF ContactInv
    <2> QED  BY <1>1, <1>2, <1>4, <1>6, <2>1, SentContact
  <1>11. SlotInv'
    <2>1. \A r \in Slots : touch_id[r] \in held \cup excused =>
                             touch_id[r] \in held' \cup {NoFinger} \cup excused'
      BY <1>1, <1>2, FingersStayExcused
    <2>2. \A r \in Slots : Frees(run[t], r, touch_id[r]) => Frees(run'[t], r, touch_id[r])
      BY <1>1, <1>3, <1>4, <1>5, <1>6 DEF Frees
    <2> QED  BY <1>1, <1>6, <1>7, <2>1, <2>2, SlotKept
  <1> QED  BY <1>1, <1>2, <1>6, <1>8, <1>9, <1>10, <1>11, OnTouch DEF HandlerFacts

-----------------------------------------------------------------------------
(* The invariant holds.                                                     *)
LEMMA InitInv == Init => IInv
  <1> SUFFICES ASSUME Init PROVE IInv  OBVIOUS
  <1>1. \A t \in Threads : run[t] = Idle  BY DEF Init
  <1>2. Idle.op = "idle" /\ Idle.overlap = FALSE /\ Idle \in HandlerTypes /\ Idle.i = 1
    BY DEF Idle, HandlerTypes, HandlerOps
  <1>3. run \in [Threads -> HandlerTypes]  BY <1>2 DEF Init
  <1>4. \A t \in Threads : ~Busy(t) /\ ~Alone(t) /\ run[t].op = "idle"
    BY <1>1, <1>2 DEF Busy, Alone
  <1>5. TypeInv
    <2>0. VarTypes  BY DEF Init, VarTypes, Devices
    <2>1. InputTypeOK  BY <1>3, <2>0 DEF HandlerTypes, InputTypeOK, VarTypes
    <2> QED  BY <1>3, <1>4, <2>1 DEF TypeInv, Fits
  <1>6. PipeInv /\ OverlapInv  BY <1>4 DEF Init, PipeInv, OverlapInv
  <1>7. KeysInv /\ KeysDownInv /\ SurfaceInv
    BY <1>4 DEF Init, KeysInv, KeysDownInv, SurfaceInv
  <1>8. ContactInv /\ SlotInv  BY <1>4 DEF Init, ContactInv, SlotInv
  <1> QED  BY <1>5, <1>6, <1>7, <1>8 DEF IInv

(* Where nothing happens the invariant stays.                               *)
LEMMA StutterInv == IInv /\ UNCHANGED vars => IInv'
  BY DEF IInv, TypeInv, InputTypeOK, Fits, OverlapInv, Busy, Alone, PipeInv, KeysInv, Releases,
    KeysDownInv, SurfaceInv, ContactInv, Writes, SlotInv, Frees, vars, seatVars, tables, pipeVars

(* Every step of a thread keeps the invariant.                              *)
LEMMA Inductive == IInv /\ [Next]_vars => IInv'
  <1> SUFFICES ASSUME IInv, Next PROVE IInv'  BY StutterInv
  <1>1. PICK t \in Threads :
     \/ Plug(t) \/ Unplug(t)
     \/ KeyboardEnter(t) \/ (\E k \in Keys \cup {OtherKey} : KeyEvent(t, k)) \/ KeyboardLeave(t)
     \/ SendKey(t) \/ StoreKey(t)
     \/ LeaveSkips(t) \/ LeaveSends(t) \/ LeaveStores(t) \/ LeaveReturns(t)
     \/ (\E f \in Fingers : TouchDown(t, f) \/ TouchUp(t, f) \/ TouchMotion(t, f))
     \/ TouchCancel(t)
     \/ DownTakesSlot(t) \/ SendDown(t) \/ UpFreesSlot(t) \/ SendUp(t)
     \/ MotionFindsSlot(t) \/ SendMotion(t)
     \/ CancelStarts(t) \/ CancelFreesSlot(t) \/ SendCancel(t) \/ CancelReturns(t)
     \/ PointerEnter(t) \/ PointerLeave(t) \/ (\E b \in Keys : ButtonEvent(t, b))
     \/ SetSurface(t) \/ SendButton(t)
     \/ TabletEvent(t) \/ TabletAxis(t) \/ SendTool(t) \/ SendAxis(t)
    BY DEF Next
  <1>2. CASE Plug(t) \/ Unplug(t)  BY <1>2, PlugInv, UnplugInv
  <1>3. CASE \/ KeyboardEnter(t) \/ (\E k \in Keys \cup {OtherKey} : KeyEvent(t, k))
             \/ KeyboardLeave(t) \/ SendKey(t) \/ StoreKey(t)
             \/ LeaveSkips(t) \/ LeaveSends(t) \/ LeaveStores(t) \/ LeaveReturns(t)
    BY <1>3, KeyboardEnterInv, KeyEventInv, KeyboardLeaveInv, SendKeyInv, StoreKeyInv,
       LeaveSkipsInv, LeaveSendsInv, LeaveStoresInv, LeaveReturnsInv
  <1>4. CASE \/ (\E f \in Fingers : TouchDown(t, f) \/ TouchUp(t, f) \/ TouchMotion(t, f))
             \/ TouchCancel(t)
             \/ DownTakesSlot(t) \/ SendDown(t) \/ UpFreesSlot(t) \/ SendUp(t)
             \/ MotionFindsSlot(t) \/ SendMotion(t)
             \/ CancelStarts(t) \/ CancelFreesSlot(t) \/ SendCancel(t) \/ CancelReturns(t)
    BY <1>4, TouchEventsInv, DownTakesSlotInv, UpFreesSlotInv, MotionFindsSlotInv, SendsInv,
       CancelStartsInv, CancelFreesSlotInv, SendCancelInv, CancelReturnsInv
  <1>5. CASE \/ PointerEnter(t) \/ PointerLeave(t) \/ (\E b \in Keys : ButtonEvent(t, b))
             \/ SetSurface(t) \/ SendButton(t)
    BY <1>5, PointerEnterInv, PointerLeaveInv, ButtonEventInv, SetSurfaceInv, SendButtonInv
  <1>6. CASE TabletEvent(t) \/ TabletAxis(t) \/ SendTool(t) \/ SendAxis(t)
    BY <1>6, TabletEventInv, TabletAxisInv, SendToolInv, SendAxisInv
  <1> QED  BY <1>1, <1>2, <1>3, <1>4, <1>5, <1>6

(* IInv holds in every reachable state.                                     *)
THEOREM InvariantHolds == Spec => []IInv
  BY InitInv, Inductive, PTL DEF Spec

-----------------------------------------------------------------------------
(* Every variable keeps its type, whichever handlers overlap.               *)
THEOREM TypesCorrect == Spec => []InputTypeOK
  <1>1. IInv => InputTypeOK  BY DEF IInv, TypeInv
  <1> QED  BY <1>1, InvariantHolds, PTL

(* Between two events no key or button is down in Android that the          *)
(* compositor told us is up, except those whose last event was lost or was  *)
(* handled while another handler ran.                                       *)
THEOREM ReleasedKeysAreUp == Spec => []ReleasedAreUp
  <1>1. IInv => ReleasedAreUp
    BY DEF IInv, KeysInv, ReleasedAreUp, Quiet, Busy, Releases
  <1> QED  BY <1>1, InvariantHolds, PTL

(* Between two events Android's contacts are the slots that hold a finger,  *)
(* except the slots whose last event was lost or was written by a handler   *)
(* that overlapped another.                                                 *)
THEOREM ContactsFollowSlots == Spec => []ContactsAreFingers
  <1>1. IInv => ContactsAreFingers
    BY DEF IInv, ContactInv, ContactsAreFingers, Quiet, Busy, Writes
  <1> QED  BY <1>1, InvariantHolds, PTL

(* Between two events only a finger on the screen has a slot, or one whose  *)
(* down event was handled while another handler ran.                        *)
THEOREM SlotsComeBack == Spec => []LiftedFingersFreeSlots
  <1>1. IInv => LiftedFingersFreeSlots
    BY DEF IInv, SlotInv, LiftedFingersFreeSlots, Quiet, Busy, Frees
  <1> QED  BY <1>1, InvariantHolds, PTL

(***************************************************************************)
(* PointerMotion.                                                           *)
(***************************************************************************)

(* What is left of a sum once its whole steps were sent is less than one.   *)
LEMMA FractionFacts ==
  ASSUME NEW n \in Int
  PROVE  /\ Whole(n) \in Int /\ Fraction(n) \in Int /\ Fraction(n) = n - Step * Whole(n)
         /\ Abs(Fraction(n)) < Step
<1>1. Step \in Nat \ {0}
  BY MotionAssumption
<1>2. \A m \in Nat : m \div Step \in Nat /\ 0 <= m - Step * (m \div Step)
                     /\ m - Step * (m \div Step) < Step
  BY <1>1
<1>. QED BY <1>1, <1>2 DEF Whole, Fraction, Abs

(* The relative part of the next motion event starts where the last ended.  *)
MotionInv == MotionTypeOK /\ MotionKept /\ ptrPrv = position

(* At the start nothing is owed.                                            *)
LEMMA MotionInitInv == MotionInit => MotionInv
<1>1. Abs(0) < Step
  BY MotionAssumption DEF Abs
<1>2. SUFFICES ASSUME MotionInit PROVE MotionInv
  OBVIOUS
<1>3. /\ wheel = Still /\ relative = Still /\ owed = Still /\ lost = Still
      /\ wheelOwed = 0 /\ wheelLost = 0 /\ ptrPrv = 0 /\ position = 0
  BY <1>2 DEF MotionInit
<1>4. MotionTypeOK
  <2>1. open \in BOOLEAN /\ over \in BOOLEAN /\ discrete \in BOOLEAN
    BY <1>2, Zenon DEF MotionInit
  <2>2. group \in Groups /\ Still \in [Axes -> Int]
    BY <1>2 DEF MotionInit, Still
  <2>. QED BY <1>3, <2>1, <2>2 DEF MotionTypeOK
<1>5. AccumulatorsBelowStep
  BY <1>1, <1>3 DEF AccumulatorsBelowStep, Still
<1>6. wheelOwed = wheel["y"] + wheelLost /\ \A a \in Axes : owed[a] = relative[a] + lost[a]
  BY <1>3 DEF Still, Axes
<1>. QED BY <1>3, <1>4, <1>5, <1>6 DEF MotionInv, MotionKept

(* What came in and was not read has been lost, whichever of the two the    *)
(* event met.                                                               *)
LEMMA ReadOrLost ==
  ASSUME NEW n \in Int, NEW fits \in BOOLEAN
  PROVE  Read(fits, n) \in Int /\ Lost(fits, n) \in Int /\ Read(fits, n) = n - Lost(fits, n)
BY DEF Read, Lost

(* A wheel event, sent or added up for the next one, keeps the invariant.   *)
LEMMA AxisKeeps ==
  ASSUME MotionInv, NEW a \in Axes, NEW d \in Deltas, Axis(a, d)
  PROVE  MotionInv'
<1>1. d \in Int /\ Step \in Nat \ {0} /\ Abs(0) < Step
  BY MotionAssumption DEF Abs
<1>2. /\ wheel \in [Axes -> Int] /\ wheelOwed \in Int /\ wheelLost \in Int
      /\ wheelOwed = wheel["y"] + wheelLost
      /\ "x" \in Axes /\ "y" \in Axes
  BY DEF MotionInv, MotionTypeOK, MotionKept, Axes
<1>3. PICK n \in Int : n = wheel[a] + d
  BY <1>1, <1>2
<1>4. PICK move \in Int : move = Step * Whole(n)
  BY <1>1, FractionFacts
<1>5. PICK i : i = IF Abs(n) < Step THEN n ELSE IF discrete THEN 0 ELSE Remainder(a, n)
  OBVIOUS
<1>6. /\ wheel' = [wheel EXCEPT ![a] = i] /\ open' = TRUE
      /\ UNCHANGED <<group, over, discrete, movingVars>>
  BY <1>3, <1>5 DEF Axis, EnsurePipe
<1>7. i \in Int /\ Abs(i) < Step
  <2>1. CASE Abs(n) < Step
    BY <1>3, <1>5, <2>1
  <2>2. CASE ~(Abs(n) < Step) /\ discrete
    BY <1>1, <1>5, <2>2
  <2>3. CASE ~(Abs(n) < Step) /\ ~discrete
    <3>1. PICK k \in Int : k = IF a = "y" THEN n ELSE wheel["y"]
      BY <1>2
    <3>2. i = Fraction(k)
      BY <1>5, <2>3, <3>1 DEF Remainder
    <3>. QED BY <3>1, <3>2, FractionFacts
  <2>. QED BY <2>1, <2>2, <2>3
<1>8. wheel' \in [Axes -> Int] /\ \A b \in Axes : wheel'[b] = IF b = a THEN i ELSE wheel[b]
  BY <1>2, <1>6, <1>7
<1>9. wheelOwed' \in Int /\ wheelLost' \in Int /\ wheelOwed' = wheel'["y"] + wheelLost'
  <2>1. CASE a = "x"
    <3>1. wheelOwed' = wheelOwed /\ wheelLost' = wheelLost
      BY <1>3, <2>1 DEF Axis
    <3>. QED BY <1>2, <1>8, <2>1, <3>1
  <2>2. CASE a = "y" /\ Abs(n) < Step
    <3>1. wheelOwed' = wheelOwed + d /\ wheelLost' = wheelLost
      BY <1>3, <2>2 DEF Axis
    <3>2. wheel'["y"] = wheel["y"] + d
      BY <1>2, <1>3, <1>5, <1>8, <2>2
    <3>. QED BY <1>1, <1>2, <3>1, <3>2
  <2>3. CASE a = "y" /\ ~(Abs(n) < Step)
    <3>1. PICK forgotten : forgotten = IF discrete THEN Fraction(n) ELSE 0
      OBVIOUS
    <3>2. PICK fits \in BOOLEAN : /\ wheelOwed' = wheelOwed + d - forgotten - Read(fits, move)
                                  /\ wheelLost' = wheelLost + Lost(fits, move)
      BY <1>3, <1>4, <2>3, <3>1 DEF Axis
    <3>3. PICK l \in Int : l = Lost(fits, move) /\ Read(fits, move) = move - l
      BY <1>4, ReadOrLost
    <3>4. Fraction(n) \in Int /\ Fraction(n) = n - move
      BY <1>4, FractionFacts
    <3>5. forgotten \in Int /\ i = n - move - forgotten
      <4>1. CASE discrete
        <5>1. i = 0 /\ forgotten = Fraction(n)
          BY <1>5, <2>3, <3>1, <4>1
        <5>. QED BY <1>3, <1>4, <3>4, <5>1
      <4>2. CASE ~discrete
        <5>1. i = Fraction(n) /\ forgotten = 0
          BY <1>3, <1>5, <2>3, <3>1, <4>2 DEF Remainder
        <5>. QED BY <1>3, <1>4, <3>4, <5>1
      <4>. QED BY <4>1, <4>2
    <3>6. wheel'["y"] = i
      BY <1>2, <1>8, <2>3
    <3>7. wheelOwed' = wheelOwed + d - forgotten - (move - l) /\ wheelLost' = wheelLost + l
      BY <3>2, <3>3
    <3>8. n = wheel["y"] + d /\ wheel["y"] \in Int
      BY <1>2, <1>3, <2>3
    <3>. QED BY <1>1, <1>2, <1>4, <3>3, <3>5, <3>6, <3>7, <3>8
  <2>. QED BY <2>1, <2>2, <2>3 DEF Axes
<1>10. AccumulatorsBelowStep'
  BY <1>6, <1>7, <1>8 DEF MotionInv, MotionKept, AccumulatorsBelowStep, movingVars
<1>. QED BY <1>6, <1>8, <1>9, <1>10 DEF MotionInv, MotionTypeOK, MotionKept, movingVars

(* A relative motion, whose fractions are kept for the next one, keeps the  *)
(* invariant.                                                               *)
LEMMA RelativeKeepsMotion ==
  ASSUME MotionInv, NEW dx \in Deltas, NEW dy \in Deltas, Relative(dx, dy)
  PROVE  MotionInv'
<1>1. dx \in Int /\ dy \in Int
  BY MotionAssumption
<1>2. PICK d : d = [a \in Axes |-> IF a = "x" THEN dx ELSE dy]
  OBVIOUS
<1>3. /\ relative \in [Axes -> Int] /\ owed \in [Axes -> Int] /\ lost \in [Axes -> Int]
      /\ \A a \in Axes : owed[a] = relative[a] + lost[a] /\ d[a] \in Int
  BY <1>1, <1>2 DEF MotionInv, MotionTypeOK, MotionKept
<1>4. PICK m : m = [a \in Axes |-> relative[a] + d[a]]
  OBVIOUS
<1>5. m \in [Axes -> Int] /\ \A a \in Axes : m[a] = relative[a] + d[a]
  BY <1>3, <1>4
<1>6. open' = TRUE /\ UNCHANGED <<group, over, ptrPrv, position, wheelVars>>
  BY DEF Relative, EnsurePipe
<1>7. /\ relative' \in [Axes -> Int] /\ owed' \in [Axes -> Int] /\ lost' \in [Axes -> Int]
      /\ \A a \in Axes : owed'[a] = relative'[a] + lost'[a] /\ Abs(relative'[a]) < Step
  <2>1. CASE RelativeWaits(m)
    <3>1. relative' = m /\ owed' = [a \in Axes |-> owed[a] + d[a]] /\ lost' = lost
      BY <1>2, <1>4, <2>1 DEF Relative
    <3>2. ASSUME NEW a \in Axes PROVE owed[a] + d[a] = m[a] + lost[a] /\ owed[a] + d[a] \in Int
      BY <1>3, <1>5
    <3>. QED BY <1>3, <1>5, <2>1, <3>1, <3>2 DEF RelativeWaits, Axes
  <2>2. CASE ~RelativeWaits(m)
    <3>1. PICK move : move = [a \in Axes |-> Step * Whole(m[a])]
      OBVIOUS
    <3>2. PICK fits \in BOOLEAN :
             /\ relative' = RelativeKeeps(m)
             /\ owed' = [a \in Axes |-> owed[a] + d[a] - Read(fits, move[a])]
             /\ lost' = [a \in Axes |-> lost[a] + Lost(fits, move[a])]
      BY <1>2, <1>4, <2>2, <3>1 DEF Relative
    <3>3. relative' = [a \in Axes |-> Fraction(m[a])]
      BY <3>2 DEF RelativeKeeps
    <3>4. ASSUME NEW a \in Axes
          PROVE  /\ Fraction(m[a]) \in Int /\ Abs(Fraction(m[a])) < Step
                 /\ owed[a] + d[a] - Read(fits, move[a]) \in Int
                 /\ lost[a] + Lost(fits, move[a]) \in Int
                 /\ owed[a] + d[a] - Read(fits, move[a])
                      = Fraction(m[a]) + (lost[a] + Lost(fits, move[a]))
      <4>1. PICK s \in Int : s = Step * Whole(m[a])
        BY <1>5, MotionAssumption, FractionFacts
      <4>2. move[a] = s
        BY <3>1, <4>1
      <4>3. PICK f \in Int : f = Fraction(m[a]) /\ f = m[a] - s /\ Abs(f) < Step
        BY <1>5, <4>1, FractionFacts
      <4>4. PICK l \in Int : l = Lost(fits, move[a]) /\ Read(fits, move[a]) = s - l
        BY <4>2, ReadOrLost
      <4>5. /\ owed[a] \in Int /\ lost[a] \in Int /\ relative[a] \in Int /\ d[a] \in Int
            /\ owed[a] = relative[a] + lost[a] /\ m[a] = relative[a] + d[a]
        BY <1>3, <1>5
      <4>6. PICK e \in Int : e = Read(fits, move[a]) /\ e = s - l
        BY <4>4
      <4>7. owed[a] + d[a] - e = f + (lost[a] + l)
        BY <4>3, <4>5, <4>6
      <4>. QED BY <4>3, <4>4, <4>5, <4>6, <4>7
    <3>. QED BY <3>2, <3>3, <3>4
  <2>. QED BY <2>1, <2>2
<1>8. AccumulatorsBelowStep'
  BY <1>6, <1>7 DEF MotionInv, MotionKept, AccumulatorsBelowStep, wheelVars
<1>. QED BY <1>6, <1>7, <1>8 DEF MotionInv, MotionTypeOK, MotionKept, wheelVars

(* A motion from position to position keeps the invariant.                  *)
LEMMA MotionKeepsMotion ==
  ASSUME MotionInv, NEW x \in Positions, Motion(x)
  PROVE  MotionInv'
<1>1. x \in Int /\ Step \in Int /\ ptrPrv \in Int /\ ptrPrv = position
  BY MotionAssumption DEF MotionInv, MotionTypeOK
<1>2. /\ open' = TRUE /\ ptrPrv' = x /\ position' = x
      /\ UNCHANGED <<group, over, relative, wheelVars>>
  BY DEF Motion, EnsurePipe
<1>3. PICK move \in Int : move = Step * (x - ptrPrv)
  BY <1>1
<1>4. PICK fits \in BOOLEAN :
         /\ owed' = [owed EXCEPT !["x"] = @ + Step * (x - position) - Read(fits, move)]
         /\ lost' = [lost EXCEPT !["x"] = @ + Lost(fits, move)]
  BY <1>3 DEF Motion
<1>5. PICK l \in Int : l = Lost(fits, move) /\ Read(fits, move) = move - l
  BY ReadOrLost
<1>6. /\ relative \in [Axes -> Int] /\ owed \in [Axes -> Int] /\ lost \in [Axes -> Int]
      /\ \A a \in Axes : owed[a] = relative[a] + lost[a]
      /\ "x" \in Axes
  BY DEF MotionInv, MotionTypeOK, MotionKept, Axes
<1>7. owed["x"] + Step * (x - position) - Read(fits, move) = owed["x"] + l
  <2>1. Step * (x - position) = move
    BY <1>1, <1>3
  <2>2. owed["x"] \in Int
    BY <1>6
  <2>. QED BY <1>5, <2>1, <2>2
<1>8. owed' = [owed EXCEPT !["x"] = owed["x"] + l] /\ lost' = [lost EXCEPT !["x"] = lost["x"] + l]
  BY <1>4, <1>5, <1>7
<1>9. /\ owed' \in [Axes -> Int] /\ lost' \in [Axes -> Int]
      /\ \A a \in Axes : owed'[a] = relative[a] + lost'[a]
  <2>1. owed["x"] + l \in Int /\ lost["x"] + l \in Int
        /\ owed["x"] + l = relative["x"] + (lost["x"] + l)
    BY <1>6
  <2>. QED BY <1>6, <1>8, <2>1
<1>10. AccumulatorsBelowStep'
  BY <1>2 DEF MotionInv, MotionKept, AccumulatorsBelowStep, wheelVars
<1>. QED BY <1>1, <1>2, <1>9, <1>10 DEF MotionInv, MotionTypeOK, MotionKept, wheelVars

(* Every step of the pointer motion keeps the invariant.                    *)
LEMMA MotionStepInv == MotionInv /\ [MotionNext]_motionVars => MotionInv'
<1>1. SUFFICES ASSUME MotionInv, [MotionNext]_motionVars PROVE MotionInv'
  OBVIOUS
<1>2. CASE \/ UNCHANGED motionVars \/ PointerPipeFails \/ EnterOrLeave \/ AxisSource \/ AxisIgnored
           \/ Replug
  <2>1. /\ UNCHANGED <<group, wheel, wheelOwed, wheelLost, relative, owed, lost>>
        /\ open' \in BOOLEAN /\ over' \in BOOLEAN /\ discrete' \in BOOLEAN
    BY <1>1, <1>2
       DEF PointerPipeFails, EnterOrLeave, AxisSource, AxisIgnored, Replug, EnsurePipe, motionVars,
       wheelVars, movingVars, MotionInv, MotionTypeOK
  <2>2. UNCHANGED <<ptrPrv, position>> \/ (ptrPrv' = 0 /\ position' = 0)
    BY <1>2
       DEF PointerPipeFails, EnterOrLeave, AxisSource, AxisIgnored, Replug, motionVars, movingVars
  <2>3. ptrPrv' \in Int /\ position' \in Int /\ ptrPrv' = position'
    BY <1>1, <2>2 DEF MotionInv, MotionTypeOK
  <2>. QED BY <1>1, <2>1, <2>3 DEF MotionInv, MotionTypeOK, MotionKept, AccumulatorsBelowStep
<1>. QED BY <1>1, <1>2, AxisKeeps, RelativeKeepsMotion, MotionKeepsMotion DEF MotionNext

(* Whatever comes in is read, lost with an event that did not fit into the  *)
(* pipe, or waits in an accumulator as less than one step: for any number   *)
(* of fractions in 1.0, any motion and however many events are lost.        *)
THEOREM MotionComesOut == MotionSpec => []MotionKept
<1>1. MotionInv => MotionKept
  BY DEF MotionInv
<1>. QED BY <1>1, MotionInitInv, MotionStepInv, PTL DEF MotionSpec
=============================================================================

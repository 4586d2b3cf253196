---------------------------- MODULE ServicesProofs ----------------------------
(***************************************************************************)
(* Theorems about what happens beside the frames: UserData for any objects  *)
(* and ids, WindowService for any apps, tasks and number of pointers,       *)
(* Clipboard for any number of selections, and the composition of the three *)
(* that MCServices checks.                                                  *)
(***************************************************************************)
EXTENDS MCServices, WellFoundedInduction, TLAPS

(***************************************************************************)
(* UserData.                                                                *)
(***************************************************************************)

(* What keeps the callbacks and the data apart: an id is taken by one       *)
(* object, the map leads from it to that object while it listens, and       *)
(* another object can only have the id of the one whose callback runs if    *)
(* that id went to it meanwhile.  Between callbacks nothing is found.       *)
Taking(o) == o \in Objects /\ state[o] # "none"

IdsUnique == \A o, p \in Objects : Taking(o) /\ Taking(p) /\ id[o] = id[p] => o = p

MapExact ==
  /\ \A i \in ObjectIds : userData[i] # NoObject =>
       state[userData[i]] = "listening" /\ id[userData[i]] = i
  /\ \A o \in Objects : state[o] = "listening" => userData[id[o]] = o

HandlingKnown ==
  IF handling = NoObject THEN found = NoObject
  ELSE
    \A o \in Objects : o # handling /\ Taking(o) /\ id[o] = id[handling] => recycled

UserDataInv ==
  UserDataTypeOK /\ IdsUnique /\ MapExact /\ HandlingKnown /\ CallbacksFindTheirData

-----------------------------------------------------------------------------
(* The invariant holds before there is an object.                           *)
LEMMA UserDataInitInv ==
  ASSUME UserDataInit
  PROVE  UserDataInv
BY UserDataAssumption
   DEF UserDataInit, UserDataInv, UserDataTypeOK, IdsUnique, MapExact, HandlingKnown,
       CallbacksFindTheirData, Taking

(* A new object takes an id that nobody has.                                *)
LEMMA CreateInv ==
  ASSUME UserDataInv, NEW o \in Objects, NEW i \in ObjectIds, Create(o, i)
  PROVE  UserDataInv'
<1>. USE UserDataAssumption DEF UserDataInv, Create
<1>1. UserDataTypeOK'
  BY DEF UserDataTypeOK, callbackVars
<1>2. \A p \in Objects : Taking(p) => id[p] # i
  BY DEF Taken, Taking
<1>3. \A p \in Objects : p # o => Taking(p)' = Taking(p) /\ id'[p] = id[p]
  BY DEF UserDataTypeOK, Taking
<1>4. IdsUnique'
  BY <1>2, <1>3 DEF IdsUnique, UserDataTypeOK
<1>5. MapExact'
  BY <1>2 DEF MapExact, UserDataTypeOK
<1>6. HandlingKnown'
  BY <1>2, <1>3 DEF HandlingKnown, UserDataTypeOK
<1>7. CallbacksFindTheirData'
  BY DEF CallbacksFindTheirData, UserDataTypeOK, HandlingKnown
<1>. QED BY <1>1, <1>4, <1>5, <1>6, <1>7

(* Its id is not in the map, so that it can be registered.                  *)
LEMMA AddListenerInv ==
  ASSUME UserDataInv, NEW o \in Objects, AddListener(o)
  PROVE  UserDataInv'
<1>. USE UserDataAssumption DEF UserDataInv
<1>1. userData[id[o]] = NoObject
  BY DEF AddListener, IdsUnique, MapExact, UserDataTypeOK, Taking
<1>2. /\ userData' = [userData EXCEPT ![id[o]] = o]
      /\ state' = [state EXCEPT ![o] = "listening"]
      /\ UNCHANGED <<aborted, id, handling, found, recycled>>
  BY <1>1 DEF AddListener, Registered, UserDataTypeOK, callbackVars
<1>3. UserDataTypeOK'
  BY <1>2 DEF UserDataTypeOK
<1>4. \A p \in Objects : Taking(p)' = Taking(p)
  BY <1>2 DEF AddListener, UserDataTypeOK, Taking
<1>5. IdsUnique' /\ HandlingKnown'
  BY <1>2, <1>4 DEF IdsUnique, HandlingKnown
<1>6. MapExact'
  BY <1>1, <1>2 DEF MapExact, UserDataTypeOK
<1>7. CallbacksFindTheirData'
  BY <1>2 DEF CallbacksFindTheirData
<1>. QED BY <1>3, <1>5, <1>6, <1>7

(* reset finds the data of a listening object under its id.                 *)
LEMMA ResetInv ==
  ASSUME UserDataInv, NEW o \in Objects, Reset(o)
  PROVE  UserDataInv'
<1>. USE UserDataAssumption DEF UserDataInv
<1>1. CASE state[o] = "listening"
  <2>1. userData[id[o]] = o /\ id[o] \in Registered
    BY <1>1 DEF MapExact, UserDataTypeOK, Registered
  <2>2. /\ userData' = [userData EXCEPT ![id[o]] = NoObject]
        /\ state' = [state EXCEPT ![o] = "resetting"]
        /\ UNCHANGED <<aborted, id, handling, found, recycled>>
    BY <1>1, <2>1 DEF Reset, RemoveUserData, callbackVars
  <2>3. UserDataTypeOK'
    BY <2>2 DEF UserDataTypeOK
  <2>4. \A p \in Objects : Taking(p)' = Taking(p)
    BY <1>1, <2>2 DEF UserDataTypeOK, Taking
  <2>5. IdsUnique' /\ HandlingKnown'
    BY <2>2, <2>4 DEF IdsUnique, HandlingKnown
  <2>6. MapExact'
    BY <2>1, <2>2 DEF MapExact, UserDataTypeOK
  <2>7. CallbacksFindTheirData'
    BY <2>2 DEF CallbacksFindTheirData
  <2>. QED BY <2>3, <2>5, <2>6, <2>7
<1>2. CASE state[o] \in {"bare", "resetting"}
  <2>1. /\ state' = [state EXCEPT ![o] = "destroyed"]
        /\ UNCHANGED <<userData, aborted, id, handling, found, recycled>>
    BY <1>2 DEF Reset, callbackVars
  <2>2. UserDataTypeOK'
    BY <2>1 DEF UserDataTypeOK
  <2>3. \A p \in Objects : Taking(p)' = Taking(p)
    BY <1>2, <2>1 DEF UserDataTypeOK, Taking
  <2>4. IdsUnique' /\ HandlingKnown'
    BY <2>1, <2>3 DEF IdsUnique, HandlingKnown
  <2>5. MapExact'
    BY <1>2, <2>1 DEF MapExact, UserDataTypeOK
  <2>6. CallbacksFindTheirData'
    BY <2>1 DEF CallbacksFindTheirData
  <2>. QED BY <2>2, <2>4, <2>5, <2>6
<1>. QED BY <1>1, <1>2 DEF Reset

(* The compositor confirms a deletion.                                      *)
LEMMA DeleteIdInv ==
  ASSUME UserDataInv, NEW o \in Objects, DeleteId(o)
  PROVE  UserDataInv'
<1>. USE UserDataAssumption DEF UserDataInv, DeleteId, callbackVars
<1>1. UserDataTypeOK'
  BY DEF UserDataTypeOK
<1>2. \A p \in Objects : Taking(p)' => Taking(p)
  BY DEF UserDataTypeOK, Taking
<1>3. IdsUnique' /\ HandlingKnown'
  BY <1>2 DEF IdsUnique, HandlingKnown
<1>4. MapExact'
  BY DEF MapExact, UserDataTypeOK
<1>5. CallbacksFindTheirData'
  BY DEF CallbacksFindTheirData
<1>. QED BY <1>1, <1>3, <1>4, <1>5

(* The steps of a callback.                                                 *)
LEMMA CallbackInv ==
  ASSUME UserDataInv,
         (\E o \in Objects : CallbackBegin(o)) \/ GetUserData \/ CallbackEnd
  PROVE  UserDataInv'
<1>. USE UserDataAssumption DEF UserDataInv
<1>1. CASE \E o \in Objects : CallbackBegin(o)
  <2>1. PICK o \in Objects : CallbackBegin(o)
    BY <1>1
  <2>2. UserDataTypeOK' /\ IdsUnique' /\ MapExact'
    BY <2>1 DEF CallbackBegin, UserDataTypeOK, IdsUnique, MapExact, Taking
  <2>3. Taking(o)
    BY <2>1 DEF CallbackBegin, Taking
  <2>4. HandlingKnown'
    BY <2>1, <2>3 DEF CallbackBegin, HandlingKnown, IdsUnique, Taking
  <2>5. CallbacksFindTheirData'
    BY <2>1 DEF CallbackBegin, CallbacksFindTheirData, UserDataTypeOK
  <2>. QED BY <2>2, <2>4, <2>5
<1>2. CASE GetUserData
  <2>1. UserDataTypeOK' /\ IdsUnique' /\ MapExact' /\ HandlingKnown'
    BY <1>2 DEF GetUserData, UserDataTypeOK, IdsUnique, MapExact, HandlingKnown, Taking
  <2>2. CallbacksFindTheirData'
    BY <1>2 DEF GetUserData, CallbacksFindTheirData, UserDataTypeOK, MapExact,
                HandlingKnown, Taking
  <2>. QED BY <2>1, <2>2
<1>3. CASE CallbackEnd
  BY <1>3 DEF CallbackEnd, UserDataTypeOK, IdsUnique, MapExact, HandlingKnown,
              CallbacksFindTheirData, Taking
<1>. QED BY <1>1, <1>2, <1>3

(* Every step keeps it.                                                     *)
LEMMA UserDataStepInv ==
  ASSUME UserDataInv, [UserDataNext]_userDataVars
  PROVE  UserDataInv'
<1>1. CASE UNCHANGED userDataVars
  BY <1>1 DEF userDataVars, callbackVars, UserDataInv, UserDataTypeOK, IdsUnique, MapExact,
              HandlingKnown, CallbacksFindTheirData, Taking
<1>2. CASE UserDataNext
  BY <1>2, CreateInv, AddListenerInv, ResetInv, DeleteIdInv, CallbackInv DEF UserDataNext
<1>. QED BY <1>1, <1>2

-----------------------------------------------------------------------------
(* For any objects and ids, whatever the order in which the threads make,   *)
(* register, reset and confirm objects and run callbacks.                   *)
THEOREM UserDataInvHolds == UserDataSpec => []UserDataInv
<1>1. UserDataInit => UserDataInv
  BY UserDataInitInv
<1>2. UserDataInv /\ [UserDataNext]_userDataVars => UserDataInv'
  BY UserDataStepInv
<1>. QED BY <1>1, <1>2, PTL DEF UserDataSpec

(* Every variable has its type.                                             *)
THEOREM UserDataTypes == UserDataSpec => []UserDataTypeOK
<1>1. UserDataInv => UserDataTypeOK
  BY DEF UserDataInv
<1>. QED BY <1>1, UserDataInvHolds, PTL

(* No id is registered twice or unregistered without data, and a callback   *)
(* gets its own object's data or none, unless its id went to another object *)
(* while it was starting.                                                   *)
THEOREM CallbacksAreSafe == UserDataSpec => []CallbacksFindTheirData
<1>1. UserDataInv => CallbacksFindTheirData
  BY DEF UserDataInv
<1>. QED BY <1>1, UserDataInvHolds, PTL

(***************************************************************************)
(* WindowService.                                                           *)
(***************************************************************************)

(* The order of the natural numbers is well-founded.                        *)
LessThan == OpToRel(<, Nat)

(* The loop over the windows finds the first of the app's.                  *)
LEMMA FirstIsIn ==
  ASSUME NEW K \in SUBSET Nat, K # {}
  PROVE  First(K) \in K
<1>1. IsWellFoundedOn(LessThan, Nat)
  BY NatLessThanWellFounded DEF LessThan
<1>2. PICK k \in K : \A j \in K : ~ (<<j, k>> \in LessThan)
  BY <1>1, WFMin
<1>3. \A i, j \in Nat : i < j => <<i, j>> \in LessThan
  BY DEF LessThan, OpToRel
<1>4. \A j \in K : ~(j < k)
  BY <1>2, <1>3
<1>5. \A j \in K : k <= j
  BY <1>4
<1>. QED BY <1>5 DEF First

(* The relative pointer is of the seat's pointer unless that was unplugged  *)
(* while it existed.                                                        *)
ServiceInv ==
  /\ ServiceTypeOK
  /\ pointers \in Nat
  /\ CapturedPointersMove
  /\ relative # NoPointer /\ "replugged" \notin stray => relative = pointer

(* Before the first call no pointer is locked and nothing is inhibited.     *)
LEMMA ServiceInitInv == ServiceInit => ServiceInv
BY DEF ServiceInit, ServiceInv, ServiceTypeOK, CapturedPointersMove, Locking, NoCall,
       NoPointer

(* A window locks the pointer.                                              *)
LEMMA LockInv ==
  ASSUME ServiceInv, NEW k \in open, Lock(k), call' = NoCall,
         UNCHANGED <<appID, open, fullUi, pointer, pointers, inhibitors>>
  PROVE  ServiceInv'
<1>. USE DEF ServiceInv
<1>1. k \in WindowKeys /\ pointer \in 0..pointers /\ relative \in 0..pointers
  BY DEF ServiceTypeOK
<1>2. /\ lockedBy' = [lockedBy EXCEPT ![k] = pointer]
      /\ relative' = IF relative = NoPointer THEN pointer ELSE relative
      /\ stray' = stray /\ pointer # NoPointer
  BY DEF Lock
<1>3. Locking(lockedBy') = Locking(lockedBy) \cup {k}
  BY <1>1, <1>2 DEF Locking, ServiceTypeOK
<1>4. ServiceTypeOK'
  BY <1>1, <1>2, <1>3 DEF ServiceTypeOK, NoCall
<1>5. relative' # NoPointer /\ ("replugged" \notin stray => relative' = pointer)
  BY <1>2
<1>6. \A j \in Locking(lockedBy') : "replugged" \notin stray => lockedBy'[j] = relative'
  <2>1. lockedBy'[k] = pointer
    BY <1>1, <1>2 DEF ServiceTypeOK
  <2>2. \A j \in Locking(lockedBy) : j # k => lockedBy'[j] = lockedBy[j]
    BY <1>2 DEF Locking, ServiceTypeOK
  <2>3. \A j \in Locking(lockedBy) : "replugged" \notin stray => lockedBy[j] = pointer
    BY DEF CapturedPointersMove
  <2>. QED BY <1>3, <1>5, <2>1, <2>2, <2>3
<1>7. CapturedPointersMove'
  BY <1>2, <1>3, <1>5, <1>6 DEF CapturedPointersMove
<1>. QED BY <1>2, <1>4, <1>5, <1>7

(* A lock is given back, and with the last one the relative pointer.        *)
LEMMA UnlockInv ==
  ASSUME ServiceInv, NEW k \in open, Unlock(k), call' = NoCall,
         UNCHANGED <<appID, open, fullUi, pointer, pointers, inhibitors>>
  PROVE  ServiceInv'
<1>. USE DEF ServiceInv
<1>1. k \in WindowKeys /\ lockedBy' = [lockedBy EXCEPT ![k] = NoPointer]
  BY DEF ServiceTypeOK, Unlock
<1>2. Locking(lockedBy') = Locking(lockedBy) \ {k}
  BY <1>1 DEF Locking, ServiceTypeOK
<1>3. \A j \in Locking(lockedBy') : lockedBy'[j] = lockedBy[j]
  BY <1>1 DEF Locking, ServiceTypeOK
<1>4. ServiceTypeOK'
  <2>1. lockedBy' \in [WindowKeys -> 0..pointers]
    BY <1>1 DEF ServiceTypeOK, NoPointer
  <2>2. relative' \in 0..pointers
    BY DEF Unlock, ServiceTypeOK, NoPointer
  <2>3. Locking(lockedBy') \cup inhibitors' \subseteq open
    BY <1>2 DEF ServiceTypeOK
  <2>. QED BY <2>1, <2>2, <2>3 DEF ServiceTypeOK, NoCall
<1>5. CapturedPointersMove' /\ (relative' # NoPointer /\ "replugged" \notin stray' => relative' = pointer')
  <2>1. CASE Locking(lockedBy') = {}
    BY <2>1 DEF Unlock, CapturedPointersMove
  <2>2. CASE Locking(lockedBy') # {}
    BY <1>2, <1>3, <2>2 DEF Unlock, CapturedPointersMove
  <2>. QED BY <2>1, <2>2
<1>. QED BY <1>4, <1>5

(* A window that goes takes its lock with it.                               *)
LEMMA CloseInv ==
  ASSUME ServiceInv, NEW k \in WindowKeys, CloseWindow(k)
  PROVE  ServiceInv'
<1>. USE DEF ServiceInv
<1>1. lockedBy' = [lockedBy EXCEPT ![k] = NoPointer]
  BY DEF CloseWindow
<1>2. Locking(lockedBy') = Locking(lockedBy) \ {k}
  BY <1>1 DEF Locking, ServiceTypeOK
<1>3. \A j \in Locking(lockedBy') : lockedBy'[j] = lockedBy[j]
  BY <1>1 DEF Locking, ServiceTypeOK
<1>4. ServiceTypeOK'
  <2>1. lockedBy' \in [WindowKeys -> 0..pointers]
    BY <1>1 DEF ServiceTypeOK, NoPointer
  <2>2. Locking(lockedBy') \cup inhibitors' \subseteq open'
    BY <1>2 DEF CloseWindow, ServiceTypeOK
  <2>3. open' \subseteq WindowKeys /\ UNCHANGED <<appID, pointer, pointers, relative, call>>
    BY DEF CloseWindow, ServiceTypeOK
  <2>. QED BY <2>1, <2>2, <2>3 DEF ServiceTypeOK
<1>5. "replugged" \in stray' <=> "replugged" \in stray
  BY DEF CloseWindow
<1>6. lockedBy[k] # NoPointer => "closed" \in stray'
  BY DEF CloseWindow
<1>7. stray \subseteq stray'
  BY DEF CloseWindow
<1>8. k \notin Locking(lockedBy) => Locking(lockedBy') = Locking(lockedBy)
  BY <1>2
<1>9. k \in Locking(lockedBy) => "closed" \in stray'
  BY <1>6 DEF Locking
<1>10. CapturedPointersMove'
  BY <1>2, <1>3, <1>5, <1>7, <1>8, <1>9 DEF CloseWindow, CapturedPointersMove
<1>. QED BY <1>4, <1>5, <1>10 DEF CloseWindow

(* The seat's pointer comes and goes.                                       *)
LEMMA PointerInv ==
  ASSUME ServiceInv, PointerArrives \/ PointerVanishes
  PROVE  ServiceInv'
<1>. USE DEF ServiceInv
<1>1. CASE PointerArrives
  <2>1. relative # NoPointer => "replugged" \in stray
    BY <1>1 DEF PointerArrives
  <2>2. ServiceTypeOK'
    BY <1>1 DEF PointerArrives, ServiceTypeOK
  <2>. QED BY <1>1, <2>1, <2>2 DEF PointerArrives, CapturedPointersMove
<1>2. CASE PointerVanishes
  <2>1. relative # NoPointer => "replugged" \in stray'
    BY <1>2 DEF PointerVanishes
  <2>2. ServiceTypeOK'
    BY <1>2 DEF PointerVanishes, ServiceTypeOK, NoPointer
  <2>3. Locking(lockedBy) # {} => relative # NoPointer
    BY DEF CapturedPointersMove
  <2>4. "closed" \in stray => "closed" \in stray'
    BY <1>2 DEF PointerVanishes
  <2>. QED BY <1>2, <2>1, <2>2, <2>3, <2>4 DEF PointerVanishes, CapturedPointersMove
<1>. QED BY <1>1, <1>2

(* Every call and every event keeps the invariant.                          *)
LEMMA ServiceStepInv == ServiceInv /\ [ServiceNext]_serviceVars => ServiceInv'
<1>. SUFFICES ASSUME ServiceInv, [ServiceNext]_serviceVars
              PROVE  ServiceInv'
  OBVIOUS
<1>1. CASE CaptureFirst
  <2>1. PICK k : k = First(Windows(call.app))
    OBVIOUS
  <2>2. Windows(call.app) \in SUBSET Nat /\ Windows(call.app) # {} /\ Windows(call.app) \subseteq open
    <3>1. open \subseteq Nat
      BY ServiceAssumption DEF ServiceInv, ServiceTypeOK, WindowKeys
    <3>. QED BY <1>1, <3>1 DEF CaptureFirst, Windows
  <2>3. k \in open
    BY <2>1, <2>2, FirstIsIn
  <2>4. Lock(k) \/ Unlock(k)
    BY <1>1, <2>1 DEF CaptureFirst
  <2>5. call' = NoCall /\ UNCHANGED <<appID, open, fullUi, pointer, pointers, inhibitors>>
    BY <1>1 DEF CaptureFirst, Return
  <2>. QED BY <2>3, <2>4, <2>5, LockInv, UnlockInv
<1>2. CASE CaptureAborts
  BY <1>2 DEF CaptureAborts, Return, ServiceInv, ServiceTypeOK, CapturedPointersMove, Locking,
              NoCall, NoPointer
<1>3. CASE \/ \E app \in Apps, enabled \in BOOLEAN : PointerCaptureBegin(app, enabled)
           \/ CaptureNothing
  BY <1>3 DEF PointerCaptureBegin, CaptureNothing, Return, ServiceInv, ServiceTypeOK,
              CapturedPointersMove, NoCall
<1>4. CASE \E task \in WindowKeys \cup {AllTasks}, enabled \in BOOLEAN : SetIdleInhibit(task, enabled)
  BY <1>4 DEF SetIdleInhibit, ServiceInv, ServiceTypeOK, CapturedPointersMove
<1>5. CASE \E k \in WindowKeys, app \in Apps \cup {FullUi} : OpenWindow(k, app)
  BY <1>5 DEF OpenWindow, ServiceInv, ServiceTypeOK, CapturedPointersMove
<1>6. CASE \E k \in WindowKeys : CloseWindow(k)
  BY <1>6, CloseInv
<1>7. CASE \E on \in BOOLEAN : SwitchActiveApps(on)
  BY <1>7 DEF SwitchActiveApps, ServiceInv, ServiceTypeOK, CapturedPointersMove
<1>8. CASE PointerArrives \/ PointerVanishes
  BY <1>8, PointerInv
<1>9. CASE UNCHANGED serviceVars
  BY <1>9 DEF serviceVars, ServiceInv, ServiceTypeOK, CapturedPointersMove
<1>. QED BY <1>1, <1>2, <1>3, <1>4, <1>5, <1>6, <1>7, <1>8, <1>9 DEF ServiceNext

(* Every variable has its type, and only open windows hold locks.           *)
THEOREM ServiceTypes == ServiceSpec => []ServiceTypeOK
<1>1. ServiceInv => ServiceTypeOK
  BY DEF ServiceInv
<1>. QED BY <1>1, ServiceInitInv, ServiceStepInv, PTL DEF ServiceSpec

(* As long as the pointer stays plugged in, a window that captured it gets  *)
(* its motion, and the last release ends the relative pointer.              *)
THEOREM CapturesMove == ServiceSpec => []CapturedPointersMove
<1>1. ServiceInv => CapturedPointersMove
  BY DEF ServiceInv
<1>. QED BY <1>1, ServiceInitInv, ServiceStepInv, PTL DEF ServiceSpec

(***************************************************************************)
(* Clipboard.                                                               *)
(***************************************************************************)

Reads == [thread : Threads, source : Sources, step : {"roundtrip", "asleep", "clear", "read", "ended"},
          text : Seq(Sources), open : BOOLEAN]

Requests ==
  [kind : {"set"}, source : Sources]
    \cup [kind : {"receive"}, source : Sources, read : Nat]
    \cup [kind : {"sync"}, source : {NoSource}, read : Nat]

Events ==
  [kind : {"offer"}, mime : {"text", "other"}]
    \cup [kind : {"selection"}, source : Sources \cup {NoSource}]
    \cup [kind : {"cancelled"}, source : Sources]
    \cup [kind : {"send"}, source : Sources \cup {NoSource}, read : Nat]
    \cup [kind : {"done"}, read : Nat]

(* The types but for `asked`, and that a thread with an event in its hands  *)
(* has one.                                                                 *)
BaseTypes ==
  /\ clipboard \in Seq(Sources)
  /\ mimeTypes \subseteq {"text", "other"}
  /\ reads \in Seq(Reads)
  /\ slow \in Threads \cup {"nobody"}
  /\ binder \in Sources \cup {NoSource}
  /\ selection \in Sources \cup {NoSource}
  /\ owner \in [Sources -> {"nobody", "android", "desktop", "image"}]
  /\ requests \in Seq(Requests) /\ events \in Seq(Events)
  /\ overtaken \in BOOLEAN
  /\ slow # "nobody" => events # << >>

(* What is said of a read travels in one line: the events before the        *)
(* requests, for the compositor turns the first request into the last       *)
(* event.  The pipe of a read travels as "receive" and then as "send", its  *)
(* callback as "sync" and then as "done".                                   *)
Line == events \o requests

PipeAt(s, k, r) == k \in DOMAIN s /\ s[k].kind \in {"receive", "send"} /\ s[k].read = r
CallAt(s, k, r) == k \in DOMAIN s /\ s[k].kind \in {"sync", "done"} /\ s[k].read = r

Piped(s)  == {r \in Nat : \E k \in DOMAIN s : PipeAt(s, k, r)}
Called(s) == {r \in Nat : \E k \in DOMAIN s : CallAt(s, k, r)}

(* Each of them is in one place, and the pipe comes first.                  *)
Once(s) ==
  \A r \in Nat : \A k, l \in DOMAIN s :
    /\ PipeAt(s, k, r) /\ PipeAt(s, l, r) => k = l
    /\ CallAt(s, k, r) /\ CallAt(s, l, r) => k = l
    /\ PipeAt(s, k, r) /\ CallAt(s, l, r) => k < l

(* A pipe that is open is on its way or in a client's hands, a read in its  *)
(* roundtrip has its callback on its way, and a pipe outlasts the roundtrip *)
(* only in the hands of a slow thread.                                      *)
LineInv ==
  /\ Once(Line)
  /\ Piped(Line) \cap asked = {}
  /\ Piped(Line) \cup asked = {r \in DOMAIN reads : reads[r].open}
  /\ Called(Line) = {r \in DOMAIN reads : reads[r].step = "roundtrip"}
  /\ \A r \in Piped(Line) : reads[r].step # "roundtrip" => PipeAt(events, 1, r) /\ slow # "nobody"

(* A read whose pipe is open has had no text and goes on; and while one     *)
(* blocks in read() its thread takes no event.                              *)
ReadsInv ==
  \A r \in DOMAIN reads :
    /\ reads[r].open => reads[r].text = << >> /\ reads[r].step # "ended"
    /\ reads[r].step = "read" => Innermost(reads[r].thread, r) /\ slow # reads[r].thread

(* Whoever is named as a source has been made, and never changes.           *)
SourcesMade ==
  /\ binder # NoSource => owner[binder] = "android"
  /\ \A k \in DOMAIN requests : requests[k].kind = "set" => owner[requests[k].source] = "android"
  /\ selection # NoSource => owner[selection] # "nobody"
  /\ \A k \in DOMAIN events :
       events[k].kind = "selection" /\ events[k].source # NoSource =>
         owner[events[k].source] # "nobody"

MimeOf(source) == IF owner[source] = "image" THEN "other" ELSE "text"

IsSelection(k) == k \in DOMAIN events /\ events[k].kind = "selection"

InHand(k) == k = 1 /\ slow # "nobody"

(* A selection has its offer before it, or its type is in mimeTypes, unless *)
(* the handlers were out of order.                                          *)
SelectionsFit ==
  \A k \in DOMAIN events : IsSelection(k) /\ events[k].source # NoSource =>
    IF k = 1 THEN overtaken \/ MimeOf(events[k].source) \in mimeTypes
    ELSE \/ events[k - 1].kind = "offer" /\ events[k - 1].mime = MimeOf(events[k].source)
         \/ InHand(k - 1) /\ overtaken

(* What goes before a selection is followed by one.                         *)
SelectionsFollow ==
  \A k \in DOMAIN events : ~InHand(k) =>
    /\ events[k].kind = "offer" => IsSelection(k + 1)
    /\ events[k].kind = "cancelled" => \E l \in DOMAIN events : l > k /\ IsSelection(l)

(* The last selection that is on its way is the compositor's.               *)
LastIsSelection ==
  \A k \in DOMAIN events :
    /\ IsSelection(k)
    /\ \A j \in DOMAIN events : k < j => ~IsSelection(j)
    => InHand(k) \/ events[k].source = selection

OffersInv == SelectionsFit /\ SelectionsFollow /\ LastIsSelection

(* No selection is on its way and the last was handled alone.               *)
Settling ==
  /\ ~overtaken /\ binder = NoSource
  /\ \A k \in DOMAIN requests : requests[k].kind # "set"
  /\ \A k \in DOMAIN events : events[k].kind # "selection"

Coming(r) == IF reads[r].open THEN TextOf(reads[r].source) ELSE reads[r].text

(* The one read is of the selection, and its text comes once.               *)
OneRead(r) ==
  /\ reads[r].source = selection
  /\ \A k \in DOMAIN events : PipeAt(events, k, r) => events[k].source = selection
  /\ \A k \in DOMAIN requests : PipeAt(requests, k, r) => requests[k].source = selection
  /\ IF reads[r].step # "read" THEN Coming(r) = TextOf(selection)
     ELSE \/ clipboard = << >> /\ Coming(r) = TextOf(selection)
          \/ clipboard = TextOf(selection) /\ Coming(r) = << >>

SettlingInv ==
  Settling =>
    /\ \A r, q \in Running : r = q
    /\ \A r \in Running : OneRead(r)
    /\ Running = {} => clipboard = TextOf(selection)

ClipboardInv == BaseTypes /\ LineInv /\ ReadsInv /\ SourcesMade /\ OffersInv /\ SettlingInv

-----------------------------------------------------------------------------
(* What is left of a sequence without its first element.                    *)
LEMMA TailFacts ==
  ASSUME NEW S, NEW s \in Seq(S), s # << >>
  PROVE  /\ Tail(s) \in Seq(S) /\ Len(s) \in Nat /\ Len(s) >= 1 /\ Len(Tail(s)) = Len(s) - 1
         /\ Head(s) = s[1] /\ s[1] \in S /\ DOMAIN s = 1..Len(s) /\ 1 \in DOMAIN s
         /\ DOMAIN Tail(s) = 1..(Len(s) - 1)
         /\ \A k \in DOMAIN Tail(s) : k + 1 \in DOMAIN s /\ Tail(s)[k] = s[k + 1]
OBVIOUS

(* What Append gives, place by place.                                       *)
LEMMA AppendFacts ==
  ASSUME NEW S, NEW s \in Seq(S), NEW e \in S
  PROVE  /\ Append(s, e) \in Seq(S) /\ Len(s) \in Nat /\ DOMAIN s = 1..Len(s)
         /\ DOMAIN Append(s, e) = DOMAIN s \cup {Len(s) + 1} /\ Len(s) + 1 \notin DOMAIN s
         /\ \A k \in DOMAIN s : Append(s, e)[k] = s[k]
         /\ Append(s, e)[Len(s) + 1] = e
         /\ Len(Append(s, e)) = Len(s) + 1
OBVIOUS

(* What a concatenation gives, place by place.                              *)
LEMMA ConcatFacts ==
  ASSUME NEW S, NEW s \in Seq(S), NEW t \in Seq(S)
  PROVE  /\ s \o t \in Seq(S) /\ Len(s) \in Nat /\ Len(t) \in Nat
         /\ Len(s \o t) = Len(s) + Len(t)
         /\ DOMAIN s = 1..Len(s) /\ DOMAIN t = 1..Len(t)
         /\ DOMAIN (s \o t) = 1..(Len(s) + Len(t))
         /\ \A k \in DOMAIN s : k \in DOMAIN (s \o t) /\ (s \o t)[k] = s[k]
         /\ \A k \in DOMAIN t : Len(s) + k \in DOMAIN (s \o t) /\ (s \o t)[Len(s) + k] = t[k]
         /\ \A k \in DOMAIN (s \o t) :
              k \in DOMAIN s \/ \E j \in DOMAIN t : k = Len(s) + j
<1>1. DOMAIN s = 1..Len(s) /\ DOMAIN t = 1..Len(t) /\ DOMAIN (s \o t) = 1..(Len(s) + Len(t))
  OBVIOUS
<1>2. \A k \in DOMAIN t : (s \o t)[Len(s) + k] = t[k]
  OBVIOUS
<1>3. ASSUME NEW k \in DOMAIN (s \o t), k \notin DOMAIN s
      PROVE  \E j \in DOMAIN t : k = Len(s) + j
  <2>1. k \in Int /\ k - Len(s) \in 1..Len(t) /\ k = Len(s) + (k - Len(s))
    BY <1>1, <1>3
  <2>. QED BY <1>1, <2>1
<1>4. s \o t \in Seq(S) /\ Len(s) \in Nat /\ Len(t) \in Nat /\ Len(s \o t) = Len(s) + Len(t)
  OBVIOUS
<1>5. \A k \in DOMAIN s : (s \o t)[k] = s[k]
  OBVIOUS
<1>6. \A k \in DOMAIN t : Len(s) + k \in 1..(Len(s) + Len(t))
  BY <1>1, <1>4
<1>7. \A k \in DOMAIN s : k \in 1..(Len(s) + Len(t))
  BY <1>1, <1>4
<1>. QED BY <1>1, <1>2, <1>3, <1>4, <1>5, <1>6, <1>7

(* A sequence of which one element changes.                                 *)
LEMMA UpdateFacts ==
  ASSUME NEW S, NEW s \in Seq(S), NEW i \in DOMAIN s, NEW e \in S
  PROVE  /\ [s EXCEPT ![i] = e] \in Seq(S)
         /\ Len([s EXCEPT ![i] = e]) = Len(s)
         /\ DOMAIN [s EXCEPT ![i] = e] = DOMAIN s
         /\ [s EXCEPT ![i] = e][i] = e
         /\ \A k \in DOMAIN s : k # i => [s EXCEPT ![i] = e][k] = s[k]
OBVIOUS

(* Where the elements of RemoveAt(s, i) come from, and where those of s go. *)
From(i, k) == IF k < i THEN k ELSE k + 1
To(i, k)   == IF k < i THEN k ELSE k - 1

(* What RemoveAt leaves, place by place.                                    *)
LEMMA RemoveFacts ==
  ASSUME NEW S, NEW s \in Seq(S), NEW i \in DOMAIN s
  PROVE  /\ RemoveAt(s, i) \in Seq(S) /\ Len(s) \in Nat /\ i \in 1..Len(s) /\ s[i] \in S
         /\ DOMAIN s = 1..Len(s) /\ DOMAIN RemoveAt(s, i) = 1..(Len(s) - 1)
         /\ Len(RemoveAt(s, i)) = Len(s) - 1
         /\ \A k \in DOMAIN RemoveAt(s, i) :
              From(i, k) \in DOMAIN s /\ From(i, k) # i /\ RemoveAt(s, i)[k] = s[From(i, k)]
         /\ \A k \in DOMAIN s : k # i =>
              To(i, k) \in DOMAIN RemoveAt(s, i) /\ RemoveAt(s, i)[To(i, k)] = s[k]
<1>1. Len(s) \in Nat /\ DOMAIN s = 1..Len(s) /\ i \in 1..Len(s) /\ s[i] \in S
  OBVIOUS
<1>2. PICK n \in Nat : n = Len(s)
  BY <1>1
<1>3. \A k \in 1..n : s[k] \in S
  BY <1>1, <1>2
<1>4. PICK a : a = SubSeq(s, 1, i - 1)
  OBVIOUS
<1>5. PICK b : b = SubSeq(s, i + 1, n)
  OBVIOUS
<1>6. a \in Seq(S) /\ Len(a) = i - 1 /\ \A k \in 1..(i - 1) : a[k] = s[k]
  <2>1. i - 1 \in Nat /\ i - 1 <= n
    BY <1>1, <1>2
  <2>2. a = [k \in 1..(i - 1) |-> s[k]]
    BY <1>1, <1>2, <1>4, <2>1
  <2>. QED BY <1>3, <2>1, <2>2
<1>7. b \in Seq(S) /\ Len(b) = n - i /\ \A k \in 1..(n - i) : b[k] = s[i + k]
  <2>1. PICK m \in Nat : m = n - i
    BY <1>1, <1>2
  <2>2. b = [k \in 1..m |-> s[i + k]]
    BY <1>1, <1>2, <1>5, <2>1
  <2>3. \A k \in 1..m : i + k \in 1..n
    BY <1>1, <1>2, <2>1
  <2>4. \A k \in 1..m : s[i + k] \in S
    BY <1>3, <2>3
  <2>5. b \in Seq(S) /\ Len(b) = m /\ \A k \in 1..m : b[k] = s[i + k]
    BY <2>2, <2>4
  <2>. QED BY <2>1, <2>5
<1>8. RemoveAt(s, i) = a \o b
  BY <1>2, <1>4, <1>5 DEF RemoveAt
<1>15. a \o b \in Seq(S)
  BY <1>6, <1>7
<1>9. PICK c \in Seq(S) : c = RemoveAt(s, i)
  BY <1>8, <1>15
<1>16. /\ Len(c) = (i - 1) + (n - i) /\ DOMAIN c = 1..Len(c)
       /\ \A k \in 1..(i - 1) : c[k] = a[k]
       /\ \A k \in 1..(n - i) : c[(i - 1) + k] = b[k]
  <2>1. /\ Len(a \o b) = Len(a) + Len(b) /\ DOMAIN (a \o b) = 1..(Len(a) + Len(b))
        /\ DOMAIN a = 1..Len(a) /\ DOMAIN b = 1..Len(b)
        /\ \A k \in DOMAIN a : (a \o b)[k] = a[k]
        /\ \A k \in DOMAIN b : (a \o b)[Len(a) + k] = b[k]
    <3>1. a \in Seq(S) /\ b \in Seq(S)
      BY <1>6, <1>7
    <3>2. /\ Len(a \o b) = Len(a) + Len(b)
          /\ DOMAIN a = 1..Len(a) /\ DOMAIN b = 1..Len(b)
          /\ DOMAIN (a \o b) = 1..(Len(a) + Len(b))
      BY <3>1, ConcatFacts
    <3>3. \A k \in DOMAIN a : (a \o b)[k] = a[k]
      BY <3>1, ConcatFacts
    <3>4. \A k \in DOMAIN b : (a \o b)[Len(a) + k] = b[k]
      BY <3>1
    <3>. QED BY <3>2, <3>3, <3>4
  <2>2. c = a \o b
    BY <1>8, <1>9
  <2>3. PICK p : p = i - 1
    OBVIOUS
  <2>4. PICK q : q = n - i
    OBVIOUS
  <2>5. Len(a) = p /\ Len(b) = q
    BY <1>6, <1>7, <2>3, <2>4
  <2>6. /\ Len(c) = p + q /\ DOMAIN c = 1..(p + q)
        /\ \A k \in 1..p : c[k] = a[k]
        /\ \A k \in 1..q : c[p + k] = b[k]
    BY <2>1, <2>2, <2>5
  <2>. QED BY <2>3, <2>4, <2>6
<1>10. Len(c) = n - 1 /\ DOMAIN c = 1..(n - 1)
  BY <1>1, <1>2, <1>16
<1>11. ASSUME NEW k \in 1..(n - 1) PROVE c[k] = s[From(i, k)]
  <2>1. CASE k < i
    <3>1. c[k] = a[k]
      BY <1>1, <1>2, <1>16, <2>1
    <3>. QED BY <1>1, <1>2, <1>6, <2>1, <3>1 DEF From
  <2>2. CASE ~(k < i)
    <3>1. PICK j \in Int : j = k - (i - 1)
      BY <1>1
    <3>2. j \in 1..(n - i) /\ k = (i - 1) + j
      BY <1>1, <1>2, <2>2, <3>1
    <3>3. c[k] = b[j]
      BY <1>16, <3>2
    <3>4. i + j = k + 1
      BY <1>1, <3>2
    <3>. QED BY <1>7, <2>2, <3>2, <3>3, <3>4 DEF From
  <2>. QED BY <2>1, <2>2
<1>12. \A k \in 1..(n - 1) : From(i, k) \in 1..n /\ From(i, k) # i
  BY <1>1, <1>2 DEF From
<1>13. \A k \in 1..n : k # i => To(i, k) \in 1..(n - 1) /\ From(i, To(i, k)) = k
  BY <1>1, <1>2 DEF From, To
<1>14. \A k \in 1..n : k # i => To(i, k) \in 1..(n - 1) /\ c[To(i, k)] = s[k]
  BY <1>11, <1>13
<1>. QED BY <1>1, <1>2, <1>9, <1>10, <1>11, <1>12, <1>14

(* A token is in one of the two parts.                                      *)
LEMMA ConcatTokens ==
  ASSUME NEW S, NEW s \in Seq(S), NEW t \in Seq(S)
  PROVE  /\ Piped(s \o t) = Piped(s) \cup Piped(t)
         /\ Called(s \o t) = Called(s) \cup Called(t)
         /\ Once(s \o t) <=>
              /\ Once(s) /\ Once(t)
              /\ Piped(s) \cap Piped(t) = {} /\ Called(s) \cap Called(t) = {}
              /\ Called(s) \cap Piped(t) = {}
<1>. DEFINE u == s \o t
<1>1. PICK n \in Nat : n = Len(s)
  BY ConcatFacts
<1>2. /\ \A k \in DOMAIN s : k \in DOMAIN u /\ u[k] = s[k] /\ k \in 1..n
      /\ \A k \in DOMAIN t : n + k \in DOMAIN u /\ u[n + k] = t[k] /\ k \in Nat /\ k >= 1
      /\ \A k \in DOMAIN u : k \in DOMAIN s \/ \E j \in DOMAIN t : k = n + j
  <2>1. DOMAIN t = 1..Len(t) /\ DOMAIN s = 1..n /\ Len(t) \in Nat
    BY <1>1, ConcatFacts
  <2>2. \A k \in DOMAIN t : k \in Nat /\ k >= 1
    BY <2>1
  <2>3. /\ \A k \in DOMAIN s : k \in DOMAIN u /\ u[k] = s[k]
        /\ \A k \in DOMAIN t : Len(s) + k \in DOMAIN u /\ u[Len(s) + k] = t[k]
        /\ \A k \in DOMAIN u : k \in DOMAIN s \/ \E j \in DOMAIN t : k = Len(s) + j
    BY ConcatFacts
  <2>. QED BY <1>1, <2>1, <2>2, <2>3
<1>. HIDE DEF u
<1>3. \A k \in DOMAIN s, r \in Nat :
        /\ PipeAt(u, k, r) <=> PipeAt(s, k, r)
        /\ CallAt(u, k, r) <=> CallAt(s, k, r)
  BY <1>2 DEF PipeAt, CallAt
<1>4. \A k \in DOMAIN t, r \in Nat :
        /\ PipeAt(u, n + k, r) <=> PipeAt(t, k, r)
        /\ CallAt(u, n + k, r) <=> CallAt(t, k, r)
  BY <1>2 DEF PipeAt, CallAt
<1>5. Piped(u) = Piped(s) \cup Piped(t)
  <2>1. ASSUME NEW r \in Nat PROVE r \in Piped(u) <=> r \in Piped(s) \/ r \in Piped(t)
    <3>1. r \in Piped(u) <=> \E k \in DOMAIN u : PipeAt(u, k, r)
      BY DEF Piped
    <3>2. r \in Piped(s) <=> \E k \in DOMAIN s : PipeAt(s, k, r)
      BY DEF Piped
    <3>3. r \in Piped(t) <=> \E k \in DOMAIN t : PipeAt(t, k, r)
      BY DEF Piped
    <3>. QED BY <1>2, <1>3, <1>4, <3>1, <3>2, <3>3
  <2>2. Piped(u) \subseteq Nat /\ Piped(s) \subseteq Nat /\ Piped(t) \subseteq Nat
    BY DEF Piped
  <2>. QED BY <2>1, <2>2
<1>6. Called(u) = Called(s) \cup Called(t)
  <2>1. ASSUME NEW r \in Nat PROVE r \in Called(u) <=> r \in Called(s) \/ r \in Called(t)
    <3>1. r \in Called(u) <=> \E k \in DOMAIN u : CallAt(u, k, r)
      BY DEF Called
    <3>2. r \in Called(s) <=> \E k \in DOMAIN s : CallAt(s, k, r)
      BY DEF Called
    <3>3. r \in Called(t) <=> \E k \in DOMAIN t : CallAt(t, k, r)
      BY DEF Called
    <3>. QED BY <1>2, <1>3, <1>4, <3>1, <3>2, <3>3
  <2>2. Called(u) \subseteq Nat /\ Called(s) \subseteq Nat /\ Called(t) \subseteq Nat
    BY DEF Called
  <2>. QED BY <2>1, <2>2
<1>7. ASSUME Once(u)
      PROVE  /\ Once(s) /\ Once(t)
             /\ Piped(s) \cap Piped(t) = {} /\ Called(s) \cap Called(t) = {}
             /\ Called(s) \cap Piped(t) = {}
  <2>1. Once(s)
    BY <1>2, <1>3, <1>7 DEF Once
  <2>2. Once(t)
    <3>1. ASSUME NEW r \in Nat, NEW k \in DOMAIN t, NEW l \in DOMAIN t
          PROVE  /\ PipeAt(t, k, r) /\ PipeAt(t, l, r) => n + k = n + l
                 /\ CallAt(t, k, r) /\ CallAt(t, l, r) => n + k = n + l
                 /\ PipeAt(t, k, r) /\ CallAt(t, l, r) => n + k < n + l
      BY <1>2, <1>4, <1>7 DEF Once
    <3>2. \A k, l \in DOMAIN t : (n + k = n + l => k = l) /\ (n + k < n + l => k < l)
      BY <1>2
    <3>. QED BY <3>1, <3>2 DEF Once
  <2>3. \A k \in DOMAIN s, l \in DOMAIN t : ~(n + l <= k)
    BY <1>2
  <2>4. \A r \in Nat, k \in DOMAIN s, l \in DOMAIN t :
          /\ ~(PipeAt(s, k, r) /\ PipeAt(t, l, r))
          /\ ~(CallAt(s, k, r) /\ CallAt(t, l, r))
          /\ ~(CallAt(s, k, r) /\ PipeAt(t, l, r))
    <3>. SUFFICES ASSUME NEW r \in Nat, NEW k \in DOMAIN s, NEW l \in DOMAIN t
                  PROVE  /\ ~(PipeAt(s, k, r) /\ PipeAt(t, l, r))
                         /\ ~(CallAt(s, k, r) /\ CallAt(t, l, r))
                         /\ ~(CallAt(s, k, r) /\ PipeAt(t, l, r))
      OBVIOUS
    <3>1. k \in DOMAIN u /\ n + l \in DOMAIN u /\ k \in Nat /\ l \in Nat
      BY <1>2
    <3>2. /\ PipeAt(u, k, r) /\ PipeAt(u, n + l, r) => k = n + l
          /\ CallAt(u, k, r) /\ CallAt(u, n + l, r) => k = n + l
          /\ PipeAt(u, n + l, r) /\ CallAt(u, k, r) => n + l < k
      BY <1>7, <3>1 DEF Once
    <3>3. k # n + l /\ ~(n + l < k)
      BY <2>3, <3>1
    <3>. QED BY <1>3, <1>4, <3>2, <3>3
  <2>. QED BY <2>1, <2>2, <2>4 DEF Piped, Called
<1>8. ASSUME Once(s), Once(t),
             Piped(s) \cap Piped(t) = {}, Called(s) \cap Called(t) = {},
             Called(s) \cap Piped(t) = {}
      PROVE  Once(u)
  <2>1. \A r \in Nat, k \in DOMAIN s, l \in DOMAIN t :
          /\ ~(PipeAt(s, k, r) /\ PipeAt(t, l, r))
          /\ ~(CallAt(s, k, r) /\ CallAt(t, l, r))
          /\ ~(CallAt(s, k, r) /\ PipeAt(t, l, r))
    BY <1>8 DEF Piped, Called
  <2>2. ASSUME NEW r \in Nat, NEW k \in DOMAIN u, NEW l \in DOMAIN u
        PROVE  /\ PipeAt(u, k, r) /\ PipeAt(u, l, r) => k = l
               /\ CallAt(u, k, r) /\ CallAt(u, l, r) => k = l
               /\ PipeAt(u, k, r) /\ CallAt(u, l, r) => k < l
    <3>1. CASE k \in DOMAIN s /\ l \in DOMAIN s
      BY <1>3, <1>8, <3>1 DEF Once
    <3>2. CASE k \in DOMAIN s /\ l \notin DOMAIN s
      <4>1. PICK j \in DOMAIN t : l = n + j
        BY <1>2, <3>2
      <4>2. k < l
        BY <1>2, <3>2, <4>1
      <4>. QED BY <1>3, <1>4, <2>1, <3>2, <4>1, <4>2
    <3>3. CASE k \notin DOMAIN s /\ l \in DOMAIN s
      <4>1. PICK j \in DOMAIN t : k = n + j
        BY <1>2, <3>3
      <4>. QED BY <1>3, <1>4, <2>1, <3>3, <4>1
    <3>4. CASE k \notin DOMAIN s /\ l \notin DOMAIN s
      <4>1. PICK i, j \in DOMAIN t : k = n + i /\ l = n + j
        BY <1>2, <3>4
      <4>2. i \in Nat /\ j \in Nat /\ (i = j => k = l) /\ (i < j => k < l)
        BY <1>2, <4>1
      <4>3. /\ PipeAt(t, i, r) /\ PipeAt(t, j, r) => i = j
            /\ CallAt(t, i, r) /\ CallAt(t, j, r) => i = j
            /\ PipeAt(t, i, r) /\ CallAt(t, j, r) => i < j
        BY <1>8 DEF Once
      <4>. QED BY <1>4, <4>1, <4>2, <4>3
    <3>. QED BY <3>1, <3>2, <3>3, <3>4
  <2>. QED BY <2>2 DEF Once
<1>. QED BY <1>5, <1>6, <1>7, <1>8 DEF u

(* With an element a sequence loses its token.                              *)
LEMMA RemoveTokens ==
  ASSUME NEW S, NEW s \in Seq(S), NEW i \in DOMAIN s, Once(s)
  PROVE  /\ Once(RemoveAt(s, i))
         /\ Piped(RemoveAt(s, i)) = {r \in Piped(s) : ~PipeAt(s, i, r)}
         /\ Called(RemoveAt(s, i)) = {r \in Called(s) : ~CallAt(s, i, r)}
<1>. DEFINE u == RemoveAt(s, i)
<1>1. /\ \A k \in DOMAIN u : From(i, k) \in DOMAIN s /\ From(i, k) # i /\ u[k] = s[From(i, k)]
      /\ \A k \in DOMAIN s : k # i => To(i, k) \in DOMAIN u /\ u[To(i, k)] = s[k]
  BY RemoveFacts
<1>2. \A k, l \in DOMAIN u : /\ From(i, k) = From(i, l) => k = l
                             /\ From(i, k) < From(i, l) => k < l
  <2>1. i \in Nat /\ \A k \in DOMAIN u : k \in Nat
    <3>1. PICK n \in Nat : n = Len(s)
      BY RemoveFacts
    <3>2. i \in 1..n /\ DOMAIN u = 1..(n - 1)
      BY <3>1, RemoveFacts
    <3>. QED BY <3>1, <3>2
  <2>. QED BY <2>1 DEF From
<1>. HIDE DEF u
<1>3. \A k \in DOMAIN u, r \in Nat : /\ PipeAt(u, k, r) <=> PipeAt(s, From(i, k), r)
                                     /\ CallAt(u, k, r) <=> CallAt(s, From(i, k), r)
  BY <1>1 DEF PipeAt, CallAt
<1>4. Once(u)
  BY <1>1, <1>2, <1>3 DEF Once
<1>5. \A k \in DOMAIN s, r \in Nat : k # i =>
        /\ PipeAt(s, k, r) => PipeAt(u, To(i, k), r)
        /\ CallAt(s, k, r) => CallAt(u, To(i, k), r)
  BY <1>1 DEF PipeAt, CallAt
<1>6. \A r \in Nat : r \in Piped(u) <=> r \in Piped(s) /\ ~PipeAt(s, i, r)
  <2>. SUFFICES ASSUME NEW r \in Nat
                PROVE  r \in Piped(u) <=> r \in Piped(s) /\ ~PipeAt(s, i, r)
    OBVIOUS
  <2>1. r \in Piped(u) => r \in Piped(s) /\ ~PipeAt(s, i, r)
    BY <1>1, <1>3 DEF Piped, Once
  <2>2. r \in Piped(s) /\ ~PipeAt(s, i, r) => r \in Piped(u)
    BY <1>1, <1>5 DEF Piped
  <2>. QED BY <2>1, <2>2
<1>7. \A r \in Nat : r \in Called(u) <=> r \in Called(s) /\ ~CallAt(s, i, r)
  <2>. SUFFICES ASSUME NEW r \in Nat
                PROVE  r \in Called(u) <=> r \in Called(s) /\ ~CallAt(s, i, r)
    OBVIOUS
  <2>1. r \in Called(u) => r \in Called(s) /\ ~CallAt(s, i, r)
    BY <1>1, <1>3 DEF Called, Once
  <2>2. r \in Called(s) /\ ~CallAt(s, i, r) => r \in Called(u)
    BY <1>1, <1>5 DEF Called
  <2>. QED BY <2>1, <2>2
<1>8. Piped(u) \subseteq Nat /\ Piped(s) \subseteq Nat /\ Called(u) \subseteq Nat
      /\ Called(s) \subseteq Nat
  BY DEF Piped, Called
<1>. QED BY <1>4, <1>6, <1>7, <1>8 DEF u

(* Only the kinds and the reads of the elements count.                      *)
LEMMA SameTokens ==
  ASSUME NEW s, NEW u, DOMAIN u = DOMAIN s,
         \A k \in DOMAIN s, r \in Nat : /\ PipeAt(u, k, r) <=> PipeAt(s, k, r)
                                        /\ CallAt(u, k, r) <=> CallAt(s, k, r)
  PROVE  (Once(s) => Once(u)) /\ Piped(u) = Piped(s) /\ Called(u) = Called(s)
<1>1. Piped(u) = Piped(s)
  BY DEF Piped
<1>2. Called(u) = Called(s)
  BY DEF Called
<1>. QED BY <1>1, <1>2 DEF Once

(* A sequence of one element.                                               *)
LEMMA OneToken ==
  ASSUME NEW S, NEW e \in S
  PROVE  /\ <<e>> \in Seq(S) /\ Once(<<e>>)
         /\ e.kind \in {"receive", "send"} /\ e.read \in Nat =>
              Piped(<<e>>) = {e.read} /\ Called(<<e>>) = {}
         /\ e.kind \in {"sync", "done"} /\ e.read \in Nat =>
              Piped(<<e>>) = {} /\ Called(<<e>>) = {e.read}
         /\ e.kind \in {"set", "offer", "selection", "cancelled"} =>
              Piped(<<e>>) = {} /\ Called(<<e>>) = {}
<1>1. <<e>> \in Seq(S) /\ DOMAIN <<e>> = {1} /\ <<e>>[1] = e
  OBVIOUS
<1>2. \A k \in DOMAIN <<e>> : k = 1 /\ <<e>>[k] = e
  BY <1>1
<1>3. \A r : /\ PipeAt(<<e>>, 1, r) <=> e.kind \in {"receive", "send"} /\ e.read = r
             /\ CallAt(<<e>>, 1, r) <=> e.kind \in {"sync", "done"} /\ e.read = r
  BY <1>1 DEF PipeAt, CallAt
<1>. HIDE <1>1
<1>4. Once(<<e>>)
  BY <1>2, <1>3 DEF Once
<1>5. \A r : r \in Piped(<<e>>) <=> r \in Nat /\ e.kind \in {"receive", "send"} /\ e.read = r
  BY <1>1, <1>2, <1>3 DEF Piped
<1>6. \A r : r \in Called(<<e>>) <=> r \in Nat /\ e.kind \in {"sync", "done"} /\ e.read = r
  BY <1>1, <1>2, <1>3 DEF Called
<1>. QED BY <1>1, <1>4, <1>5, <1>6

-----------------------------------------------------------------------------
Messages == Events \cup Requests

(* The fields of an event and of a request.                                 *)
LEMMA MessageFacts ==
  /\ \A e \in Events :
       /\ e.kind \in {"offer", "selection", "cancelled", "send", "done"}
       /\ e.kind = "offer" => e.mime \in {"text", "other"}
       /\ e.kind = "selection" => e.source \in Sources \cup {NoSource}
       /\ e.kind = "cancelled" => e.source \in Sources
       /\ e.kind = "send" => e.source \in Sources \cup {NoSource} /\ e.read \in Nat
       /\ e.kind = "done" => e.read \in Nat
  /\ \A e \in Requests :
       /\ e.kind \in {"set", "receive", "sync"}
       /\ e.kind = "set" => e.source \in Sources
       /\ e.kind = "receive" => e.source \in Sources /\ e.read \in Nat
       /\ e.kind = "sync" => e.read \in Nat
BY DEF Events, Requests

(* Events and requests are messages.                                        *)
LEMMA LineFacts ==
  ASSUME BaseTypes
  PROVE  /\ events \in Seq(Messages) /\ requests \in Seq(Messages) /\ Line \in Seq(Messages)
         /\ Events \subseteq Messages /\ Requests \subseteq Messages
         /\ \A k \in DOMAIN events : k \in DOMAIN Line /\ Line[k] = events[k] /\ events[k] \in Events
         /\ \A k \in DOMAIN requests : requests[k] \in Requests
         /\ Piped(Line) = Piped(events) \cup Piped(requests)
         /\ Called(Line) = Called(events) \cup Called(requests)
<1>1. events \in Seq(Messages) /\ requests \in Seq(Messages)
  BY DEF BaseTypes, Messages
<1>2. /\ \A k \in DOMAIN events : events[k] \in Events
      /\ \A k \in DOMAIN requests : requests[k] \in Requests
  BY DEF BaseTypes
<1>3. Events \subseteq Messages /\ Requests \subseteq Messages
  BY DEF Messages
<1>4. Line \in Seq(Messages) /\ \A k \in DOMAIN events : k \in DOMAIN Line /\ Line[k] = events[k]
  BY <1>1, ConcatFacts DEF Line
<1>5. /\ Piped(Line) = Piped(events) \cup Piped(requests)
      /\ Called(Line) = Called(events) \cup Called(requests)
  BY <1>1, ConcatTokens DEF Line
<1>. QED BY <1>1, <1>2, <1>3, <1>4, <1>5

(* The read a message is about.                                             *)
LEMMA TokenFacts ==
  ASSUME BaseTypes, LineInv
  PROVE  /\ \A k \in DOMAIN events : events[k].kind = "send" =>
              /\ events[k].read \in DOMAIN reads /\ events[k].read \in Nat
              /\ reads[events[k].read].open /\ events[k].read \notin asked
              /\ events[k].read \in Piped(Line) /\ PipeAt(events, k, events[k].read)
         /\ \A k \in DOMAIN events : events[k].kind = "done" =>
              /\ events[k].read \in DOMAIN reads /\ events[k].read \in Nat
              /\ reads[events[k].read].step = "roundtrip"
              /\ events[k].read \in Called(Line) /\ CallAt(events, k, events[k].read)
         /\ \A k \in DOMAIN requests : requests[k].kind = "receive" =>
              /\ requests[k].read \in DOMAIN reads /\ requests[k].read \in Nat
              /\ reads[requests[k].read].open /\ requests[k].read \notin asked
              /\ requests[k].read \in Piped(Line) /\ PipeAt(requests, k, requests[k].read)
         /\ \A k \in DOMAIN requests : requests[k].kind = "sync" =>
              /\ requests[k].read \in DOMAIN reads /\ requests[k].read \in Nat
              /\ reads[requests[k].read].step = "roundtrip"
              /\ requests[k].read \in Called(Line) /\ CallAt(requests, k, requests[k].read)
<1>1. /\ \A r \in Piped(Line) : r \in DOMAIN reads /\ reads[r].open /\ r \notin asked
      /\ \A r \in Called(Line) : r \in DOMAIN reads /\ reads[r].step = "roundtrip"
  BY DEF LineInv
<1>2. /\ \A k \in DOMAIN events, r \in Nat :
           /\ PipeAt(events, k, r) => r \in Piped(Line)
           /\ CallAt(events, k, r) => r \in Called(Line)
      /\ \A k \in DOMAIN requests, r \in Nat :
           /\ PipeAt(requests, k, r) => r \in Piped(Line)
           /\ CallAt(requests, k, r) => r \in Called(Line)
  BY LineFacts DEF Piped, Called
<1>3. ASSUME NEW k \in DOMAIN events
      PROVE  /\ events[k].kind = "send" =>
                  events[k].read \in Nat /\ PipeAt(events, k, events[k].read)
             /\ events[k].kind = "done" =>
                  events[k].read \in Nat /\ CallAt(events, k, events[k].read)
  BY LineFacts, MessageFacts DEF PipeAt, CallAt
<1>4. ASSUME NEW k \in DOMAIN requests
      PROVE  /\ requests[k].kind = "receive" =>
                  requests[k].read \in Nat /\ PipeAt(requests, k, requests[k].read)
             /\ requests[k].kind = "sync" =>
                  requests[k].read \in Nat /\ CallAt(requests, k, requests[k].read)
  BY LineFacts, MessageFacts DEF PipeAt, CallAt
<1>. QED BY <1>1, <1>2, <1>3, <1>4

(* The event whose handler a thread runs, and what is left of the queue.    *)
LEMMA DispatchFacts ==
  ASSUME BaseTypes, NEW t \in Threads, NEW kind, Dispatch(t, kind)
  PROVE  /\ Turn(t) \in DOMAIN events /\ events[Turn(t)] \in Events
         /\ events[Turn(t)].kind = kind /\ DOMAIN events \subseteq Nat
         /\ EventsLeft(t) \in Seq(Events) /\ DOMAIN EventsLeft(t) \subseteq Nat
         /\ \/ Turn(t) = 1 /\ slow \in {"nobody", t} /\ slow' = "nobody"
            \/ Turn(t) = 2 /\ slow \in Threads \ {t} /\ slow' = slow /\ 1 \in DOMAIN EventsLeft(t)
                 /\ EventsLeft(t)[1] = events[1] /\ EventsLeft(t) # << >>
         /\ \A k \in DOMAIN EventsLeft(t) :
              /\ From(Turn(t), k) \in DOMAIN events /\ From(Turn(t), k) # Turn(t)
              /\ EventsLeft(t)[k] = events[From(Turn(t), k)]
         /\ \A k \in DOMAIN events : k # Turn(t) =>
              To(Turn(t), k) \in DOMAIN EventsLeft(t) /\ EventsLeft(t)[To(Turn(t), k)] = events[k]
<1>1. events \in Seq(Events) /\ slow \in Threads \cup {"nobody"} /\ events # << >>
  <2>1. events \in Seq(Events) /\ slow \in Threads \cup {"nobody"}
    BY DEF BaseTypes
  <2>2. Turn(t) \in {1, 2} /\ Turn(t) <= Len(events)
    BY DEF Dispatch, Turn
  <2>. QED BY <2>1, <2>2
<1>2. PICK n \in Nat : n = Len(events)
  BY <1>1
<1>3. DOMAIN events = 1..n
  BY <1>1, <1>2
<1>4. Turn(t) \in {1, 2} /\ Turn(t) <= n
  BY <1>2 DEF Dispatch, Turn
<1>5. PICK i \in {1, 2} : i = Turn(t)
  BY <1>4
<1>6. i \in DOMAIN events
  BY <1>3, <1>4, <1>5
<1>7. PICK e : e = EventsLeft(t)
  OBVIOUS
<1>8. e = RemoveAt(events, i)
  BY <1>5, <1>7 DEF EventsLeft
<1>9. /\ e \in Seq(Events) /\ events[i] \in Events
      /\ \A k \in DOMAIN e : From(i, k) \in DOMAIN events /\ From(i, k) # i /\ e[k] = events[From(i, k)]
      /\ \A k \in DOMAIN events : k # i => To(i, k) \in DOMAIN e /\ e[To(i, k)] = events[k]
  BY <1>1, <1>6, <1>8, RemoveFacts
<1>10. \/ i = 1 /\ slow \in {"nobody", t} /\ slow' = "nobody"
       \/ i = 2 /\ slow \in Threads \ {t} /\ slow' = slow
  BY <1>1, <1>5 DEF Dispatch, Turn
<1>11. CASE i = 2
  <2>1. 1 \in DOMAIN events /\ To(i, 1) = 1
    BY <1>3, <1>4, <1>5, <1>11 DEF To
  <2>2. 1 \in DOMAIN e /\ e[1] = events[1]
    BY <1>9, <1>11, <2>1
  <2>3. e # << >>
    BY <2>2
  <2>4. DOMAIN e \subseteq Nat /\ DOMAIN events \subseteq Nat
    BY <1>1, <1>9
  <2>. QED BY <1>5, <1>6, <1>7, <1>9, <1>10, <1>11, <2>2, <2>3, <2>4 DEF Dispatch
<1>12. CASE i = 1
  <2>4. DOMAIN e \subseteq Nat /\ DOMAIN events \subseteq Nat
    BY <1>1, <1>9
  <2>. QED BY <1>5, <1>6, <1>7, <1>9, <1>10, <1>12, <2>4 DEF Dispatch
<1>. QED BY <1>11, <1>12

(* One read takes a step.                                                   *)
Steps(r, step, text, isOpen) ==
  /\ r \in DOMAIN reads /\ reads \in Seq(Reads)
  /\ reads' \in Seq(Reads) /\ DOMAIN reads' = DOMAIN reads
  /\ reads'[r].thread = reads[r].thread /\ reads'[r].source = reads[r].source
  /\ reads'[r].step = step /\ reads'[r].text = text /\ reads'[r].open = isOpen
  /\ \A q \in DOMAIN reads : q # r => reads'[q] = reads[q]

(* A read with new values in some of its fields.                            *)
LEMMA StepFacts ==
  ASSUME BaseTypes, NEW r \in DOMAIN reads, NEW x \in Reads, reads' = [reads EXCEPT ![r] = x],
         x.thread = reads[r].thread, x.source = reads[r].source
  PROVE  Steps(r, x.step, x.text, x.open)
<1>1. reads \in Seq(Reads)
  BY DEF BaseTypes
<1>2. /\ reads' \in Seq(Reads) /\ DOMAIN reads' = DOMAIN reads /\ reads'[r] = x
      /\ \A k \in DOMAIN reads : k # r => reads'[k] = reads[k]
  BY <1>1, UpdateFacts
<1>. QED BY <1>1, <1>2 DEF Steps

(* The fields of a read.                                                    *)
LEMMA ReadFields ==
  ASSUME BaseTypes, NEW r \in DOMAIN reads
  PROVE  /\ reads[r] \in Reads /\ reads[r].thread \in Threads /\ reads[r].source \in Sources
         /\ reads[r].step \in {"roundtrip", "asleep", "clear", "read", "ended"}
         /\ reads[r].text \in Seq(Sources) /\ reads[r].open \in BOOLEAN
<1>1. reads[r] \in Reads
  BY DEF BaseTypes
<1>. QED BY <1>1 DEF Reads

(* The text of a source is a sequence.                                      *)
LEMMA TextFacts ==
  ASSUME BaseTypes, NEW s \in Sources \cup {NoSource}
  PROVE  TextOf(s) \in Seq(Sources) /\ << >> \in Seq(Sources)
BY DEF TextOf

(* What each of the steps does to the read it is about.                     *)
LEMMA SendSteps ==
  ASSUME BaseTypes, LineInv, NEW t \in Threads, HandleSend(t)
  PROVE  LET r == events[Turn(t)].read IN
         Steps(r, reads[r].step, TextOf(events[Turn(t)].source), FALSE)
<1>1. PICK r : r = events[Turn(t)].read
  OBVIOUS
<1>2. PICK y : y = TextOf(events[Turn(t)].source)
  OBVIOUS
<1>3. Dispatch(t, "send")
  BY DEF HandleSend
<1>4. r \in DOMAIN reads
  BY <1>1, <1>3, DispatchFacts, TokenFacts
<1>5. y \in Seq(Sources)
  BY <1>2, <1>3, DispatchFacts, MessageFacts, TextFacts
<1>6. reads' = [reads EXCEPT ![r].text = y, ![r].open = FALSE]
  BY <1>1, <1>2 DEF HandleSend
<1>7. PICK x : x = [reads[r] EXCEPT !.text = y, !.open = FALSE]
  OBVIOUS
<1>8. reads[r] \in Reads
  BY <1>4, ReadFields
<1>9. /\ x \in Reads /\ x.thread = reads[r].thread /\ x.source = reads[r].source
      /\ x.step = reads[r].step /\ x.text = y /\ x.open = FALSE
  BY <1>5, <1>7, <1>8 DEF Reads
<1>10. reads' = [reads EXCEPT ![r] = x]
  BY <1>4, <1>6, <1>7
<1>11. Steps(r, x.step, x.text, x.open)
  BY <1>4, <1>9, <1>10, StepFacts
<1>. QED BY <1>1, <1>2, <1>9, <1>11

(* The callback of a roundtrip.                                             *)
LEMMA DoneSteps ==
  ASSUME BaseTypes, LineInv, NEW t \in Threads, HandleDone(t)
  PROVE  LET r == events[Turn(t)].read IN
         /\ reads[r].step = "roundtrip"
         /\ \E step \in {"clear", "asleep"} : Steps(r, step, reads[r].text, reads[r].open)
<1>1. PICK r : r = events[Turn(t)].read
  OBVIOUS
<1>2. PICK step \in {"clear", "asleep"} : reads' = [reads EXCEPT ![r].step = step]
  BY <1>1 DEF HandleDone
<1>3. Dispatch(t, "done")
  BY DEF HandleDone
<1>4. r \in DOMAIN reads /\ reads[r].step = "roundtrip"
  BY <1>1, <1>3, DispatchFacts, TokenFacts
<1>5. PICK x : x = [reads[r] EXCEPT !.step = step]
  OBVIOUS
<1>6. reads[r] \in Reads
  BY <1>4, ReadFields
<1>7. /\ x \in Reads /\ x.thread = reads[r].thread /\ x.source = reads[r].source
      /\ x.step = step /\ x.text = reads[r].text /\ x.open = reads[r].open
  BY <1>5, <1>6 DEF Reads
<1>8. reads' = [reads EXCEPT ![r] = x]
  BY <1>2, <1>4, <1>5
<1>9. Steps(r, x.step, x.text, x.open)
  BY <1>4, <1>7, <1>8, StepFacts
<1>. QED BY <1>1, <1>4, <1>7, <1>9

(* A step without an event.                                                 *)
LEMMA ReadSteps ==
  ASSUME BaseTypes, NEW r \in DOMAIN reads,
         NEW step \in {"clear", "read", "ended"}, reads' = [reads EXCEPT ![r].step = step]
  PROVE  Steps(r, step, reads[r].text, reads[r].open)
<1>1. PICK x : x = [reads[r] EXCEPT !.step = step]
  OBVIOUS
<1>2. reads[r] \in Reads
  BY ReadFields
<1>3. /\ x \in Reads /\ x.thread = reads[r].thread /\ x.source = reads[r].source
      /\ x.step = step /\ x.text = reads[r].text /\ x.open = reads[r].open
  BY <1>1, <1>2 DEF Reads
<1>4. reads' = [reads EXCEPT ![r] = x]
  BY <1>1
<1>5. Steps(r, x.step, x.text, x.open)
  BY <1>3, <1>4, StepFacts
<1>. QED BY <1>3, <1>5

(* A read takes what is in its pipe.                                        *)
LEMMA TextSteps ==
  ASSUME BaseTypes, NEW r \in DOMAIN reads, reads' = [reads EXCEPT ![r].text = << >>]
  PROVE  Steps(r, reads[r].step, << >>, reads[r].open)
<1>1. PICK x : x = [reads[r] EXCEPT !.text = << >>]
  OBVIOUS
<1>2. reads[r] \in Reads
  BY ReadFields
<1>6. << >> \in Seq(Sources)
  OBVIOUS
<1>3. /\ x \in Reads /\ x.thread = reads[r].thread /\ x.source = reads[r].source
      /\ x.step = reads[r].step /\ x.text = << >> /\ x.open = reads[r].open
  BY <1>1, <1>2, <1>6 DEF Reads
<1>4. reads' = [reads EXCEPT ![r] = x]
  BY <1>1
<1>5. Steps(r, x.step, x.text, x.open)
  BY <1>3, <1>4, StepFacts
<1>. QED BY <1>3, <1>5

(* Its pipe is closed.                                                      *)
LEMMA CloseSteps ==
  ASSUME BaseTypes, NEW r \in DOMAIN reads, reads' = [reads EXCEPT ![r].open = FALSE]
  PROVE  Steps(r, reads[r].step, reads[r].text, FALSE)
<1>1. PICK x : x = [reads[r] EXCEPT !.open = FALSE]
  OBVIOUS
<1>2. reads[r] \in Reads
  BY ReadFields
<1>3. /\ x \in Reads /\ x.thread = reads[r].thread /\ x.source = reads[r].source
      /\ x.step = reads[r].step /\ x.text = reads[r].text /\ x.open = FALSE
  BY <1>1, <1>2 DEF Reads
<1>4. reads' = [reads EXCEPT ![r] = x]
  BY <1>1
<1>5. Steps(r, x.step, x.text, x.open)
  BY <1>3, <1>4, StepFacts
<1>. QED BY <1>3, <1>5

(* A client writes and closes the pipe.                                     *)
LEMMA WriteSteps ==
  ASSUME BaseTypes, NEW r \in DOMAIN reads,
         reads' = [reads EXCEPT ![r].text = TextOf(reads[r].source), ![r].open = FALSE]
  PROVE  Steps(r, reads[r].step, TextOf(reads[r].source), FALSE)
<1>1. PICK y : y = TextOf(reads[r].source)
  OBVIOUS
<1>2. y \in Seq(Sources)
  BY <1>1, ReadFields, TextFacts
<1>3. PICK x : x = [reads[r] EXCEPT !.text = y, !.open = FALSE]
  OBVIOUS
<1>4. reads[r] \in Reads
  BY ReadFields
<1>5. /\ x \in Reads /\ x.thread = reads[r].thread /\ x.source = reads[r].source
      /\ x.step = reads[r].step /\ x.text = y /\ x.open = FALSE
  BY <1>2, <1>3, <1>4 DEF Reads
<1>6. reads' = [reads EXCEPT ![r] = x]
  BY <1>1, <1>3
<1>7. Steps(r, x.step, x.text, x.open)
  BY <1>5, <1>6, StepFacts
<1>. QED BY <1>1, <1>5, <1>7

(* A new read.                                                              *)
LEMMA StartFacts ==
  ASSUME BaseTypes, NEW t \in Threads, NEW s \in Sources, ReadSelection(t, s)
  PROVE  /\ reads' \in Seq(Reads)
         /\ \E c, d \in Requests : requests' = (requests \o <<c>>) \o <<d>>
         /\ \E n \in Nat :
            /\ n \notin DOMAIN reads /\ DOMAIN reads' = DOMAIN reads \cup {n}
            /\ \A r \in DOMAIN reads : r <= n
            /\ \A r \in DOMAIN reads : reads'[r] = reads[r]
            /\ reads' \in Seq(Reads)
            /\ reads'[n].thread = t /\ reads'[n].source = s /\ reads'[n].step = "roundtrip"
            /\ reads'[n].text = << >> /\ reads'[n].open
            /\ [kind |-> "receive", source |-> s, read |-> n] \in Requests
            /\ [kind |-> "sync", source |-> NoSource, read |-> n] \in Requests
            /\ requests' = (requests \o <<[kind |-> "receive", source |-> s, read |-> n]>>)
                             \o <<[kind |-> "sync", source |-> NoSource, read |-> n]>>
<1>1. reads \in Seq(Reads) /\ requests \in Seq(Requests)
  BY DEF BaseTypes
<1>2. PICK m \in Nat : m = Len(reads)
  BY <1>1
<1>3. PICK n \in Nat : n = m + 1
  OBVIOUS
<1>4. PICK x : x = [thread |-> t, source |-> s, step |-> "roundtrip", text |-> << >>, open |-> TRUE]
  OBVIOUS
<1>5. x \in Reads
  BY <1>4 DEF Reads
<1>6. reads' = Append(reads, x)
  BY <1>4 DEF ReadSelection, StartRead
<1>7. /\ reads' \in Seq(Reads) /\ DOMAIN reads' = DOMAIN reads \cup {n} /\ n \notin DOMAIN reads
      /\ DOMAIN reads = 1..m
      /\ \A r \in DOMAIN reads : reads'[r] = reads[r]
      /\ reads'[n] = x
  BY <1>1, <1>2, <1>3, <1>5, <1>6, AppendFacts
<1>8. PICK a : a = [kind |-> "receive", source |-> s, read |-> n]
  OBVIOUS
<1>9. PICK b : b = [kind |-> "sync", source |-> NoSource, read |-> n]
  OBVIOUS
<1>10. a \in Requests /\ b \in Requests
  BY <1>8, <1>9 DEF Requests
<1>11. requests' = requests \o <<a>> \o <<b>>
  BY <1>2, <1>3, <1>8, <1>9 DEF ReadSelection, StartRead
<1>12. \A r \in DOMAIN reads : r <= n
  BY <1>3, <1>7
<1>13. /\ reads'[n].thread = t /\ reads'[n].source = s /\ reads'[n].step = "roundtrip"
       /\ reads'[n].text = << >> /\ reads'[n].open
  BY <1>4, <1>7
<1>14. /\ [kind |-> "receive", source |-> s, read |-> n] \in Requests
       /\ [kind |-> "sync", source |-> NoSource, read |-> n] \in Requests
  BY <1>8, <1>9, <1>10
<1>15. requests' = (requests \o <<[kind |-> "receive", source |-> s, read |-> n]>>)
                     \o <<[kind |-> "sync", source |-> NoSource, read |-> n]>>
  BY <1>8, <1>9, <1>11
<1>16. \E c, d \in Requests : requests' = (requests \o <<c>>) \o <<d>>
  BY <1>10, <1>11
<1>. QED BY <1>7, <1>12, <1>13, <1>14, <1>15, <1>16

(* An event or request without a token at the end changes nothing.          *)
LEMMA SilentFacts ==
  ASSUME NEW S, NEW s \in Seq(S), NEW e \in S,
         e.kind \in {"set", "offer", "selection", "cancelled"}
  PROVE  /\ s \o <<e>> \in Seq(S) /\ Len(s) \in Nat /\ DOMAIN s = 1..Len(s)
         /\ DOMAIN (s \o <<e>>) = 1..(Len(s) + 1) /\ DOMAIN s \subseteq DOMAIN (s \o <<e>>)
         /\ \A k \in DOMAIN s : (s \o <<e>>)[k] = s[k]
         /\ (s \o <<e>>)[Len(s) + 1] = e /\ Len(s \o <<e>>) = Len(s) + 1
         /\ Once(s) => Once(s \o <<e>>)
         /\ Piped(s \o <<e>>) = Piped(s) /\ Called(s \o <<e>>) = Called(s)
<1>1. <<e>> \in Seq(S) /\ Once(<<e>>) /\ Piped(<<e>>) = {} /\ Called(<<e>>) = {}
  BY OneToken
<1>2. /\ Once(s) => Once(s \o <<e>>)
      /\ Piped(s \o <<e>>) = Piped(s) /\ Called(s \o <<e>>) = Called(s)
  <2>1. PICK u \in Seq(S) : u = <<e>>
    BY <1>1
  <2>2. /\ Piped(s \o u) = Piped(s) \cup Piped(u)
        /\ Called(s \o u) = Called(s) \cup Called(u)
        /\ Once(s \o u) <=>
              /\ Once(s) /\ Once(u)
              /\ Piped(s) \cap Piped(u) = {} /\ Called(s) \cap Called(u) = {}
              /\ Called(s) \cap Piped(u) = {}
    BY ConcatTokens
  <2>. QED BY <1>1, <2>1, <2>2
<1>3. /\ s \o <<e>> \in Seq(S) /\ Len(s) \in Nat /\ DOMAIN s = 1..Len(s)
      /\ DOMAIN (s \o <<e>>) = 1..(Len(s) + 1)
      /\ \A k \in DOMAIN s : (s \o <<e>>)[k] = s[k]
      /\ (s \o <<e>>)[Len(s) + 1] = e /\ Len(s \o <<e>>) = Len(s) + 1
  OBVIOUS
<1>4. DOMAIN s \subseteq 1..(Len(s) + 1)
  BY <1>3
<1>. QED BY <1>2, <1>3, <1>4

(* What a new selection puts at the end of the events.                      *)
LEMMA NewEvents ==
  ASSUME BaseTypes, NEW source \in Sources \cup {NoSource}, NEW mime \in {"text", "other"},
         NewSelection(source, mime)
  PROVE  /\ events' \in Seq(Events) /\ events' # << >> /\ DOMAIN events' \subseteq Nat
         /\ DOMAIN events \subseteq DOMAIN events'
         /\ \A k \in DOMAIN events : events'[k] = events[k]
         /\ Once(events) => Once(events')
         /\ Piped(events') = Piped(events) /\ Called(events') = Called(events)
         /\ \E last \in DOMAIN events' :
              /\ last \notin DOMAIN events /\ \A k \in DOMAIN events' : k <= last
              /\ events'[last].kind = "selection" /\ events'[last].source = source
              /\ \A k \in DOMAIN events' : k \notin DOMAIN events /\ k # last =>
                   \/ events'[k].kind = "cancelled"
                   \/ k + 1 = last /\ events'[k].kind = "offer"
              /\ source # NoSource =>
                   \E k \in DOMAIN events' :
                     /\ k \notin DOMAIN events /\ k = last - 1 /\ last # 1
                     /\ events'[k].kind = "offer" /\ events'[k].mime = mime
<1>1. events \in Seq(Events)
  BY DEF BaseTypes
<1>2. PICK a : a = events \o (IF selection # NoSource /\ owner[selection] = "android"
                              THEN <<[kind |-> "cancelled", source |-> selection]>> ELSE << >>)
  OBVIOUS
<1>3. PICK b : b = a \o (IF source # NoSource THEN <<[kind |-> "offer", mime |-> mime]>> ELSE << >>)
  OBVIOUS
<1>4. PICK e : e = [kind |-> "selection", source |-> source]
  OBVIOUS
<1>5. events' = b \o <<e>>
  BY <1>2, <1>3, <1>4 DEF NewSelection
<1>6. PICK n \in Nat : n = Len(events)
  BY <1>1
<1>7. \E m \in Nat :
        /\ a \in Seq(Events) /\ m = Len(a) /\ n <= m
        /\ \A k \in 1..n : a[k] = events[k]
        /\ \A k \in 1..m : k \notin 1..n => a[k].kind = "cancelled"
        /\ Once(events) => Once(a)
        /\ Piped(a) = Piped(events) /\ Called(a) = Called(events)
  <2>1. CASE selection # NoSource /\ owner[selection] = "android"
    <3>1. PICK c : c = [kind |-> "cancelled", source |-> selection]
      OBVIOUS
    <3>2. c \in Events /\ c.kind = "cancelled" /\ a = events \o <<c>>
      BY <1>2, <2>1, <3>1 DEF BaseTypes, Events
    <3>3. /\ a \in Seq(Events) /\ DOMAIN events = 1..n /\ Len(a) = n + 1 /\ a[n + 1] = c
          /\ \A k \in 1..n : a[k] = events[k]
          /\ Once(events) => Once(a)
          /\ Piped(a) = Piped(events) /\ Called(a) = Called(events)
      BY <1>1, <1>6, <3>2, SilentFacts
    <3>4. \A k \in 1..(n + 1) : k \notin 1..n => k = n + 1
      OBVIOUS
    <3>. QED BY <3>2, <3>3, <3>4
  <2>2. CASE ~(selection # NoSource /\ owner[selection] = "android")
    <3>1. a = events
      BY <1>1, <1>2, <2>2
    <3>. QED BY <1>1, <1>6, <3>1
  <2>. QED BY <2>1, <2>2
<1>8. PICK m \in Nat :
        /\ a \in Seq(Events) /\ m = Len(a) /\ n <= m
        /\ \A k \in 1..n : a[k] = events[k]
        /\ \A k \in 1..m : k \notin 1..n => a[k].kind = "cancelled"
        /\ Once(events) => Once(a)
        /\ Piped(a) = Piped(events) /\ Called(a) = Called(events)
  BY <1>7
<1>9. \E p \in Nat :
        /\ b \in Seq(Events) /\ p = Len(b) /\ m <= p
        /\ \A k \in 1..n : b[k] = events[k]
        /\ \A k \in 1..p : k \notin 1..n =>
             b[k].kind = "cancelled" \/ (k = p /\ b[k].kind = "offer")
        /\ source # NoSource => p = m + 1 /\ b[p].kind = "offer" /\ b[p].mime = mime
        /\ Once(events) => Once(b)
        /\ Piped(b) = Piped(events) /\ Called(b) = Called(events)
  <2>1. CASE source # NoSource
    <3>1. PICK c : c = [kind |-> "offer", mime |-> mime]
      OBVIOUS
    <3>2. c \in Events /\ c.kind = "offer" /\ c.mime = mime /\ b = a \o <<c>>
      BY <1>3, <2>1, <3>1 DEF Events
    <3>3. /\ b \in Seq(Events) /\ DOMAIN a = 1..m /\ Len(b) = m + 1 /\ b[m + 1] = c
          /\ \A k \in 1..m : b[k] = a[k]
          /\ Once(events) => Once(b)
          /\ Piped(b) = Piped(events) /\ Called(b) = Called(events)
      BY <1>8, <3>2, SilentFacts
    <3>4. \A k \in 1..(m + 1) : k \in 1..m \/ k = m + 1
      OBVIOUS
    <3>5. \A k \in 1..n : k \in 1..m
      BY <1>8
    <3>6. PICK p \in Nat : p = m + 1
      OBVIOUS
    <3>. QED BY <1>8, <3>2, <3>3, <3>4, <3>5, <3>6
  <2>2. CASE source = NoSource
    <3>1. b = a
      BY <1>3, <1>8, <2>2
    <3>. QED BY <1>8, <2>2, <3>1
  <2>. QED BY <2>1, <2>2
<1>10. PICK p \in Nat :
        /\ b \in Seq(Events) /\ p = Len(b) /\ m <= p
        /\ \A k \in 1..n : b[k] = events[k]
        /\ \A k \in 1..p : k \notin 1..n =>
             b[k].kind = "cancelled" \/ (k = p /\ b[k].kind = "offer")
        /\ source # NoSource => p = m + 1 /\ b[p].kind = "offer" /\ b[p].mime = mime
        /\ Once(events) => Once(b)
        /\ Piped(b) = Piped(events) /\ Called(b) = Called(events)
  BY <1>9
<1>11. e \in Events /\ e.kind = "selection" /\ e.source = source
  BY <1>4 DEF Events
<1>12. PICK l \in Nat : l = p + 1
  OBVIOUS
<1>13. /\ events' \in Seq(Events) /\ DOMAIN b = 1..p /\ DOMAIN events' = 1..l
       /\ events'[l] = e /\ \A k \in 1..p : events'[k] = b[k]
       /\ Once(events) => Once(events')
       /\ Piped(events') = Piped(events) /\ Called(events') = Called(events)
  BY <1>5, <1>10, <1>11, <1>12, SilentFacts
<1>14. DOMAIN events = 1..n
  BY <1>1, <1>6
<1>15. /\ n <= p /\ l \in 1..l /\ l \notin 1..n /\ l >= 1
       /\ \A k \in 1..n : k \in 1..p /\ k \in 1..l
       /\ \A k \in 1..l : k <= l /\ (k # l => k \in 1..p)
  BY <1>8, <1>10, <1>12
<1>16. events' # << >> /\ DOMAIN events' \subseteq Nat
  BY <1>13, <1>15
<1>17. \A k \in DOMAIN events : events'[k] = events[k]
  BY <1>10, <1>13, <1>14, <1>15
<1>18. \A k \in 1..l : k \notin 1..n /\ k # l =>
         \/ events'[k].kind = "cancelled"
         \/ k + 1 = l /\ events'[k].kind = "offer"
  BY <1>10, <1>12, <1>13, <1>15
<1>19. source # NoSource => p \in 1..l /\ p \notin 1..n /\ p = l - 1 /\ l # 1
                            /\ events'[p].kind = "offer" /\ events'[p].mime = mime
  <2>1. source # NoSource => p \in 1..p /\ p \in 1..l /\ p \notin 1..n /\ p = l - 1 /\ l # 1
    BY <1>8, <1>10, <1>12
  <2>. QED BY <1>10, <1>13, <2>1
<1>20. \E last \in 1..l :
              /\ last \notin 1..n /\ \A k \in 1..l : k <= last
              /\ events'[last].kind = "selection" /\ events'[last].source = source
              /\ \A k \in 1..l : k \notin 1..n /\ k # last =>
                   \/ events'[k].kind = "cancelled"
                   \/ k + 1 = last /\ events'[k].kind = "offer"
              /\ source # NoSource =>
                   \E k \in 1..l :
                     /\ k \notin 1..n /\ k = last - 1 /\ last # 1
                     /\ events'[k].kind = "offer" /\ events'[k].mime = mime
  <2>1. events'[l].kind = "selection" /\ events'[l].source = source
    BY <1>11, <1>13
  <2>. QED BY <1>15, <1>18, <1>19, <2>1
<1>21. DOMAIN events = 1..n /\ DOMAIN events' = 1..l /\ DOMAIN events \subseteq DOMAIN events'
  BY <1>13, <1>14, <1>15
<1>22. /\ events' \in Seq(Events)
       /\ Once(events) => Once(events')
       /\ Piped(events') = Piped(events) /\ Called(events') = Called(events)
  BY <1>13
<1>. QED BY <1>16, <1>17, <1>20, <1>21, <1>22

(* What a handler leaves in line, whatever becomes of the sources.          *)
LEMMA LeftTokens ==
  ASSUME BaseTypes, Once(Line), NEW t \in Threads, NEW kind, Dispatch(t, kind),
         NEW u \in Seq(Messages), DOMAIN u = DOMAIN EventsLeft(t),
         \A k \in DOMAIN u : u[k].kind = EventsLeft(t)[k].kind
                             /\ (u[k].kind \in {"send", "done"} => u[k].read = EventsLeft(t)[k].read)
  PROVE  /\ Once(u \o requests)
         /\ Piped(u \o requests) = {r \in Piped(Line) : ~PipeAt(events, Turn(t), r)}
         /\ Called(u \o requests) = {r \in Called(Line) : ~CallAt(events, Turn(t), r)}
         /\ \A r \in Piped(u \o requests) :
              PipeAt(events, 1, r) /\ slow # "nobody" => PipeAt(u, 1, r) /\ slow' # "nobody"
<1>. DEFINE i == Turn(t)
            e == EventsLeft(t)
<1>1. events \in Seq(Messages) /\ requests \in Seq(Messages) /\ i \in DOMAIN events
  BY LineFacts, DispatchFacts
<1>2. /\ Piped(Line) = Piped(events) \cup Piped(requests)
      /\ Called(Line) = Called(events) \cup Called(requests)
      /\ Once(events) /\ Once(requests)
      /\ Piped(events) \cap Piped(requests) = {} /\ Called(events) \cap Called(requests) = {}
      /\ Called(events) \cap Piped(requests) = {}
  BY <1>1, ConcatTokens DEF Line
<1>3. /\ Once(e) /\ Piped(e) = {r \in Piped(events) : ~PipeAt(events, i, r)}
      /\ Called(e) = {r \in Called(events) : ~CallAt(events, i, r)}
  BY <1>1, <1>2, RemoveTokens DEF EventsLeft
<1>4. \A k \in DOMAIN e : e[k].kind \in {"offer", "selection", "cancelled", "send", "done"}
  BY DispatchFacts, MessageFacts
<1>5. \A k \in DOMAIN e, r \in Nat : /\ PipeAt(u, k, r) <=> PipeAt(e, k, r)
                                     /\ CallAt(u, k, r) <=> CallAt(e, k, r)
  <2>1. SUFFICES ASSUME NEW k \in DOMAIN e, NEW r \in Nat
                 PROVE  /\ PipeAt(u, k, r) <=> PipeAt(e, k, r)
                        /\ CallAt(u, k, r) <=> CallAt(e, k, r)
    OBVIOUS
  <2>2. /\ k \in DOMAIN u /\ u[k].kind = e[k].kind
        /\ u[k].kind \in {"send", "done"} => u[k].read = e[k].read
        /\ e[k].kind \notin {"receive", "sync"}
    BY <1>4
  <2>. QED BY <2>2 DEF PipeAt, CallAt
<1>. HIDE DEF i, e
<1>6. Once(u) /\ Piped(u) = Piped(e) /\ Called(u) = Called(e)
  <2>1. DOMAIN u = DOMAIN e
    BY DEF e
  <2>. QED BY <1>3, <1>5, <2>1, SameTokens
<1>7. /\ Piped(u \o requests) = Piped(u) \cup Piped(requests)
      /\ Called(u \o requests) = Called(u) \cup Called(requests)
      /\ Once(u \o requests)
  BY <1>1, <1>2, <1>3, <1>6, ConcatTokens
<1>8. \A r : PipeAt(events, i, r) => r \in Piped(events) \/ r \notin Nat
  BY DEF Piped, PipeAt
<1>9. \A r : CallAt(events, i, r) => r \in Called(events) \/ r \notin Nat
  BY DEF Called, CallAt
<1>10. Piped(requests) \subseteq Nat /\ Called(requests) \subseteq Nat
  BY DEF Piped, Called
<1>11. Piped(u \o requests) = {r \in Piped(Line) : ~PipeAt(events, i, r)}
  BY <1>2, <1>3, <1>6, <1>7, <1>8, <1>10
<1>12. Called(u \o requests) = {r \in Called(Line) : ~CallAt(events, i, r)}
  BY <1>2, <1>3, <1>6, <1>7, <1>9, <1>10
<1>13. \A r \in Piped(u \o requests) :
         PipeAt(events, 1, r) /\ slow # "nobody" => PipeAt(u, 1, r) /\ slow' # "nobody"
  <2>1. CASE i = 1
    BY <1>11, <2>1
  <2>2. CASE i # 1
    <3>1. 1 \in DOMAIN e /\ e[1] = events[1] /\ slow' = slow
      BY <2>2, DispatchFacts DEF e, i
    <3>2. Piped(u \o requests) \subseteq Nat
      BY DEF Piped
    <3>3. \A r \in Nat : PipeAt(u, 1, r) <=> PipeAt(e, 1, r)
      BY <1>5, <3>1
    <3>4. \A r \in Nat : PipeAt(events, 1, r) => PipeAt(e, 1, r)
      BY <3>1 DEF PipeAt
    <3>. QED BY <3>1, <3>2, <3>3, <3>4
  <2>. QED BY <2>1, <2>2
<1>. QED BY <1>7, <1>11, <1>12, <1>13 DEF i

-----------------------------------------------------------------------------
(* Who makes a source makes one that nobody made.                           *)
LEMMA NewSourceIsUnmade ==
  ASSUME Unmade # {}
  PROVE  NewSource \in Sources /\ NewSource # NoSource /\ owner[NewSource] = "nobody"
<1>1. Unmade \in SUBSET Nat
  BY DEF Unmade, Sources
<1>2. NewSource = First(Unmade)
  BY DEF NewSource, First
<1>3. NewSource \in Unmade
  BY <1>1, <1>2, FirstIsIn
<1>. QED BY <1>3 DEF Unmade, Sources, NoSource

(* The owner of a source that has one stays.                                *)
OwnersStay == /\ owner' \in [Sources -> {"nobody", "android", "desktop", "image"}]
              /\ \A s \in Sources : owner[s] # "nobody" => owner'[s] = owner[s]

(* No step changes the owner of a source that has one.                      *)
LEMMA OwnersStayInStep ==
  ASSUME BaseTypes, [ClipboardNext]_clipboardVars
  PROVE  OwnersStay
<1>1. CASE UNCHANGED owner
  BY <1>1 DEF BaseTypes, OwnersStay
<1>2. CASE SendClipboardData \/ \E kind \in {"desktop", "image"} : DesktopCopies(kind)
  <2>1. PICK kind \in {"android", "desktop", "image"} :
           Unmade # {} /\ owner' = [owner EXCEPT ![NewSource] = kind]
    BY <1>2 DEF SendClipboardData, DesktopCopies
  <2>. QED BY <2>1, NewSourceIsUnmade DEF BaseTypes, OwnersStay
<1>. QED
  BY <1>1, <1>2 DEF ClipboardNext, SetSelection, GetClipboardData, TakeSlowly, GoOn, Handle, Wake,
                    HandleOffer, HandleSelection, HandleSend, HandleCancelled, HandleDone,
                    RoundtripReturns, ReadText, ReadEnds, Compositor, CompositorSets, CompositorAsks,
                    CompositorSyncs, DesktopWrites, DesktopClears, clipboardVars, desktopVars

(* The head of the requests and the rest.                                   *)
LEMMA RequestFacts ==
  ASSUME BaseTypes, NEW kind, HandleRequest(kind)
  PROVE  /\ 1 \in DOMAIN requests /\ Head(requests) = requests[1] /\ requests[1] \in Requests
         /\ requests[1].kind = kind
         /\ requests' \in Seq(Requests) /\ requests' = Tail(requests)
         /\ \A k \in DOMAIN requests' : k + 1 \in DOMAIN requests /\ requests'[k] = requests[k + 1]
         /\ requests = <<requests[1]>> \o requests'
<1>1. requests \in Seq(Requests) /\ requests # << >> /\ requests' = Tail(requests)
  BY DEF BaseTypes, HandleRequest
<1>2. /\ 1 \in DOMAIN requests /\ Head(requests) = requests[1] /\ requests[1] \in Requests
      /\ Tail(requests) \in Seq(Requests)
      /\ \A k \in DOMAIN Tail(requests) :
           k + 1 \in DOMAIN requests /\ Tail(requests)[k] = requests[k + 1]
  BY <1>1, TailFacts
<1>3. requests = <<Head(requests)>> \o Tail(requests)
  BY <1>1
<1>. QED BY <1>1, <1>2, <1>3 DEF HandleRequest

(* A queue that grows by an event.                                          *)
LEMMA OneEvent ==
  ASSUME BaseTypes, NEW e \in Events, events' = Append(events, e)
  PROVE  /\ events' \in Seq(Events) /\ events' # << >> /\ events' = events \o <<e>>
         /\ \E n \in Nat : /\ DOMAIN events' = DOMAIN events \cup {n} /\ n \notin DOMAIN events
                           /\ events'[n] = e /\ \A k \in DOMAIN events : k < n
         /\ \A k \in DOMAIN events : events'[k] = events[k]
<1>1. events \in Seq(Events)
  BY DEF BaseTypes
<1>2. PICK m \in Nat : m = Len(events)
  BY <1>1
<1>3. PICK n \in Nat : n = m + 1
  OBVIOUS
<1>4. /\ events' \in Seq(Events) /\ DOMAIN events = 1..m
      /\ DOMAIN events' = DOMAIN events \cup {n} /\ n \notin DOMAIN events
      /\ events'[n] = e /\ \A k \in DOMAIN events : events'[k] = events[k]
  BY <1>1, <1>2, <1>3, AppendFacts
<1>5. events' # << >> /\ events' = events \o <<e>>
  BY <1>1, <1>4
<1>6. \A k \in 1..m : k < n
  BY <1>3
<1>. QED BY <1>4, <1>5, <1>6

(* A thread that is about to write a text that was freed writes any.        *)
LEMMA CancelledFacts ==
  ASSUME BaseTypes, NEW t \in Threads, Dispatch(t, "cancelled"),
         SendsOf(t, events[Turn(t)].source),
         \E s \in Sources \cup {NoSource} : events' = [EventsLeft(t) EXCEPT ![1].source = s]
  PROVE  /\ events' \in Seq(Events) /\ events' # << >> /\ DOMAIN events' = DOMAIN EventsLeft(t)
         /\ slow \in Threads \ {t} /\ slow' = slow /\ Turn(t) = 2
         /\ events[1].kind = "send" /\ events'[1].kind = "send" /\ events'[1].read = events[1].read
         /\ 1 \in DOMAIN EventsLeft(t) /\ EventsLeft(t)[1] = events[1]
         /\ \A k \in DOMAIN events' : k # 1 => events'[k] = EventsLeft(t)[k]
<1>1. PICK s \in Sources \cup {NoSource} : events' = [EventsLeft(t) EXCEPT ![1].source = s]
  OBVIOUS
<1>2. slow \in Threads \ {t} /\ events[1].kind = "send"
  BY DEF SendsOf
<1>3. slow # "nobody"
  BY <1>2 DEF Threads
<1>4. /\ Turn(t) = 2 /\ slow' = slow /\ EventsLeft(t) \in Seq(Events)
      /\ 1 \in DOMAIN EventsLeft(t) /\ EventsLeft(t)[1] = events[1]
  BY <1>2, <1>3, DispatchFacts
<1>5. PICK e : e = EventsLeft(t)
  OBVIOUS
<1>6. PICK x : x = [e[1] EXCEPT !.source = s]
  OBVIOUS
<1>7. e[1] \in Events /\ e[1].kind = "send"
  BY <1>2, <1>4, <1>5
<1>8. e[1] \in [kind : {"send"}, source : Sources \cup {NoSource}, read : Nat]
  BY <1>7 DEF Events
<1>9. x \in Events /\ x.kind = "send" /\ x.read = e[1].read
  BY <1>6, <1>8 DEF Events
<1>10. events' = [e EXCEPT ![1] = x]
  BY <1>1, <1>4, <1>5, <1>6
<1>11. /\ events' \in Seq(Events) /\ DOMAIN events' = DOMAIN e /\ events'[1] = x
       /\ \A k \in DOMAIN e : k # 1 => events'[k] = e[k]
  BY <1>4, <1>5, <1>9, <1>10, UpdateFacts
<1>12. events' # << >>
  BY <1>4, <1>5, <1>11
<1>. QED BY <1>2, <1>4, <1>5, <1>9, <1>11, <1>12

(* Everything keeps its type.                                               *)
LEMMA BaseTypesStep ==
  ASSUME BaseTypes, LineInv, [ClipboardNext]_clipboardVars
  PROVE  BaseTypes'
<1>0. /\ clipboard \in Seq(Sources) /\ mimeTypes \subseteq {"text", "other"}
      /\ reads \in Seq(Reads) /\ slow \in Threads \cup {"nobody"} /\ binder \in Sources \cup {NoSource}
      /\ selection \in Sources \cup {NoSource} /\ requests \in Seq(Requests) /\ events \in Seq(Events)
      /\ overtaken \in BOOLEAN /\ (slow # "nobody" => events # << >>)
      /\ owner' \in [Sources -> {"nobody", "android", "desktop", "image"}]
      /\ << >> \in Seq(Sources)
  BY OwnersStayInStep DEF BaseTypes, OwnersStay
<1>1. CASE UNCHANGED clipboardVars
  BY <1>1 DEF BaseTypes, clipboardVars, stringVars, desktopVars
<1>2. CASE SendClipboardData
  <2>1. NewSource \in Sources
    BY <1>2, NewSourceIsUnmade DEF SendClipboardData
  <2>2. <<NewSource>> \in Seq(Sources)
    BY <2>1
  <2>. QED BY <1>0, <1>2, <2>1, <2>2 DEF SendClipboardData, BaseTypes
<1>3. CASE SetSelection
  <2>1. PICK e : e = [kind |-> "set", source |-> binder]
    OBVIOUS
  <2>2. e \in Requests
    BY <1>0, <1>3, <2>1 DEF SetSelection, Requests
  <2>3. requests' \in Seq(Requests)
    BY <1>0, <1>3, <2>1, <2>2, AppendFacts DEF SetSelection
  <2>. QED BY <1>0, <1>3, <2>3 DEF SetSelection, BaseTypes, stringVars, desktopVars
<1>4. CASE GetClipboardData
  BY <1>4 DEF GetClipboardData, BaseTypes, clipboardVars, stringVars, desktopVars
<1>5. ASSUME NEW t \in Threads, TakeSlowly(t) PROVE BaseTypes'
  BY <1>0, <1>5 DEF TakeSlowly, BaseTypes, stringVars, desktopVars
<1>6. ASSUME NEW t \in Threads, HandleOffer(t) PROVE BaseTypes'
  <2>1. Dispatch(t, "offer")
    BY <1>6 DEF HandleOffer
  <2>2. events[Turn(t)].mime \in {"text", "other"}
    BY <2>1, DispatchFacts, MessageFacts
  <2>3. events' \in Seq(Events) /\ slow' \in Threads \cup {"nobody"} /\ (slow' # "nobody" => events' # << >>)
    BY <1>0, <1>6, <2>1, DispatchFacts DEF HandleOffer
  <2>. QED BY <1>0, <1>6, <2>2, <2>3 DEF HandleOffer, BaseTypes, desktopVars
<1>7. ASSUME NEW t \in Threads, HandleSelection(t) PROVE BaseTypes'
  <2>1. Dispatch(t, "selection")
    BY <1>7 DEF HandleSelection
  <2>2. events' \in Seq(Events) /\ slow' \in Threads \cup {"nobody"} /\ (slow' # "nobody" => events' # << >>)
    BY <1>0, <1>7, <2>1, DispatchFacts DEF HandleSelection
  <2>3. /\ mimeTypes' = {} /\ overtaken' \in BOOLEAN
        /\ UNCHANGED <<binder, selection, owner>>
    BY <1>0, <1>7 DEF HandleSelection, desktopVars
  <2>4. reads' \in Seq(Reads) /\ requests' \in Seq(Requests) /\ clipboard' \in Seq(Sources)
    <3>1. CASE clipboard' = << >> /\ UNCHANGED <<reads, requests>>
      BY <1>0, <3>1
    <3>2. CASE /\ events[Turn(t)].source # NoSource
               /\ ReadSelection(t, events[Turn(t)].source) /\ UNCHANGED clipboard
      <4>1. PICK s \in Sources : ReadSelection(t, s)
        BY <2>1, <3>2, DispatchFacts, MessageFacts
      <4>2. PICK a, b \in Requests : reads' \in Seq(Reads) /\ requests' = (requests \o <<a>>) \o <<b>>
        BY <4>1, StartFacts
      <4>3. requests' \in Seq(Requests)
        BY <1>0, <4>2
      <4>. QED BY <1>0, <3>2, <4>2, <4>3
    <3>. QED BY <1>7, <3>1, <3>2 DEF HandleSelection
  <2>. QED BY <1>0, <2>2, <2>3, <2>4 DEF BaseTypes
<1>8. ASSUME NEW t \in Threads, HandleSend(t) PROVE BaseTypes'
  <2>1. Dispatch(t, "send")
    BY <1>8 DEF HandleSend
  <2>3. events' \in Seq(Events) /\ slow' \in Threads \cup {"nobody"} /\ (slow' # "nobody" => events' # << >>)
    BY <1>0, <1>8, <2>1, DispatchFacts DEF HandleSend
  <2>4. reads' \in Seq(Reads)
    BY <1>8, SendSteps DEF Steps
  <2>. QED BY <1>0, <1>8, <2>3, <2>4 DEF HandleSend, BaseTypes, stringVars, desktopVars
<1>9. ASSUME NEW t \in Threads, HandleCancelled(t) PROVE BaseTypes'
  <2>1. Dispatch(t, "cancelled")
    BY <1>9 DEF HandleCancelled
  <2>2. /\ EventsLeft(t) \in Seq(Events) /\ slow' \in Threads \cup {"nobody"}
        /\ (slow' # "nobody" => EventsLeft(t) # << >>)
    BY <1>0, <2>1, DispatchFacts
  <2>3. events' \in Seq(Events) /\ (EventsLeft(t) # << >> => events' # << >>)
    <3>1. CASE events' = EventsLeft(t)
      BY <2>2, <3>1
    <3>2. CASE /\ SendsOf(t, events[Turn(t)].source)
               /\ \E s \in Sources \cup {NoSource} : events' = [EventsLeft(t) EXCEPT ![1].source = s]
      BY <2>1, <3>2, CancelledFacts
    <3>. QED BY <1>9, <3>1, <3>2 DEF HandleCancelled
  <2>. QED BY <1>0, <1>9, <2>2, <2>3 DEF HandleCancelled, BaseTypes, stringVars, desktopVars
<1>10. ASSUME NEW t \in Threads, HandleDone(t) PROVE BaseTypes'
  <2>1. Dispatch(t, "done")
    BY <1>10 DEF HandleDone
  <2>3. events' \in Seq(Events) /\ slow' \in Threads \cup {"nobody"} /\ (slow' # "nobody" => events' # << >>)
    BY <1>0, <1>10, <2>1, DispatchFacts DEF HandleDone
  <2>4. reads' \in Seq(Reads)
    BY <1>10, DoneSteps DEF Steps
  <2>. QED BY <1>0, <1>10, <2>3, <2>4 DEF HandleDone, BaseTypes, stringVars, desktopVars
<1>11. ASSUME NEW t \in Threads, Wake(t) \/ RoundtripReturns(t) \/ ReadEnds(t) PROVE BaseTypes'
  <2>1. PICK r \in DOMAIN reads, step \in {"clear", "read", "ended"} :
           reads' = [reads EXCEPT ![r].step = step]
    BY <1>11 DEF Wake, RoundtripReturns, ReadEnds
  <2>2. reads' \in Seq(Reads)
    BY <2>1, ReadSteps DEF Steps
  <2>. QED BY <1>0, <1>11, <2>2 DEF Wake, RoundtripReturns, ReadEnds, ClearClipboard, BaseTypes,
                                    stringVars, desktopVars
<1>12. ASSUME NEW t \in Threads, ReadText(t) PROVE BaseTypes'
  <2>1. PICK r \in DOMAIN reads : /\ reads' = [reads EXCEPT ![r].text = << >>]
                                  /\ clipboard' = clipboard \o reads[r].text
    BY <1>12 DEF ReadText
  <2>2. reads' \in Seq(Reads)
    BY <2>1, TextSteps DEF Steps
  <2>3. clipboard' \in Seq(Sources)
    BY <1>0, <2>1, ReadFields
  <2>. QED BY <1>0, <1>12, <2>2, <2>3 DEF ReadText, BaseTypes, desktopVars
<1>13. CASE CompositorSets
  <2>1. HandleRequest("set") /\ NewSelection(Head(requests).source, "text")
    BY <1>13 DEF CompositorSets
  <2>2. Head(requests).source \in Sources /\ requests' \in Seq(Requests)
    BY <2>1, RequestFacts, MessageFacts
  <2>3. events' \in Seq(Events) /\ events' # << >> /\ selection' \in Sources \cup {NoSource}
    BY <2>1, <2>2, NewEvents DEF NewSelection
  <2>. QED BY <1>0, <1>13, <2>2, <2>3 DEF CompositorSets, BaseTypes, stringVars
<1>14. CASE CompositorAsks
  <2>1. HandleRequest("receive")
    BY <1>14 DEF CompositorAsks
  <2>2. PICK r : r = Head(requests)
    OBVIOUS
  <2>3. /\ r \in Requests /\ r.source \in Sources /\ r.read \in DOMAIN reads /\ r.read \in Nat
        /\ requests' \in Seq(Requests)
    BY <2>1, <2>2, RequestFacts, MessageFacts, TokenFacts
  <2>4. UNCHANGED <<clipboard, mimeTypes, slow, binder, selection, owner, overtaken>>
    BY <1>14 DEF CompositorAsks, stringVars
  <2>5. CASE reads' = [reads EXCEPT ![r.read].open = FALSE] /\ UNCHANGED events
    <3>1. reads' \in Seq(Reads)
      BY <2>3, <2>5, CloseSteps DEF Steps
    <3>. QED BY <1>0, <2>3, <2>4, <2>5, <3>1 DEF BaseTypes
  <2>6. CASE /\ events' = Append(events, [kind |-> "send", source |-> r.source, read |-> r.read])
             /\ UNCHANGED reads
    <3>1. [kind |-> "send", source |-> r.source, read |-> r.read] \in Events
      BY <2>3 DEF Events
    <3>2. events' \in Seq(Events) /\ events' # << >>
      BY <2>6, <3>1, OneEvent
    <3>. QED BY <1>0, <2>3, <2>4, <2>6, <3>2 DEF BaseTypes
  <2>7. CASE UNCHANGED <<reads, events>>
    BY <1>0, <2>3, <2>4, <2>7 DEF BaseTypes
  <2>. QED BY <1>14, <2>2, <2>5, <2>6, <2>7 DEF CompositorAsks
<1>15. CASE CompositorSyncs
  <2>1. HandleRequest("sync") /\ events' = Append(events, [kind |-> "done", read |-> Head(requests).read])
    BY <1>15 DEF CompositorSyncs
  <2>2. [kind |-> "done", read |-> Head(requests).read] \in Events /\ requests' \in Seq(Requests)
    BY <2>1, RequestFacts, MessageFacts DEF Events
  <2>3. events' \in Seq(Events) /\ events' # << >>
    BY <2>1, <2>2, OneEvent
  <2>. QED BY <1>0, <1>15, <2>2, <2>3 DEF CompositorSyncs, BaseTypes, stringVars, desktopVars
<1>16. CASE DesktopWrites
  <2>1. PICK r \in asked :
          reads' = [reads EXCEPT ![r].text = TextOf(reads[r].source), ![r].open = FALSE]
    BY <1>16 DEF DesktopWrites
  <2>2. r \in DOMAIN reads
    BY DEF LineInv
  <2>3. reads' \in Seq(Reads)
    BY <2>1, <2>2, WriteSteps DEF Steps
  <2>. QED BY <1>0, <1>16, <2>3 DEF DesktopWrites, BaseTypes, stringVars
<1>17. CASE DesktopClears \/ \E kind \in {"desktop", "image"} : DesktopCopies(kind)
  <2>1. PICK s \in Sources \cup {NoSource}, mime \in {"text", "other"} : NewSelection(s, mime)
    BY <1>17, NewSourceIsUnmade DEF DesktopClears, DesktopCopies
  <2>2. events' \in Seq(Events) /\ events' # << >> /\ selection' \in Sources \cup {NoSource}
    BY <2>1, NewEvents DEF NewSelection
  <2>3. UNCHANGED <<clipboard, mimeTypes, reads, slow, binder, requests, overtaken>>
    BY <1>17 DEF DesktopClears, DesktopCopies, stringVars
  <2>. QED BY <1>0, <2>2, <2>3 DEF BaseTypes
<1>. QED
  BY <1>1, <1>2, <1>3, <1>4, <1>5, <1>6, <1>7, <1>8, <1>9, <1>10, <1>11, <1>12, <1>13, <1>14, <1>15,
     <1>16, <1>17 DEF ClipboardNext, GoOn, Handle, Compositor

-----------------------------------------------------------------------------
(* Nothing is said of a read that was not said before.                      *)
LEMMA LineStays ==
  ASSUME BaseTypes, LineInv, Once(Line'), Piped(Line') = Piped(Line), Called(Line') = Called(Line),
         asked' = asked, DOMAIN reads' = DOMAIN reads,
         \A r \in DOMAIN reads :
           /\ reads'[r].open = reads[r].open
           /\ reads'[r].step = "roundtrip" <=> reads[r].step = "roundtrip",
         \A r \in Piped(Line') : PipeAt(events, 1, r) /\ slow # "nobody"
                                   => PipeAt(events', 1, r) /\ slow' # "nobody"
  PROVE  LineInv'
<1>1. \A r \in Piped(Line) : r \in DOMAIN reads
  BY DEF LineInv
<1>2. \A r \in Piped(Line') : reads'[r].step # "roundtrip" => PipeAt(events', 1, r) /\ slow' # "nobody"
  BY <1>1 DEF LineInv
<1>3. Piped(Line') \cup asked' = {r \in DOMAIN reads' : reads'[r].open}
  BY DEF LineInv
<1>4. Called(Line') = {r \in DOMAIN reads' : reads'[r].step = "roundtrip"}
  BY DEF LineInv
<1>. QED BY <1>2, <1>3, <1>4 DEF LineInv

(* Neither a handler that is not about a read, ...                          *)
LEMMA SilentHandlerLine ==
  ASSUME BaseTypes, LineInv, NEW t \in Threads, NEW kind \in {"offer", "selection", "cancelled"},
         Dispatch(t, kind), events' \in Seq(Messages), DOMAIN events' = DOMAIN EventsLeft(t),
         \A k \in DOMAIN events' :
           events'[k].kind = EventsLeft(t)[k].kind
             /\ (events'[k].kind \in {"send", "done"} => events'[k].read = EventsLeft(t)[k].read),
         UNCHANGED <<reads, requests, asked>>
  PROVE  LineInv'
<1>1. Once(Line)
  BY DEF LineInv
<1>2. /\ Once(events' \o requests)
      /\ Piped(events' \o requests) = {r \in Piped(Line) : ~PipeAt(events, Turn(t), r)}
      /\ Called(events' \o requests) = {r \in Called(Line) : ~CallAt(events, Turn(t), r)}
      /\ \A r \in Piped(events' \o requests) :
           PipeAt(events, 1, r) /\ slow # "nobody" => PipeAt(events', 1, r) /\ slow' # "nobody"
  BY <1>1, LeftTokens
<1>3. \A r : ~PipeAt(events, Turn(t), r) /\ ~CallAt(events, Turn(t), r)
  BY DispatchFacts DEF PipeAt, CallAt
<1>4. Line' = events' \o requests
  BY DEF Line
<1>5. Once(Line') /\ Piped(Line') = Piped(Line) /\ Called(Line') = Called(Line)
  BY <1>2, <1>3, <1>4
<1>. QED BY <1>2, <1>4, <1>5, LineStays

(* ... nor a new selection, with or without a request of ours.              *)
LEMMA NewSelectionLine ==
  ASSUME BaseTypes, LineInv, NEW s \in Sources \cup {NoSource}, NEW mime \in {"text", "other"},
         NewSelection(s, mime), UNCHANGED <<reads, slow, asked>>,
         UNCHANGED requests \/ HandleRequest("set")
  PROVE  LineInv'
<1>1. events \in Seq(Messages) /\ requests \in Seq(Messages) /\ Events \subseteq Messages
      /\ Requests \subseteq Messages
  BY LineFacts
<1>2. /\ events' \in Seq(Events)
      /\ DOMAIN events \subseteq DOMAIN events'
      /\ \A k \in DOMAIN events : events'[k] = events[k]
      /\ Once(events) => Once(events')
      /\ Piped(events') = Piped(events) /\ Called(events') = Called(events)
  BY NewEvents
<1>3. events' \in Seq(Messages)
  BY <1>2 DEF Messages
<1>4. /\ requests' \in Seq(Messages) /\ (Once(requests) => Once(requests'))
      /\ Piped(requests') = Piped(requests) /\ Called(requests') = Called(requests)
  <2>1. CASE UNCHANGED requests
    BY <1>1, <2>1
  <2>2. CASE HandleRequest("set")
    <3>1. /\ requests[1] \in Requests /\ requests[1].kind = "set" /\ requests' \in Seq(Requests)
          /\ requests = <<requests[1]>> \o requests'
      BY <2>2, RequestFacts
    <3>2. requests' \in Seq(Messages)
      BY <3>1 DEF Messages
    <3>3. PICK u \in Seq(Messages) : u = <<requests[1]>> /\ Piped(u) = {} /\ Called(u) = {}
      <4>1. requests[1] \in Messages
        BY <1>1, <3>1
      <4>. QED BY <3>1, <4>1, OneToken
    <3>4. requests = u \o requests'
      BY <3>1, <3>3
    <3>5. PICK v \in Seq(Messages) : v = requests'
      BY <3>2
    <3>6. /\ Piped(u \o v) = Piped(u) \cup Piped(v) /\ Called(u \o v) = Called(u) \cup Called(v)
          /\ Once(u \o v) => Once(v)
      BY ConcatTokens
    <3>. QED BY <3>2, <3>3, <3>4, <3>5, <3>6
  <2>. QED BY <2>1, <2>2
<1>5. /\ Once(Line) /\ Line = events \o requests /\ Line' = events' \o requests'
  BY DEF LineInv, Line
<1>6. /\ Once(events) /\ Once(requests)
      /\ Piped(events) \cap Piped(requests) = {} /\ Called(events) \cap Called(requests) = {}
      /\ Called(events) \cap Piped(requests) = {}
      /\ Piped(Line) = Piped(events) \cup Piped(requests)
      /\ Called(Line) = Called(events) \cup Called(requests)
  BY <1>1, <1>5, ConcatTokens
<1>7. PICK a \in Seq(Messages), b \in Seq(Messages) : a = events' /\ b = requests'
  BY <1>3, <1>4
<1>8. Once(a \o b) /\ Piped(a \o b) = Piped(Line) /\ Called(a \o b) = Called(Line)
  <2>1. /\ Once(a) /\ Once(b) /\ Piped(a) = Piped(events) /\ Called(a) = Called(events)
        /\ Piped(b) = Piped(requests) /\ Called(b) = Called(requests)
    BY <1>2, <1>4, <1>6, <1>7
  <2>2. /\ Piped(a \o b) = Piped(a) \cup Piped(b) /\ Called(a \o b) = Called(a) \cup Called(b)
        /\ Once(a \o b) <=>
              /\ Once(a) /\ Once(b)
              /\ Piped(a) \cap Piped(b) = {} /\ Called(a) \cap Called(b) = {}
              /\ Called(a) \cap Piped(b) = {}
    BY ConcatTokens
  <2>. QED BY <1>6, <2>1, <2>2
<1>9. Once(Line') /\ Piped(Line') = Piped(Line) /\ Called(Line') = Called(Line)
  BY <1>5, <1>7, <1>8
<1>10. \A r : PipeAt(events, 1, r) => PipeAt(events', 1, r)
  BY <1>2 DEF PipeAt
<1>. QED BY <1>9, <1>10, LineStays

(* A request that becomes an event keeps its place in line.                 *)
LEMMA PassedOn ==
  ASSUME BaseTypes, LineInv, NEW kind \in {"receive", "sync"}, HandleRequest(kind),
         NEW e \in Events, events' = Append(events, e), e.read = requests[1].read,
         e.kind = IF kind = "receive" THEN "send" ELSE "done"
  PROVE  /\ Once(Line') /\ Piped(Line') = Piped(Line) /\ Called(Line') = Called(Line)
         /\ \A r : PipeAt(events, 1, r) => PipeAt(events', 1, r)
<1>1. events \in Seq(Messages) /\ Events \subseteq Messages /\ Requests \subseteq Messages
  BY LineFacts
<1>2. /\ requests[1] \in Messages /\ requests[1].kind = kind /\ requests[1].read \in Nat
      /\ requests' \in Seq(Requests) /\ requests = <<requests[1]>> \o requests'
  BY <1>1, RequestFacts, MessageFacts
<1>3. PICK a \in Seq(Messages), b \in Seq(Messages), c \in Seq(Messages), d \in Seq(Messages) :
        a = events /\ b = <<requests[1]>> /\ c = requests' /\ d = <<e>>
  <2>1. <<requests[1]>> \in Seq(Messages) /\ <<e>> \in Seq(Messages)
    BY <1>1, <1>2
  <2>2. requests' \in Seq(Messages)
    BY <1>2 DEF Messages
  <2>. QED BY <1>1, <2>1, <2>2
<1>4. Once(b) /\ Once(d) /\ Piped(b) = Piped(d) /\ Called(b) = Called(d)
  <2>1. /\ Once(<<requests[1]>>)
        /\ kind = "receive" =>
             Piped(<<requests[1]>>) = {requests[1].read} /\ Called(<<requests[1]>>) = {}
        /\ kind = "sync" =>
             Piped(<<requests[1]>>) = {} /\ Called(<<requests[1]>>) = {requests[1].read}
    BY <1>2, OneToken
  <2>2. e \in Messages
    BY <1>1
  <2>3. /\ Once(<<e>>)
        /\ kind = "receive" => Piped(<<e>>) = {e.read} /\ Called(<<e>>) = {}
        /\ kind = "sync" => Piped(<<e>>) = {} /\ Called(<<e>>) = {e.read}
    BY <1>2, <2>2, OneToken
  <2>. QED BY <1>3, <2>1, <2>3
<1>5. Line = a \o (b \o c) /\ Line' = (a \o d) \o c
  BY <1>2, <1>3, OneEvent DEF Line
<1>6. /\ Piped(b \o c) = Piped(b) \cup Piped(c) /\ Called(b \o c) = Called(b) \cup Called(c)
      /\ b \o c \in Seq(Messages)
      /\ Once(b \o c) => /\ Once(b) /\ Once(c)
                         /\ Piped(b) \cap Piped(c) = {} /\ Called(b) \cap Called(c) = {}
                         /\ Called(b) \cap Piped(c) = {}
  BY ConcatTokens
<1>7. PICK f \in Seq(Messages) : f = b \o c
  BY <1>6
<1>8. /\ Piped(a \o f) = Piped(a) \cup Piped(f) /\ Called(a \o f) = Called(a) \cup Called(f)
      /\ Once(a \o f) => /\ Once(a) /\ Once(f)
                         /\ Piped(a) \cap Piped(f) = {} /\ Called(a) \cap Called(f) = {}
                         /\ Called(a) \cap Piped(f) = {}
  BY ConcatTokens
<1>9. Once(a \o f)
  BY <1>5, <1>7 DEF LineInv
<1>10. /\ Piped(a \o d) = Piped(a) \cup Piped(d) /\ Called(a \o d) = Called(a) \cup Called(d)
       /\ a \o d \in Seq(Messages)
       /\ Once(a \o d) <=>
            /\ Once(a) /\ Once(d)
            /\ Piped(a) \cap Piped(d) = {} /\ Called(a) \cap Called(d) = {}
            /\ Called(a) \cap Piped(d) = {}
  BY ConcatTokens
<1>11. PICK g \in Seq(Messages) : g = a \o d
  BY <1>10
<1>12. /\ Piped(g \o c) = Piped(g) \cup Piped(c) /\ Called(g \o c) = Called(g) \cup Called(c)
       /\ Once(g \o c) <=>
            /\ Once(g) /\ Once(c)
            /\ Piped(g) \cap Piped(c) = {} /\ Called(g) \cap Called(c) = {}
            /\ Called(g) \cap Piped(c) = {}
  <2>1. Piped(g \o c) = Piped(g) \cup Piped(c)
    BY ConcatTokens
  <2>2. Called(g \o c) = Called(g) \cup Called(c)
    BY ConcatTokens
  <2>3. Once(g \o c) <=>
          /\ Once(g) /\ Once(c)
          /\ Piped(g) \cap Piped(c) = {} /\ Called(g) \cap Called(c) = {}
          /\ Called(g) \cap Piped(c) = {}
    BY ConcatTokens
  <2>. QED BY <2>1, <2>2, <2>3
<1>13. /\ Once(f) /\ Once(c) /\ Once(a)
       /\ Piped(f) = Piped(d) \cup Piped(c) /\ Called(f) = Called(d) \cup Called(c)
       /\ Piped(d) \cap Piped(c) = {} /\ Called(d) \cap Called(c) = {} /\ Called(d) \cap Piped(c) = {}
  BY <1>4, <1>6, <1>7, <1>8, <1>9
<1>14. Once(g) /\ Piped(g) = Piped(a) \cup Piped(d) /\ Called(g) = Called(a) \cup Called(d)
  BY <1>4, <1>8, <1>9, <1>10, <1>11, <1>13
<1>15. Once(g \o c) /\ Piped(g \o c) = Piped(a \o f) /\ Called(g \o c) = Called(a \o f)
  BY <1>8, <1>9, <1>12, <1>13, <1>14
<1>16. \A r : PipeAt(events, 1, r) => PipeAt(events', 1, r)
  BY OneEvent DEF PipeAt
<1>. QED BY <1>5, <1>7, <1>11, <1>15, <1>16

(* A text is written.                                                       *)
LEMMA HandleSendLine ==
  ASSUME BaseTypes, LineInv, NEW t \in Threads, HandleSend(t)
  PROVE  /\ LineInv'
         /\ Piped(Line') = {q \in Piped(Line) : q # events[Turn(t)].read}
<1>1. PICK r : r = events[Turn(t)].read
  OBVIOUS
<1>2. /\ Dispatch(t, "send") /\ events' = EventsLeft(t)
      /\ UNCHANGED <<requests, asked>>
  BY DEF HandleSend, desktopVars
<1>3. /\ Turn(t) \in DOMAIN events /\ events[Turn(t)].kind = "send"
      /\ r \in Nat /\ r \notin asked /\ r \in DOMAIN reads
  BY <1>1, <1>2, DispatchFacts, TokenFacts
<1>4. PICK text : Steps(r, reads[r].step, text, FALSE)
  BY <1>1, SendSteps
<1>5. Once(Line) /\ EventsLeft(t) \in Seq(Messages)
  BY <1>2, DispatchFacts DEF LineInv, Messages
<1>6. /\ Once(EventsLeft(t) \o requests)
      /\ Piped(EventsLeft(t) \o requests) = {q \in Piped(Line) : ~PipeAt(events, Turn(t), q)}
      /\ Called(EventsLeft(t) \o requests) = {q \in Called(Line) : ~CallAt(events, Turn(t), q)}
      /\ \A q \in Piped(EventsLeft(t) \o requests) :
           PipeAt(events, 1, q) /\ slow # "nobody" => PipeAt(EventsLeft(t), 1, q) /\ slow' # "nobody"
  BY <1>2, <1>5, LeftTokens
<1>7. \A q : ~CallAt(events, Turn(t), q) /\ (PipeAt(events, Turn(t), q) <=> q = r)
  BY <1>1, <1>3 DEF PipeAt, CallAt
<1>8. Line' = EventsLeft(t) \o requests
  BY <1>2 DEF Line
<1>9. /\ Once(Line') /\ Piped(Line') = {q \in Piped(Line) : q # r} /\ Called(Line') = Called(Line)
      /\ \A q \in Piped(Line') : PipeAt(events, 1, q) /\ slow # "nobody"
                                   => PipeAt(events', 1, q) /\ slow' # "nobody"
  BY <1>2, <1>6, <1>7, <1>8
<1>10. \A q \in DOMAIN reads : /\ reads'[q].step = reads[q].step
                               /\ reads'[q].open <=> reads[q].open /\ q # r
  BY <1>4 DEF Steps
<1>11. DOMAIN reads' = DOMAIN reads
  BY <1>4 DEF Steps
<1>12. /\ Piped(Line) \cap asked = {}
       /\ Piped(Line) \cup asked = {q \in DOMAIN reads : reads[q].open}
       /\ Called(Line) = {q \in DOMAIN reads : reads[q].step = "roundtrip"}
       /\ \A q \in Piped(Line) : reads[q].step # "roundtrip" => PipeAt(events, 1, q) /\ slow # "nobody"
  BY DEF LineInv
<1>13. Piped(Line') \cup asked' = {q \in DOMAIN reads' : reads'[q].open}
  BY <1>2, <1>3, <1>9, <1>10, <1>11, <1>12
<1>14. Called(Line') = {q \in DOMAIN reads' : reads'[q].step = "roundtrip"}
  BY <1>9, <1>10, <1>11, <1>12
<1>15. \A q \in Piped(Line') : reads'[q].step # "roundtrip" => PipeAt(events', 1, q) /\ slow' # "nobody"
  BY <1>9, <1>10, <1>12
<1>16. Piped(Line') \cap asked' = {}
  BY <1>2, <1>9, <1>12
<1>. QED BY <1>1, <1>9, <1>13, <1>14, <1>15, <1>16 DEF LineInv

(* A callback is run.                                                       *)
LEMMA HandleDoneLine ==
  ASSUME BaseTypes, LineInv, NEW t \in Threads, HandleDone(t)
  PROVE  LineInv' /\ Piped(Line') = Piped(Line)
<1>1. PICK r : r = events[Turn(t)].read
  OBVIOUS
<1>2. /\ Dispatch(t, "done") /\ events' = EventsLeft(t)
      /\ UNCHANGED <<requests, asked>>
  BY DEF HandleDone, desktopVars
<1>3. /\ Turn(t) \in DOMAIN events /\ events[Turn(t)].kind = "done"
      /\ r \in Nat /\ r \in DOMAIN reads /\ CallAt(events, Turn(t), r)
  BY <1>1, <1>2, DispatchFacts, TokenFacts
<1>4. PICK step \in {"clear", "asleep"} : Steps(r, step, reads[r].text, reads[r].open)
  BY <1>1, DoneSteps
<1>5. Once(Line) /\ EventsLeft(t) \in Seq(Messages)
  BY <1>2, DispatchFacts DEF LineInv, Messages
<1>6. /\ Once(EventsLeft(t) \o requests)
      /\ Piped(EventsLeft(t) \o requests) = {q \in Piped(Line) : ~PipeAt(events, Turn(t), q)}
      /\ Called(EventsLeft(t) \o requests) = {q \in Called(Line) : ~CallAt(events, Turn(t), q)}
      /\ \A q \in Piped(EventsLeft(t) \o requests) :
           PipeAt(events, 1, q) /\ slow # "nobody" => PipeAt(EventsLeft(t), 1, q) /\ slow' # "nobody"
  BY <1>2, <1>5, LeftTokens
<1>7. \A q : ~PipeAt(events, Turn(t), q) /\ (CallAt(events, Turn(t), q) <=> q = r)
  BY <1>1, <1>3 DEF PipeAt, CallAt
<1>8. Line' = EventsLeft(t) \o requests
  BY <1>2 DEF Line
<1>9. /\ Once(Line') /\ Piped(Line') = Piped(Line) /\ Called(Line') = {q \in Called(Line) : q # r}
      /\ \A q \in Piped(Line') : PipeAt(events, 1, q) /\ slow # "nobody"
                                   => PipeAt(events', 1, q) /\ slow' # "nobody"
  BY <1>2, <1>6, <1>7, <1>8
<1>10. \A q \in DOMAIN reads : /\ reads'[q].open = reads[q].open
                               /\ q # r => reads'[q].step = reads[q].step
  BY <1>4 DEF Steps
<1>11. DOMAIN reads' = DOMAIN reads /\ reads'[r].step # "roundtrip"
  BY <1>4 DEF Steps
<1>12. /\ Piped(Line) \cap asked = {}
       /\ Piped(Line) \cup asked = {q \in DOMAIN reads : reads[q].open}
       /\ Called(Line) = {q \in DOMAIN reads : reads[q].step = "roundtrip"}
       /\ \A q \in Piped(Line) : reads[q].step # "roundtrip" => PipeAt(events, 1, q) /\ slow # "nobody"
  BY DEF LineInv
<1>13. Piped(Line') \cup asked' = {q \in DOMAIN reads' : reads'[q].open}
  BY <1>2, <1>9, <1>10, <1>11, <1>12
<1>14. Called(Line') = {q \in DOMAIN reads' : reads'[q].step = "roundtrip"}
  BY <1>9, <1>10, <1>11, <1>12
<1>15. r \in Piped(Line) => PipeAt(events, 1, r) /\ slow # "nobody"
  <2>1. SUFFICES ASSUME r \in Piped(Line) PROVE PipeAt(events, 1, r) /\ slow # "nobody"
    OBVIOUS
  <2>2. PICK k \in DOMAIN Line : PipeAt(Line, k, r)
    BY <2>1 DEF Piped
  <2>3. Line \in Seq(Messages) /\ Turn(t) \in DOMAIN Line /\ Line[Turn(t)] = events[Turn(t)]
    BY <1>3, LineFacts
  <2>4. k \in Nat /\ k >= 1
    BY <2>3
  <2>5. CallAt(Line, Turn(t), r)
    BY <1>3, <2>3 DEF CallAt
  <2>6. k < Turn(t)
    BY <1>3, <1>5, <2>2, <2>3, <2>5 DEF Once
  <2>7. Turn(t) = 2 /\ k = 1 /\ slow \in Threads /\ 1 \in DOMAIN EventsLeft(t)
    BY <1>2, <2>4, <2>6, DispatchFacts
  <2>8. 1 \in DOMAIN events
    <3>1. From(2, 1) = 1
      BY DEF From
    <3>. QED BY <1>2, <2>7, <3>1, DispatchFacts
  <2>9. Line[1] = events[1]
    BY <2>8, LineFacts
  <2>. QED BY <2>2, <2>7, <2>8, <2>9 DEF PipeAt, Threads
<1>16. \A q \in Piped(Line') : reads'[q].step # "roundtrip" => PipeAt(events', 1, q) /\ slow' # "nobody"
  BY <1>9, <1>10, <1>12, <1>15
<1>17. Piped(Line') \cap asked' = {}
  BY <1>2, <1>9, <1>12
<1>. QED BY <1>9, <1>13, <1>14, <1>16, <1>17 DEF LineInv

(* A read begins: its pipe and its callback go to the end of the line.      *)
LEMMA StartLine ==
  ASSUME BaseTypes, LineInv, NEW t \in Threads, NEW s \in Sources, Dispatch(t, "selection"),
         events' = EventsLeft(t), ReadSelection(t, s), UNCHANGED asked
  PROVE  LineInv'
<1>1. PICK n \in Nat :
         /\ n \notin DOMAIN reads /\ DOMAIN reads' = DOMAIN reads \cup {n}
         /\ \A r \in DOMAIN reads : r <= n
         /\ \A r \in DOMAIN reads : reads'[r] = reads[r]
         /\ reads' \in Seq(Reads)
         /\ reads'[n].thread = t /\ reads'[n].source = s /\ reads'[n].step = "roundtrip"
         /\ reads'[n].text = << >> /\ reads'[n].open
         /\ [kind |-> "receive", source |-> s, read |-> n] \in Requests
         /\ [kind |-> "sync", source |-> NoSource, read |-> n] \in Requests
         /\ requests' = (requests \o <<[kind |-> "receive", source |-> s, read |-> n]>>)
                          \o <<[kind |-> "sync", source |-> NoSource, read |-> n]>>
  BY StartFacts
<1>2. PICK a : a = [kind |-> "receive", source |-> s, read |-> n]
  OBVIOUS
<1>3. PICK b : b = [kind |-> "sync", source |-> NoSource, read |-> n]
  OBVIOUS
<1>4. /\ a \in Messages /\ b \in Messages /\ requests' = (requests \o <<a>>) \o <<b>>
      /\ a.kind = "receive" /\ a.read = n /\ b.kind = "sync" /\ b.read = n
  BY <1>1, <1>2, <1>3 DEF Messages
<1>5. PICK p \in Seq(Messages), q \in Seq(Messages), v \in Seq(Messages) :
        p = <<a>> /\ q = <<b>> /\ v = requests
  <2>1. <<a>> \in Seq(Messages) /\ <<b>> \in Seq(Messages)
    BY <1>4
  <2>. QED BY <2>1, LineFacts
<1>6. /\ Once(p) /\ Piped(p) = {n} /\ Called(p) = {}
      /\ Once(q) /\ Piped(q) = {} /\ Called(q) = {n}
  BY <1>4, <1>5, OneToken
<1>7. Once(Line) /\ EventsLeft(t) \in Seq(Messages)
  BY DispatchFacts DEF LineInv, Messages
<1>8. PICK u \in Seq(Messages) : u = EventsLeft(t)
  BY <1>7
<1>9. /\ Once(u \o requests)
      /\ Piped(u \o requests) = {r \in Piped(Line) : ~PipeAt(events, Turn(t), r)}
      /\ Called(u \o requests) = {r \in Called(Line) : ~CallAt(events, Turn(t), r)}
      /\ \A r \in Piped(u \o requests) :
           PipeAt(events, 1, r) /\ slow # "nobody" => PipeAt(u, 1, r) /\ slow' # "nobody"
  BY <1>7, <1>8, LeftTokens
<1>10. \A r : ~PipeAt(events, Turn(t), r) /\ ~CallAt(events, Turn(t), r)
  BY DispatchFacts DEF PipeAt, CallAt
<1>11. Once(u \o v) /\ Piped(u \o v) = Piped(Line) /\ Called(u \o v) = Called(Line)
  BY <1>5, <1>9, <1>10
<1>12. /\ Piped(u \o v) = Piped(u) \cup Piped(v) /\ Called(u \o v) = Called(u) \cup Called(v)
       /\ Once(u) /\ Once(v)
       /\ Piped(u) \cap Piped(v) = {} /\ Called(u) \cap Called(v) = {} /\ Called(u) \cap Piped(v) = {}
  <2>1. Piped(u \o v) = Piped(u) \cup Piped(v) /\ Called(u \o v) = Called(u) \cup Called(v)
    BY ConcatTokens
  <2>2. Once(u \o v) <=>
          /\ Once(u) /\ Once(v)
          /\ Piped(u) \cap Piped(v) = {} /\ Called(u) \cap Called(v) = {}
          /\ Called(u) \cap Piped(v) = {}
    BY ConcatTokens
  <2>. QED BY <1>11, <2>1, <2>2
<1>13. n \notin Piped(Line) /\ n \notin Called(Line)
  BY <1>1 DEF LineInv
<1>14. PICK w \in Seq(Messages) :
         w = v \o p /\ Piped(w) = Piped(v) \cup {n} /\ Called(w) = Called(v) /\ Once(w)
  <2>1. Piped(v \o p) = Piped(v) \cup Piped(p) /\ Called(v \o p) = Called(v) \cup Called(p)
    BY ConcatTokens
  <2>2. Once(v \o p) <=>
          /\ Once(v) /\ Once(p)
          /\ Piped(v) \cap Piped(p) = {} /\ Called(v) \cap Called(p) = {}
          /\ Called(v) \cap Piped(p) = {}
    BY ConcatTokens
  <2>3. n \notin Piped(v) /\ n \notin Called(v)
    BY <1>11, <1>12, <1>13
  <2>6. v \o p \in Seq(Messages)
    OBVIOUS
  <2>4. PICK w \in Seq(Messages) : w = v \o p
    BY <2>6
  <2>5. Once(w) /\ Piped(w) = Piped(v) \cup {n} /\ Called(w) = Called(v)
    BY <1>6, <1>12, <2>1, <2>2, <2>3, <2>4
  <2>. QED BY <2>4, <2>5
<1>15. PICK x \in Seq(Messages) :
         x = w \o q /\ Piped(x) = Piped(v) \cup {n} /\ Called(x) = Called(v) \cup {n} /\ Once(x)
  <2>1. Piped(w \o q) = Piped(w) \cup Piped(q) /\ Called(w \o q) = Called(w) \cup Called(q)
    BY ConcatTokens
  <2>2. Once(w \o q) <=>
          /\ Once(w) /\ Once(q)
          /\ Piped(w) \cap Piped(q) = {} /\ Called(w) \cap Called(q) = {}
          /\ Called(w) \cap Piped(q) = {}
    BY ConcatTokens
  <2>3. n \notin Called(v)
    BY <1>11, <1>12, <1>13
  <2>6. w \o q \in Seq(Messages)
    OBVIOUS
  <2>4. PICK x \in Seq(Messages) : x = w \o q
    BY <2>6
  <2>5. Once(x) /\ Piped(x) = Piped(v) \cup {n} /\ Called(x) = Called(v) \cup {n}
    BY <1>6, <1>14, <2>1, <2>2, <2>3, <2>4
  <2>. QED BY <2>4, <2>5
<1>16. Line' = u \o x
  BY <1>4, <1>5, <1>8, <1>14, <1>15 DEF Line
<1>17. /\ Once(Line') /\ Piped(Line') = Piped(Line) \cup {n} /\ Called(Line') = Called(Line) \cup {n}
  <2>1. Piped(u \o x) = Piped(u) \cup Piped(x) /\ Called(u \o x) = Called(u) \cup Called(x)
    BY ConcatTokens
  <2>2. Once(u \o x) <=>
          /\ Once(u) /\ Once(x)
          /\ Piped(u) \cap Piped(x) = {} /\ Called(u) \cap Called(x) = {}
          /\ Called(u) \cap Piped(x) = {}
    BY ConcatTokens
  <2>3. n \notin Piped(u) /\ n \notin Called(u)
    BY <1>11, <1>12, <1>13
  <2>4. Once(u \o x)
    BY <1>12, <1>15, <2>2, <2>3
  <2>. QED BY <1>11, <1>12, <1>15, <1>16, <2>1, <2>4
<1>18. /\ Piped(Line) \cap asked = {}
       /\ Piped(Line) \cup asked = {r \in DOMAIN reads : reads[r].open}
       /\ Called(Line) = {r \in DOMAIN reads : reads[r].step = "roundtrip"}
       /\ \A r \in Piped(Line) : reads[r].step # "roundtrip" => PipeAt(events, 1, r) /\ slow # "nobody"
  BY DEF LineInv
<1>19. Piped(Line') \cap asked' = {}
  BY <1>1, <1>17, <1>18
<1>20. Piped(Line') \cup asked' = {r \in DOMAIN reads' : reads'[r].open}
  BY <1>1, <1>17, <1>18
<1>21. Called(Line') = {r \in DOMAIN reads' : reads'[r].step = "roundtrip"}
  BY <1>1, <1>17, <1>18
<1>22. \A r \in Piped(Line') : reads'[r].step # "roundtrip" => PipeAt(events', 1, r) /\ slow' # "nobody"
  <2>1. SUFFICES ASSUME NEW r \in Piped(Line'), reads'[r].step # "roundtrip"
                 PROVE  PipeAt(events', 1, r) /\ slow' # "nobody"
    OBVIOUS
  <2>2. r \in Piped(Line) /\ r \in DOMAIN reads
    BY <1>1, <1>17, <1>18, <2>1
  <2>3. PipeAt(events, 1, r) /\ slow # "nobody"
    BY <1>1, <1>18, <2>1, <2>2
  <2>4. r \in Piped(u \o requests)
    BY <1>5, <1>11, <2>2
  <2>. QED BY <1>8, <1>9, <2>3, <2>4
<1>. QED BY <1>17, <1>19, <1>20, <1>21, <1>22 DEF LineInv

(* A request that is not passed on leaves the line.                         *)
LEMMA HeadDropped ==
  ASSUME BaseTypes, LineInv, HandleRequest("receive"), UNCHANGED events
  PROVE  /\ Once(Line') /\ Called(Line') = Called(Line)
         /\ Piped(Line') = {r \in Piped(Line) : r # requests[1].read}
<1>1. /\ events \in Seq(Messages) /\ Requests \subseteq Messages
  BY LineFacts
<1>2. /\ requests[1] \in Messages /\ requests[1].kind = "receive" /\ requests[1].read \in Nat
      /\ requests' \in Seq(Requests) /\ requests = <<requests[1]>> \o requests'
  BY <1>1, RequestFacts, MessageFacts
<1>3. PICK a \in Seq(Messages), b \in Seq(Messages), c \in Seq(Messages) :
        a = events /\ b = <<requests[1]>> /\ c = requests'
  <2>1. <<requests[1]>> \in Seq(Messages)
    BY <1>2
  <2>2. requests' \in Seq(Messages)
    BY <1>2 DEF Messages
  <2>. QED BY <1>1, <2>1, <2>2
<1>4. Once(b) /\ Piped(b) = {requests[1].read} /\ Called(b) = {}
  BY <1>2, <1>3, OneToken
<1>5. Line = a \o (b \o c) /\ Line' = a \o c
  BY <1>2, <1>3 DEF Line
<1>6. PICK f \in Seq(Messages) :
        /\ f = b \o c
        /\ Piped(f) = Piped(b) \cup Piped(c) /\ Called(f) = Called(b) \cup Called(c)
        /\ Once(f) <=>
             /\ Once(b) /\ Once(c)
             /\ Piped(b) \cap Piped(c) = {} /\ Called(b) \cap Called(c) = {}
             /\ Called(b) \cap Piped(c) = {}
  <2>1. Piped(b \o c) = Piped(b) \cup Piped(c) /\ Called(b \o c) = Called(b) \cup Called(c)
    BY ConcatTokens
  <2>2. Once(b \o c) <=>
             /\ Once(b) /\ Once(c)
             /\ Piped(b) \cap Piped(c) = {} /\ Called(b) \cap Called(c) = {}
             /\ Called(b) \cap Piped(c) = {}
    BY ConcatTokens
  <2>3. b \o c \in Seq(Messages)
    OBVIOUS
  <2>. QED BY <2>1, <2>2, <2>3
<1>7. /\ Piped(a \o f) = Piped(a) \cup Piped(f) /\ Called(a \o f) = Called(a) \cup Called(f)
      /\ Once(a) /\ Once(f)
      /\ Piped(a) \cap Piped(f) = {} /\ Called(a) \cap Called(f) = {}
      /\ Called(a) \cap Piped(f) = {}
  <2>1. Piped(a \o f) = Piped(a) \cup Piped(f) /\ Called(a \o f) = Called(a) \cup Called(f)
    BY ConcatTokens
  <2>2. Once(a \o f) <=>
             /\ Once(a) /\ Once(f)
             /\ Piped(a) \cap Piped(f) = {} /\ Called(a) \cap Called(f) = {}
             /\ Called(a) \cap Piped(f) = {}
    BY ConcatTokens
  <2>3. Once(a \o f)
    BY <1>5, <1>6 DEF LineInv
  <2>. QED BY <2>1, <2>2, <2>3
<1>8. Piped(a \o c) = Piped(a) \cup Piped(c) /\ Called(a \o c) = Called(a) \cup Called(c)
  BY ConcatTokens
<1>9. Once(a \o c) <=>
             /\ Once(a) /\ Once(c)
             /\ Piped(a) \cap Piped(c) = {} /\ Called(a) \cap Called(c) = {}
             /\ Called(a) \cap Piped(c) = {}
  BY ConcatTokens
<1>10. Once(a \o c)
  BY <1>6, <1>7, <1>9
<1>11. Piped(a \o c) = {r \in Piped(a \o f) : r # requests[1].read}
  BY <1>4, <1>6, <1>7, <1>8
<1>12. Called(a \o c) = Called(a \o f)
  BY <1>4, <1>6, <1>7, <1>8
<1>. QED BY <1>5, <1>6, <1>10, <1>11, <1>12

(* A step of a read changes its open pipe or its callback only if it says.  *)
LEMMA StepLine ==
  ASSUME BaseTypes, LineInv, NEW r \in DOMAIN reads, NEW step, NEW text,
         Steps(r, step, text, reads[r].open), step # "roundtrip", reads[r].step # "roundtrip",
         UNCHANGED <<events, requests, slow, asked>>
  PROVE  LineInv'
<1>1. Line' = Line /\ Once(Line)
  BY DEF Line, LineInv
<1>2. /\ DOMAIN reads' = DOMAIN reads
      /\ \A q \in DOMAIN reads : /\ reads'[q].open = reads[q].open
                                 /\ reads'[q].step = "roundtrip" <=> reads[q].step = "roundtrip"
  BY DEF Steps
<1>. QED BY <1>1, <1>2, LineStays

(* Every step keeps the line.                                               *)
LEMMA LineStep ==
  ASSUME BaseTypes, LineInv, [ClipboardNext]_clipboardVars
  PROVE  LineInv'
<1>0. Once(Line) /\ events \in Seq(Messages) /\ requests \in Seq(Messages)
  BY LineFacts DEF LineInv
<1>1. CASE UNCHANGED <<reads, events, requests, asked>> /\ (slow # "nobody" => slow' # "nobody")
  <2>1. Line' = Line
    BY <1>1 DEF Line
  <2>. QED BY <1>0, <1>1, <2>1, LineStays
<1>2. CASE SetSelection
  <2>1. PICK e : e = [kind |-> "set", source |-> binder]
    OBVIOUS
  <2>2. e \in Requests /\ e.kind = "set" /\ requests' = Append(requests, e)
    BY <1>2, <2>1 DEF SetSelection, Requests, BaseTypes
  <2>3. e \in Messages
    BY <2>2 DEF Messages
  <2>4. PICK l \in Seq(Messages) : l = Line
    BY LineFacts
  <2>5. Line' = l \o <<e>>
    BY <1>0, <1>2, <2>2, <2>3, <2>4 DEF SetSelection, Line
  <2>6. Once(Line') /\ Piped(Line') = Piped(Line) /\ Called(Line') = Called(Line)
    BY <1>0, <2>2, <2>3, <2>4, <2>5, SilentFacts
  <2>. QED BY <1>2, <2>6, LineStays DEF SetSelection, desktopVars
<1>3. ASSUME NEW t \in Threads, HandleOffer(t) PROVE LineInv'
  <2>1. Dispatch(t, "offer") /\ events' = EventsLeft(t) /\ UNCHANGED <<reads, requests, asked>>
    BY <1>3 DEF HandleOffer, desktopVars
  <2>2. events' \in Seq(Messages)
    BY <2>1, DispatchFacts DEF Messages
  <2>. QED BY <2>1, <2>2, SilentHandlerLine
<1>4. ASSUME NEW t \in Threads, HandleSelection(t) PROVE LineInv'
  <2>1. Dispatch(t, "selection") /\ events' = EventsLeft(t) /\ UNCHANGED asked
    BY <1>4 DEF HandleSelection, desktopVars
  <2>2. events' \in Seq(Messages)
    BY <2>1, DispatchFacts DEF Messages
  <2>3. CASE UNCHANGED <<reads, requests>>
    BY <2>1, <2>2, <2>3, SilentHandlerLine
  <2>4. CASE events[Turn(t)].source # NoSource /\ ReadSelection(t, events[Turn(t)].source)
    <3>1. PICK s \in Sources : ReadSelection(t, s)
      BY <2>1, <2>4, DispatchFacts, MessageFacts
    <3>. QED BY <2>1, <3>1, StartLine
  <2>. QED BY <1>4, <2>3, <2>4 DEF HandleSelection
<1>5. ASSUME NEW t \in Threads, HandleCancelled(t) PROVE LineInv'
  <2>1. Dispatch(t, "cancelled") /\ UNCHANGED <<reads, requests, asked>>
    BY <1>5 DEF HandleCancelled, desktopVars
  <2>2. CASE events' = EventsLeft(t)
    <3>1. events' \in Seq(Messages)
      BY <2>1, <2>2, DispatchFacts DEF Messages
    <3>. QED BY <2>1, <2>2, <3>1, SilentHandlerLine
  <2>3. CASE /\ SendsOf(t, events[Turn(t)].source)
             /\ \E s \in Sources \cup {NoSource} : events' = [EventsLeft(t) EXCEPT ![1].source = s]
    <3>1. /\ events' \in Seq(Events) /\ DOMAIN events' = DOMAIN EventsLeft(t)
          /\ events[1].kind = "send" /\ events'[1].kind = "send" /\ events'[1].read = events[1].read
          /\ EventsLeft(t)[1] = events[1]
          /\ \A k \in DOMAIN events' : k # 1 => events'[k] = EventsLeft(t)[k]
      BY <2>1, <2>3, CancelledFacts
    <3>2. events' \in Seq(Messages)
      BY <3>1 DEF Messages
    <3>3. \A k \in DOMAIN events' :
            events'[k].kind = EventsLeft(t)[k].kind
              /\ (events'[k].kind \in {"send", "done"} => events'[k].read = EventsLeft(t)[k].read)
      BY <3>1
    <3>. QED BY <2>1, <3>1, <3>2, <3>3, SilentHandlerLine
  <2>. QED BY <1>5, <2>2, <2>3 DEF HandleCancelled
<1>6. ASSUME NEW t \in Threads, Wake(t) \/ RoundtripReturns(t) \/ ReadEnds(t) PROVE LineInv'
  <2>1. PICK r \in DOMAIN reads, step \in {"clear", "read", "ended"} :
           reads' = [reads EXCEPT ![r].step = step] /\ reads[r].step # "roundtrip"
    BY <1>6 DEF Wake, RoundtripReturns, ReadEnds, InnermostAt
  <2>2. Steps(r, step, reads[r].text, reads[r].open)
    BY <2>1, ReadSteps
  <2>3. UNCHANGED <<events, requests, slow, asked>>
    BY <1>6 DEF Wake, RoundtripReturns, ReadEnds, desktopVars
  <2>. QED BY <2>1, <2>2, <2>3, StepLine
<1>7. ASSUME NEW t \in Threads, ReadText(t) PROVE LineInv'
  <2>1. PICK r \in DOMAIN reads :
           reads' = [reads EXCEPT ![r].text = << >>] /\ reads[r].step = "read"
    BY <1>7 DEF ReadText, InnermostAt
  <2>2. Steps(r, "read", << >>, reads[r].open)
    BY <2>1, TextSteps
  <2>3. UNCHANGED <<events, requests, slow, asked>>
    BY <1>7 DEF ReadText, desktopVars
  <2>. QED BY <2>1, <2>2, <2>3, StepLine
<1>8. CASE CompositorSets
  <2>1. HandleRequest("set") /\ NewSelection(Head(requests).source, "text")
    BY <1>8 DEF CompositorSets
  <2>2. Head(requests).source \in Sources
    BY <2>1, RequestFacts, MessageFacts
  <2>. QED BY <1>8, <2>1, <2>2, NewSelectionLine DEF CompositorSets
<1>9. CASE DesktopClears \/ \E kind \in {"desktop", "image"} : DesktopCopies(kind)
  <2>1. PICK s \in Sources \cup {NoSource}, mime \in {"text", "other"} : NewSelection(s, mime)
    BY <1>9, NewSourceIsUnmade DEF DesktopClears, DesktopCopies
  <2>2. UNCHANGED <<reads, slow, requests, asked>>
    BY <1>9 DEF DesktopClears, DesktopCopies
  <2>. QED BY <2>1, <2>2, NewSelectionLine
<1>10. CASE CompositorSyncs
  <2>1. PICK e : e = [kind |-> "done", read |-> Head(requests).read]
    OBVIOUS
  <2>2. HandleRequest("sync") /\ events' = Append(events, e)
    BY <1>10, <2>1 DEF CompositorSyncs
  <2>3. e \in Events /\ e.kind = "done" /\ e.read = requests[1].read
    BY <2>1, <2>2, RequestFacts, MessageFacts DEF Events
  <2>4. UNCHANGED <<reads, slow, asked>>
    BY <1>10 DEF CompositorSyncs, desktopVars
  <2>5. /\ Once(Line') /\ Piped(Line') = Piped(Line) /\ Called(Line') = Called(Line)
        /\ \A r : PipeAt(events, 1, r) => PipeAt(events', 1, r)
    BY <2>2, <2>3, PassedOn
  <2>. QED BY <2>4, <2>5, LineStays
<1>11. CASE CompositorAsks
  <2>1. HandleRequest("receive") /\ slow' = slow
    BY <1>11 DEF CompositorAsks
  <2>2. PICK q : q = Head(requests)
    OBVIOUS
  <2>3. PICK r : r = q.read
    OBVIOUS
  <2>4. /\ q = requests[1] /\ r \in DOMAIN reads /\ r \in Nat /\ q.source \in Sources
        /\ r \in Piped(Line) /\ reads[r].open /\ r \notin asked
    BY <2>1, <2>2, <2>3, RequestFacts, MessageFacts, TokenFacts
  <2>5. /\ Piped(Line) \cap asked = {}
        /\ Piped(Line) \cup asked = {p \in DOMAIN reads : reads[p].open}
        /\ Called(Line) = {p \in DOMAIN reads : reads[p].step = "roundtrip"}
        /\ \A p \in Piped(Line) : reads[p].step # "roundtrip" => PipeAt(events, 1, p) /\ slow # "nobody"
    BY DEF LineInv
  <2>6. CASE UNCHANGED <<events, asked>> /\ reads' = [reads EXCEPT ![r].open = FALSE]
    <3>1. /\ Once(Line') /\ Called(Line') = Called(Line) /\ Piped(Line') = {p \in Piped(Line) : p # r}
      BY <2>1, <2>3, <2>4, <2>6, HeadDropped
    <3>2. Steps(r, reads[r].step, reads[r].text, FALSE)
      BY <2>4, <2>6, CloseSteps
    <3>3. /\ DOMAIN reads' = DOMAIN reads
          /\ \A p \in DOMAIN reads : /\ reads'[p].step = reads[p].step
                                     /\ reads'[p].open <=> reads[p].open /\ p # r
      BY <3>2 DEF Steps
    <3>4. Piped(Line') \cup asked' = {p \in DOMAIN reads' : reads'[p].open}
      BY <2>4, <2>5, <2>6, <3>1, <3>3
    <3>5. Called(Line') = {p \in DOMAIN reads' : reads'[p].step = "roundtrip"}
      BY <2>5, <3>1, <3>3
    <3>6. \A p \in Piped(Line') :
            reads'[p].step # "roundtrip" => PipeAt(events', 1, p) /\ slow' # "nobody"
      BY <2>1, <2>5, <2>6, <3>1, <3>3
    <3>7. Piped(Line') \cap asked' = {}
      BY <2>5, <2>6, <3>1
    <3>. QED BY <3>1, <3>4, <3>5, <3>6, <3>7 DEF LineInv
  <2>7. CASE /\ events' = Append(events, [kind |-> "send", source |-> q.source, read |-> q.read])
             /\ UNCHANGED <<reads, asked>>
    <3>1. PICK e : e = [kind |-> "send", source |-> q.source, read |-> q.read]
      OBVIOUS
    <3>2. e \in Events /\ e.kind = "send" /\ e.read = requests[1].read
      BY <2>3, <2>4, <3>1 DEF Events
    <3>3. /\ Once(Line') /\ Piped(Line') = Piped(Line) /\ Called(Line') = Called(Line)
          /\ \A p : PipeAt(events, 1, p) => PipeAt(events', 1, p)
      BY <2>1, <2>7, <3>1, <3>2, PassedOn
    <3>. QED BY <2>1, <2>7, <3>3, LineStays
  <2>8. CASE asked' = asked \cup {r} /\ UNCHANGED <<reads, events>>
    <3>1. /\ Once(Line') /\ Called(Line') = Called(Line) /\ Piped(Line') = {p \in Piped(Line) : p # r}
      BY <2>1, <2>3, <2>4, <2>8, HeadDropped
    <3>2. Piped(Line') \cup asked' = {p \in DOMAIN reads' : reads'[p].open}
      BY <2>4, <2>5, <2>8, <3>1
    <3>3. Called(Line') = {p \in DOMAIN reads' : reads'[p].step = "roundtrip"}
      BY <2>5, <2>8, <3>1
    <3>4. \A p \in Piped(Line') :
            reads'[p].step # "roundtrip" => PipeAt(events', 1, p) /\ slow' # "nobody"
      BY <2>1, <2>5, <2>8, <3>1
    <3>5. Piped(Line') \cap asked' = {}
      BY <2>5, <2>8, <3>1
    <3>. QED BY <3>1, <3>2, <3>3, <3>4, <3>5 DEF LineInv
  <2>. QED BY <1>11, <2>2, <2>3, <2>6, <2>7, <2>8 DEF CompositorAsks
<1>12. CASE DesktopWrites
  <2>1. PICK r \in asked :
          /\ reads' = [reads EXCEPT ![r].text = TextOf(reads[r].source), ![r].open = FALSE]
          /\ asked' = asked \ {r}
    BY <1>12 DEF DesktopWrites
  <2>2. UNCHANGED <<events, requests, slow>>
    BY <1>12 DEF DesktopWrites
  <2>5. /\ Piped(Line) \cap asked = {}
        /\ Piped(Line) \cup asked = {p \in DOMAIN reads : reads[p].open}
        /\ Called(Line) = {p \in DOMAIN reads : reads[p].step = "roundtrip"}
        /\ \A p \in Piped(Line) : reads[p].step # "roundtrip" => PipeAt(events, 1, p) /\ slow # "nobody"
    BY DEF LineInv
  <2>3. r \in DOMAIN reads
    BY <2>5
  <2>4. PICK text : Steps(r, reads[r].step, text, FALSE)
    BY <2>1, <2>3, WriteSteps
  <2>6. /\ DOMAIN reads' = DOMAIN reads
        /\ \A p \in DOMAIN reads : /\ reads'[p].step = reads[p].step
                                   /\ reads'[p].open <=> reads[p].open /\ p # r
    BY <2>4 DEF Steps
  <2>7. Line' = Line
    BY <2>2 DEF Line
  <2>8. Piped(Line') \cup asked' = {p \in DOMAIN reads' : reads'[p].open}
    BY <2>1, <2>5, <2>6, <2>7
  <2>9. Called(Line') = {p \in DOMAIN reads' : reads'[p].step = "roundtrip"}
    BY <2>5, <2>6, <2>7
  <2>10. \A p \in Piped(Line') :
           reads'[p].step # "roundtrip" => PipeAt(events', 1, p) /\ slow' # "nobody"
    BY <2>2, <2>5, <2>6, <2>7
  <2>11. Piped(Line') \cap asked' = {}
    BY <2>1, <2>5, <2>7
  <2>. QED BY <1>0, <2>7, <2>8, <2>9, <2>10, <2>11 DEF LineInv
<1>13. CASE UNCHANGED clipboardVars \/ SendClipboardData \/ GetClipboardData
  BY <1>1, <1>13 DEF clipboardVars, stringVars, desktopVars, SendClipboardData, GetClipboardData
<1>14. ASSUME NEW t \in Threads, TakeSlowly(t) PROVE LineInv'
  BY <1>1, <1>14 DEF TakeSlowly, desktopVars
<1>15. ASSUME NEW t \in Threads, HandleSend(t) \/ HandleDone(t) PROVE LineInv'
  BY <1>15, HandleSendLine, HandleDoneLine
<1>. QED
  BY <1>2, <1>3, <1>4, <1>5, <1>6, <1>7, <1>8, <1>9, <1>10, <1>11, <1>12, <1>13, <1>14, <1>15
     DEF ClipboardNext, GoOn, Handle, Compositor

(* A thread that takes events is not in read().                             *)
LEMMA DispatcherReadsNot ==
  ASSUME BaseTypes, ReadsInv, NEW t \in Threads, MayDispatch(t)
  PROVE  \A r \in DOMAIN reads : reads[r].step = "read" => reads[r].thread # t
BY DEF ReadsInv, MayDispatch

(* The innermost reads stay the innermost.                                  *)
LEMMA ReadsStay ==
  ASSUME BaseTypes, ReadsInv, NEW r \in DOMAIN reads, NEW step, NEW text, NEW isOpen,
         Steps(r, step, text, isOpen),
         isOpen => text = << >> /\ step # "ended",
         reads[r].step # "ended",
         step = "read" => Innermost(reads[r].thread, r) /\ slow # reads[r].thread,
         \A q \in DOMAIN reads : q # r /\ reads[q].step = "read" /\ slow' = reads[q].thread
                                   => slow = reads[q].thread,
         slow' = reads[r].thread => slow = reads[r].thread
  PROVE  ReadsInv'
<1>1. /\ DOMAIN reads' = DOMAIN reads /\ reads'[r].thread = reads[r].thread
      /\ reads'[r].step = step /\ reads'[r].text = text /\ reads'[r].open = isOpen
      /\ \A q \in DOMAIN reads : q # r => reads'[q] = reads[q]
  BY DEF Steps
<1>2. /\ \A q \in DOMAIN reads : reads'[q].thread = reads[q].thread
      /\ \A q \in DOMAIN reads : reads'[q].step # "ended" => reads[q].step # "ended"
  BY <1>1
<1>3. ASSUME NEW q \in DOMAIN reads, Innermost(reads[q].thread, q), reads'[q].step # "ended"
      PROVE  Innermost(reads[q].thread, q)'
  BY <1>1, <1>2, <1>3 DEF Innermost, Running
<1>4. ASSUME NEW q \in DOMAIN reads, reads'[q].step = "read"
      PROVE  Innermost(reads[q].thread, q)' /\ slow' # reads[q].thread
  BY <1>1, <1>3, <1>4 DEF ReadsInv
<1>5. ASSUME NEW q \in DOMAIN reads, reads'[q].open
      PROVE  reads'[q].text = << >> /\ reads'[q].step # "ended"
  BY <1>1, <1>5 DEF ReadsInv
<1>. QED BY <1>1, <1>2, <1>4, <1>5 DEF ReadsInv

(* The threads go on with the reads they have.                              *)
LEMMA ReadsRest ==
  ASSUME BaseTypes, ReadsInv, UNCHANGED reads,
         \A r \in DOMAIN reads : reads[r].step = "read" /\ slow' = reads[r].thread
                                   => slow = reads[r].thread
  PROVE  ReadsInv'
BY DEF ReadsInv, Innermost, Running

(* Every step keeps the reads in order.                                     *)
LEMMA ReadsStep ==
  ASSUME BaseTypes, LineInv, ReadsInv, [ClipboardNext]_clipboardVars
  PROVE  ReadsInv'
<1>0. \A r \in DOMAIN reads : reads[r].thread \in Threads /\ reads[r].thread # "nobody"
  BY ReadFields DEF Threads
<1>1. CASE UNCHANGED <<reads, slow>>
  BY <1>1, ReadsRest
<1>2. ASSUME NEW t \in Threads, NEW kind, Dispatch(t, kind)
      PROVE  \A r \in DOMAIN reads : slow' = reads[r].thread => slow = reads[r].thread
  BY <1>0, <1>2, DispatchFacts
<1>3. ASSUME NEW t \in Threads, NEW kind, Dispatch(t, kind), UNCHANGED reads PROVE ReadsInv'
  BY <1>2, <1>3, ReadsRest
<1>4. ASSUME NEW t \in Threads, TakeSlowly(t) PROVE ReadsInv'
  <2>1. MayDispatch(t) /\ slow' = t /\ UNCHANGED reads
    BY <1>4 DEF TakeSlowly
  <2>2. \A r \in DOMAIN reads : reads[r].step = "read" => reads[r].thread # t
    BY <2>1, DispatcherReadsNot
  <2>. QED BY <2>1, <2>2, ReadsRest
<1>5. ASSUME NEW t \in Threads, HandleOffer(t) \/ HandleCancelled(t) PROVE ReadsInv'
  BY <1>3, <1>5 DEF HandleOffer, HandleCancelled
<1>6. ASSUME NEW t \in Threads, HandleSelection(t) PROVE ReadsInv'
  <2>1. Dispatch(t, "selection")
    BY <1>6 DEF HandleSelection
  <2>2. CASE UNCHANGED reads
    BY <1>3, <2>1, <2>2
  <2>3. CASE events[Turn(t)].source # NoSource /\ ReadSelection(t, events[Turn(t)].source)
    <3>1. PICK s \in Sources : ReadSelection(t, s)
      BY <2>1, <2>3, DispatchFacts, MessageFacts
    <3>2. PICK n \in Nat :
         /\ n \notin DOMAIN reads /\ DOMAIN reads' = DOMAIN reads \cup {n}
         /\ \A r \in DOMAIN reads : r <= n
         /\ \A r \in DOMAIN reads : reads'[r] = reads[r]
         /\ reads' \in Seq(Reads)
         /\ reads'[n].thread = t /\ reads'[n].source = s /\ reads'[n].step = "roundtrip"
         /\ reads'[n].text = << >> /\ reads'[n].open
         /\ [kind |-> "receive", source |-> s, read |-> n] \in Requests
         /\ [kind |-> "sync", source |-> NoSource, read |-> n] \in Requests
         /\ requests' = (requests \o <<[kind |-> "receive", source |-> s, read |-> n]>>)
                          \o <<[kind |-> "sync", source |-> NoSource, read |-> n]>>
      BY <3>1, StartFacts
    <3>3. MayDispatch(t)
      BY <2>1 DEF Dispatch
    <3>4. \A r \in DOMAIN reads : reads[r].step = "read" => reads[r].thread # t
      BY <3>3, DispatcherReadsNot
    <3>5. ASSUME NEW r \in DOMAIN reads, reads[r].step = "read"
          PROVE  Innermost(reads[r].thread, r)' /\ slow' # reads[r].thread
      <4>1. Innermost(reads[r].thread, r) /\ slow # reads[r].thread /\ reads[r].thread # t
        BY <3>4, <3>5 DEF ReadsInv
      <4>2. \A q \in DOMAIN reads' : q \in DOMAIN reads \/ q = n
        BY <3>2
      <4>3. Innermost(reads[r].thread, r)'
        BY <3>2, <4>1, <4>2 DEF Innermost, Running
      <4>. QED BY <1>2, <2>1, <4>1, <4>3
    <3>6. \A r \in DOMAIN reads : reads[r].open => reads[r].text = << >> /\ reads[r].step # "ended"
      BY DEF ReadsInv
    <3>. QED BY <3>2, <3>5, <3>6 DEF ReadsInv
  <2>. QED BY <1>6, <2>2, <2>3 DEF HandleSelection
<1>7. ASSUME NEW t \in Threads, HandleSend(t) PROVE ReadsInv'
  <2>1. Dispatch(t, "send")
    BY <1>7 DEF HandleSend
  <2>2. PICK r : r = events[Turn(t)].read
    OBVIOUS
  <2>3. PICK text : Steps(r, reads[r].step, text, FALSE)
    BY <1>7, <2>2, SendSteps
  <2>4. r \in DOMAIN reads /\ reads[r].open
    BY <2>1, <2>2, DispatchFacts, TokenFacts
  <2>5. /\ reads[r].step # "ended"
        /\ reads[r].step = "read" => Innermost(reads[r].thread, r) /\ slow # reads[r].thread
    BY <2>4 DEF ReadsInv
  <2>. QED BY <1>2, <2>1, <2>3, <2>4, <2>5, ReadsStay
<1>8. ASSUME NEW t \in Threads, HandleDone(t) PROVE ReadsInv'
  <2>1. Dispatch(t, "done")
    BY <1>8 DEF HandleDone
  <2>2. PICK r : r = events[Turn(t)].read
    OBVIOUS
  <2>3. PICK step \in {"clear", "asleep"} : Steps(r, step, reads[r].text, reads[r].open)
    BY <1>8, <2>2, DoneSteps
  <2>4. r \in DOMAIN reads /\ reads[r].step = "roundtrip"
    BY <2>1, <2>2, DispatchFacts, TokenFacts
  <2>5. reads[r].open => reads[r].text = << >>
    BY <2>4 DEF ReadsInv
  <2>. QED BY <1>2, <2>1, <2>3, <2>4, <2>5, ReadsStay
<1>9. ASSUME NEW t \in Threads, Wake(t) \/ RoundtripReturns(t) \/ ReadEnds(t) PROVE ReadsInv'
  <2>0. UNCHANGED slow
    BY <1>9 DEF Wake, RoundtripReturns, ReadEnds
  <2>1. PICK r \in DOMAIN reads, step \in {"clear", "read", "ended"} :
          /\ reads' = [reads EXCEPT ![r].step = step] /\ reads[r].step # "ended"
          /\ step = "read" => Innermost(reads[r].thread, r) /\ slow # reads[r].thread
          /\ reads[r].open => step # "ended"
    BY <1>9 DEF Wake, RoundtripReturns, ReadEnds, InnermostAt, Innermost
  <2>2. Steps(r, step, reads[r].text, reads[r].open)
    BY <2>1, ReadSteps
  <2>3. reads[r].open => reads[r].text = << >>
    BY DEF ReadsInv
  <2>. QED BY <2>0, <2>1, <2>2, <2>3, ReadsStay
<1>10. ASSUME NEW t \in Threads, ReadText(t) PROVE ReadsInv'
  <2>1. PICK r \in DOMAIN reads :
           reads' = [reads EXCEPT ![r].text = << >>] /\ reads[r].step = "read"
    BY <1>10 DEF ReadText, InnermostAt
  <2>2. Steps(r, reads[r].step, << >>, reads[r].open)
    BY <2>1, TextSteps
  <2>3. UNCHANGED slow
    BY <1>10 DEF ReadText
  <2>4. Innermost(reads[r].thread, r) /\ slow # reads[r].thread
    BY <2>1 DEF ReadsInv
  <2>. QED BY <2>1, <2>2, <2>3, <2>4, ReadsStay
<1>11. CASE CompositorAsks
  <2>1. HandleRequest("receive") /\ slow' = slow
    BY <1>11 DEF CompositorAsks
  <2>2. PICK r : r = Head(requests).read
    OBVIOUS
  <2>3. r \in DOMAIN reads /\ reads[r].open
    BY <2>1, <2>2, RequestFacts, TokenFacts
  <2>4. CASE reads' = [reads EXCEPT ![r].open = FALSE]
    <3>1. Steps(r, reads[r].step, reads[r].text, FALSE)
      BY <2>3, <2>4, CloseSteps
    <3>2. /\ reads[r].step # "ended"
          /\ reads[r].step = "read" => Innermost(reads[r].thread, r) /\ slow # reads[r].thread
      BY <2>3 DEF ReadsInv
    <3>. QED BY <2>1, <2>3, <3>1, <3>2, ReadsStay
  <2>5. CASE UNCHANGED reads
    BY <1>1, <2>1, <2>5
  <2>. QED BY <1>11, <2>2, <2>4, <2>5 DEF CompositorAsks
<1>12. CASE DesktopWrites
  <2>1. PICK r \in asked :
          reads' = [reads EXCEPT ![r].text = TextOf(reads[r].source), ![r].open = FALSE]
    BY <1>12 DEF DesktopWrites
  <2>2. r \in DOMAIN reads /\ reads[r].open
    BY DEF LineInv
  <2>3. PICK text : Steps(r, reads[r].step, text, FALSE)
    BY <2>1, <2>2, WriteSteps
  <2>4. /\ reads[r].step # "ended"
        /\ reads[r].step = "read" => Innermost(reads[r].thread, r) /\ slow # reads[r].thread
    BY <2>2 DEF ReadsInv
  <2>5. UNCHANGED slow
    BY <1>12 DEF DesktopWrites
  <2>. QED BY <2>2, <2>3, <2>4, <2>5, ReadsStay
<1>. QED
  BY <1>1, <1>4, <1>5, <1>6, <1>7, <1>8, <1>9, <1>10, <1>11, <1>12
     DEF ClipboardNext, GoOn, Handle, Compositor, SendClipboardData, SetSelection, GetClipboardData,
         CompositorSets, CompositorSyncs, DesktopClears, DesktopCopies, clipboardVars

(* No step names a source that nobody made.                                 *)
LEMMA MadeStep ==
  ASSUME BaseTypes, LineInv, SourcesMade, [ClipboardNext]_clipboardVars
  PROVE  SourcesMade'
<1>0. /\ OwnersStay
      /\ binder \in Sources \cup {NoSource} /\ selection \in Sources \cup {NoSource}
      /\ \A k \in DOMAIN requests : requests[k].kind = "set" => requests[k].source \in Sources
      /\ \A k \in DOMAIN events :
           events[k].kind = "selection" => events[k].source \in Sources \cup {NoSource}
  BY OwnersStayInStep, LineFacts, MessageFacts DEF BaseTypes
<1>1. binder' # NoSource => owner'[binder'] = "android"
  <2>1. CASE UNCHANGED binder
    BY <1>0, <2>1 DEF SourcesMade, OwnersStay
  <2>2. CASE SendClipboardData
    <3>1. NewSource \in Sources /\ binder' = NewSource
          /\ owner' = [owner EXCEPT ![NewSource] = "android"]
      BY <2>2, NewSourceIsUnmade DEF SendClipboardData
    <3>. QED BY <3>1 DEF BaseTypes
  <2>3. CASE SetSelection
    BY <2>3 DEF SetSelection
  <2>. QED
    BY <2>1, <2>2, <2>3
       DEF ClipboardNext, GetClipboardData, TakeSlowly, GoOn, Handle, Wake,
           HandleOffer, HandleSelection, HandleSend, HandleCancelled, HandleDone,
           RoundtripReturns, ReadText, ReadEnds, Compositor, CompositorSets, CompositorAsks,
           CompositorSyncs, DesktopWrites, DesktopClears, DesktopCopies, clipboardVars
<1>2. ASSUME NEW k \in DOMAIN requests', requests'[k].kind = "set"
      PROVE  owner'[requests'[k].source] = "android"
  <2>1. CASE \E l \in DOMAIN requests : requests[l] = requests'[k]
    BY <1>0, <1>2, <2>1 DEF SourcesMade, OwnersStay
  <2>2. CASE UNCHANGED requests \/ \E kind : HandleRequest(kind)
    BY <2>1, <2>2, RequestFacts
  <2>3. CASE SetSelection
    <3>1. PICK e : e = [kind |-> "set", source |-> binder]
      OBVIOUS
    <3>2. e \in Requests /\ requests' = Append(requests, e) /\ e.source = binder /\ binder # NoSource
          /\ UNCHANGED owner
      BY <2>3, <3>1 DEF SetSelection, Requests, BaseTypes, desktopVars
    <3>3. requests'[k] = e \/ \E l \in DOMAIN requests : requests[l] = requests'[k]
      <4>1. requests \in Seq(Requests)
        BY DEF BaseTypes
      <4>2. /\ DOMAIN requests' = DOMAIN requests \cup {Len(requests) + 1}
            /\ \A l \in DOMAIN requests : requests'[l] = requests[l]
            /\ requests'[Len(requests) + 1] = e
        BY <3>2, <4>1, AppendFacts
      <4>. QED BY <1>2, <4>2
    <3>. QED BY <2>1, <3>2, <3>3 DEF SourcesMade
  <2>4. ASSUME NEW t \in Threads, HandleSelection(t), ~UNCHANGED requests
        PROVE  \E l \in DOMAIN requests : requests[l] = requests'[k]
    <3>1. Dispatch(t, "selection") /\ events[Turn(t)].source # NoSource
          /\ ReadSelection(t, events[Turn(t)].source)
      BY <2>4 DEF HandleSelection
    <3>2. PICK s \in Sources : ReadSelection(t, s)
      BY <3>1, DispatchFacts, MessageFacts
    <3>3. PICK n \in Nat :
         /\ n \notin DOMAIN reads /\ DOMAIN reads' = DOMAIN reads \cup {n}
         /\ \A r \in DOMAIN reads : r <= n
         /\ \A r \in DOMAIN reads : reads'[r] = reads[r]
         /\ reads' \in Seq(Reads)
         /\ reads'[n].thread = t /\ reads'[n].source = s /\ reads'[n].step = "roundtrip"
         /\ reads'[n].text = << >> /\ reads'[n].open
         /\ [kind |-> "receive", source |-> s, read |-> n] \in Requests
         /\ [kind |-> "sync", source |-> NoSource, read |-> n] \in Requests
         /\ requests' = (requests \o <<[kind |-> "receive", source |-> s, read |-> n]>>)
                          \o <<[kind |-> "sync", source |-> NoSource, read |-> n]>>
      BY <3>2, StartFacts
    <3>4. PICK a, b \in Requests : requests' = (requests \o <<a>>) \o <<b>>
                                   /\ a.kind = "receive" /\ b.kind = "sync"
      BY <3>3
    <3>5. requests \in Seq(Requests)
      BY DEF BaseTypes
    <3>6. PICK u \in Seq(Requests) : u = requests \o <<a>>
      <4>1. requests \o <<a>> \in Seq(Requests)
        BY <3>5
      <4>. QED BY <4>1
    <3>7. requests' = Append(u, b) /\ u = Append(requests, a)
      BY <3>4, <3>5, <3>6
    <3>8. \A l \in DOMAIN u : (l \in DOMAIN requests /\ u[l] = requests[l]) \/ u[l] = a
      BY <3>5, <3>7, AppendFacts
    <3>9. \A l \in DOMAIN requests' : (l \in DOMAIN u /\ requests'[l] = u[l]) \/ requests'[l] = b
      BY <3>7, AppendFacts
    <3>. QED BY <1>2, <3>4, <3>8, <3>9
  <2>. QED
    BY <2>1, <2>2, <2>3, <2>4
       DEF ClipboardNext, SendClipboardData, GetClipboardData, TakeSlowly, GoOn, Handle, Wake,
           HandleOffer, HandleSend, HandleCancelled, HandleDone,
           RoundtripReturns, ReadText, ReadEnds, Compositor, CompositorSets, CompositorAsks,
           CompositorSyncs, DesktopWrites, DesktopClears, DesktopCopies, clipboardVars
<1>. DEFINE Known(s) == s # NoSource => owner'[s] # "nobody"
<1>3. ASSUME NEW s \in Sources \cup {NoSource}, NEW mime \in {"text", "other"},
             NewSelection(s, mime), Known(s)
      PROVE  /\ Known(selection')
             /\ \A k \in DOMAIN events' : events'[k].kind = "selection" => Known(events'[k].source)
  <2>1. Known(selection')
    BY <1>3 DEF NewSelection
  <2>2. PICK last \in DOMAIN events' :
              /\ events'[last].source = s
              /\ \A k \in DOMAIN events' : k \notin DOMAIN events /\ k # last =>
                   \/ events'[k].kind = "cancelled"
                   \/ k + 1 = last /\ events'[k].kind = "offer"
    BY <1>3, NewEvents
  <2>3. \A k \in DOMAIN events : events'[k] = events[k]
    BY <1>3, NewEvents
  <2>. QED BY <1>0, <1>3, <2>1, <2>2, <2>3 DEF SourcesMade, OwnersStay
<1>4. /\ Known(selection')
      /\ \A k \in DOMAIN events' : events'[k].kind = "selection" => Known(events'[k].source)
  <2>1. CASE CompositorSets
    <3>1. HandleRequest("set") /\ NewSelection(Head(requests).source, "text")
      BY <2>1 DEF CompositorSets
    <3>2. Head(requests).source \in Sources /\ Known(Head(requests).source)
      <4>1. /\ Head(requests) = requests[1] /\ 1 \in DOMAIN requests /\ requests[1].kind = "set"
        BY <3>1, RequestFacts
      <4>2. requests[1].source \in Sources /\ owner[requests[1].source] = "android"
        BY <1>0, <4>1 DEF SourcesMade
      <4>3. owner'[requests[1].source] = "android"
        BY <1>0, <4>2 DEF OwnersStay
      <4>. QED BY <4>1, <4>2, <4>3
    <3>. QED BY <1>3, <3>1, <3>2
  <2>2. ASSUME NEW kind \in {"desktop", "image"}, DesktopCopies(kind)
        PROVE  /\ Known(selection')
               /\ \A k \in DOMAIN events' : events'[k].kind = "selection" => Known(events'[k].source)
    <3>1. NewSource \in Sources /\ owner' = [owner EXCEPT ![NewSource] = kind]
      BY <2>2, NewSourceIsUnmade DEF DesktopCopies
    <3>2. Known(NewSource)
      BY <3>1 DEF BaseTypes
    <3>. QED BY <1>3, <2>2, <3>1, <3>2 DEF DesktopCopies
  <2>3. CASE DesktopClears
    BY <1>3, <2>3 DEF DesktopClears
  <2>4. CASE UNCHANGED selection /\ \A k \in DOMAIN events' : events'[k].kind = "selection" =>
               \E l \in DOMAIN events : events[l].kind = "selection" /\ events[l].source = events'[k].source
    BY <1>0, <2>4 DEF SourcesMade, OwnersStay
  <2>5. CASE UNCHANGED <<selection, events>>
    BY <2>4, <2>5
  <2>6. ASSUME NEW t \in Threads, NEW kind, Dispatch(t, kind), events' = EventsLeft(t),
               UNCHANGED selection
        PROVE  /\ Known(selection')
               /\ \A k \in DOMAIN events' : events'[k].kind = "selection" => Known(events'[k].source)
    BY <2>4, <2>6, DispatchFacts
  <2>7. ASSUME NEW t \in Threads, HandleCancelled(t)
        PROVE  /\ Known(selection')
               /\ \A k \in DOMAIN events' : events'[k].kind = "selection" => Known(events'[k].source)
    <3>1. Dispatch(t, "cancelled") /\ UNCHANGED selection
      BY <2>7 DEF HandleCancelled, desktopVars
    <3>2. CASE events' = EventsLeft(t)
      BY <2>6, <3>1, <3>2
    <3>3. CASE /\ SendsOf(t, events[Turn(t)].source)
               /\ \E s \in Sources \cup {NoSource} : events' = [EventsLeft(t) EXCEPT ![1].source = s]
      <4>1. /\ DOMAIN events' = DOMAIN EventsLeft(t) /\ events'[1].kind = "send"
            /\ \A k \in DOMAIN events' : k # 1 => events'[k] = EventsLeft(t)[k]
        BY <3>1, <3>3, CancelledFacts
      <4>2. \A k \in DOMAIN EventsLeft(t) :
              \E l \in DOMAIN events : EventsLeft(t)[k] = events[l]
        BY <3>1, DispatchFacts
      <4>3. \A k \in DOMAIN events' : events'[k].kind = "selection" =>
              \E l \in DOMAIN events :
                events[l].kind = "selection" /\ events[l].source = events'[k].source
        BY <4>1, <4>2
      <4>. QED BY <2>4, <3>1, <4>3
    <3>. QED BY <2>7, <3>2, <3>3 DEF HandleCancelled
  <2>8. ASSUME NEW e \in Events, e.kind # "selection", events' = Append(events, e), UNCHANGED selection
        PROVE  /\ Known(selection')
               /\ \A k \in DOMAIN events' : events'[k].kind = "selection" => Known(events'[k].source)
    BY <2>4, <2>8, OneEvent
  <2>9. CASE CompositorAsks
    <3>1. HandleRequest("receive") /\ UNCHANGED selection
      BY <2>9 DEF CompositorAsks
    <3>2. [kind |-> "send", source |-> Head(requests).source, read |-> Head(requests).read] \in Events
      BY <3>1, RequestFacts, MessageFacts DEF Events
    <3>. QED BY <2>5, <2>8, <2>9, <3>1, <3>2 DEF CompositorAsks
  <2>10. CASE CompositorSyncs
    <3>1. HandleRequest("sync") /\ UNCHANGED selection
      BY <2>10 DEF CompositorSyncs, desktopVars
    <3>2. [kind |-> "done", read |-> Head(requests).read] \in Events
      BY <3>1, RequestFacts, MessageFacts DEF Events
    <3>. QED BY <2>8, <2>10, <3>1, <3>2 DEF CompositorSyncs
  <2>11. ASSUME NEW t \in Threads, HandleOffer(t) \/ HandleSelection(t) \/ HandleSend(t) \/ HandleDone(t)
         PROVE  /\ Known(selection')
                /\ \A k \in DOMAIN events' : events'[k].kind = "selection" => Known(events'[k].source)
    BY <2>6, <2>11 DEF HandleOffer, HandleSelection, HandleSend, HandleDone, desktopVars
  <2>. HIDE DEF Known
  <2>. QED
    BY <2>1, <2>2, <2>3, <2>5, <2>7, <2>9, <2>10, <2>11
       DEF ClipboardNext, SendClipboardData, SetSelection, GetClipboardData, TakeSlowly, GoOn, Handle,
           Wake, RoundtripReturns, ReadText, ReadEnds, Compositor, DesktopWrites,
           clipboardVars, desktopVars
<1>. QED BY <1>1, <1>2, <1>4 DEF SourcesMade

-----------------------------------------------------------------------------
(* What a handler leaves of the offers and selections.                      *)
LEMMA HandlerOffers ==
  ASSUME BaseTypes, SourcesMade, OffersInv, OwnersStay, UNCHANGED selection,
         NEW t \in Threads, NEW kind, Dispatch(t, kind),
         DOMAIN events' = DOMAIN EventsLeft(t),
         \A k \in DOMAIN events' :
           /\ events'[k].kind = EventsLeft(t)[k].kind
           /\ events'[k] = EventsLeft(t)[k] \/ events'[k].kind = "send",
         IF kind \in {"offer", "selection"} THEN slow # "nobody" => overtaken'
         ELSE UNCHANGED <<mimeTypes, overtaken>>,
         kind = "offer" => mimeTypes' = mimeTypes \cup {events[Turn(t)].mime}
  PROVE  OffersInv'
<1>. DEFINE i == Turn(t)
            e == EventsLeft(t)
<1>1. /\ i \in DOMAIN events /\ events[i].kind = kind
      /\ DOMAIN events \subseteq Nat /\ DOMAIN e \subseteq Nat
      /\ \/ i = 1 /\ slow' = "nobody"
         \/ i = 2 /\ slow # "nobody" /\ slow' = slow /\ 1 \in DOMAIN e
      /\ \A k \in DOMAIN e :
           From(i, k) \in DOMAIN events /\ From(i, k) # i /\ e[k] = events[From(i, k)]
      /\ \A k \in DOMAIN events : k # i => To(i, k) \in DOMAIN e /\ e[To(i, k)] = events[k]
  <2>1. \A s \in Threads : s # "nobody"
    BY DEF Threads
  <2>. QED BY <2>1, DispatchFacts
<1>1a. \A k \in DOMAIN e : k >= 1 /\ k \in Nat
  <2>1. e \in Seq(Events)
    BY DispatchFacts
  <2>. QED BY <2>1
<1>. HIDE DEF i, e
<1>2. /\ DOMAIN events' = DOMAIN e
      /\ \A k \in DOMAIN events' : events'[k].kind = e[k].kind
      /\ \A k \in DOMAIN events' : events'[k] = e[k] \/ events'[k].kind = "send"
  BY DEF e
<1>3. \A k \in DOMAIN events' :
        /\ From(i, k) \in DOMAIN events /\ From(i, k) \in Nat
        /\ events'[k].kind = events[From(i, k)].kind
        /\ events'[k].kind # "send" => events'[k] = events[From(i, k)]
  BY <1>1, <1>2
<1>4. \A k \in DOMAIN events : k # i /\ k \in Nat =>
        To(i, k) \in DOMAIN events' /\ events'[To(i, k)].kind = events[k].kind
  BY <1>1, <1>2
<1>5. \A k : IsSelection(k) /\ events[k].source # NoSource =>
        owner'[events[k].source] = owner[events[k].source]
  <2>1. \A k : IsSelection(k) => events[k].source \in Sources \cup {NoSource}
    BY LineFacts, MessageFacts DEF IsSelection
  <2>. QED BY <2>1 DEF SourcesMade, OwnersStay, IsSelection
<1>6. SelectionsFit'
  <2>1. SUFFICES ASSUME NEW k \in DOMAIN events', events'[k].kind = "selection",
                        events'[k].source # NoSource
                 PROVE  IF k = 1 THEN overtaken' \/ (MimeOf(events[k].source))' \in mimeTypes'
                        ELSE \/ /\ events'[k - 1].kind = "offer"
                                /\ events'[k - 1].mime = (MimeOf(events[k].source))'
                             \/ InHand(k - 1)' /\ overtaken'
    BY DEF SelectionsFit, IsSelection
  <2>2. PICK j : j = From(i, k)
    OBVIOUS
  <2>3. /\ j \in DOMAIN events /\ j \in Nat /\ IsSelection(j) /\ events'[k] = events[j] /\ k >= 1
        /\ k \in Nat
    BY <1>1a, <1>2, <1>3, <2>1, <2>2 DEF IsSelection
  <2>4. PICK mime : mime = MimeOf(events[j].source)
    OBVIOUS
  <2>5. (MimeOf(events[k].source))' = mime
    BY <1>5, <2>1, <2>3, <2>4 DEF MimeOf
  <2>6. IF j = 1 THEN overtaken \/ mime \in mimeTypes
        ELSE \/ events[j - 1].kind = "offer" /\ events[j - 1].mime = mime
             \/ InHand(j - 1) /\ overtaken
    BY <2>1, <2>3, <2>4 DEF OffersInv, SelectionsFit
  <2>7. CASE k = 1 /\ i = 1
    <3>1. j # 1 /\ j - 1 = i
      BY <2>2, <2>7 DEF From
    <3>2. \/ events[j - 1].kind = "offer" /\ events[j - 1].mime = mime
          \/ InHand(j - 1) /\ overtaken
      BY <2>6, <3>1
    <3>3. \/ events[i].kind = "offer" /\ events[i].mime = mime
          \/ slow # "nobody" /\ overtaken
      BY <3>1, <3>2 DEF InHand
    <3>. QED BY <1>1, <2>5, <2>7, <3>3 DEF i
  <2>8. CASE k = 1 /\ i = 2
    <3>1. j = 1
      BY <2>2, <2>8 DEF From
    <3>. QED BY <1>1, <2>5, <2>6, <2>8, <3>1
  <2>9. CASE k # 1 /\ ~(i = 2 /\ k = 2)
    <3>1. /\ j = k + 1 /\ j # 1 /\ j - 1 = k /\ ~InHand(j - 1) /\ k - 1 \in Nat /\ From(i, k - 1) = j - 1
      BY <1>1, <2>2, <2>3, <2>9 DEF From, InHand
    <3>2. events[j - 1].kind = "offer" /\ events[j - 1].mime = mime
      BY <2>6, <3>1
    <3>3. /\ k \in DOMAIN events /\ k # i
      <4>1. PICK n \in Nat : DOMAIN events = 1..n
        <5>1. events \in Seq(Events)
          BY DEF BaseTypes
        <5>. QED BY <5>1
      <4>. QED BY <1>1, <2>3, <2>9, <3>1, <4>1
    <3>4. To(i, k) = k - 1
      BY <1>1, <2>3, <2>9 DEF To
    <3>5. k - 1 \in DOMAIN events' /\ events'[k - 1].kind = "offer"
      BY <1>4, <2>3, <3>1, <3>2, <3>3, <3>4
    <3>6. events'[k - 1] = events[k]
      BY <1>3, <3>1, <3>5
    <3>. QED BY <2>5, <2>9, <3>1, <3>2, <3>5, <3>6
  <2>10. CASE i = 2 /\ k = 2
    <3>1. j = 3 /\ j - 1 = i /\ ~InHand(j - 1)
      BY <2>2, <2>10 DEF From, InHand
    <3>2. events[i].kind = "offer"
      BY <2>6, <2>10, <3>1
    <3>3. overtaken' /\ slow' # "nobody"
      BY <1>1, <2>10, <3>2
    <3>. QED BY <2>10, <3>3 DEF InHand
  <2>. QED BY <1>1, <2>7, <2>8, <2>9, <2>10
<1>7. ASSUME NEW k \in DOMAIN events', ~InHand(k)'
      PROVE  /\ From(i, k) = k + 1 /\ k \in Nat /\ k + 1 \in DOMAIN events /\ ~InHand(k + 1) /\ k + 1 # i
             /\ events'[k].kind = events[k + 1].kind
             /\ events'[k].kind # "send" => events'[k] = events[k + 1]
             /\ \A l \in DOMAIN events : l > k + 1 =>
                  /\ l \in Nat /\ l - 1 > k /\ l - 1 \in DOMAIN events'
                  /\ events'[l - 1].kind = events[l].kind
             /\ \A l \in DOMAIN events' : l > k =>
                  /\ l \in Nat /\ l + 1 > k + 1 /\ l + 1 \in DOMAIN events
                  /\ events'[l].kind = events[l + 1].kind
  <2>1. k \in Nat /\ k >= 1 /\ From(i, k) = k + 1 /\ ~InHand(k + 1) /\ k + 1 # i
    BY <1>1, <1>1a, <1>2, <1>7 DEF From, InHand
  <2>2. ASSUME NEW l \in DOMAIN events, l > k + 1
        PROVE  /\ l \in Nat /\ l - 1 > k /\ l - 1 \in DOMAIN events'
               /\ events'[l - 1].kind = events[l].kind
    <3>1. l \in Nat /\ l - 1 > k /\ To(i, l) = l - 1 /\ l # i
      BY <1>1, <2>1, <2>2 DEF To
    <3>. QED BY <1>4, <3>1
  <2>3. ASSUME NEW l \in DOMAIN events', l > k
        PROVE  /\ l \in Nat /\ l + 1 > k + 1 /\ l + 1 \in DOMAIN events
               /\ events'[l].kind = events[l + 1].kind
    <3>1. l \in Nat /\ l + 1 > k + 1 /\ From(i, l) = l + 1
      BY <1>1, <1>1a, <1>2, <2>1, <2>3 DEF From
    <3>. QED BY <1>3, <3>1
  <2>. QED BY <1>3, <2>1, <2>2, <2>3
<1>8. SelectionsFollow'
  <2>1. SUFFICES ASSUME NEW k \in DOMAIN events', ~InHand(k)'
                 PROVE  /\ events'[k].kind = "offer" => IsSelection(k + 1)'
                        /\ events'[k].kind = "cancelled" =>
                             \E l \in DOMAIN events' : l > k /\ IsSelection(l)'
    BY DEF SelectionsFollow
  <2>2. ASSUME events'[k].kind = "offer" PROVE IsSelection(k + 1)'
    <3>1. IsSelection((k + 1) + 1)
      BY <1>7, <2>1, <2>2 DEF OffersInv, SelectionsFollow
    <3>2. (k + 1) + 1 > k + 1 /\ ((k + 1) + 1) - 1 = k + 1
      BY <1>7, <2>1
    <3>. QED BY <1>7, <2>1, <3>1, <3>2 DEF IsSelection
  <2>3. ASSUME events'[k].kind = "cancelled"
        PROVE  \E l \in DOMAIN events' : l > k /\ IsSelection(l)'
    <3>1. PICK l \in DOMAIN events : l > k + 1 /\ IsSelection(l)
      BY <1>7, <2>1, <2>3 DEF OffersInv, SelectionsFollow
    <3>. QED BY <1>7, <2>1, <3>1 DEF IsSelection
  <2>. QED BY <2>2, <2>3
<1>9. LastIsSelection'
  <2>1. SUFFICES ASSUME NEW k \in DOMAIN events', events'[k].kind = "selection", ~InHand(k)',
                        \A j \in DOMAIN events' : k < j => events'[j].kind # "selection"
                 PROVE  events'[k].source = selection'
    BY DEF LastIsSelection, IsSelection
  <2>2. \A l \in DOMAIN events : k + 1 < l => events[l].kind # "selection"
    <3>1. SUFFICES ASSUME NEW l \in DOMAIN events, k + 1 < l PROVE events[l].kind # "selection"
      OBVIOUS
    <3>2. l \in Nat /\ k \in Nat
      BY <1>1, <1>7, <2>1
    <3>3. l > k + 1
      BY <3>1, <3>2
    <3>4. l - 1 > k /\ l - 1 \in DOMAIN events' /\ events'[l - 1].kind = events[l].kind
      BY <1>7, <2>1, <3>3
    <3>5. k < l - 1
      BY <3>2, <3>4
    <3>. QED BY <2>1, <3>4, <3>5
  <2>3. events[k + 1].source = selection
    BY <1>7, <2>1, <2>2 DEF OffersInv, LastIsSelection, IsSelection
  <2>. QED BY <1>7, <2>1, <2>3
<1>. QED BY <1>6, <1>8, <1>9 DEF OffersInv

(* A new selection comes with its offer and is the last one.                *)
LEMMA NewSelectionOffers ==
  ASSUME BaseTypes, SourcesMade, OffersInv, OwnersStay,
         NEW s \in Sources \cup {NoSource}, NEW mime \in {"text", "other"},
         NewSelection(s, mime), UNCHANGED <<mimeTypes, slow, overtaken>>,
         s # NoSource => mime = IF owner'[s] = "image" THEN "other" ELSE "text"
  PROVE  OffersInv'
<1>1. PICK last \in DOMAIN events' :
              /\ last \notin DOMAIN events /\ \A k \in DOMAIN events' : k <= last
              /\ events'[last].kind = "selection" /\ events'[last].source = s
              /\ \A k \in DOMAIN events' : k \notin DOMAIN events /\ k # last =>
                   \/ events'[k].kind = "cancelled"
                   \/ k + 1 = last /\ events'[k].kind = "offer"
              /\ s # NoSource =>
                   \E k \in DOMAIN events' :
                     /\ k \notin DOMAIN events /\ k = last - 1 /\ last # 1
                     /\ events'[k].kind = "offer" /\ events'[k].mime = mime
  BY NewEvents
<1>2. /\ DOMAIN events' \subseteq Nat /\ DOMAIN events \subseteq DOMAIN events'
      /\ \A k \in DOMAIN events : events'[k] = events[k]
  BY NewEvents
<1>3. selection' = s
  BY DEF NewSelection
<1>4. \A k : IsSelection(k) /\ events[k].source # NoSource =>
        owner'[events[k].source] = owner[events[k].source]
  <2>1. \A k : IsSelection(k) => events[k].source \in Sources \cup {NoSource}
    BY LineFacts, MessageFacts DEF IsSelection
  <2>. QED BY <2>1 DEF SourcesMade, OwnersStay, IsSelection
<1>5. PICK n \in Nat : DOMAIN events = 1..n
  <2>1. events \in Seq(Events)
    BY DEF BaseTypes
  <2>. QED BY <2>1
<1>6. SelectionsFit'
  <2>1. SUFFICES ASSUME NEW k \in DOMAIN events', events'[k].kind = "selection",
                        events'[k].source # NoSource
                 PROVE  IF k = 1 THEN overtaken' \/ (MimeOf(events[k].source))' \in mimeTypes'
                        ELSE \/ /\ events'[k - 1].kind = "offer"
                                /\ events'[k - 1].mime = (MimeOf(events[k].source))'
                             \/ InHand(k - 1)' /\ overtaken'
    BY DEF SelectionsFit, IsSelection
  <2>2. CASE k = last
    <3>1. last # 1 /\ events'[k - 1].kind = "offer" /\ events'[k - 1].mime = mime
      BY <1>1, <2>1, <2>2
    <3>2. (MimeOf(events[k].source))' = mime
      BY <1>1, <2>1, <2>2 DEF MimeOf
    <3>. QED BY <2>2, <3>1, <3>2
  <2>3. CASE k # last
    <3>1. k \in DOMAIN events
      BY <1>1, <2>1, <2>3
    <3>2. events'[k] = events[k] /\ IsSelection(k) /\ (MimeOf(events[k].source))' = MimeOf(events[k].source)
      BY <1>2, <1>4, <2>1, <3>1 DEF MimeOf, IsSelection
    <3>3. IF k = 1 THEN overtaken \/ MimeOf(events[k].source) \in mimeTypes
          ELSE \/ events[k - 1].kind = "offer" /\ events[k - 1].mime = MimeOf(events[k].source)
               \/ InHand(k - 1) /\ overtaken
      BY <2>1, <3>1, <3>2 DEF OffersInv, SelectionsFit
    <3>4. k # 1 => k - 1 \in DOMAIN events
      BY <1>5, <3>1
    <3>5. k # 1 => events'[k - 1] = events[k - 1]
      BY <1>2, <3>4
    <3>6. k # 1 /\ InHand(k - 1) => InHand(k - 1)'
      BY DEF InHand
    <3>. QED BY <3>2, <3>3, <3>5, <3>6
  <2>. QED BY <2>2, <2>3
<1>7. SelectionsFollow'
  <2>1. SUFFICES ASSUME NEW k \in DOMAIN events', ~InHand(k)'
                 PROVE  /\ events'[k].kind = "offer" => IsSelection(k + 1)'
                        /\ events'[k].kind = "cancelled" =>
                             \E l \in DOMAIN events' : l > k /\ IsSelection(l)'
    BY DEF SelectionsFollow
  <2>2. IsSelection(last)'
    BY <1>1 DEF IsSelection
  <2>3. k # last => last > k
    BY <1>1, <1>2
  <2>4. CASE k \in DOMAIN events
    <3>1. ~InHand(k)
      BY <2>1 DEF InHand
    <3>2. events[k].kind = "offer" => IsSelection(k + 1)
      BY <2>4, <3>1 DEF OffersInv, SelectionsFollow
    <3>3. IsSelection(k + 1) => IsSelection(k + 1)'
      BY <1>2 DEF IsSelection
    <3>4. events'[k].kind = events[k].kind /\ k # last
      BY <1>1, <1>2, <2>4
    <3>. QED BY <2>2, <2>3, <3>2, <3>3, <3>4
  <2>5. CASE k \notin DOMAIN events
    BY <1>1, <2>1, <2>2, <2>3, <2>5
  <2>. QED BY <2>4, <2>5
<1>8. LastIsSelection'
  <2>1. SUFFICES ASSUME NEW k \in DOMAIN events', events'[k].kind = "selection",
                        \A j \in DOMAIN events' : k < j => events'[j].kind # "selection"
                 PROVE  events'[k].source = selection'
    BY DEF LastIsSelection, IsSelection
  <2>2. k = last
    BY <1>1, <1>2, <2>1
  <2>. QED BY <1>1, <1>3, <2>2
<1>. QED BY <1>6, <1>7, <1>8 DEF OffersInv

(* Events that are neither offers nor selections.                           *)
LEMMA OffersRest ==
  ASSUME BaseTypes, SourcesMade, OffersInv, OwnersStay,
         UNCHANGED <<selection, mimeTypes, overtaken>>, slow # "nobody" => slow' # "nobody",
         \/ UNCHANGED events
         \/ \E e \in Events : e.kind \in {"send", "done"} /\ events' = Append(events, e)
  PROVE  OffersInv'
<1>1. /\ DOMAIN events \subseteq DOMAIN events' /\ \A k \in DOMAIN events : events'[k] = events[k]
      /\ \A k \in DOMAIN events' : k \in DOMAIN events \/ events'[k].kind \in {"send", "done"}
  BY OneEvent
<1>2. PICK n \in Nat : DOMAIN events = 1..n
  <2>1. events \in Seq(Events)
    BY DEF BaseTypes
  <2>. QED BY <2>1
<1>3. \A k : InHand(k) => InHand(k)'
  BY DEF InHand
<1>4. \A k : IsSelection(k) <=> IsSelection(k)'
  BY <1>1 DEF IsSelection
<1>5. \A k : IsSelection(k) /\ events[k].source # NoSource =>
        (MimeOf(events[k].source))' = MimeOf(events[k].source)
  <2>1. \A k : IsSelection(k) => events[k].source \in Sources \cup {NoSource}
    BY LineFacts, MessageFacts DEF IsSelection
  <2>. QED BY <1>1, <2>1 DEF SourcesMade, OwnersStay, IsSelection, MimeOf
<1>6. SelectionsFit'
  <2>1. SUFFICES ASSUME NEW k \in DOMAIN events', IsSelection(k)', events'[k].source # NoSource
                 PROVE  IF k = 1 THEN overtaken' \/ (MimeOf(events[k].source))' \in mimeTypes'
                        ELSE \/ /\ events'[k - 1].kind = "offer"
                                /\ events'[k - 1].mime = (MimeOf(events[k].source))'
                             \/ InHand(k - 1)' /\ overtaken'
    BY DEF SelectionsFit
  <2>2. k \in DOMAIN events /\ IsSelection(k) /\ events'[k] = events[k]
    BY <1>1, <1>4, <2>1 DEF IsSelection
  <2>3. IF k = 1 THEN overtaken \/ MimeOf(events[k].source) \in mimeTypes
        ELSE \/ events[k - 1].kind = "offer" /\ events[k - 1].mime = MimeOf(events[k].source)
             \/ InHand(k - 1) /\ overtaken
    BY <2>1, <2>2 DEF OffersInv, SelectionsFit
  <2>4. k # 1 => k - 1 \in DOMAIN events
    BY <1>2, <2>2
  <2>5. k # 1 => events'[k - 1] = events[k - 1]
    BY <1>1, <2>4
  <2>6. (MimeOf(events[k].source))' = MimeOf(events[k].source)
    BY <1>5, <2>1, <2>2
  <2>7. InHand(k - 1) => InHand(k - 1)'
    BY <1>3
  <2>. QED BY <2>3, <2>5, <2>6, <2>7
<1>7. SelectionsFollow'
  <2>1. SUFFICES ASSUME NEW k \in DOMAIN events', ~InHand(k)'
                 PROVE  /\ events'[k].kind = "offer" => IsSelection(k + 1)'
                        /\ events'[k].kind = "cancelled" =>
                             \E l \in DOMAIN events' : l > k /\ IsSelection(l)'
    BY DEF SelectionsFollow
  <2>2. CASE k \in DOMAIN events
    <3>1. ~InHand(k) /\ events'[k] = events[k]
      BY <1>1, <1>3, <2>1, <2>2
    <3>2. events[k].kind = "offer" => IsSelection(k + 1)
      BY <2>2, <3>1 DEF OffersInv, SelectionsFollow
    <3>3. events[k].kind = "cancelled" => \E l \in DOMAIN events : l > k /\ IsSelection(l)
      BY <2>2, <3>1 DEF OffersInv, SelectionsFollow
    <3>4. IsSelection(k + 1) => IsSelection(k + 1)'
      BY <1>4
    <3>. QED BY <1>1, <1>4, <3>1, <3>2, <3>3, <3>4
  <2>3. CASE k \notin DOMAIN events
    BY <1>1, <2>1, <2>3
  <2>. QED BY <2>2, <2>3
<1>8. LastIsSelection'
  <2>1. SUFFICES ASSUME NEW k \in DOMAIN events', IsSelection(k)', ~InHand(k)',
                        \A j \in DOMAIN events' : k < j => ~IsSelection(j)'
                 PROVE  events'[k].source = selection'
    BY DEF LastIsSelection
  <2>2. k \in DOMAIN events /\ IsSelection(k) /\ events'[k] = events[k] /\ ~InHand(k)
    BY <1>1, <1>3, <1>4, <2>1 DEF IsSelection
  <2>3. \A j \in DOMAIN events : k < j => ~IsSelection(j)
    BY <1>1, <1>4, <2>1
  <2>. QED BY <2>2, <2>3 DEF OffersInv, LastIsSelection
<1>. QED BY <1>6, <1>7, <1>8 DEF OffersInv

(* Every step keeps the offers before their selections.                     *)
LEMMA OffersStep ==
  ASSUME BaseTypes, LineInv, SourcesMade, OffersInv, [ClipboardNext]_clipboardVars
  PROVE  OffersInv'
<1>0. OwnersStay
  BY OwnersStayInStep
<1>1. CASE /\ UNCHANGED <<selection, mimeTypes, overtaken, events>>
           /\ (slow # "nobody" => slow' # "nobody")
  BY <1>0, <1>1, OffersRest
<1>2. ASSUME NEW t \in Threads, TakeSlowly(t) PROVE OffersInv'
  <2>1. slow' # "nobody"
    BY <1>2 DEF TakeSlowly, Threads
  <2>. QED BY <1>1, <1>2, <2>1 DEF TakeSlowly, stringVars, desktopVars
<1>3. ASSUME NEW t \in Threads, HandleOffer(t) PROVE OffersInv'
  <2>1. /\ Dispatch(t, "offer") /\ events' = EventsLeft(t) /\ UNCHANGED selection
        /\ mimeTypes' = mimeTypes \cup {events[Turn(t)].mime}
        /\ slow # "nobody" => overtaken'
    BY <1>3 DEF HandleOffer, desktopVars
  <2>. QED BY <1>0, <2>1, HandlerOffers
<1>4. ASSUME NEW t \in Threads, HandleSelection(t) PROVE OffersInv'
  <2>1. /\ Dispatch(t, "selection") /\ events' = EventsLeft(t) /\ UNCHANGED selection
        /\ slow # "nobody" => overtaken'
    BY <1>4 DEF HandleSelection, desktopVars
  <2>. QED BY <1>0, <2>1, HandlerOffers
<1>5. ASSUME NEW t \in Threads, HandleSend(t) PROVE OffersInv'
  <2>1. /\ Dispatch(t, "send") /\ events' = EventsLeft(t) /\ UNCHANGED selection
        /\ UNCHANGED <<mimeTypes, overtaken>>
    BY <1>5 DEF HandleSend, desktopVars, stringVars
  <2>. QED BY <1>0, <2>1, HandlerOffers
<1>6. ASSUME NEW t \in Threads, HandleDone(t) PROVE OffersInv'
  <2>1. /\ Dispatch(t, "done") /\ events' = EventsLeft(t) /\ UNCHANGED selection
        /\ UNCHANGED <<mimeTypes, overtaken>>
    BY <1>6 DEF HandleDone, desktopVars, stringVars
  <2>. QED BY <1>0, <2>1, HandlerOffers
<1>7. ASSUME NEW t \in Threads, HandleCancelled(t) PROVE OffersInv'
  <2>1. /\ Dispatch(t, "cancelled") /\ UNCHANGED selection
        /\ UNCHANGED <<mimeTypes, overtaken>>
    BY <1>7 DEF HandleCancelled, desktopVars, stringVars
  <2>2. CASE events' = EventsLeft(t)
    BY <1>0, <2>1, <2>2, HandlerOffers
  <2>3. CASE /\ SendsOf(t, events[Turn(t)].source)
             /\ \E s \in Sources \cup {NoSource} : events' = [EventsLeft(t) EXCEPT ![1].source = s]
    <3>1. /\ DOMAIN events' = DOMAIN EventsLeft(t)
          /\ events'[1].kind = "send" /\ EventsLeft(t)[1].kind = "send"
          /\ \A k \in DOMAIN events' : k # 1 => events'[k] = EventsLeft(t)[k]
      BY <2>1, <2>3, CancelledFacts
    <3>2. \A k \in DOMAIN events' :
           /\ events'[k].kind = EventsLeft(t)[k].kind
           /\ events'[k] = EventsLeft(t)[k] \/ events'[k].kind = "send"
      BY <3>1
    <3>. QED BY <1>0, <2>1, <3>1, <3>2, HandlerOffers
  <2>. QED BY <1>7, <2>2, <2>3 DEF HandleCancelled
<1>8. CASE CompositorSets
  <2>1. /\ HandleRequest("set") /\ NewSelection(Head(requests).source, "text")
        /\ UNCHANGED <<mimeTypes, slow, overtaken, owner>>
    BY <1>8 DEF CompositorSets, stringVars
  <2>2. PICK s \in Sources : s = Head(requests).source
    BY <2>1, RequestFacts, MessageFacts
  <2>3. owner[s] = "android"
    BY <2>1, <2>2, RequestFacts DEF SourcesMade
  <2>4. "text" = IF owner'[s] = "image" THEN "other" ELSE "text"
    BY <2>1, <2>3
  <2>. QED BY <1>0, <2>1, <2>2, <2>4, NewSelectionOffers
<1>9. ASSUME NEW kind \in {"desktop", "image"}, DesktopCopies(kind) PROVE OffersInv'
  <2>1. PICK s \in Sources : s = NewSource
    BY <1>9, NewSourceIsUnmade DEF DesktopCopies
  <2>2. PICK mime \in {"text", "other"} : mime = IF kind = "desktop" THEN "text" ELSE "other"
    OBVIOUS
  <2>3. /\ NewSelection(s, mime) /\ UNCHANGED <<mimeTypes, slow, overtaken>>
        /\ owner' = [owner EXCEPT ![s] = kind]
    BY <1>9, <2>1, <2>2 DEF DesktopCopies, stringVars
  <2>4. mime = IF owner'[s] = "image" THEN "other" ELSE "text"
    BY <2>2, <2>3 DEF BaseTypes
  <2>. QED BY <1>0, <2>3, <2>4, NewSelectionOffers
<1>10. CASE DesktopClears
  <2>1. NewSelection(NoSource, "other") /\ UNCHANGED <<mimeTypes, slow, overtaken>>
    BY <1>10 DEF DesktopClears, stringVars
  <2>. QED BY <1>0, <2>1, NewSelectionOffers
<1>11. CASE CompositorAsks
  <2>1. HandleRequest("receive") /\ UNCHANGED <<selection, mimeTypes, overtaken, slow>>
    BY <1>11 DEF CompositorAsks, stringVars
  <2>2. PICK e : e = [kind |-> "send", source |-> Head(requests).source, read |-> Head(requests).read]
    OBVIOUS
  <2>3. e \in Events /\ e.kind = "send"
    BY <2>1, <2>2, RequestFacts, MessageFacts DEF Events
  <2>4. UNCHANGED events \/ events' = Append(events, e)
    BY <1>11, <2>2 DEF CompositorAsks
  <2>. QED BY <1>0, <2>1, <2>3, <2>4, OffersRest
<1>12. CASE CompositorSyncs
  <2>1. HandleRequest("sync") /\ UNCHANGED <<selection, mimeTypes, overtaken, slow>>
    BY <1>12 DEF CompositorSyncs, stringVars, desktopVars
  <2>2. PICK e : e = [kind |-> "done", read |-> Head(requests).read]
    OBVIOUS
  <2>3. e \in Events /\ e.kind = "done"
    BY <2>1, <2>2, RequestFacts, MessageFacts DEF Events
  <2>4. events' = Append(events, e)
    BY <1>12, <2>2 DEF CompositorSyncs
  <2>. QED BY <1>0, <2>1, <2>3, <2>4, OffersRest
<1>. QED
  BY <1>1, <1>2, <1>3, <1>4, <1>5, <1>6, <1>7, <1>8, <1>9, <1>10, <1>11, <1>12
     DEF ClipboardNext, GoOn, Handle, Compositor, SendClipboardData, SetSelection, GetClipboardData,
         Wake, RoundtripReturns, ReadText, ReadEnds, DesktopWrites, clipboardVars, stringVars, desktopVars

-----------------------------------------------------------------------------
(* While nothing changes but what is on its way, ...                        *)
LEMMA SettlingRests ==
  ASSUME SettlingInv, UNCHANGED <<clipboard, reads, selection, owner>>, Settling' => Settling,
         Settling => \A r \in Running :
           /\ \A k \in DOMAIN events' : PipeAt(events', k, r) => events'[k].source = selection
           /\ \A k \in DOMAIN requests' : PipeAt(requests', k, r) => requests'[k].source = selection
  PROVE  SettlingInv'
<1>1. SUFFICES ASSUME Settling'
               PROVE  /\ \A r, q \in Running : r = q
                      /\ \A r \in Running : OneRead(r)'
                      /\ Running = {} => clipboard' = (TextOf(selection))'
  BY DEF SettlingInv, Running
<1>2. /\ Settling /\ \A r, q \in Running : r = q
      /\ \A r \in Running : OneRead(r)
      /\ Running = {} => clipboard = TextOf(selection)
  BY <1>1 DEF SettlingInv
<1>4. (TextOf(selection))' = TextOf(selection)
  BY DEF TextOf
<1>5. \A r : Coming(r)' = Coming(r)
  BY DEF Coming, TextOf
<1>6. ASSUME NEW r \in Running PROVE OneRead(r)'
  <2>1. OneRead(r)
    BY <1>2
  <2>2. (\A k \in DOMAIN events : PipeAt(events, k, r) => events[k].source = selection)'
    BY <1>2 DEF PipeAt
  <2>3. (\A k \in DOMAIN requests : PipeAt(requests, k, r) => requests[k].source = selection)'
    BY <1>2 DEF PipeAt
  <2>. QED BY <1>4, <1>5, <2>1, <2>2, <2>3 DEF OneRead
<1>. QED BY <1>2, <1>4, <1>6

(* ... and while the one read goes on, what is said of it stays.            *)
LEMMA SettlingGoesOn ==
  ASSUME BaseTypes, SettlingInv, UNCHANGED <<selection, owner>>, Settling' => Settling,
         NEW r \in Running, NEW step, NEW text, NEW isOpen, Steps(r, step, text, isOpen),
         Settling =>
           /\ \A k \in DOMAIN events' : PipeAt(events', k, r) => events'[k].source = selection
           /\ \A k \in DOMAIN requests' : PipeAt(requests', k, r) => requests'[k].source = selection
           /\ IF step = "ended" THEN clipboard' = TextOf(selection)
              ELSE LET coming == IF isOpen THEN TextOf(reads[r].source) ELSE text IN
                   IF step # "read" THEN coming = TextOf(selection)
                   ELSE \/ clipboard' = << >> /\ coming = TextOf(selection)
                        \/ clipboard' = TextOf(selection) /\ coming = << >>
  PROVE  SettlingInv'
<1>1. SUFFICES ASSUME Settling'
               PROVE  /\ \A p, q \in Running' : p = q
                      /\ \A q \in Running' : OneRead(q)'
                      /\ Running' = {} => clipboard' = (TextOf(selection))'
  BY DEF SettlingInv
<1>2. Settling /\ OneRead(r) /\ \A q \in Running : q = r
  BY <1>1 DEF SettlingInv
<1>3. /\ DOMAIN reads' = DOMAIN reads /\ r \in DOMAIN reads
      /\ reads'[r].source = reads[r].source
      /\ reads'[r].step = step /\ reads'[r].text = text /\ reads'[r].open = isOpen
      /\ \A q \in DOMAIN reads : q # r => reads'[q] = reads[q]
  BY DEF Steps
<1>4. Running' = IF step = "ended" THEN {} ELSE {r}
  BY <1>2, <1>3 DEF Running
<1>5. (TextOf(selection))' = TextOf(selection)
  BY DEF TextOf
<1>6. CASE step = "ended"
  BY <1>2, <1>4, <1>5, <1>6
<1>7. CASE step # "ended"
  <2>1. PICK c : c = IF isOpen THEN TextOf(reads[r].source) ELSE text
    OBVIOUS
  <2>2. Coming(r)' = c
    BY <1>3, <2>1 DEF Coming, TextOf
  <2>3. reads'[r].source = selection'
    BY <1>2, <1>3 DEF OneRead
  <2>4. (\A k \in DOMAIN events : PipeAt(events, k, r) => events[k].source = selection)'
    BY <1>2 DEF PipeAt
  <2>5. (\A k \in DOMAIN requests : PipeAt(requests, k, r) => requests[k].source = selection)'
    BY <1>2 DEF PipeAt
  <2>6. IF step # "read" THEN c = TextOf(selection)
        ELSE \/ clipboard' = << >> /\ c = TextOf(selection)
             \/ clipboard' = TextOf(selection) /\ c = << >>
    BY <1>2, <1>7, <2>1
  <2>7. OneRead(r)'
    BY <1>3, <1>5, <2>2, <2>3, <2>4, <2>5, <2>6 DEF OneRead
  <2>. QED BY <1>4, <1>7, <2>7
<1>. QED BY <1>6, <1>7

(* A handler other than a selection's settles nothing, ...                  *)
LEMMA HandlerSettles ==
  ASSUME BaseTypes, NEW t \in Threads, NEW kind, Dispatch(t, kind), kind # "selection",
         DOMAIN events' = DOMAIN EventsLeft(t),
         \A k \in DOMAIN events' : events'[k].kind = EventsLeft(t)[k].kind,
         UNCHANGED <<binder, requests, overtaken>>, Settling'
  PROVE  Settling
<1>1. \A k \in DOMAIN events : events[k].kind # "selection"
  <2>1. SUFFICES ASSUME NEW k \in DOMAIN events, events[k].kind = "selection" PROVE FALSE
    OBVIOUS
  <2>2. k # Turn(t)
    BY <2>1, DispatchFacts
  <2>3. \E l \in DOMAIN events' : events'[l].kind = "selection"
    BY <2>1, <2>2, DispatchFacts
  <2>. QED BY <2>3 DEF Settling
<1>. QED BY <1>1 DEF Settling

(* ... nor does a request that is taken.                                    *)
LEMMA RequestSettles ==
  ASSUME BaseTypes, NEW kind, HandleRequest(kind), kind # "set",
         \/ UNCHANGED events
         \/ \E e \in Events : events' = Append(events, e),
         UNCHANGED <<binder, overtaken>>, Settling'
  PROVE  Settling
<1>1. \A k \in DOMAIN events : k \in DOMAIN events' /\ events'[k] = events[k]
  BY OneEvent
<1>2. ASSUME NEW k \in DOMAIN requests PROVE requests[k].kind # "set"
  <2>1. CASE k = 1
    BY <2>1, RequestFacts
  <2>2. CASE k # 1
    <3>1. requests \in Seq(Requests) /\ requests # << >> /\ requests' = Tail(requests)
      BY RequestFacts DEF BaseTypes
    <3>2. PICK n \in Nat : n = Len(requests)
      BY <3>1
    <3>3. DOMAIN requests = 1..n /\ DOMAIN requests' = 1..(n - 1)
          /\ \A j \in 1..(n - 1) : requests'[j] = requests[j + 1]
      BY <3>1, <3>2, TailFacts
    <3>4. k - 1 \in 1..(n - 1) /\ (k - 1) + 1 = k
      BY <2>2, <3>3
    <3>5. requests'[k - 1] = requests[k]
      BY <3>3, <3>4
    <3>. QED BY <3>3, <3>4, <3>5 DEF Settling
  <2>. QED BY <2>1, <2>2
<1>. QED BY <1>1, <1>2 DEF Settling

(* When the clipboard settles with the handler of a selection, that is the  *)
(* last one, and the thread is alone.                                       *)
LEMMA HandleSelectionSettles ==
  ASSUME BaseTypes, LineInv, SourcesMade, OffersInv, NEW t \in Threads, HandleSelection(t), Settling'
  PROVE  /\ Running = {} /\ events[Turn(t)].source = selection
         /\ selection # NoSource => MimeOf(selection) \in mimeTypes
<1>1. /\ Dispatch(t, "selection") /\ events' = EventsLeft(t)
      /\ overtaken' = \/ slow # "nobody"
                      \/ Running # {}
                      \/ overtaken /\ events[Turn(t)].source # NoSource
  BY DEF HandleSelection
<1>2. /\ slow = "nobody" /\ Running = {} /\ (events[Turn(t)].source # NoSource => ~overtaken)
  BY <1>1 DEF Settling
<1>3. /\ Turn(t) = 1 /\ 1 \in DOMAIN events /\ events[1].kind = "selection"
      /\ \A k \in DOMAIN events : k # 1 =>
           To(1, k) \in DOMAIN EventsLeft(t) /\ EventsLeft(t)[To(1, k)] = events[k]
  <2>1. Turn(t) = 1
    BY <1>2 DEF Turn
  <2>. QED BY <1>1, <2>1, DispatchFacts
<1>4. \A k \in DOMAIN events : k # 1 => events[k].kind # "selection"
  BY <1>1, <1>3 DEF Settling
<1>5. events[1].source = selection
  BY <1>2, <1>3, <1>4 DEF OffersInv, LastIsSelection, IsSelection, InHand
<1>6. selection # NoSource => MimeOf(selection) \in mimeTypes
  BY <1>2, <1>3, <1>5 DEF OffersInv, SelectionsFit, IsSelection
<1>. QED BY <1>2, <1>3, <1>5, <1>6

(* A cancelled source has another selection behind it.                      *)
LEMMA CancelledIsLate ==
  ASSUME BaseTypes, OffersInv, Settling, NEW t \in Threads, Dispatch(t, "cancelled")
  PROVE  slow = t /\ Turn(t) = 1
<1>1. Turn(t) \in DOMAIN events /\ events[Turn(t)].kind = "cancelled"
  BY DispatchFacts
<1>2. InHand(Turn(t))
  BY <1>1 DEF OffersInv, SelectionsFollow, IsSelection, Settling
<1>. QED BY <1>2, DispatchFacts DEF InHand, Turn

(* A read that is under way when the clipboard settles.                     *)
LEMMA SettlingFacts ==
  ASSUME SettlingInv, Settling, NEW r \in Running
  PROVE  /\ OneRead(r) /\ reads[r].source = selection /\ \A q \in Running : q = r
         /\ \A k \in DOMAIN events : PipeAt(events, k, r) => events[k].source = selection
         /\ \A k \in DOMAIN requests : PipeAt(requests, k, r) => requests[k].source = selection
         /\ reads[r].step # "read" => Coming(r) = TextOf(selection)
         /\ reads[r].step = "read" => \/ clipboard = << >> /\ Coming(r) = TextOf(selection)
                                      \/ clipboard = TextOf(selection) /\ Coming(r) = << >>
<1>1. OneRead(r) /\ \A q \in Running : q = r
  BY DEF SettlingInv
<1>. QED BY <1>1 DEF OneRead

(* A step of a read outside the handlers.                                   *)
LEMMA ReadingSettles ==
  ASSUME BaseTypes, ReadsInv, SettlingInv,
         NEW t \in Threads, Wake(t) \/ RoundtripReturns(t) \/ ReadText(t) \/ ReadEnds(t)
  PROVE  SettlingInv'
<1>1. /\ UNCHANGED <<selection, owner, events, requests, binder, overtaken>>
  BY DEF Wake, RoundtripReturns, ReadText, ReadEnds, desktopVars
<1>2. Settling' => Settling
  BY <1>1 DEF Settling
<1>3. ASSUME NEW r \in Running, Settling
      PROVE  /\ \A k \in DOMAIN events' : PipeAt(events', k, r) => events'[k].source = selection
             /\ \A k \in DOMAIN requests' : PipeAt(requests', k, r) => requests'[k].source = selection
  BY <1>1, <1>3, SettlingFacts
<1>4. CASE Wake(t) \/ RoundtripReturns(t)
  <2>1. PICK r \in Running, step \in {"clear", "read"} :
          /\ reads' = [reads EXCEPT ![r].step = step] /\ reads[r].step # "read"
          /\ step = "read" => clipboard' = << >>
    BY <1>4 DEF Wake, RoundtripReturns, InnermostAt, Innermost, ClearClipboard
  <2>2. r \in DOMAIN reads
    BY DEF Running
  <2>3. Steps(r, step, reads[r].text, reads[r].open)
    BY <2>1, <2>2, ReadSteps
  <2>4. Settling => Coming(r) = TextOf(selection)
    BY <2>1, SettlingFacts
  <2>. QED BY <1>1, <1>2, <1>3, <2>1, <2>3, <2>4, SettlingGoesOn DEF Coming
<1>5. CASE ReadText(t)
  <2>1. PICK r \in Running :
          /\ reads' = [reads EXCEPT ![r].text = << >>] /\ reads[r].step = "read"
          /\ reads[r].text # << >> /\ clipboard' = clipboard \o reads[r].text
    BY <1>5 DEF ReadText, InnermostAt, Innermost
  <2>2. r \in DOMAIN reads
    BY DEF Running
  <2>3. Steps(r, reads[r].step, << >>, reads[r].open)
    BY <2>1, <2>2, TextSteps
  <2>4. ~reads[r].open /\ Coming(r) = reads[r].text
    BY <2>1, <2>2 DEF ReadsInv, Coming
  <2>5. Settling => clipboard = << >> /\ reads[r].text = TextOf(selection)
    BY <2>1, <2>4, SettlingFacts
  <2>6. reads[r].text \in Seq(Sources)
    BY <2>2, ReadFields
  <2>7. Settling => clipboard' = TextOf(selection)
    BY <2>1, <2>5, <2>6
  <2>. QED BY <1>1, <1>2, <1>3, <2>1, <2>3, <2>4, <2>7, SettlingGoesOn
<1>6. CASE ReadEnds(t)
  <2>1. PICK r \in Running :
          /\ reads' = [reads EXCEPT ![r].step = "ended"] /\ reads[r].step = "read"
          /\ reads[r].text = << >> /\ ~reads[r].open /\ clipboard' = clipboard
    BY <1>6 DEF ReadEnds, InnermostAt, Innermost, stringVars
  <2>2. r \in DOMAIN reads
    BY DEF Running
  <2>3. Steps(r, "ended", reads[r].text, reads[r].open)
    BY <2>1, <2>2, ReadSteps
  <2>4. Settling => clipboard' = TextOf(selection)
    BY <2>1, SettlingFacts DEF Coming
  <2>. QED BY <1>1, <1>2, <1>3, <2>1, <2>3, <2>4, SettlingGoesOn
<1>. QED BY <1>4, <1>5, <1>6

(* The handlers of a text and of a callback.                                *)
LEMMA AnsweringSettles ==
  ASSUME BaseTypes, LineInv, ReadsInv, SettlingInv,
         NEW t \in Threads, HandleSend(t) \/ HandleDone(t)
  PROVE  SettlingInv'
<1>1. PICK kind \in {"send", "done"} : Dispatch(t, kind)
  BY DEF HandleSend, HandleDone
<1>2. /\ UNCHANGED <<selection, owner, requests, binder, overtaken, clipboard>>
      /\ events' = EventsLeft(t)
  BY DEF HandleSend, HandleDone, desktopVars, stringVars
<1>3. Settling' => Settling
  BY <1>1, <1>2, HandlerSettles
<1>4. \A k \in DOMAIN events' : \E l \in DOMAIN events : events'[k] = events[l]
  BY <1>1, <1>2, DispatchFacts
<1>5. ASSUME NEW r \in Running, Settling
      PROVE  /\ \A k \in DOMAIN events' : PipeAt(events', k, r) => events'[k].source = selection
             /\ \A k \in DOMAIN requests' : PipeAt(requests', k, r) => requests'[k].source = selection
  <2>1. \A k \in DOMAIN events : PipeAt(events, k, r) => events[k].source = selection
    BY <1>5, SettlingFacts
  <2>2. \A k \in DOMAIN events' : PipeAt(events', k, r) => events'[k].source = selection
    BY <1>4, <2>1 DEF PipeAt
  <2>. QED BY <1>2, <1>5, <2>2, SettlingFacts
<1>6. PICK r : r = events[Turn(t)].read
  OBVIOUS
<1>7. CASE HandleSend(t)
  <2>1. Dispatch(t, "send")
    BY <1>7 DEF HandleSend
  <2>2. /\ Turn(t) \in DOMAIN events /\ r \in DOMAIN reads /\ reads[r].open
        /\ PipeAt(events, Turn(t), r)
    BY <1>6, <2>1, DispatchFacts, TokenFacts
  <2>3. PICK text : text = TextOf(events[Turn(t)].source)
    OBVIOUS
  <2>4. Steps(r, reads[r].step, text, FALSE)
    BY <1>6, <1>7, <2>3, SendSteps
  <2>5. r \in Running
    BY <2>2 DEF ReadsInv, Running
  <2>6. Settling => /\ text = TextOf(selection) /\ Coming(r) = TextOf(selection)
                    /\ reads[r].step = "read" => \/ clipboard = << >>
                                                 \/ clipboard = TextOf(selection) /\ text = << >>
    BY <2>2, <2>3, <2>5, SettlingFacts DEF Coming
  <2>7. reads[r].step # "ended"
    BY <2>5 DEF Running
  <2>. QED BY <1>2, <1>3, <1>5, <2>4, <2>5, <2>6, <2>7, SettlingGoesOn
<1>8. CASE HandleDone(t)
  <2>1. Dispatch(t, "done")
    BY <1>8 DEF HandleDone
  <2>2. r \in DOMAIN reads /\ reads[r].step = "roundtrip"
    BY <1>6, <2>1, DispatchFacts, TokenFacts
  <2>3. PICK step \in {"clear", "asleep"} : Steps(r, step, reads[r].text, reads[r].open)
    BY <1>6, <1>8, DoneSteps
  <2>4. r \in Running
    BY <2>2 DEF Running
  <2>5. Settling => Coming(r) = TextOf(selection)
    BY <2>2, <2>4, SettlingFacts
  <2>. QED BY <1>2, <1>3, <1>5, <2>3, <2>4, <2>5, SettlingGoesOn DEF Coming
<1>. QED BY <1>7, <1>8

(* A read of the selection begins, or there is nothing to read.             *)
LEMMA SelectingSettles ==
  ASSUME BaseTypes, LineInv, SourcesMade, OffersInv, NEW t \in Threads, HandleSelection(t)
  PROVE  SettlingInv'
<1>1. SUFFICES ASSUME Settling'
               PROVE  /\ \A p, q \in Running' : p = q
                      /\ \A q \in Running' : OneRead(q)'
                      /\ Running' = {} => clipboard' = (TextOf(selection))'
  BY DEF SettlingInv
<1>2. /\ Running = {} /\ events[Turn(t)].source = selection
      /\ selection # NoSource => MimeOf(selection) \in mimeTypes
  BY <1>1, HandleSelectionSettles
<1>3. /\ Dispatch(t, "selection") /\ events' = EventsLeft(t) /\ UNCHANGED <<selection, owner>>
  BY DEF HandleSelection, desktopVars
<1>4. (TextOf(selection))' = TextOf(selection)
  BY <1>3 DEF TextOf
<1>5. CASE /\ clipboard' = << >> /\ UNCHANGED <<reads, requests>>
           /\ ~(events[Turn(t)].source # NoSource /\ "text" \in mimeTypes)
  <2>1. Running' = {}
    BY <1>2, <1>5 DEF Running
  <2>2. TextOf(selection) = << >>
    BY <1>2, <1>5 DEF TextOf, MimeOf
  <2>. QED BY <1>4, <1>5, <2>1, <2>2
<1>6. CASE events[Turn(t)].source # NoSource /\ ReadSelection(t, events[Turn(t)].source)
  <2>1. PICK s \in Sources : s = selection /\ ReadSelection(t, s)
    BY <1>2, <1>3, <1>6, DispatchFacts, MessageFacts
  <2>2. PICK n \in Nat :
         /\ n \notin DOMAIN reads /\ DOMAIN reads' = DOMAIN reads \cup {n}
         /\ \A r \in DOMAIN reads : r <= n
         /\ \A r \in DOMAIN reads : reads'[r] = reads[r]
         /\ reads' \in Seq(Reads)
         /\ reads'[n].thread = t /\ reads'[n].source = s /\ reads'[n].step = "roundtrip"
         /\ reads'[n].text = << >> /\ reads'[n].open
         /\ [kind |-> "receive", source |-> s, read |-> n] \in Requests
         /\ [kind |-> "sync", source |-> NoSource, read |-> n] \in Requests
         /\ requests' = (requests \o <<[kind |-> "receive", source |-> s, read |-> n]>>)
                          \o <<[kind |-> "sync", source |-> NoSource, read |-> n]>>
    BY <2>1, StartFacts
  <2>3. Running' = {n}
    BY <1>2, <2>2 DEF Running
  <2>4. Coming(n)' = TextOf(selection)
    BY <1>3, <2>1, <2>2 DEF Coming, TextOf
  <2>5. n \notin Piped(Line)
    BY <2>2 DEF LineInv
  <2>6. \A k \in DOMAIN events' : ~PipeAt(events', k, n)
    <3>1. \A k \in DOMAIN events : ~PipeAt(events, k, n)
      BY <2>5, LineFacts DEF Piped
    <3>. QED BY <1>3, <3>1, DispatchFacts DEF PipeAt
  <2>7. \A k \in DOMAIN requests' : PipeAt(requests', k, n) => requests'[k].source = selection
    <3>1. \A k \in DOMAIN requests : ~PipeAt(requests, k, n)
      BY <2>5, LineFacts DEF Piped
    <3>2. PICK a, b \in Requests : /\ requests' = (requests \o <<a>>) \o <<b>>
                                   /\ a.source = s /\ b.kind = "sync"
      BY <2>2
    <3>3. requests \in Seq(Requests)
      BY DEF BaseTypes
    <3>4. PICK u \in Seq(Requests) : u = requests \o <<a>>
      <4>1. requests \o <<a>> \in Seq(Requests)
        BY <3>3
      <4>. QED BY <4>1
    <3>5. requests' = Append(u, b) /\ u = Append(requests, a)
      BY <3>2, <3>3, <3>4
    <3>6. \A l \in DOMAIN u : (l \in DOMAIN requests /\ u[l] = requests[l]) \/ u[l] = a
      BY <3>3, <3>5, AppendFacts
    <3>7. \A l \in DOMAIN requests' : (l \in DOMAIN u /\ requests'[l] = u[l]) \/ requests'[l] = b
      BY <3>5, AppendFacts
    <3>. QED BY <2>1, <3>1, <3>2, <3>6, <3>7 DEF PipeAt
  <2>8. (\A k \in DOMAIN events : PipeAt(events, k, n) => events[k].source = selection)'
    BY <2>6 DEF PipeAt
  <2>9. (\A k \in DOMAIN requests : PipeAt(requests, k, n) => requests[k].source = selection)'
    BY <1>3, <2>7 DEF PipeAt
  <2>10. OneRead(n)'
    BY <1>3, <1>4, <2>1, <2>2, <2>4, <2>8, <2>9 DEF OneRead
  <2>. QED BY <2>3, <2>10
<1>. QED BY <1>5, <1>6 DEF HandleSelection

(* The compositor passes the pipe on, and the client writes.                *)
LEMMA AskingSettles ==
  ASSUME BaseTypes, LineInv, ReadsInv, SettlingInv, CompositorAsks
  PROVE  SettlingInv'
<1>1. /\ HandleRequest("receive") /\ UNCHANGED <<clipboard, binder, selection, owner, overtaken>>
  BY DEF CompositorAsks, stringVars
<1>2. PICK q : q = Head(requests)
  OBVIOUS
<1>3. PICK r : r = q.read
  OBVIOUS
<1>4. /\ q = requests[1] /\ 1 \in DOMAIN requests /\ r \in DOMAIN reads /\ reads[r].open /\ r \in Nat
      /\ PipeAt(requests, 1, r) /\ q.source \in Sources
      /\ \A k \in DOMAIN requests' : \E l \in DOMAIN requests : requests'[k] = requests[l]
  BY <1>1, <1>2, <1>3, RequestFacts, TokenFacts, MessageFacts
<1>5. r \in Running
  BY <1>4 DEF ReadsInv, Running
<1>6. Settling => q.source = selection
  BY <1>4, <1>5, SettlingFacts
<1>7. PICK e : e = [kind |-> "send", source |-> q.source, read |-> q.read]
  OBVIOUS
<1>8. e \in Events /\ e.source = q.source /\ e.kind = "send" /\ e.read = r
  BY <1>3, <1>4, <1>7 DEF Events
<1>9. UNCHANGED events \/ events' = Append(events, e)
  BY <1>2, <1>7 DEF CompositorAsks
<1>10. Settling' => Settling
  BY <1>1, <1>8, <1>9, RequestSettles
<1>11. ASSUME NEW p \in Running, Settling
       PROVE  /\ \A k \in DOMAIN events' : PipeAt(events', k, p) => events'[k].source = selection
              /\ \A k \in DOMAIN requests' : PipeAt(requests', k, p) => requests'[k].source = selection
  <2>1. /\ \A k \in DOMAIN events : PipeAt(events, k, p) => events[k].source = selection
        /\ \A k \in DOMAIN requests : PipeAt(requests, k, p) => requests[k].source = selection
    BY <1>11, SettlingFacts
  <2>2. \A k \in DOMAIN events' : (k \in DOMAIN events /\ events'[k] = events[k]) \/ events'[k] = e
    BY <1>8, <1>9, OneEvent
  <2>3. \A k \in DOMAIN events' : PipeAt(events', k, p) => events'[k].source = selection
    BY <1>6, <1>8, <1>11, <2>1, <2>2 DEF PipeAt
  <2>. QED BY <1>4, <2>1, <2>3 DEF PipeAt
<1>12. CASE UNCHANGED reads
  BY <1>1, <1>10, <1>11, <1>12, SettlingRests
<1>13. CASE q.source # selection /\ reads' = [reads EXCEPT ![r].open = FALSE]
  <2>1. Steps(r, reads[r].step, reads[r].text, FALSE)
    BY <1>4, <1>13, CloseSteps
  <2>2. ~Settling
    BY <1>6, <1>13
  <2>. QED BY <1>1, <1>5, <1>10, <2>1, <2>2, SettlingGoesOn
<1>. QED BY <1>2, <1>3, <1>12, <1>13 DEF CompositorAsks

(* A client writes.                                                         *)
LEMMA WritingSettles ==
  ASSUME BaseTypes, LineInv, ReadsInv, SettlingInv, DesktopWrites
  PROVE  SettlingInv'
<1>1. UNCHANGED <<clipboard, binder, selection, owner, overtaken, requests, events>>
  BY DEF DesktopWrites, stringVars
<1>2. PICK r \in asked :
        reads' = [reads EXCEPT ![r].text = TextOf(reads[r].source), ![r].open = FALSE]
  BY DEF DesktopWrites
<1>3. r \in DOMAIN reads /\ reads[r].open
  BY DEF LineInv
<1>4. r \in Running
  BY <1>3 DEF ReadsInv, Running
<1>5. Settling' => Settling
  BY <1>1 DEF Settling
<1>6. PICK text : text = TextOf(reads[r].source)
  OBVIOUS
<1>7. Steps(r, reads[r].step, text, FALSE)
  BY <1>2, <1>3, <1>6, WriteSteps
<1>8. reads[r].step # "ended" /\ Coming(r) = text
  BY <1>3, <1>4, <1>6 DEF Running, Coming
<1>9. Settling =>
        /\ \A k \in DOMAIN events' : PipeAt(events', k, r) => events'[k].source = selection
        /\ \A k \in DOMAIN requests' : PipeAt(requests', k, r) => requests'[k].source = selection
        /\ reads[r].step # "read" => text = TextOf(selection)
        /\ reads[r].step = "read" => \/ clipboard' = << >> /\ text = TextOf(selection)
                                     \/ clipboard' = TextOf(selection) /\ text = << >>
  BY <1>1, <1>4, <1>8, SettlingFacts
<1>. QED BY <1>1, <1>4, <1>5, <1>7, <1>8, <1>9, SettlingGoesOn

(* Every step keeps what is said of a clipboard that settles.               *)
LEMMA SettlingStep ==
  ASSUME BaseTypes, LineInv, ReadsInv, SourcesMade, OffersInv, SettlingInv,
         [ClipboardNext]_clipboardVars
  PROVE  SettlingInv'
<1>1. CASE /\ UNCHANGED <<clipboard, reads, selection, owner, binder, overtaken, events, requests>>
  <2>1. Settling' => Settling
    BY <1>1 DEF Settling
  <2>2. Settling => \A r \in Running :
           /\ \A k \in DOMAIN events' : PipeAt(events', k, r) => events'[k].source = selection
           /\ \A k \in DOMAIN requests' : PipeAt(requests', k, r) => requests'[k].source = selection
    BY <1>1, SettlingFacts
  <2>. QED BY <1>1, <2>1, <2>2, SettlingRests
<1>2. CASE ~Settling'
  BY <1>2 DEF SettlingInv
<1>3. CASE SendClipboardData
  <2>1. binder' # NoSource
    BY <1>3, NewSourceIsUnmade DEF SendClipboardData
  <2>. QED BY <1>2, <2>1 DEF Settling
<1>4. CASE SetSelection
  <2>1. PICK e : e = [kind |-> "set", source |-> binder]
    OBVIOUS
  <2>2. e \in Requests /\ requests' = Append(requests, e) /\ e.kind = "set"
    BY <1>4, <2>1 DEF SetSelection, Requests, BaseTypes
  <2>3. \E k \in DOMAIN requests' : requests'[k].kind = "set"
    BY <2>2, AppendFacts DEF BaseTypes
  <2>. QED BY <1>2, <2>3 DEF Settling
<1>5. ASSUME NEW t \in Threads, HandleOffer(t) PROVE SettlingInv'
  <2>1. /\ Dispatch(t, "offer") /\ events' = EventsLeft(t) /\ overtaken' = (slow # "nobody")
    BY <1>5 DEF HandleOffer
  <2>2. CASE slow # "nobody"
    BY <1>2, <2>1, <2>2 DEF Settling
  <2>3. CASE slow = "nobody"
    <3>1. /\ Turn(t) = 1 /\ 1 \in DOMAIN events /\ events[1].kind = "offer"
          /\ \A k \in DOMAIN events : k # 1 =>
               To(1, k) \in DOMAIN EventsLeft(t) /\ EventsLeft(t)[To(1, k)] = events[k]
      <4>1. Turn(t) = 1
        BY <2>3 DEF Turn
      <4>. QED BY <2>1, <4>1, DispatchFacts
    <3>2. IsSelection(1 + 1)
      BY <2>3, <3>1 DEF OffersInv, SelectionsFollow, InHand
    <3>3. \E k \in DOMAIN events' : events'[k].kind = "selection"
      BY <2>1, <3>1, <3>2 DEF IsSelection
    <3>. QED BY <1>2, <3>3 DEF Settling
  <2>. QED BY <2>2, <2>3
<1>6. ASSUME NEW t \in Threads, HandleSelection(t) PROVE SettlingInv'
  BY <1>6, SelectingSettles
<1>7. ASSUME NEW t \in Threads, HandleSend(t) \/ HandleDone(t) PROVE SettlingInv'
  BY <1>7, AnsweringSettles
<1>8. ASSUME NEW t \in Threads, HandleCancelled(t) PROVE SettlingInv'
  <2>1. /\ Dispatch(t, "cancelled")
        /\ UNCHANGED <<clipboard, reads, selection, owner, binder, overtaken, requests>>
    BY <1>8 DEF HandleCancelled, stringVars, desktopVars
  <2>2. CASE events' = EventsLeft(t)
    <3>1. Settling' => Settling
      BY <2>1, <2>2, HandlerSettles
    <3>2. \A k \in DOMAIN events' : \E l \in DOMAIN events : events'[k] = events[l]
      BY <2>1, <2>2, DispatchFacts
    <3>3. Settling => \A r \in Running :
            /\ \A k \in DOMAIN events' : PipeAt(events', k, r) => events'[k].source = selection
            /\ \A k \in DOMAIN requests' : PipeAt(requests', k, r) => requests'[k].source = selection
      <4>1. SUFFICES ASSUME Settling, NEW r \in Running
                     PROVE  \A k \in DOMAIN events' :
                              PipeAt(events', k, r) => events'[k].source = selection
        BY <2>1, SettlingFacts
      <4>2. \A k \in DOMAIN events : PipeAt(events, k, r) => events[k].source = selection
        BY <4>1, SettlingFacts
      <4>. QED BY <3>2, <4>2 DEF PipeAt
    <3>. QED BY <2>1, <3>1, <3>3, SettlingRests
  <2>3. CASE /\ SendsOf(t, events[Turn(t)].source)
             /\ \E s \in Sources \cup {NoSource} : events' = [EventsLeft(t) EXCEPT ![1].source = s]
    <3>1. /\ DOMAIN events' = DOMAIN EventsLeft(t) /\ slow \in Threads \ {t}
          /\ events'[1].kind = "send" /\ EventsLeft(t)[1].kind = "send"
          /\ \A k \in DOMAIN events' : k # 1 => events'[k] = EventsLeft(t)[k]
      BY <2>1, <2>3, CancelledFacts
    <3>2. Settling' => Settling
      BY <2>1, <3>1, HandlerSettles
    <3>3. ~Settling
      BY <2>1, <3>1, CancelledIsLate
    <3>. QED BY <1>2, <3>2, <3>3
  <2>. QED BY <1>8, <2>2, <2>3 DEF HandleCancelled
<1>9. ASSUME NEW t \in Threads, Wake(t) \/ RoundtripReturns(t) \/ ReadText(t) \/ ReadEnds(t)
      PROVE  SettlingInv'
  BY <1>9, ReadingSettles
<1>10. ASSUME NEW s \in Sources \cup {NoSource}, NEW mime \in {"text", "other"}, NewSelection(s, mime)
       PROVE  SettlingInv'
  <2>1. \E k \in DOMAIN events' : events'[k].kind = "selection"
    BY <1>10, NewEvents
  <2>. QED BY <1>2, <2>1 DEF Settling
<1>11. CASE CompositorSets
  <2>1. HandleRequest("set") /\ NewSelection(Head(requests).source, "text")
    BY <1>11 DEF CompositorSets
  <2>2. Head(requests).source \in Sources
    BY <2>1, RequestFacts, MessageFacts
  <2>. QED BY <1>10, <2>1, <2>2
<1>12. CASE DesktopClears \/ \E kind \in {"desktop", "image"} : DesktopCopies(kind)
  BY <1>10, <1>12, NewSourceIsUnmade DEF DesktopClears, DesktopCopies
<1>13. CASE CompositorSyncs
  <2>1. PICK e : e = [kind |-> "done", read |-> Head(requests).read]
    OBVIOUS
  <2>2. /\ HandleRequest("sync") /\ events' = Append(events, e)
        /\ UNCHANGED <<clipboard, reads, selection, owner, binder, overtaken>>
    BY <1>13, <2>1 DEF CompositorSyncs, stringVars, desktopVars
  <2>3. /\ e \in Events /\ e.kind = "done"
        /\ \A k \in DOMAIN requests' : \E l \in DOMAIN requests : requests'[k] = requests[l]
    BY <2>1, <2>2, RequestFacts, MessageFacts DEF Events
  <2>4. Settling' => Settling
    BY <2>2, <2>3, RequestSettles
  <2>5. \A k \in DOMAIN events' : (k \in DOMAIN events /\ events'[k] = events[k]) \/ events'[k] = e
    BY <2>2, <2>3, OneEvent
  <2>6. Settling => \A r \in Running :
           /\ \A k \in DOMAIN events' : PipeAt(events', k, r) => events'[k].source = selection
           /\ \A k \in DOMAIN requests' : PipeAt(requests', k, r) => requests'[k].source = selection
    <3>1. SUFFICES ASSUME Settling, NEW r \in Running
                   PROVE /\ \A k \in DOMAIN events' :
                              PipeAt(events', k, r) => events'[k].source = selection
                         /\ \A k \in DOMAIN requests' :
                              PipeAt(requests', k, r) => requests'[k].source = selection
      OBVIOUS
    <3>2. /\ \A k \in DOMAIN events : PipeAt(events, k, r) => events[k].source = selection
          /\ \A k \in DOMAIN requests : PipeAt(requests, k, r) => requests[k].source = selection
      BY <3>1, SettlingFacts
    <3>. QED BY <2>3, <2>5, <3>2 DEF PipeAt
  <2>. QED BY <2>2, <2>4, <2>6, SettlingRests
<1>. QED
  BY <1>1, <1>3, <1>4, <1>5, <1>6, <1>7, <1>8, <1>9, <1>11, <1>12, <1>13, AskingSettles, WritingSettles
     DEF ClipboardNext, GoOn, Handle, Compositor, GetClipboardData, TakeSlowly, clipboardVars,
         stringVars, desktopVars

-----------------------------------------------------------------------------
(* All is empty at the start.                                               *)
LEMMA ClipboardInitInv == ClipboardInit => ClipboardInv
<1>1. SUFFICES ASSUME ClipboardInit PROVE ClipboardInv
  OBVIOUS
<1>2. /\ reads = << >> /\ requests = << >> /\ events = << >> /\ clipboard = << >>
      /\ asked = {} /\ mimeTypes = {} /\ binder = NoSource /\ selection = NoSource
      /\ slow = "nobody" /\ overtaken = FALSE /\ owner = [s \in Sources |-> "nobody"]
  BY <1>1 DEF ClipboardInit
<1>3. /\ Line = << >> /\ DOMAIN Line = {} /\ DOMAIN reads = {} /\ DOMAIN events = {}
      /\ DOMAIN requests = {}
  BY <1>2 DEF Line
<1>4. BaseTypes
  <2>1. << >> \in Seq(Sources) /\ << >> \in Seq(Reads) /\ << >> \in Seq(Requests) /\ << >> \in Seq(Events)
    OBVIOUS
  <2>. QED BY <1>2, <2>1 DEF BaseTypes
<1>5. LineInv
  BY <1>2, <1>3 DEF LineInv, Once, Piped, Called, PipeAt, CallAt
<1>6. ReadsInv /\ SourcesMade /\ OffersInv
  BY <1>2, <1>3 DEF ReadsInv, SourcesMade, OffersInv, SelectionsFit, SelectionsFollow,
                    LastIsSelection, IsSelection
<1>7. SettlingInv
  BY <1>2, <1>3 DEF SettlingInv, Running, TextOf
<1>. QED BY <1>4, <1>5, <1>6, <1>7 DEF ClipboardInv

(* Every step keeps all of it.                                              *)
LEMMA ClipboardStepInv == ClipboardInv /\ [ClipboardNext]_clipboardVars => ClipboardInv'
BY BaseTypesStep, LineStep, ReadsStep, MadeStep, OffersStep, SettlingStep DEF ClipboardInv

(* A read a client was asked to write to has its pipe open, and goes on.    *)
LEMMA ClipboardInvTypes == ClipboardInv => ClipboardTypeOK
<1>1. SUFFICES ASSUME ClipboardInv PROVE ClipboardTypeOK
  OBVIOUS
<1>2. BaseTypes /\ LineInv /\ ReadsInv
  BY <1>1 DEF ClipboardInv
<1>3. asked \subseteq Running
  BY <1>2 DEF LineInv, ReadsInv, Running
<1>. QED BY <1>2, <1>3 DEF BaseTypes, Reads, ClipboardTypeOK

(* Every variable has its type, and a client is only asked for the text of  *)
(* a read that goes on.                                                     *)
THEOREM ClipboardTypes == ClipboardSpec => []ClipboardTypeOK
BY ClipboardInitInv, ClipboardStepInv, ClipboardInvTypes, PTL DEF ClipboardSpec

(* When everything sent has been handled, Android has the text of the       *)
(* selection: for any number of selections, whoever made them and whichever *)
(* of the two threads handled them, and whatever the binder thread wrote    *)
(* into the string meanwhile.  Excepted, by `overtaken`, is a last selection*)
(* that was handled while the other thread had an earlier event in its hands*)
(* or while a read ran: what is in the string then is not said.             *)
THEOREM SelectionArrives == ClipboardSpec => []ClipboardSettles
<1>1. ClipboardInv => ClipboardSettles
  <2>1. SUFFICES ASSUME ClipboardInv, Quiet, ~overtaken PROVE clipboard = TextOf(selection)
    BY DEF ClipboardSettles
  <2>2. Settling /\ Running = {}
    BY <2>1 DEF Settling, Quiet
  <2>. QED BY <2>1, <2>2 DEF ClipboardInv, SettlingInv
<1>. QED BY <1>1, ClipboardInitInv, ClipboardStepInv, PTL DEF ClipboardSpec

(* What a thread in read_selection waits for is not lost, and is not its    *)
(* own to do.  In its roundtrip the callback is on its way, with the        *)
(* compositor or for either thread to take.  In read(), where it runs no    *)
(* handler, its pipe is closed, or a desktop client has been asked for the  *)
(* text, or the other thread has the send event in its hands and is not in  *)
(* read() itself.                                                           *)
ReadGoesOn ==
  \A t \in Threads, r \in DOMAIN reads : Innermost(t, r) =>
    /\ reads[r].step = "roundtrip" =>
         \/ \E k \in DOMAIN requests : requests[k].kind = "sync" /\ requests[k].read = r
         \/ \E k \in DOMAIN events : events[k].kind = "done" /\ events[k].read = r
    /\ reads[r].step = "read" =>
         \/ ~reads[r].open
         \/ r \in asked
         \/ /\ slow \in Threads \ {t}
            /\ events[1].kind = "send" /\ events[1].read = r
            /\ \A q \in Running : reads[q].thread = slow => reads[q].step # "read"

(* That is what the line of messages says of one read.                      *)
LEMMA LineGoesOn == ClipboardInv => ReadGoesOn
<1>1. SUFFICES ASSUME ClipboardInv, NEW t \in Threads, NEW r \in DOMAIN reads, Innermost(t, r)
               PROVE  /\ reads[r].step = "roundtrip" =>
                           \/ \E k \in DOMAIN requests :
                                requests[k].kind = "sync" /\ requests[k].read = r
                           \/ \E k \in DOMAIN events : events[k].kind = "done" /\ events[k].read = r
                      /\ reads[r].step = "read" =>
                           \/ ~reads[r].open
                           \/ r \in asked
                           \/ /\ slow \in Threads \ {t}
                              /\ events[1].kind = "send" /\ events[1].read = r
                              /\ \A q \in Running : reads[q].thread = slow => reads[q].step # "read"
  BY DEF ReadGoesOn
<1>2. BaseTypes /\ LineInv /\ ReadsInv
  BY <1>1 DEF ClipboardInv
<1>3. ASSUME reads[r].step = "roundtrip"
      PROVE  \/ \E k \in DOMAIN requests : requests[k].kind = "sync" /\ requests[k].read = r
             \/ \E k \in DOMAIN events : events[k].kind = "done" /\ events[k].read = r
  <2>1. r \in Called(events) \/ r \in Called(requests)
    BY <1>2, <1>3, LineFacts DEF LineInv
  <2>2. /\ \A k \in DOMAIN events : events[k].kind # "sync"
        /\ \A k \in DOMAIN requests : requests[k].kind # "done"
    BY <1>2, LineFacts, MessageFacts
  <2>. QED BY <2>1, <2>2 DEF Called, CallAt
<1>4. ASSUME reads[r].step = "read", reads[r].open, r \notin asked
      PROVE  /\ slow \in Threads \ {t}
             /\ events[1].kind = "send" /\ events[1].read = r
             /\ \A q \in Running : reads[q].thread = slow => reads[q].step # "read"
  <2>1. r \in Piped(Line)
    BY <1>2, <1>4 DEF LineInv
  <2>2. PipeAt(events, 1, r) /\ slow # "nobody"
    BY <1>2, <1>4, <2>1 DEF LineInv
  <2>3. events[1].kind = "send" /\ events[1].read = r
    BY <1>2, <2>2, LineFacts, MessageFacts DEF PipeAt
  <2>4. \A q \in Running : reads[q].step = "read" => slow # reads[q].thread
    BY <1>2 DEF ReadsInv, Running
  <2>5. r \in Running /\ reads[r].thread = t
    BY <1>1 DEF Innermost
  <2>6. slow \in Threads
    BY <1>2, <2>2 DEF BaseTypes
  <2>. QED BY <1>4, <2>3, <2>4, <2>5, <2>6
<1>. QED BY <1>3, <1>4

(* A read never waits for an answer that nobody owes it: this is what       *)
(* ReadsReturn needs of the code beside fairness.                           *)
THEOREM ReadsGoOn == ClipboardSpec => []ReadGoesOn
BY LineGoesOn, ClipboardInitInv, ClipboardStepInv, PTL DEF ClipboardSpec

-----------------------------------------------------------------------------
(* What is checked together: each behaviour of MCServices is one of the     *)
(* windows' or of one of the three services, and the services' invariants   *)
(* hold in it.                                                              *)
ServicesInv == ClipboardInv /\ ServiceInv /\ UserDataInv

(* Every step is a step of one part and leaves the others alone.            *)
LEMMA ServicesStepInv ==
  ServicesInv /\ [MCNext]_<<vars, clipboardVars, serviceVars, userDataVars, part>> => ServicesInv'
<1>1. [MCNext]_<<vars, clipboardVars, serviceVars, userDataVars, part>>
        => /\ [ClipboardNext]_clipboardVars
           /\ [ServiceNext]_serviceVars
           /\ [UserDataNext]_userDataVars
  BY DEF MCNext
<1>. QED BY <1>1, ClipboardStepInv, ServiceStepInv, UserDataStepInv DEF ServicesInv

(* Every variable of the clipboard, the window service and the callbacks'   *)
(* data has its type, whichever of them takes the steps.                    *)
THEOREM ServicesTypes == MCSpec => []ServicesTypeOK
<1>1. MCInit => ServicesInv
  BY ClipboardInitInv, ServiceInitInv, UserDataInitInv DEF MCInit, ServicesInv
<1>2. ServicesInv => ServicesTypeOK
  BY ClipboardInvTypes DEF ServicesInv, ServiceInv, UserDataInv, ServicesTypeOK
<1>. QED BY <1>1, <1>2, ServicesStepInv, PTL DEF MCSpec
=============================================================================

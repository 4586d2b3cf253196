----------------------- MODULE WindowLifecycleProofs -----------------------
(***************************************************************************)
(* Proofs about WindowLifecycle, for every set of tasks, blacklist, mode    *)
(* setting and bound: the inductive invariant IInv and the safety           *)
(* properties that follow from it, and the refinement of WindowRegistry.    *)
(***************************************************************************)
EXTENDS WindowLifecycle, FiniteSetTheorems, TLAPS

(* Who owns windowsMutex follows from where the two threads are.            *)
LockInv ==
  /\ lock = "hwc" <=> hwcPc \in {"layers", "creating"}
  /\ lock = "wl" <=> wlPc = "focusing"

(* An instance is pending exactly while window::create runs; it is not in   *)
(* the map yet, and neither is its key.                                     *)
PendingInv ==
  /\ pending # None <=> hwcPc = "creating"
  /\ hwcFocus # None => hwcPc = "creating"
  /\ pending <= created
  /\ pending # None => /\ windows[keyOf[pending]] = None
                       /\ \A k \in Keys : windows[k] # pending

(* The map holds instances that were created for their key.                 *)
MapInv ==
  \A k \in Keys : windows[k] # None => /\ windows[k] <= created
                                       /\ keyOf[windows[k]] = k

(* The close handler holds a reference exactly while it runs.               *)
CloserInv ==
  /\ wlWin # None <=> wlPc \in {"closing", "returning"}
  /\ wlWin <= created

(* A window that keyboard_handle_enter uses is in the map.                  *)
FocusInv == wlPc = "focusing" => \E k \in Keys : wlFocus = windows[k] /\ wlFocus # None

(* The windows fit the mode, the one under creation included.               *)
ModeInv ==
  /\ ~MultiWindows => mode # "multi"
  /\ \A s, t \in target : s = t
  /\ WindowsFitMode
  /\ hwcPc = "creating" =>
       /\ mode # "closed"
       /\ mode = "fullUi" => keyOf[pending] = "Waydroid"
       /\ mode = "single" => keyOf[pending] \in target
       /\ mode = "multi"  => keyOf[pending] \in DrawnNames

(* In the single-window mode a target that the user closed already has the  *)
(* window that could not be erased, or is having it created.                *)
IgnoredInv ==
  ~MultiWindows =>
    /\ \A t \in Tasks \cap ignored : windows[t] # None => windows[t] \in early
    /\ hwcPc = "creating" =>
         \A t \in Tasks \cap ignored : keyOf[pending] = t => pending \in early
    /\ hwcPc = "layers" /\ mode = "single" =>
         \A t \in target \cap ignored : windows[t] # None

IInv ==
  /\ TypeOK
  /\ OpenWindowsAccurate
  /\ LockInv
  /\ PendingInv
  /\ MapInv
  /\ CloserInv
  /\ FocusInv
  /\ ModeInv
  /\ IgnoredInv

-----------------------------------------------------------------------------
(* There are finitely many keys, so that counting the open ones is sound.   *)
LEMMA KeysFinite == IsFiniteSet(Keys)
  <1>1. IsFiniteSet({"Waydroid", "InputMethod"})
    <2>1. IsFiniteSet({"Waydroid"})  BY FS_Singleton
    <2>2. {"Waydroid", "InputMethod"} = {"Waydroid"} \cup {"InputMethod"}  OBVIOUS
    <2> QED  BY <2>1, <2>2, FS_AddElement
  <1> QED  BY <1>1, WindowAssumption, FS_Union DEF Keys

(* The number of open windows is a natural number, and zero if none is.     *)
LEMMA CountOpenNat ==
  ASSUME NEW w
  PROVE  CountOpen(w) \in Nat
  <1>1. {k \in Keys : w[k] # None} \subseteq Keys  OBVIOUS
  <1>2. IsFiniteSet({k \in Keys : w[k] # None})  BY <1>1, KeysFinite, FS_Subset
  <1> QED  BY <1>2, FS_CardinalityType DEF CountOpen

(* With no window open the count is zero.                                   *)
LEMMA CountOpenEmpty == CountOpen(Keeping({})) = 0
  <1>1. {k \in Keys : Keeping({})[k] # None} = {}  BY DEF Keeping
  <1> QED  BY <1>1, FS_EmptySet DEF CountOpen

(* What is in a frame.                                                      *)
LEMMA FrameFacts ==
  ASSUME NEW f \in Frames
  PROVE  /\ Len(f) \in Nat
         /\ DOMAIN f = 1..Len(f)
         /\ \A n \in 1..Len(f) : f[n] \in Layers
         /\ LayerNames(f) \subseteq Tasks \cup {"InputMethod", "BootAnimation"}
         /\ FirstTask(f) \subseteq Tasks
         /\ \A s, t \in FirstTask(f) : s = t
  <1>1. PICK n \in 0..MaxLayers : f \in [1..n -> Layers]  BY DEF Frames
  <1>2. n \in Nat  BY WindowAssumption
  <1>3. Len(f) = n /\ DOMAIN f = 1..n  BY <1>1, <1>2
  <1>4. ASSUME NEW s \in FirstTask(f), NEW t \in FirstTask(f)  PROVE s = t
    <2>1. PICK a \in 1..n : /\ s = f[a].name /\ f[a].name \in Tasks
                            /\ \A l \in 1..(a - 1) : f[l].name \notin Tasks
      BY <1>3 DEF FirstTask
    <2>2. PICK b \in 1..n : /\ t = f[b].name /\ f[b].name \in Tasks
                            /\ \A l \in 1..(b - 1) : f[l].name \notin Tasks
      BY <1>3 DEF FirstTask
    <2>3. ~(a < b) /\ ~(b < a)  BY <1>2, <2>1, <2>2
    <2> QED  BY <1>2, <2>1, <2>2, <2>3
  <1> QED  BY <1>1, <1>2, <1>3, <1>4 DEF LayerNames, FirstTask, Layers

(* A window's key is a task, the Waydroid key, or a layer's name.           *)
LEMMA KeysFacts ==
  /\ "Waydroid" \in Keys
  /\ "InputMethod" \in Keys
  /\ Tasks \subseteq Keys
  /\ "Waydroid" \notin Tasks
  /\ "InputMethod" \notin Tasks
  /\ "BootAnimation" \notin Tasks
  BY WindowAssumption DEF Keys

-----------------------------------------------------------------------------
(* The invariant holds where hwc_open has opened the first window, if any.  *)
LEMMA InitInv == Init => IInv
  <1> SUFFICES ASSUME Init PROVE IInv  OBVIOUS
  <1> USE KeysFacts, WindowAssumption DEF Init
  <1>1. << >> \in Frames
    <2>1. << >> \in [1..0 -> Layers]  OBVIOUS
    <2>2. 0 \in 0..MaxLayers  OBVIOUS
    <2> QED  BY <2>1, <2>2 DEF Frames
  <1>2. TypeOK
    BY <1>1, CountOpenNat DEF TypeOK, Ids, None, Modes
  <1>3. OpenWindowsAccurate  BY DEF OpenWindowsAccurate, OpenKeys, CountOpen
  <1>4. LockInv /\ PendingInv /\ CloserInv /\ FocusInv /\ IgnoredInv
    BY DEF LockInv, PendingInv, CloserInv, FocusInv, IgnoredInv, None
  <1>5. MapInv  BY DEF MapInv, None, Ids
  <1>6. ModeInv  BY DEF ModeInv, WindowsFitMode
  <1> QED  BY <1>2, <1>3, <1>4, <1>5, <1>6 DEF IInv

-----------------------------------------------------------------------------
(* A set's actions on the map keep its type and what the map promises.      *)
LEMMA EraseAllButMap ==
  ASSUME TypeOK, MapInv, NEW S, EraseAllBut(S)
  PROVE  /\ windows' \in [Keys -> {None} \cup Ids]
         /\ openProp' \in Nat
         /\ openProp' = Cardinality(OpenKeys')
         /\ \A k \in Keys : windows'[k] # None => k \in S /\ windows'[k] = windows[k]
         /\ \A k \in Keys \cap S : windows'[k] = windows[k]
  BY CountOpenNat DEF EraseAllBut, Keeping, TypeOK, OpenKeys, CountOpen

(* Clearing the map leaves nothing open and every instance closed.          *)
LEMMA ClearMap ==
  ASSUME ClearOpenWindows
  PROVE  /\ windows' \in [Keys -> {None} \cup Ids]
         /\ openProp' \in Nat
         /\ openProp' = Cardinality(OpenKeys')
         /\ \A k \in Keys : windows'[k] = None
         /\ ignored' = {}
  <1>1. /\ windows' = Keeping({})
        /\ openProp' = 0
        /\ ignored' = {}
    BY DEF ClearOpenWindows
  <1>2. openProp' = Cardinality(OpenKeys')
    BY <1>1, CountOpenEmpty DEF OpenKeys, CountOpen
  <1> QED  BY <1>1, <1>2 DEF Keeping

(* Erasing one key keeps the map's promises.                                *)
LEMMA EraseKeyMap ==
  ASSUME TypeOK, OpenWindowsAccurate, NEW k \in Keys, EraseKey(k)
  PROVE  /\ windows' \in [Keys -> {None} \cup Ids]
         /\ openProp' \in Nat
         /\ openProp' = Cardinality(OpenKeys')
         /\ windows' = [windows EXCEPT ![k] = None]
         /\ windows'[k] = None
         /\ \A j \in Keys \ {k} : windows'[j] = windows[j]
  <1>1. windows' = [windows EXCEPT ![k] = None]  BY DEF EraseKey
  <1>2. windows' \in [Keys -> {None} \cup Ids]  BY <1>1 DEF TypeOK
  <1>3. openProp' = Cardinality(OpenKeys')
    <2>1. CASE windows[k] # None
      BY <2>1 DEF EraseKey, OpenKeys, CountOpen
    <2>2. CASE windows[k] = None
      <3>1. windows' = windows  BY <1>1, <2>2 DEF TypeOK
      <3> QED  BY <3>1, <2>2 DEF EraseKey, OpenWindowsAccurate, OpenKeys
    <2> QED  BY <2>1, <2>2
  <1>4. openProp' \in Nat  BY CountOpenNat DEF EraseKey, TypeOK
  <1> QED  BY <1>1, <1>2, <1>3, <1>4 DEF TypeOK

(* The handler's critical section on instance i, by either thread.          *)
LEMMA CloseMap ==
  ASSUME TypeOK, OpenWindowsAccurate, MapInv, NEW i \in Ids, CloseUnderLock(i)
  PROVE  /\ keyOf[i] \in Keys
         /\ windows' \in [Keys -> {None} \cup Ids]
         /\ openProp' \in Nat
         /\ openProp' = Cardinality(OpenKeys')
         /\ windows'[keyOf[i]] = None
         /\ \A j \in Keys \ {keyOf[i]} : windows'[j] = windows[j]
         /\ ignored' = ignored \cup {keyOf[i]}
         /\ ignored' \subseteq Keys
  <1>1. keyOf[i] \in Keys  BY DEF TypeOK
  <1>2. EraseKey(keyOf[i]) /\ ignored' = ignored \cup {keyOf[i]}  BY DEF CloseUnderLock
  <1> QED  BY <1>1, <1>2, EraseKeyMap DEF TypeOK

-----------------------------------------------------------------------------
(* The inductive step, one lemma for the actions that change the map.       *)
LEMMA PrepareInv == ASSUME IInv, NEW f \in Frames, Prepare(f) PROVE IInv'
  <1> USE DEF IInv, Prepare, mapVars, wlVars
  <1>1. mode' \in Modes /\ (~MultiWindows => mode' # "multi")
    BY WindowAssumption DEF SelectMode, Modes
  <1>2. TypeOK'  BY <1>1 DEF TypeOK
  <1>3. OpenWindowsAccurate'  BY DEF OpenWindowsAccurate, OpenKeys
  <1>4. LockInv' /\ PendingInv'  BY DEF LockInv, PendingInv
  <1>5. MapInv' /\ CloserInv' /\ FocusInv'  BY DEF MapInv, CloserInv, FocusInv
  <1>6. ModeInv'  BY <1>1 DEF ModeInv, WindowsFitMode
  <1>7. IgnoredInv'  BY DEF IgnoredInv
  <1> QED  BY <1>2, <1>3, <1>4, <1>5, <1>6, <1>7

(* hwc_set takes the mutex and erases the windows that are stale.           *)
LEMMA BeginSetInv == ASSUME IInv, BeginSet PROVE IInv'
  <1> USE DEF IInv, wlVars
  <1>0. /\ hwcPc = "prepared" /\ lock = "free" /\ lock' = "hwc" /\ hwcPc' = "layers"
        /\ UNCHANGED <<keyOf, created, activeApps, frame, mode, next, pending, hwcFocus,
                       wlPc, wlWin, wlFocus, early>>
    BY DEF BeginSet
  <1>a. pending = None /\ hwcFocus = None /\ wlPc # "focusing"
    BY <1>0 DEF PendingInv, LockInv
  <1>b. /\ LayerNames(frame) \subseteq Tasks \cup {"InputMethod", "BootAnimation"}
        /\ FirstTask(frame) \subseteq Tasks
        /\ \A s, t \in FirstTask(frame) : s = t
    BY FrameFacts DEF TypeOK
  <1>1. /\ windows' \in [Keys -> {None} \cup Ids]
        /\ openProp' \in Nat
        /\ openProp' = Cardinality(OpenKeys')
        /\ \A k \in Keys : windows'[k] # None => windows'[k] = windows[k]
        /\ ignored' \subseteq ignored
        /\ target' \subseteq Tasks
        /\ \A s, t \in target' : s = t
        /\ mode = "closed" => \A k \in Keys : windows'[k] = None
        /\ mode = "fullUi" => \A k \in Keys : windows'[k] # None => k = "Waydroid"
        /\ mode = "single" => windows'["Waydroid"] = None /\ target' \cap ignored' = {}
        /\ mode = "multi" => \A k \in Keys : windows'[k] # None => k \in DrawnNames
    <2>1. CASE CleanupClosed
      BY <2>1, ClearMap DEF CleanupClosed, TypeOK, ModeInv
    <2>2. CASE CleanupFullUi
      BY <2>2, EraseAllButMap DEF CleanupFullUi, TypeOK, ModeInv
    <2>3. CASE CleanupMulti
      BY <2>3, EraseAllButMap DEF CleanupMulti, TypeOK, ModeInv
    <2>4. CASE CleanupSingleBlacklisted
      BY <2>4, ClearMap, KeysFacts DEF CleanupSingleBlacklisted, TypeOK, ModeInv
    <2>5. CASE CleanupSingle
      BY <2>5, <1>b, EraseKeyMap, KeysFacts DEF CleanupSingle, TypeOK
    <2> QED  BY <2>1, <2>2, <2>3, <2>4, <2>5 DEF BeginSet
  <1>2. TypeOK'  BY <1>0, <1>1 DEF TypeOK
  <1>3. OpenWindowsAccurate'  BY <1>1 DEF OpenWindowsAccurate
  <1>4. LockInv' /\ PendingInv'  BY <1>0, <1>1, <1>a DEF LockInv, PendingInv
  <1>5. MapInv' /\ CloserInv' /\ FocusInv'
    BY <1>0, <1>1, <1>a DEF MapInv, CloserInv, FocusInv
  <1>6. ModeInv'  BY <1>0, <1>1, KeysFacts DEF ModeInv, WindowsFitMode, OpenKeys, DrawnNames
  <1>7. IgnoredInv'  BY <1>0, <1>1, WindowAssumption, KeysFacts DEF IgnoredInv
  <1> QED  BY <1>2, <1>3, <1>4, <1>5, <1>6, <1>7

(* A new instance starts unpublished, for a key that is not in the map.     *)
LEMMA StartCreateInv == ASSUME IInv, StartCreate PROVE IInv'
  <1> USE DEF IInv, mapVars, wlVars
  <1>0. /\ hwcPc = "layers" /\ next <= Len(frame) /\ created < MaxWindows
        /\ created' = created + 1 /\ pending' = created + 1 /\ hwcPc' = "creating"
        /\ UNCHANGED <<windows, openProp, ignored, activeApps, lock, frame, mode, target, next,
                       hwcFocus, wlPc, wlWin, wlFocus, early>>
    BY DEF StartCreate
  <1>1. PICK k \in WindowKeyFor(frame[next]) \ OpenKeys :
             keyOf' = [keyOf EXCEPT ![created + 1] = k]
    BY DEF StartCreate
  <1>2. next \in 1..Len(frame) /\ next \in DOMAIN frame /\ frame[next] \in Layers
    BY <1>0, FrameFacts DEF TypeOK
  <1>3. /\ k \in Keys
        /\ windows[k] = None
        /\ mode # "closed"
        /\ mode = "fullUi" => k = "Waydroid"
        /\ mode = "single" => k \in target
        /\ mode = "multi" => k \in DrawnNames
    BY <1>1, <1>2, KeysFacts DEF WindowKeyFor, OpenKeys, DrawnNames, Layers, TypeOK, Modes, Keys
  <1>4. created + 1 \in Ids /\ created \in Nat
    BY <1>0, WindowAssumption DEF TypeOK, Ids, None
  <1>5. keyOf' \in [Ids -> Keys] /\ keyOf'[created + 1] = k /\ \A i \in Ids : i <= created => keyOf'[i] = keyOf[i]
    BY <1>1, <1>3, <1>4 DEF TypeOK, Ids
  <1>6. TypeOK'  BY <1>0, <1>4, <1>5 DEF TypeOK
  <1>7. OpenWindowsAccurate'  BY <1>0 DEF OpenWindowsAccurate, OpenKeys
  <1>8. hwcFocus = None /\ pending = None  BY <1>0 DEF PendingInv
  <1>9. \A j \in Keys : windows[j] \in Nat /\ windows[j] <= created
    BY <1>4 DEF TypeOK, MapInv, None, Ids
  <1>10. LockInv' /\ PendingInv'
    BY <1>0, <1>3, <1>4, <1>5, <1>8, <1>9 DEF LockInv, PendingInv, None
  <1>11. MapInv'  BY <1>0, <1>4, <1>5, <1>9 DEF MapInv, TypeOK, None
  <1>12. CloserInv' /\ FocusInv'  BY <1>0, <1>4 DEF CloserInv, FocusInv, TypeOK, None, Ids
  <1>13. ModeInv'
    BY <1>0, <1>3, <1>5 DEF ModeInv, WindowsFitMode, OpenKeys, DrawnNames
  <1>14. IgnoredInv'
    <2>1. ~MultiWindows => \A t \in Tasks \cap ignored : k # t
      BY <1>0, <1>3, KeysFacts, WindowAssumption DEF IgnoredInv, ModeInv, TypeOK, Modes
    <2> QED  BY <1>0, <1>5, <2>1 DEF IgnoredInv
  <1> QED  BY <1>6, <1>7, <1>10, <1>11, <1>12, <1>13, <1>14

(* The new instance enters the map; nothing took its key meanwhile.         *)
LEMMA FinishCreateInv == ASSUME IInv, FinishCreate PROVE IInv'
  <1> USE DEF IInv, wlVars
  <1>0. /\ hwcPc = "creating" /\ hwcFocus = None
        /\ windows' = [windows EXCEPT ![keyOf[pending]] = pending]
        /\ openProp' = CountOpen(windows')
        /\ pending' = None /\ next' = next + 1 /\ hwcPc' = "layers"
        /\ UNCHANGED <<ignored, keyOf, created, activeApps, lock, frame, mode, target, hwcFocus,
                       wlPc, wlWin, wlFocus, early>>
    BY DEF FinishCreate
  <1>1. pending \in Ids /\ pending # None /\ keyOf[pending] \in Keys
    BY <1>0 DEF PendingInv, TypeOK
  <1>2. TypeOK'  BY <1>0, <1>1, CountOpenNat DEF TypeOK
  <1>3. OpenWindowsAccurate'  BY <1>0 DEF OpenWindowsAccurate, OpenKeys, CountOpen
  <1>4. LockInv' /\ PendingInv'
    BY <1>0, <1>2 DEF LockInv, PendingInv, TypeOK, None, Ids
  <1>5. MapInv'  BY <1>0, <1>1 DEF MapInv, TypeOK, PendingInv
  <1>6. CloserInv' /\ FocusInv'  BY <1>0 DEF CloserInv, FocusInv, LockInv
  <1>7. ModeInv'
    BY <1>0, <1>1, KeysFacts DEF ModeInv, WindowsFitMode, OpenKeys, DrawnNames, TypeOK
  <1>8. IgnoredInv'
    <2>1. windows'[keyOf[pending]] = pending /\ \A j \in Keys \ {keyOf[pending]} : windows'[j] = windows[j]
      BY <1>0, <1>1 DEF TypeOK
    <2>2. mode = "single" => keyOf[pending] \in target  BY <1>0 DEF ModeInv
    <2>3. CASE ~MultiWindows
      <3>1. \A t \in Tasks \cap ignored' : windows'[t] # None => windows'[t] \in early'
        BY <1>0, <2>1, <2>3, KeysFacts DEF IgnoredInv
      <3>2. mode' = "single" => \A t \in target' \cap ignored' : windows'[t] # None
        <4> SUFFICES ASSUME mode = "single", NEW t \in target \cap ignored PROVE windows'[t] # None
          BY <1>0
        <4>1. t = keyOf[pending]  BY <2>2, <2>3, <1>0 DEF ModeInv
        <4> QED  BY <4>1, <2>1, <1>1
      <3> QED  BY <1>0, <3>1, <3>2 DEF IgnoredInv
    <2> QED  BY <2>3 DEF IgnoredInv
  <1> QED  BY <1>2, <1>3, <1>4, <1>5, <1>6, <1>7, <1>8

(* A layer that needs no new window only moves hwc_set on.                  *)
LEMMA HandleLayerInv == ASSUME IInv, HandleLayer PROVE IInv'
  <1> USE DEF IInv, HandleLayer, mapVars, wlVars
  <1>1. TypeOK'  BY DEF TypeOK
  <1>2. OpenWindowsAccurate' /\ LockInv' /\ PendingInv' /\ MapInv' /\ CloserInv' /\ FocusInv'
    BY DEF OpenWindowsAccurate, OpenKeys, LockInv, PendingInv, MapInv, CloserInv, FocusInv
  <1>3. ModeInv' /\ IgnoredInv'
    BY DEF ModeInv, WindowsFitMode, OpenKeys, DrawnNames, IgnoredInv
  <1> QED  BY <1>1, <1>2, <1>3

(* At its end hwc_set gives the mutex back.                                 *)
LEMMA EndSetInv == ASSUME IInv, EndSet PROVE IInv'
  <1> USE DEF IInv, EndSet, mapVars, wlVars
  <1>0. << >> \in Frames
    <2>1. << >> \in [1..0 -> Layers]  OBVIOUS
    <2>2. 0 \in 0..MaxLayers  BY WindowAssumption
    <2> QED  BY <2>1, <2>2 DEF Frames
  <1>1. TypeOK'  BY <1>0 DEF TypeOK
  <1>2. OpenWindowsAccurate' /\ LockInv' /\ PendingInv' /\ MapInv' /\ CloserInv' /\ FocusInv'
    BY DEF OpenWindowsAccurate, OpenKeys, LockInv, PendingInv, MapInv, CloserInv, FocusInv
  <1>3. ModeInv' /\ IgnoredInv'
    BY DEF ModeInv, WindowsFitMode, OpenKeys, DrawnNames, IgnoredInv
  <1> QED  BY <1>1, <1>2, <1>3

(* A close handler run inside window::create erases under hwc_set's lock.   *)
LEMMA NestedCloseInv == ASSUME IInv, NEW i \in Ids, NestedClose(i) PROVE IInv'
  <1> USE DEF IInv, hwcVars, wlVars
  <1>0. /\ hwcPc = "creating" /\ hwcFocus = None
        /\ activeApps' \in {"none", activeApps}
        /\ CloseUnderLock(i)
        /\ early' = IF keyOf[i] = keyOf[pending] THEN early \cup {pending} ELSE early
        /\ UNCHANGED <<keyOf, created, lock, hwcPc, frame, mode, target, next, pending, hwcFocus,
                       wlPc, wlWin, wlFocus>>
    BY DEF NestedClose, NotifyTaskService
  <1>1. /\ keyOf[i] \in Keys
        /\ windows' \in [Keys -> {None} \cup Ids]
        /\ openProp' \in Nat
        /\ openProp' = Cardinality(OpenKeys')
        /\ windows'[keyOf[i]] = None
        /\ \A j \in Keys \ {keyOf[i]} : windows'[j] = windows[j]
        /\ ignored' = ignored \cup {keyOf[i]}
        /\ ignored' \subseteq Keys
    BY <1>0, CloseMap
  <1>2. pending \in Ids /\ pending # None /\ keyOf[pending] \in Keys /\ wlPc # "focusing"
    BY <1>0 DEF PendingInv, TypeOK, LockInv
  <1>3. TypeOK'  BY <1>0, <1>1, <1>2 DEF TypeOK
  <1>4. OpenWindowsAccurate'  BY <1>1 DEF OpenWindowsAccurate
  <1>5. LockInv' /\ PendingInv'  BY <1>0, <1>1, <1>2 DEF LockInv, PendingInv
  <1>6. MapInv' /\ CloserInv' /\ FocusInv'
    BY <1>0, <1>1, <1>2 DEF MapInv, CloserInv, FocusInv
  <1>7. ModeInv'
    <2>1. OpenKeys' \subseteq OpenKeys  BY <1>1 DEF OpenKeys
    <2> QED  BY <1>0, <2>1 DEF ModeInv, WindowsFitMode, DrawnNames
  <1>8. IgnoredInv'  BY <1>0, <1>1, <1>2 DEF IgnoredInv
  <1> QED  BY <1>3, <1>4, <1>5, <1>6, <1>7, <1>8

(* The wayland thread's close handler takes the free mutex and erases.      *)
LEMMA CloseEraseInv == ASSUME IInv, CloseErase PROVE IInv'
  <1> USE DEF IInv, hwcVars
  <1>0. /\ wlPc = "closing" /\ lock = "free" /\ wlPc' = "returning"
        /\ CloseUnderLock(wlWin)
        /\ UNCHANGED <<keyOf, created, activeApps, lock, hwcPc, frame, mode, target, next, pending,
                       hwcFocus, wlWin, wlFocus, early>>
    BY DEF CloseErase
  <1>2. wlWin \in Ids /\ hwcPc \notin {"layers", "creating"} /\ pending = None
    BY <1>0 DEF CloserInv, TypeOK, LockInv, PendingInv
  <1>1. /\ keyOf[wlWin] \in Keys
        /\ windows' \in [Keys -> {None} \cup Ids]
        /\ openProp' \in Nat
        /\ openProp' = Cardinality(OpenKeys')
        /\ windows'[keyOf[wlWin]] = None
        /\ \A j \in Keys \ {keyOf[wlWin]} : windows'[j] = windows[j]
        /\ ignored' = ignored \cup {keyOf[wlWin]}
        /\ ignored' \subseteq Keys
    BY <1>0, <1>2, CloseMap
  <1>3. TypeOK'  BY <1>0, <1>1 DEF TypeOK
  <1>4. OpenWindowsAccurate'  BY <1>1 DEF OpenWindowsAccurate
  <1>5. LockInv' /\ PendingInv'  BY <1>0, <1>1, <1>2 DEF LockInv, PendingInv
  <1>6. MapInv' /\ CloserInv' /\ FocusInv'
    BY <1>0, <1>1, <1>2 DEF MapInv, CloserInv, FocusInv
  <1>7. ModeInv'  BY <1>0, <1>2 DEF ModeInv, WindowsFitMode
  <1>8. IgnoredInv'  BY <1>0, <1>1, <1>2 DEF IgnoredInv
  <1> QED  BY <1>3, <1>4, <1>5, <1>6, <1>7, <1>8

(* The actions that leave the map, the mutex and the frame's progress alone *)
(* or only pass the mutex on.                                               *)
LEMMA HandlerInv ==
  ASSUME IInv, NEW i \in Ids,
         \/ NestedEnter(i) \/ NestedEnterReturn \/ CloseBegin(i) \/ CloseReturn
         \/ EnterBegin(i) \/ EnterReturn
  PROVE  IInv'
  <1> USE DEF IInv, mapVars, hwcVars, wlVars
  <1>0. UNCHANGED <<windows, openProp, ignored, keyOf, created, hwcPc, frame, mode, target, next,
                    pending, early>>
    BY DEF NestedEnter, NestedEnterReturn, CloseBegin, CloseReturn, EnterBegin, EnterReturn
  <1>1. OpenWindowsAccurate' /\ MapInv' /\ ModeInv' /\ IgnoredInv'
    BY <1>0
       DEF OpenWindowsAccurate, OpenKeys, MapInv, ModeInv, WindowsFitMode, DrawnNames, IgnoredInv
  <1>2. TypeOK'
    BY <1>0 DEF TypeOK, NestedEnter, NestedEnterReturn, CloseBegin, CloseReturn, EnterBegin,
      EnterReturn, NotifyTaskService
  <1>3. LockInv' /\ PendingInv'
    BY <1>0 DEF LockInv, PendingInv, NestedEnter, NestedEnterReturn, CloseBegin, CloseReturn,
      EnterBegin, EnterReturn
  <1>4. \A j \in Ids : Alive(j) => j <= created
    BY DEF Alive, MapInv, PendingInv, CloserInv, None
  <1>5. CloserInv'
    BY <1>0, <1>4 DEF CloserInv, NestedEnter, NestedEnterReturn, CloseBegin, CloseReturn,
      EnterBegin, EnterReturn, Ids, None, TypeOK
  <1>6. FocusInv'
    BY <1>0 DEF FocusInv, LockInv, PendingInv, CloserInv, Alive, NestedEnter, NestedEnterReturn,
      CloseBegin, CloseReturn, EnterBegin, EnterReturn
  <1> QED  BY <1>1, <1>2, <1>3, <1>5, <1>6

(* waydroid.active_apps changes nothing that the invariant speaks of.       *)
LEMMA SetActiveAppsInv ==
  ASSUME IInv, NEW a \in {"none", "Waydroid", "app"}, SetActiveApps(a)
  PROVE  IInv'
  <1> USE DEF IInv, SetActiveApps, mapVars, hwcVars, wlVars
  <1>1. TypeOK'  BY DEF TypeOK
  <1>2. OpenWindowsAccurate' /\ LockInv' /\ PendingInv' /\ MapInv' /\ CloserInv' /\ FocusInv'
    BY DEF OpenWindowsAccurate, OpenKeys, LockInv, PendingInv, MapInv, CloserInv, FocusInv
  <1>3. ModeInv' /\ IgnoredInv'
    BY DEF ModeInv, WindowsFitMode, OpenKeys, DrawnNames, IgnoredInv
  <1> QED  BY <1>1, <1>2, <1>3

(* A step that changes nothing keeps the invariant.                         *)
LEMMA StutterInv == ASSUME IInv, UNCHANGED vars PROVE IInv'
  <1> USE DEF IInv, vars, mapVars, hwcVars, wlVars
  <1>1. TypeOK'  BY DEF TypeOK
  <1>2. OpenWindowsAccurate' /\ LockInv' /\ PendingInv' /\ MapInv' /\ CloserInv' /\ FocusInv'
    BY DEF OpenWindowsAccurate, OpenKeys, LockInv, PendingInv, MapInv, CloserInv, FocusInv
  <1>3. ModeInv' /\ IgnoredInv'
    BY DEF ModeInv, WindowsFitMode, OpenKeys, DrawnNames, IgnoredInv
  <1> QED  BY <1>1, <1>2, <1>3

(* Every step of either thread keeps the invariant.                         *)
LEMMA Inductive == IInv /\ [Next]_vars => IInv'
  <1> SUFFICES ASSUME IInv, [Next]_vars PROVE IInv'  OBVIOUS
  <1>0. 1 \in Ids  BY WindowAssumption DEF Ids
  <1>1. ASSUME NEW f \in Frames, Prepare(f) PROVE IInv'  BY <1>1, PrepareInv
  <1>2. CASE BeginSet  BY <1>2, BeginSetInv
  <1>3. CASE HandleLayer  BY <1>3, HandleLayerInv
  <1>4. CASE StartCreate  BY <1>4, StartCreateInv
  <1>5. CASE FinishCreate  BY <1>5, FinishCreateInv
  <1>6. CASE EndSet  BY <1>6, EndSetInv
  <1>7. ASSUME NEW i \in Ids, NestedClose(i) PROVE IInv'  BY <1>7, NestedCloseInv
  <1>8. ASSUME NEW i \in Ids, NestedEnter(i) \/ CloseBegin(i) \/ EnterBegin(i) PROVE IInv'
    BY <1>8, HandlerInv
  <1>9. CASE CloseErase  BY <1>9, CloseEraseInv
  <1>10. CASE NestedEnterReturn \/ CloseReturn \/ EnterReturn  BY <1>0, <1>10, HandlerInv
  <1>11. ASSUME NEW a \in {"none", "Waydroid", "app"}, SetActiveApps(a) PROVE IInv'
    BY <1>11, SetActiveAppsInv
  <1>12. CASE UNCHANGED vars  BY <1>12, StutterInv
  <1> QED
    BY <1>1, <1>2, <1>3, <1>4, <1>5, <1>6, <1>7, <1>8, <1>9, <1>10, <1>11, <1>12 DEF Next

(* IInv holds in every reachable state.                                     *)
THEOREM InvariantHolds == Spec => []IInv
  BY InitInv, Inductive, PTL DEF Spec

-----------------------------------------------------------------------------
(* Every variable keeps its type, for any tasks and bounds.                 *)
THEOREM TypeCorrect == Spec => []TypeOK
  <1>1. IInv => TypeOK  BY DEF IInv
  <1> QED  BY <1>1, InvariantHolds, PTL

(* waydroid.open_windows is the number of open windows in every state.      *)
THEOREM PropertyIsAccurate == Spec => []OpenWindowsAccurate
  <1>1. IInv => OpenWindowsAccurate  BY DEF IInv
  <1> QED  BY <1>1, InvariantHolds, PTL

(* While layers are handled the windows are those of the mode; with this    *)
(* the asserts of full_ui_mode_base::get_window cannot fail.                *)
THEOREM ModesKeepTheirWindows == Spec => []WindowsFitMode
  <1>1. IInv => WindowsFitMode  BY DEF IInv, ModeInv
  <1> QED  BY <1>1, InvariantHolds, PTL

(* The assert in open_windows::add cannot fail.                             *)
THEOREM EmplaceSucceeds == Spec => []CreateIsFresh
  <1>1. IInv => CreateIsFresh  BY DEF IInv, PendingInv, CreateIsFresh
  <1> QED  BY <1>1, InvariantHolds, PTL

(* In the single-window mode a closed app gets no window while it is shown. *)
THEOREM ClosedStaysClosed == Spec => []ClosedAppStaysClosed
  <1>1. IInv => ClosedAppStaysClosed  BY DEF IInv, IgnoredInv, ClosedAppStaysClosed
  <1> QED  BY <1>1, InvariantHolds, PTL

(* The wayland thread's keyboard_handle_enter never uses a destroyed window.*)
THEOREM FocusIsSafe == Spec => []FocusedWindowAlive
  <1>1. IInv => FocusedWindowAlive  BY DEF IInv, FocusInv, FocusedWindowAlive, Alive
  <1> QED  BY <1>1, InvariantHolds, PTL

-----------------------------------------------------------------------------
(* The multi-window mode shows every task.                                  *)

(* A task whose layer has been handled in this set has a window, or was     *)
(* closed meanwhile; the window under creation is the next layer's.         *)
Shows(l) == WindowKeyFor(l) \subseteq OpenKeys \cup ignored

MultiInv ==
  /\ hwcPc = "prepared" => next = 1
  /\ mode = "multi" /\ hwcPc \in {"layers", "creating"} =>
       \A n \in 1..Len(frame) : n < next => Shows(frame[n])
  /\ mode = "multi" /\ hwcPc = "creating" => WindowKeyFor(frame[next]) = {keyOf[pending]}

(* Before the first frame there is nothing to show.                         *)
LEMMA MultiInit == Init => MultiInv
  BY DEF Init, MultiInv

(* What was shown stays shown while windows only go into ignored_apps.      *)
LEMMA StillShows ==
  ASSUME mode = "multi", mode' = mode,
         OpenKeys \cup ignored \subseteq (OpenKeys \cup ignored)',
         NEW l, Shows(l)
  PROVE  Shows(l)'
  BY DEF Shows, WindowKeyFor

(* Every step of the two threads keeps MultiInv.                            *)
LEMMA MultiStep == IInv /\ MultiInv /\ [Next]_vars => MultiInv'
  <1> SUFFICES ASSUME IInv, MultiInv, [Next]_vars PROVE MultiInv'  OBVIOUS
  <1>0. TypeOK /\ LockInv /\ PendingInv /\ CloserInv /\ Len(frame) \in Nat /\ next \in Nat
    BY FrameFacts DEF IInv, TypeOK
  <1>1. ASSUME NEW f \in Frames, Prepare(f) PROVE MultiInv'
    BY <1>1 DEF Prepare, MultiInv
  <1>2. CASE BeginSet
    BY <1>0, <1>2 DEF BeginSet, MultiInv
  <1>3. CASE HandleLayer
    <2>1. OpenKeys' = OpenKeys /\ ignored' = ignored
      BY <1>3 DEF HandleLayer, mapVars, OpenKeys
    <2>2. mode = "multi" => Shows(frame[next])
      BY <1>3 DEF HandleLayer, Shows
    <2>3. mode = "multi" => \A n \in 1..Len(frame) : n < next + 1 => Shows(frame[n])
      BY <1>0, <1>3, <2>2 DEF HandleLayer, MultiInv
    <2> QED  BY <1>3, <2>1, <2>3, StillShows DEF HandleLayer, MultiInv
  <1>4. CASE StartCreate
    <2>1. OpenKeys' = OpenKeys /\ ignored' = ignored
      BY <1>4 DEF StartCreate, mapVars, OpenKeys
    <2>2. mode = "multi" => WindowKeyFor(frame[next])' = {keyOf'[pending']}
      <3>1. PICK k \in WindowKeyFor(frame[next]) :
                 keyOf' = [keyOf EXCEPT ![created + 1] = k]
        BY <1>4 DEF StartCreate
      <3>2. created + 1 \in Ids  BY <1>0, <1>4, WindowAssumption DEF StartCreate, TypeOK, Ids, None
      <3>3. keyOf'[pending'] = k  BY <1>0, <1>4, <3>1, <3>2 DEF StartCreate, TypeOK
      <3> QED  BY <1>4, <3>1, <3>3 DEF StartCreate, WindowKeyFor
    <2> QED  BY <1>4, <2>1, <2>2, StillShows DEF StartCreate, MultiInv
  <1>5. CASE FinishCreate
    <2>1. pending \in Ids /\ pending # None /\ keyOf[pending] \in Keys
      BY <1>0, <1>5 DEF FinishCreate, TypeOK, PendingInv
    <2>2. OpenKeys' = OpenKeys \cup {keyOf[pending]} /\ ignored' = ignored
      BY <1>0, <1>5, <2>1 DEF FinishCreate, OpenKeys, TypeOK
    <2>3. ASSUME mode = "multi", NEW l, Shows(l) PROVE Shows(l)'
      BY <1>5, <2>2, <2>3, StillShows DEF FinishCreate
    <2>4. ASSUME mode = "multi", NEW l, WindowKeyFor(l) = {keyOf[pending]} PROVE Shows(l)'
      BY <1>5, <2>2, <2>4 DEF FinishCreate, Shows, WindowKeyFor
    <2>5. ASSUME mode = "multi", NEW n \in 1..Len(frame), n < next + 1 PROVE Shows(frame[n])'
      <3>1. frame' = frame /\ n \in Nat  BY <1>5 DEF FinishCreate
      <3>2. PICK l : l = frame[n]  OBVIOUS
      <3>3. n < next \/ n = next  BY <1>0, <2>5
      <3>4. Shows(l) \/ WindowKeyFor(l) = {keyOf[pending]}
        BY <1>5, <2>5, <3>2, <3>3 DEF FinishCreate, MultiInv
      <3>5. Shows(l)'  BY <2>3, <2>4, <2>5, <3>4
      <3> QED  BY <3>1, <3>2, <3>5 DEF Shows, WindowKeyFor
    <2>6. hwcPc' = "layers" /\ next' = next + 1 /\ frame' = frame /\ mode' = mode
      BY <1>5 DEF FinishCreate
    <2> QED  BY <2>5, <2>6 DEF MultiInv
  <1>6. CASE EndSet
    BY <1>6 DEF EndSet, MultiInv
  <1>7. ASSUME NEW i \in Ids, NestedClose(i) PROVE MultiInv'
    <2>1. (OpenKeys \cup ignored)' = OpenKeys \cup ignored \cup {keyOf[i]}
      BY <1>0, <1>7 DEF NestedClose, CloseUnderLock, EraseKey, OpenKeys, TypeOK
    <2> QED  BY <1>7, <2>1, StillShows DEF NestedClose, hwcVars, MultiInv, WindowKeyFor
  <1>8. CASE CloseErase
    BY <1>0, <1>8 DEF CloseErase, hwcVars, LockInv, MultiInv
  <1>9. ASSUME UNCHANGED <<windows, ignored, keyOf, hwcPc, frame, mode, target, next, pending>>
        PROVE  MultiInv'
    BY <1>9 DEF MultiInv, Shows, WindowKeyFor, OpenKeys
  <1>10. ASSUME \/ \E i \in Ids : NestedEnter(i)
                \/ NestedEnterReturn
                \/ \E i \in Ids : CloseBegin(i)
                \/ CloseReturn
                \/ \E i \in Ids : EnterBegin(i)
                \/ EnterReturn
                \/ \E a \in {"none", "Waydroid", "app"} : SetActiveApps(a)
                \/ UNCHANGED vars
         PROVE  MultiInv'
    BY <1>9, <1>10 DEF NestedEnter, NestedEnterReturn, CloseBegin, CloseReturn, EnterBegin,
      EnterReturn, SetActiveApps, vars, mapVars, hwcVars
  <1> QED
    BY <1>1, <1>2, <1>3, <1>4, <1>5, <1>6, <1>7, <1>8, <1>10 DEF Next

(* At the end of a multi-window set every drawn layer of a task that is not *)
(* blacklisted has its window, except for a task that was closed meanwhile. *)
THEOREM MultiShowsAll == Spec => []MultiShowsEveryTask
  <1>1. IInv /\ MultiInv => MultiShowsEveryTask
    <2> SUFFICES ASSUME IInv, MultiInv, hwcPc = "layers", next > Len(frame), mode = "multi",
                        NEW k \in DrawnNames \ (Blacklisted \cup {"BootAnimation"})
                 PROVE  k \in OpenKeys \cup ignored
      BY DEF MultiShowsEveryTask
    <2>1. DOMAIN frame = 1..Len(frame) /\ Len(frame) \in Nat /\ next \in Nat
      BY FrameFacts DEF IInv, TypeOK
    <2>2. PICK n \in 1..Len(frame) : frame[n].drawn /\ k = frame[n].name
      BY <2>1 DEF DrawnNames
    <2>3. n < next  BY <2>1
    <2>4. Shows(frame[n])  BY <2>3 DEF MultiInv
    <2> QED  BY <2>2, <2>4 DEF Shows, WindowKeyFor
  <1> QED  BY <1>1, MultiInit, MultiStep, InvariantHolds, PTL DEF Spec

-----------------------------------------------------------------------------
(* The refinement of WindowRegistry.                                        *)

(* The initial windows are those of an initial registry.                    *)
LEMMA RegistryInitHolds == Init => Registry!RegistryInit
  <1> SUFFICES ASSUME Init PROVE Registry!RegistryInit  OBVIOUS
  <1>1. \A i \in Ids : PhaseOf(i) \in {"unborn", "open"} /\ (PhaseOf(i) = "open" => i = 1)
    BY KeysFacts, WindowAssumption DEF Init, PhaseOf, Ids, None
  <1>2. keyOf \in [Ids -> Keys]  BY KeysFacts DEF Init
  <1> QED  BY <1>1, <1>2 DEF Registry!RegistryInit, Registry!Ids, Ids

(* A step that only takes instances out of the map closes them.             *)
LEMMA OnlyErases ==
  ASSUME IInv, keyOf' = keyOf, created' = created, pending' = pending,
         \A k \in Keys : windows'[k] \in {windows[k], None}
  PROVE  Registry!RegistryNext
  <1> DEFINE Gone == {i \in Ids : PhaseOf(i) = "open" /\ windows'[keyOf[i]] # i}
  <1>1. \A i \in Ids : keyOf[i] \in Keys /\ i # None  BY DEF IInv, TypeOK, Ids, None
  <1>2. \A i \in Ids : PhaseOf(i)' = IF i \in Gone THEN "closed" ELSE PhaseOf(i)
    BY <1>1 DEF PhaseOf
  <1>3. Registry!CloseSome(Gone)
    BY <1>2 DEF Registry!CloseSome, Registry!Ids, Ids
  <1>4. Gone \in SUBSET Registry!Ids  BY DEF Registry!Ids, Ids
  <1> QED  BY <1>3, <1>4 DEF Registry!RegistryNext

(* The start of window::create is the registry's birth of an instance.      *)
LEMMA StartsInstance == ASSUME IInv, StartCreate PROVE Registry!RegistryNext
  <1> USE DEF IInv
  <1>0. /\ hwcPc = "layers" /\ next <= Len(frame) /\ created < MaxWindows
        /\ created' = created + 1 /\ pending' = created + 1 /\ windows' = windows
    BY DEF StartCreate, mapVars
  <1>1. PICK k \in WindowKeyFor(frame[next]) \ OpenKeys :
             keyOf' = [keyOf EXCEPT ![created + 1] = k]
    BY DEF StartCreate
  <1>2. next \in 1..Len(frame) /\ frame[next] \in Layers
    BY <1>0, FrameFacts DEF TypeOK
  <1>3. k \in Keys /\ windows[k] = None
    BY <1>1, <1>2, KeysFacts DEF WindowKeyFor, OpenKeys, Layers, TypeOK, Modes, Keys
  <1>4. created + 1 \in Ids /\ created \in Nat /\ pending = None
    BY <1>0, WindowAssumption DEF TypeOK, Ids, None, PendingInv
  <1>n. PICK n \in Ids : n = created + 1  BY <1>4
  <1>5. /\ keyOf'[n] = k
        /\ \A i \in Ids \ {n} : keyOf'[i] = keyOf[i]
    BY <1>1, <1>n DEF TypeOK
  <1>6. \A i \in Ids : i \in Nat /\ i # None  BY DEF Ids, None
  <1>7. \A i \in Ids : keyOf[i] = k => PhaseOf(i) \notin {"creating", "open"}
    BY <1>3, <1>4, <1>6 DEF PhaseOf
  <1>8. PhaseOf(n) = "unborn" /\ PhaseOf(n)' = "creating"
    BY <1>0, <1>n, <1>4, <1>6 DEF PhaseOf
  <1>9. \A i \in Ids \ {n} : PhaseOf(i)' = PhaseOf(i)
    BY <1>0, <1>n, <1>4, <1>5, <1>6 DEF PhaseOf
  <1>10. Registry!Start(n, k)
    BY <1>1, <1>n, <1>7, <1>8, <1>9 DEF Registry!Start, Registry!Ids, Ids
  <1> QED  BY <1>3, <1>n, <1>10 DEF Registry!RegistryNext, Registry!Ids, Ids

(* open_windows::add is the registry's publication of an instance.          *)
LEMMA PublishesInstance == ASSUME IInv, FinishCreate PROVE Registry!RegistryNext
  <1> USE DEF IInv
  <1>0. /\ hwcPc = "creating"
        /\ windows' = [windows EXCEPT ![keyOf[pending]] = pending]
        /\ pending' = None /\ UNCHANGED <<keyOf, created>>
    BY DEF FinishCreate
  <1>1. /\ pending \in Ids /\ pending # None /\ keyOf[pending] \in Keys
        /\ windows[keyOf[pending]] = None /\ pending <= created
    BY <1>0 DEF PendingInv, TypeOK
  <1>2. \A i \in Ids : i \in Nat /\ i # None /\ keyOf[i] \in Keys  BY DEF Ids, None, TypeOK
  <1>3. created \in Nat  BY DEF TypeOK, Ids, None
  <1>4. PhaseOf(pending) = "creating"  BY <1>1, <1>2, <1>3 DEF PhaseOf
  <1>5. \A i \in Ids : PhaseOf(i)' = IF i = pending THEN "open" ELSE PhaseOf(i)
    BY <1>0, <1>1, <1>2, <1>3 DEF PhaseOf, TypeOK
  <1>6. Registry!Publish(pending)
    BY <1>0, <1>1, <1>4, <1>5 DEF Registry!Publish, Registry!Ids, Ids
  <1> QED  BY <1>1, <1>6 DEF Registry!RegistryNext, Registry!Ids, Ids

(* Every step is a step of the registry, or leaves it alone.                *)
LEMMA RegistryStep == ASSUME IInv, [Next]_vars
                     PROVE [Registry!RegistryNext]_<<[i \in Ids |-> PhaseOf(i)], keyOf>>
  <1> USE DEF IInv, mapVars, hwcVars, wlVars
  <1>1. CASE BeginSet
    <2>1. \A k \in Keys : windows'[k] \in {windows[k], None}
      <3>1. CASE CleanupClosed \/ CleanupSingleBlacklisted
        BY <3>1, ClearMap DEF CleanupClosed, CleanupSingleBlacklisted
      <3>2. CASE CleanupFullUi \/ CleanupMulti
        BY <3>2 DEF CleanupFullUi, CleanupMulti, EraseAllBut, Keeping
      <3>3. CASE CleanupSingle
        BY <3>3 DEF CleanupSingle, EraseKey, TypeOK
      <3> QED  BY <1>1, <3>1, <3>2, <3>3 DEF BeginSet
    <2> QED  BY <1>1, <2>1, OnlyErases DEF BeginSet
  <1>2. CASE StartCreate  BY <1>2, StartsInstance
  <1>3. CASE FinishCreate  BY <1>3, PublishesInstance
  <1>4. ASSUME NEW i \in Ids, NestedClose(i) PROVE Registry!RegistryNext
    BY <1>4, OnlyErases DEF NestedClose, CloseUnderLock, EraseKey, TypeOK
  <1>5. CASE CloseErase
    BY <1>5, OnlyErases DEF CloseErase, CloseUnderLock, EraseKey, TypeOK
  <1>6. ASSUME UNCHANGED <<windows, keyOf, created, pending>>
        PROVE  UNCHANGED <<[i \in Ids |-> PhaseOf(i)], keyOf>>
    BY <1>6 DEF PhaseOf
  <1>7. ASSUME \/ \E f \in Frames : Prepare(f)
               \/ HandleLayer
               \/ EndSet
               \/ \E i \in Ids : NestedEnter(i)
               \/ NestedEnterReturn
               \/ \E i \in Ids : CloseBegin(i)
               \/ CloseReturn
               \/ \E i \in Ids : EnterBegin(i)
               \/ EnterReturn
               \/ \E a \in {"none", "Waydroid", "app"} : SetActiveApps(a)
               \/ UNCHANGED vars
        PROVE  UNCHANGED <<windows, keyOf, created, pending>>
    BY <1>7 DEF Prepare, HandleLayer, EndSet, NestedEnter, NestedEnterReturn, CloseBegin,
      CloseReturn, EnterBegin, EnterReturn, SetActiveApps, vars
  <1> QED  BY <1>1, <1>2, <1>3, <1>4, <1>5, <1>6, <1>7 DEF Next

(* The frames, threads and handlers implement the abstract registry: every  *)
(* instance is created once, enters the map once, leaves it for good, and   *)
(* no two live instances share a key.                                       *)
THEOREM ImplementsRegistry == Spec => RegistrySafety
  <1>1. IInv /\ [Next]_vars => [Registry!RegistryNext]_<<[i \in Ids |-> PhaseOf(i)], keyOf>>
    BY RegistryStep
  <1>2. <<[i \in Ids |-> PhaseOf(i)], keyOf>> = Registry!registryVars  BY DEF Registry!registryVars
  <1> QED
    BY <1>1, RegistryInitHolds, InvariantHolds, PTL
    DEF Spec, RegistrySafety, Registry!RegistrySpec, Registry!registryVars


-----------------------------------------------------------------------------
(* A set ends.  SetCompletes is out of the provers' reach; what makes it    *)
(* true under fairness is proved here for any frame: hwc_set is never       *)
(* without a next step, and each of its steps brings it closer to its end.  *)

LayersLeft == Len(frame) + 1 - next

(* The steps of SurfaceFlinger's thread that are left, two for a layer.     *)
SetLeft ==
  CASE hwcPc = "idle"     -> 0
    [] hwcPc = "prepared" -> 2 * LayersLeft + 2
    [] hwcPc = "layers"   -> 2 * LayersLeft + 1
    [] hwcPc = "creating" -> 2 * LayersLeft

SetStep == BeginSet \/ HandleLayer \/ StartCreate \/ FinishCreate \/ EndSet

(* The keys that full-ui and the single-window mode open windows for.       *)
ModeKeys == IF mode = "fullUi" THEN {"Waydroid"} ELSE target

(* What is left of MaxWindows is enough for the layers that are left: in    *)
(* the multi-window mode for one window each, in the others for one that    *)
(* nothing closes before the set is over.                                   *)
BoundInv ==
  /\ next <= Len(frame) + 1
  /\ hwcPc = "creating" => next <= Len(frame)
  /\ MultiWindows =>
       /\ hwcPc \in {"prepared", "layers"} => created + LayersLeft <= MaxWindows
       /\ hwcPc = "creating" => created + LayersLeft <= MaxWindows + 1
  /\ ~MultiWindows =>
       /\ hwcPc = "prepared" => created < MaxWindows
       /\ hwcPc = "layers" => created < MaxWindows \/ mode = "closed" \/ ModeKeys \subseteq OpenKeys
       /\ hwcPc = "creating" => ModeKeys = {keyOf[pending]}

(* In hwc_set's loop: the layer's window is there or can be created.  The   *)
(* bound on windows cuts no set short.                                      *)
LayerCanBeHandled ==
  hwcPc = "layers" /\ next <= Len(frame) =>
    WindowKeyFor(frame[next]) \subseteq OpenKeys \/ created < MaxWindows

(* Who has to give windowsMutex back waits for nothing: hwc_set is in its   *)
(* loop, where the mutex is its own, or the wayland thread is in            *)
(* keyboard_handle_enter.                                                   *)
OwnerRuns ==
  /\ lock = "hwc" => hwcPc \in {"layers", "creating"}
  /\ lock = "wl" => wlPc = "focusing" /\ hwcPc \in {"idle", "prepared"}

(* The layers left are a number, and one less is left past a layer.         *)
LEMMA LayersLeftFacts ==
  ASSUME IInv, BoundInv
  PROVE  /\ LayersLeft \in Nat
         /\ next <= Len(frame) => LayersLeft > 0
         /\ UNCHANGED <<frame, next>> => LayersLeft' = LayersLeft
         /\ next' = next + 1 /\ frame' = frame => LayersLeft' = LayersLeft - 1
  <1>1. PICK n \in Nat : n = Len(frame)
    BY FrameFacts DEF IInv, TypeOK
  <1>2. next \in Nat /\ next <= n + 1  BY <1>1 DEF IInv, TypeOK, BoundInv
  <1>3. LayersLeft = n + 1 - next  BY <1>1 DEF LayersLeft
  <1>4. frame' = frame => LayersLeft' = n + 1 - next'  BY <1>1 DEF LayersLeft
  <1> QED  BY <1>1, <1>2, <1>3, <1>4

(* Steps that leave hwc_set where it is, and the map if it is in its loop.  *)
LEMMA BoundElsewhere ==
  ASSUME IInv, BoundInv,
         UNCHANGED <<frame, next, hwcPc, mode, target, created, keyOf, pending>>,
         hwcPc = "layers" => windows' = windows
  PROVE  BoundInv'
  BY DEF BoundInv, LayersLeft, ModeKeys, OpenKeys

(* hwc_prepare leaves room for the windows of its set.                      *)
LEMMA PrepareBound ==
  ASSUME IInv, NEW f \in Frames, Prepare(f)
  PROVE  BoundInv'
  <1>1. PICK n \in 0..MaxLayers : n = Len(f)
    <2>1. PICK n \in 0..MaxLayers : f \in [1..n -> Layers]  BY DEF Frames
    <2> QED  BY <2>1, WindowAssumption
  <1>2. n \in Nat /\ n <= MaxLayers /\ MaxLayers \in Nat /\ created \in Nat /\ MaxWindows \in Nat
    BY <1>1, WindowAssumption DEF IInv, TypeOK, None, Ids
  <1>3. frame' = f /\ next' = 1 /\ hwcPc' = "prepared" /\ created' = created
    BY DEF Prepare
  <1>4. created + NewPerSet <= MaxWindows  BY DEF Prepare
  <1>5. LayersLeft' = n
    <2>1. LayersLeft' = n + 1 - 1  BY <1>1, <1>3 DEF LayersLeft
    <2> QED  BY <1>2, <2>1
  <1>6. next' <= Len(frame') + 1  BY <1>1, <1>2, <1>3
  <1>7. CASE MultiWindows
    <2>1. created' + LayersLeft' <= MaxWindows  BY <1>2, <1>3, <1>4, <1>5, <1>7 DEF NewPerSet
    <2> QED  BY <1>3, <1>6, <1>7, <2>1 DEF BoundInv
  <1>8. CASE ~MultiWindows
    <2>1. created' < MaxWindows  BY <1>2, <1>3, <1>4, <1>8 DEF NewPerSet
    <2> QED  BY <1>3, <1>6, <1>8, <2>1 DEF BoundInv
  <1> QED  BY <1>7, <1>8

(* hwc_set creates a window: the one of its mode, or one of many.           *)
LEMMA StartCreateBound ==
  ASSUME IInv, BoundInv, StartCreate
  PROVE  BoundInv'
  <1>1. created \in Nat /\ created + 1 \in Ids /\ MaxWindows \in Nat
    BY WindowAssumption DEF IInv, TypeOK, None, Ids, StartCreate
  <1>2. /\ hwcPc = "layers" /\ hwcPc' = "creating" /\ next <= Len(frame)
        /\ created' = created + 1 /\ pending' = created + 1
        /\ UNCHANGED <<frame, next, mode, target>>
    BY DEF StartCreate
  <1>3. LayersLeft \in Nat /\ LayersLeft' = LayersLeft  BY <1>2, LayersLeftFacts
  <1>4. PICK k \in WindowKeyFor(frame[next]) : keyOf' = [keyOf EXCEPT ![created + 1] = k]
    BY DEF StartCreate
  <1>5. keyOf'[pending'] = k  BY <1>1, <1>2, <1>4 DEF IInv, TypeOK
  <1>6. CASE MultiWindows
    <2>1. created' + LayersLeft' <= MaxWindows + 1  BY <1>1, <1>2, <1>3, <1>6 DEF BoundInv
    <2> QED  BY <1>2, <1>6, <2>1 DEF BoundInv
  <1>7. CASE ~MultiWindows
    <2>1. mode \in {"fullUi", "single"}
      BY <1>4, <1>7 DEF IInv, ModeInv, TypeOK, Modes, WindowKeyFor
    <2>2. k \in ModeKeys  BY <1>4, <2>1 DEF WindowKeyFor, ModeKeys
    <2>3. ModeKeys = {k}  BY <2>2 DEF ModeKeys, IInv, ModeInv
    <2>4. ModeKeys' = {keyOf'[pending']}  BY <1>2, <1>5, <2>3 DEF ModeKeys
    <2> QED  BY <1>2, <1>7, <2>4 DEF BoundInv
  <1> QED  BY <1>6, <1>7

(* The window is in the map and the next layer's turn has come.             *)
LEMMA FinishCreateBound ==
  ASSUME IInv, BoundInv, FinishCreate
  PROVE  BoundInv'
  <1>1. PICK n \in Nat : n = Len(frame)
    BY FrameFacts DEF IInv, TypeOK
  <1>2. /\ created \in Nat /\ MaxWindows \in Nat /\ next \in Nat
        /\ pending # None /\ pending \in Ids /\ keyOf[pending] \in Keys
    BY WindowAssumption DEF IInv, TypeOK, None, Ids, FinishCreate, PendingInv
  <1>3. /\ hwcPc = "creating" /\ hwcPc' = "layers" /\ next' = next + 1
        /\ UNCHANGED <<created, frame, mode, target, keyOf>>
    BY DEF FinishCreate
  <1>4. next <= n  BY <1>1, <1>3 DEF BoundInv
  <1>5. LayersLeft \in Nat /\ LayersLeft' = LayersLeft - 1  BY <1>3, LayersLeftFacts
  <1>6. next' <= Len(frame') + 1  BY <1>1, <1>2, <1>3, <1>4
  <1>7. CASE MultiWindows
    <2>1. created' + LayersLeft' <= MaxWindows  BY <1>2, <1>3, <1>5, <1>7 DEF BoundInv
    <2> QED  BY <1>3, <1>6, <1>7, <2>1 DEF BoundInv
  <1>8. CASE ~MultiWindows
    <2>1. windows'[keyOf[pending]] # None  BY <1>2 DEF FinishCreate, IInv, TypeOK
    <2>2. keyOf[pending] \in OpenKeys'  BY <1>2, <2>1 DEF OpenKeys
    <2>3. ModeKeys' = {keyOf[pending]}  BY <1>3, <1>8 DEF BoundInv, ModeKeys
    <2> QED  BY <1>3, <1>6, <1>8, <2>2, <2>3 DEF BoundInv
  <1> QED  BY <1>7, <1>8

(* Every step leaves enough windows for the layers that are left.           *)
LEMMA BoundStep == IInv /\ BoundInv /\ [Next]_vars => BoundInv'
  <1> SUFFICES ASSUME IInv, BoundInv, [Next]_vars PROVE BoundInv'  OBVIOUS
  <1>1. CASE BeginSet
    <2>1. hwcPc = "prepared" /\ hwcPc' = "layers" /\ UNCHANGED <<frame, next, mode, created>>
      BY <1>1 DEF BeginSet
    <2> QED  BY <2>1 DEF BoundInv, LayersLeft
  <1>2. CASE HandleLayer
    <2>1. PICK n \in Nat : n = Len(frame)  BY FrameFacts DEF IInv, TypeOK
    <2>2. /\ hwcPc = "layers" /\ hwcPc' = "layers" /\ next <= n /\ next' = next + 1
          /\ UNCHANGED <<created, frame, mode, target, windows>>
      BY <1>2, <2>1 DEF HandleLayer, mapVars
    <2>3. next \in Nat /\ created \in Nat /\ MaxWindows \in Nat
      BY WindowAssumption DEF IInv, TypeOK, None, Ids
    <2>4. next' <= Len(frame') + 1  BY <2>1, <2>2, <2>3
    <2>5. LayersLeft \in Nat /\ LayersLeft' = LayersLeft - 1  BY <2>2, LayersLeftFacts
    <2>6. MultiWindows => created' + LayersLeft' <= MaxWindows
      BY <2>2, <2>3, <2>5 DEF BoundInv
    <2> QED  BY <2>2, <2>4, <2>6 DEF BoundInv, ModeKeys, OpenKeys
  <1>3. CASE EndSet
    BY <1>3 DEF EndSet, BoundInv
  <1>4. CASE CloseErase
    <2>1. hwcPc # "layers"  BY <1>4 DEF CloseErase, IInv, LockInv
    <2> QED  BY <1>4, <2>1, BoundElsewhere DEF CloseErase, hwcVars
  <1>5. CASE \E i \in Ids : NestedClose(i)
    BY <1>5, BoundElsewhere DEF NestedClose, hwcVars
  <1>6. CASE \/ \E i \in Ids : NestedEnter(i) \/ CloseBegin(i) \/ EnterBegin(i)
             \/ NestedEnterReturn \/ CloseReturn \/ EnterReturn
             \/ \E a \in {"none", "Waydroid", "app"} : SetActiveApps(a)
             \/ UNCHANGED vars
    <2>1. UNCHANGED <<windows, frame, next, hwcPc, mode, target, created, keyOf, pending>>
      BY <1>6 DEF NestedEnter, NestedEnterReturn, CloseBegin, CloseReturn, EnterBegin, EnterReturn,
                  SetActiveApps, vars, mapVars, hwcVars
    <2> QED  BY <2>1, BoundElsewhere
  <1> QED
    BY <1>1, <1>2, <1>3, <1>4, <1>5, <1>6, PrepareBound, StartCreateBound, FinishCreateBound DEF Next

(* The bound leaves room for the layer that comes next.                     *)
LEMMA RoomForLayer ==
  ASSUME IInv, BoundInv
  PROVE  LayerCanBeHandled
  <1> SUFFICES ASSUME hwcPc = "layers", next <= Len(frame), created >= MaxWindows
               PROVE  WindowKeyFor(frame[next]) \subseteq OpenKeys
    BY WindowAssumption DEF LayerCanBeHandled, IInv, TypeOK, None, Ids
  <1>1. created \in Nat /\ MaxWindows \in Nat /\ LayersLeft \in Nat /\ LayersLeft > 0
    BY WindowAssumption, LayersLeftFacts DEF IInv, TypeOK, None, Ids
  <1>2. ~MultiWindows  BY <1>1 DEF BoundInv
  <1>3. mode = "closed" \/ ModeKeys \subseteq OpenKeys  BY <1>1, <1>2 DEF BoundInv
  <1>4. mode # "multi" /\ mode \in Modes  BY <1>2 DEF IInv, ModeInv, TypeOK
  <1> QED  BY <1>3, <1>4 DEF WindowKeyFor, ModeKeys, Modes

(* The measure is a number that no step raises and each of hwc_set lowers.  *)
LEMMA SetStepGetsOn ==
  ASSUME IInv, BoundInv, [Next]_vars, hwcPc # "idle"
  PROVE  SetLeft' <= SetLeft /\ (SetStep => SetLeft' < SetLeft)
  <1>1. LayersLeft \in Nat  BY LayersLeftFacts
  <1>2. CASE BeginSet
    <2>1. LayersLeft' = LayersLeft  BY <1>2, LayersLeftFacts DEF BeginSet
    <2> QED  BY <1>1, <1>2, <2>1 DEF BeginSet, SetLeft
  <1>3. CASE HandleLayer
    <2>1. LayersLeft' = LayersLeft - 1  BY <1>3, LayersLeftFacts DEF HandleLayer
    <2> QED  BY <1>1, <1>3, <2>1 DEF HandleLayer, SetLeft
  <1>4. CASE StartCreate
    <2>1. LayersLeft' = LayersLeft  BY <1>4, LayersLeftFacts DEF StartCreate
    <2> QED  BY <1>1, <1>4, <2>1 DEF StartCreate, SetLeft
  <1>5. CASE FinishCreate
    <2>1. LayersLeft' = LayersLeft - 1  BY <1>5, LayersLeftFacts DEF FinishCreate
    <2> QED  BY <1>1, <1>5, <2>1 DEF FinishCreate, SetLeft
  <1>6. CASE EndSet
    BY <1>1, <1>6 DEF EndSet, SetLeft
  <1>7. CASE UNCHANGED <<frame, next, hwcPc>>
    <2>1. LayersLeft' = LayersLeft  BY <1>7, LayersLeftFacts
    <2>2. SetLeft' = SetLeft /\ SetLeft \in Nat
      BY <1>1, <1>7, <2>1 DEF SetLeft, IInv, TypeOK
    <2>3. ~SetStep  BY <1>7, FrameFacts
                    DEF SetStep, BeginSet, HandleLayer, StartCreate, FinishCreate, EndSet, IInv, TypeOK
    <2> QED  BY <2>2, <2>3
  <1>8. UNCHANGED <<frame, next, hwcPc>> \/ SetStep
    BY DEF Next, SetStep, Prepare, NestedClose, NestedEnter, NestedEnterReturn, CloseBegin, CloseErase,
           CloseReturn, EnterBegin, EnterReturn, SetActiveApps, vars, hwcVars
  <1> QED  BY <1>2, <1>3, <1>4, <1>5, <1>6, <1>7, <1>8 DEF SetStep

(* The windows that a set still needs can be created, so that hwc_set's     *)
(* loop always has a next step, and whoever holds windowsMutex waits for    *)
(* nobody.                                                                  *)
THEOREM LoopGoesOn == Spec => [](LayerCanBeHandled /\ OwnerRuns)
  <1>1. Init => BoundInv
    BY DEF Init, BoundInv
  <1>2. IInv /\ BoundInv => LayerCanBeHandled /\ OwnerRuns
    BY RoomForLayer DEF OwnerRuns, IInv, LockInv, TypeOK
  <1> QED  BY <1>1, <1>2, BoundStep, InvariantHolds, PTL DEF Spec

(* What is left is a number, and no more than two steps for each layer, the *)
(* set's beginning and its end.                                             *)
LEMMA SetLeftIsBounded ==
  ASSUME TypeOK, BoundInv
  PROVE  SetLeft \in 0..(2 * MaxLayers + 2)
  <1>1. PICK n \in 0..MaxLayers : frame \in [1..n -> Layers]
    BY DEF TypeOK, Frames
  <1>2. Len(frame) = n /\ n \in Nat /\ n <= MaxLayers /\ MaxLayers \in Nat
    BY <1>1, WindowAssumption
  <1>3. next \in Nat \ {0} /\ next <= n + 1 /\ (hwcPc = "creating" => next <= n)
    BY <1>2 DEF TypeOK, BoundInv
  <1>4. LayersLeft = n + 1 - next
    BY <1>2 DEF LayersLeft
  <1>5. LayersLeft \in Nat /\ LayersLeft <= MaxLayers
    BY <1>2, <1>3, <1>4
  <1>6. hwcPc \in {"idle", "prepared", "layers", "creating"}
    BY DEF TypeOK
  <1> QED  BY <1>2, <1>5, <1>6 DEF SetLeft

(* hwc_set ends after at most 2 * MaxLayers + 2 of its own steps, whatever  *)
(* the events nested in them and the wayland thread do.                     *)
THEOREM SetsEnd ==
  Spec => /\ [](SetLeft \in 0..(2 * MaxLayers + 2))
          /\ [][hwcPc # "idle" => SetLeft' <= SetLeft /\ (SetStep => SetLeft' < SetLeft)]_vars
  <1>1. Init => BoundInv
    BY DEF Init, BoundInv
  <1>2. IInv /\ BoundInv /\ [Next]_vars
          => [hwcPc # "idle" => SetLeft' <= SetLeft /\ (SetStep => SetLeft' < SetLeft)]_vars
    BY SetStepGetsOn
  <1>3. IInv /\ BoundInv => SetLeft \in 0..(2 * MaxLayers + 2)
    BY SetLeftIsBounded DEF IInv
  <1> QED  BY <1>1, <1>2, <1>3, BoundStep, InvariantHolds, PTL DEF Spec
=============================================================================

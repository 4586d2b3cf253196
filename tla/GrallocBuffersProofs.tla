------------------------ MODULE GrallocBuffersProofs ------------------------
(***************************************************************************)
(* Proofs about GrallocBuffers, for any set of handles and any number of    *)
(* locks: the types, which handle has a buffer object, and the mapping and  *)
(* the count of the locks of a buffer.                                      *)
(***************************************************************************)
EXTENDS GrallocBuffers, TLAPS

(* A buffer that nobody has locked is locked for nothing.                   *)
UnlockedForNothing ==
  \A h \in Handles : lockCount[h] = 0 => lockedFor[h] = {}

(* The inductive invariant of the locks.  MappedWhileLocked alone does not  *)
(* survive a first lock, which joins the usage to what is in locked_for,    *)
(* nor an unlock, which needs the count to cover the lock given back.       *)
LocksInv ==
  /\ TypeOK
  /\ UnlockedForNothing
  /\ MappedWhileLocked
  /\ HeldLocksCount

-----------------------------------------------------------------------------
(* Taking a lock keeps the types of what it changes.                        *)
LEMMA TakeLockType ==
  ASSUME TypeOK, NEW h \in Handles, NEW u \in Usages,
         lockCount[h] < MaxLocks, TakeLock(h, u)
  PROVE  /\ mapped' \in [Handles -> BOOLEAN]
         /\ lockCount' \in [Handles -> 0..MaxLocks]
         /\ lockedFor' \in [Handles -> Usages]
<1> USE GrallocAssumption DEF TypeOK, Usages, TakeLock
<1> DEFINE maps == (u \cup lockedFor[h]) \cap Software # {}
<1>1. (mapped[h] \/ maps) \in BOOLEAN
  OBVIOUS
<1>2. mapped' \in [Handles -> BOOLEAN]
  <2> HIDE DEF maps
  <2>1. mapped' = [mapped EXCEPT ![h] = mapped[h] \/ maps]
    BY DEF maps
  <2> QED
    BY <1>1, <2>1, Zenon
<1>3. lockCount' \in [Handles -> 0..MaxLocks]
  OBVIOUS
<1>4. lockedFor' \in [Handles -> Usages]
  <2>1. lockedFor[h] \cup u \in Usages
    OBVIOUS
  <2> QED
    BY <2>1
<1> QED
  BY <1>2, <1>3, <1>4

(* Every action keeps the types; the count of a buffer stays in its range   *)
(* because it covers what the clients hold.                                 *)
LEMMA TypeStep == ASSUME TypeOK, HeldLocksCount, [Next]_vars PROVE TypeOK'
<1> USE GrallocAssumption DEF TypeOK, Usages, HeldLocksCount
<1>1. CASE UNCHANGED vars
  BY <1>1 DEF vars, handleVars, lockVars
<1>2. CASE OpenDevice
  BY <1>2 DEF OpenDevice, GbmInit, handleVars, lockVars
<1>3. CASE CloseGpu0
  BY <1>3 DEF CloseGpu0, handleVars, lockVars
<1>4. ASSUME NEW h \in Handles, NEW f \in Formats, NEW u \in Usages, Alloc(h, f, u)
      PROVE TypeOK'
  BY <1>4 DEF Alloc, Unlocked
<1>5. ASSUME NEW h \in Handles, Free(h) PROVE TypeOK'
  BY <1>5 DEF Free, GbmFree, Unlocked
<1>6. ASSUME NEW h \in Handles, NEW f \in Formats, NEW u \in Usages, Register(h, f, u)
      PROVE TypeOK'
  BY <1>6 DEF Register, GbmInit, Unlocked
<1>7. ASSUME NEW h \in Handles, Unregister(h) PROVE TypeOK'
  BY <1>7 DEF Unregister, GbmFree, Unlocked
<1>8. ASSUME NEW h \in Handles, NEW u \in Usages, Lock(h, u) PROVE TypeOK'
  <2>1. held' \in [Handles -> 0..MaxLocks]
    <3>1. held[h] + 1 \in 0..MaxLocks
      BY <1>8 DEF Lock
    <3> QED
      BY <1>8, <3>1 DEF Lock
  <2> QED
    BY <1>8, <2>1, TakeLockType DEF Lock, handleVars
<1>9. ASSUME NEW h \in Handles, NEW u \in Usages, LockFails(h, u) PROVE TypeOK'
  BY <1>9 DEF LockFails, Lookup, lockVars
<1>10. ASSUME NEW h \in Handles, NEW u \in Usages, LockYcbcr(h, u) PROVE TypeOK'
  <2>1. held' \in [Handles -> 0..MaxLocks]
    <3>1. held[h] \in 0..MaxLocks /\ held[h] + 1 \in 0..MaxLocks
      BY <1>10 DEF LockYcbcr
    <3> QED
      BY <1>10, <3>1 DEF LockYcbcr
  <2> QED
    BY <1>10, <2>1, TakeLockType DEF LockYcbcr, handleVars
<1>11. ASSUME NEW h \in Handles, Unlock(h) PROVE TypeOK'
  BY <1>11 DEF Unlock, handleVars
<1> QED
  BY <1>1, <1>2, <1>3, <1>4, <1>5, <1>6, <1>7, <1>8, <1>9, <1>10, <1>11 DEF Next

(* What taking a lock does to the buffer it takes it on.                    *)
LEMMA TakeLockInv ==
  ASSUME LocksInv, NEW h \in Handles, NEW u \in Usages,
         lockCount[h] < MaxLocks, CanLock(h, u), TakeLock(h, u)
  PROVE  /\ UnlockedForNothing'
         /\ MappedWhileLocked'
<1> USE DEF LocksInv, TypeOK, Usages
<1>1. PICK n \in 0..MaxLocks : n = lockCount[h]
  OBVIOUS
<1>2. /\ lockCount'[h] = n + 1
      /\ lockedFor'[h] = lockedFor[h] \cup u
      /\ mapped'[h] = (mapped[h] \/ (u \cup lockedFor[h]) \cap Software # {})
  BY <1>1 DEF TakeLock
<1>3. \A g \in Handles \ {h} :
        /\ lockCount'[g] = lockCount[g]
        /\ lockedFor'[g] = lockedFor[g]
        /\ mapped'[g] = mapped[g]
  BY DEF TakeLock
<1>4. n + 1 > 0 /\ n + 1 # 0
  BY <1>1, GrallocAssumption
<1>5. UnlockedForNothing'
  BY <1>2, <1>3, <1>4 DEF UnlockedForNothing
<1>6. ~mapped[h] \/ lockedFor[h] \cap Software # {}
  BY DEF MappedWhileLocked
<1>7. mapped'[h] <=> lockedFor'[h] \cap Software # {}
  BY <1>2, <1>6
<1>8. ASSUME mapped'[h] PROVE n = 0
  <2>1. ~mapped[h]
    BY <1>2, <1>6, <1>8 DEF CanLock, Mappable
  <2>2. n = 0 \/ u \subseteq lockedFor[h]
    BY <1>1 DEF CanLock, Compatible
  <2>3. ASSUME n # 0 PROVE FALSE
    <3>1. lockedFor[h] \cap Software # {}
      BY <1>2, <1>8, <2>1, <2>2, <2>3
    <3>2. n > 0
      BY <1>1, <2>3
    <3> QED
      BY <1>1, <2>1, <3>1, <3>2 DEF MappedWhileLocked
  <2> QED
    BY <2>3
<1>9. MappedWhileLocked'
  BY <1>2, <1>3, <1>4, <1>7, <1>8 DEF MappedWhileLocked
<1> QED
  BY <1>5, <1>9

(* A buffer object that is new, or gone, has no lock.                       *)
LEMMA UnlockedInv ==
  ASSUME LocksInv, NEW h \in Handles, Unlocked(h)
  PROVE  /\ UnlockedForNothing'
         /\ MappedWhileLocked'
         /\ HeldLocksCount'
<1> USE DEF LocksInv, TypeOK, Usages
<1>1. /\ lockCount'[h] = 0
      /\ lockedFor'[h] = {}
      /\ mapped'[h] = FALSE
      /\ held'[h] = 0
  BY DEF Unlocked
<1>2. \A g \in Handles \ {h} :
        /\ lockCount'[g] = lockCount[g]
        /\ lockedFor'[g] = lockedFor[g]
        /\ mapped'[g] = mapped[g]
        /\ held'[g] = held[g]
  BY DEF Unlocked
<1>3. UnlockedForNothing'
  BY <1>1, <1>2 DEF UnlockedForNothing
<1>4. MappedWhileLocked'
  BY <1>1, <1>2 DEF MappedWhileLocked
<1>5. HeldLocksCount'
  BY <1>1, <1>2 DEF HeldLocksCount
<1> QED
  BY <1>3, <1>4, <1>5

(* An unlock gives back one lock, and the mapping with it.                  *)
LEMMA UnlockInv ==
  ASSUME LocksInv, NEW h \in Handles, Unlock(h)
  PROVE  /\ UnlockedForNothing'
         /\ MappedWhileLocked'
         /\ HeldLocksCount'
<1> USE DEF LocksInv, TypeOK, Usages
<1>1. PICK n \in 0..MaxLocks : n = lockCount[h]
  OBVIOUS
<1>2. PICK k \in 0..MaxLocks : k = held[h]
  OBVIOUS
<1>3. k > 0 /\ k <= n
  BY <1>1, <1>2 DEF Unlock, HeldLocksCount
<1>4. /\ lockCount'[h] = n - 1
      /\ lockedFor'[h] = (IF n = 1 THEN {} ELSE lockedFor[h])
      /\ mapped'[h] = (mapped[h] /\ lockedFor[h] \cap Software = {})
      /\ held'[h] = k - 1
  BY <1>1, <1>2 DEF Unlock
<1>5. \A g \in Handles \ {h} :
        /\ lockCount'[g] = lockCount[g]
        /\ lockedFor'[g] = lockedFor[g]
        /\ mapped'[g] = mapped[g]
        /\ held'[g] = held[g]
  BY DEF Unlock
<1>6. UnlockedForNothing'
  <2>1. n - 1 = 0 => lockedFor'[h] = {}
    BY <1>1, <1>4, GrallocAssumption
  <2> QED
    BY <1>4, <1>5, <2>1 DEF UnlockedForNothing
<1>7. HeldLocksCount'
  <2>1. k - 1 <= n - 1
    BY <1>1, <1>2, <1>3, GrallocAssumption
  <2> QED
    BY <1>4, <1>5, <2>1 DEF HeldLocksCount
<1>8. MappedWhileLocked'
  <2>1. ~mapped'[h]
    BY <1>4 DEF MappedWhileLocked
  <2>2. ASSUME n - 1 > 0 PROVE lockedFor'[h] \cap Software = {}
    <3>1. n # 1 /\ n > 0
      BY <1>1, <2>2, GrallocAssumption
    <3>2. ~mapped[h]
      BY <1>1, <3>1 DEF MappedWhileLocked
    <3> QED
      BY <1>1, <1>4, <3>1, <3>2 DEF MappedWhileLocked
  <2> QED
    BY <1>4, <1>5, <2>1, <2>2 DEF MappedWhileLocked
<1> QED
  BY <1>6, <1>7, <1>8

(* Every action keeps the invariant of the locks.                           *)
LEMMA LocksStep == ASSUME LocksInv, [Next]_vars PROVE LocksInv'
<1> USE DEF LocksInv
<1> DEFINE Rest == UnlockedForNothing /\ MappedWhileLocked /\ HeldLocksCount
<1>1. TypeOK'
  BY TypeStep
<1>2. ASSUME UNCHANGED lockVars PROVE Rest'
  BY <1>2 DEF lockVars, UnlockedForNothing, MappedWhileLocked, HeldLocksCount
<1>3. CASE UNCHANGED vars
  BY <1>1, <1>2, <1>3 DEF vars
<1>4. CASE OpenDevice
  BY <1>1, <1>2, <1>4 DEF OpenDevice
<1>5. CASE CloseGpu0
  BY <1>1, <1>2, <1>5 DEF CloseGpu0
<1>6. ASSUME NEW h \in Handles, NEW f \in Formats, NEW u \in Usages, Alloc(h, f, u)
      PROVE Rest'
  BY <1>6, UnlockedInv DEF Alloc
<1>7. ASSUME NEW h \in Handles, Free(h) PROVE Rest'
  BY <1>7, UnlockedInv DEF Free
<1>8. ASSUME NEW h \in Handles, NEW f \in Formats, NEW u \in Usages, Register(h, f, u)
      PROVE Rest'
  BY <1>8, UnlockedInv DEF Register
<1>9. ASSUME NEW h \in Handles, Unregister(h) PROVE Rest'
  BY <1>9, UnlockedInv DEF Unregister
<1>10. ASSUME NEW h \in Handles, NEW u \in Usages, Lock(h, u) PROVE Rest'
  <2>1. UnlockedForNothing' /\ MappedWhileLocked'
    BY <1>10, TakeLockInv DEF Lock
  <2>2. HeldLocksCount'
    BY <1>10, GrallocAssumption DEF Lock, TakeLock, HeldLocksCount, TypeOK
  <2> QED
    BY <2>1, <2>2
<1>11. ASSUME NEW h \in Handles, NEW u \in Usages, LockFails(h, u) PROVE Rest'
  BY <1>2, <1>11 DEF LockFails
<1>12. ASSUME NEW h \in Handles, NEW u \in Usages, LockYcbcr(h, u) PROVE Rest'
  <2>1. UnlockedForNothing' /\ MappedWhileLocked'
    BY <1>12, TakeLockInv DEF LockYcbcr
  <2>2. HeldLocksCount'
    BY <1>12, GrallocAssumption DEF LockYcbcr, TakeLock, HeldLocksCount, TypeOK
  <2> QED
    BY <2>1, <2>2
<1>13. ASSUME NEW h \in Handles, Unlock(h) PROVE Rest'
  BY <1>13, UnlockInv
<1>14. Rest'
  BY <1>3, <1>4, <1>5, <1>6, <1>7, <1>8, <1>9, <1>10, <1>11, <1>12, <1>13 DEF Next
<1> QED
  BY <1>1, <1>14

(* The invariant of the locks holds in every state.                         *)
THEOREM LocksHold == Spec => []LocksInv
<1>1. Init => LocksInv
  <2> SUFFICES ASSUME Init PROVE LocksInv
    OBVIOUS
  <2>1. TypeOK
    <3>1. lockCount \in [Handles -> 0..MaxLocks] /\ held \in [Handles -> 0..MaxLocks]
      BY GrallocAssumption DEF Init
    <3>2. usage \in [Handles -> Usages] /\ lockedFor \in [Handles -> Usages]
      <4>1. {} \in Usages
        BY DEF Usages
      <4> QED
        BY <4>1 DEF Init
    <3>3. mapped \in [Handles -> BOOLEAN] /\ format \in [Handles -> Formats]
      BY DEF Init, Formats
    <3> QED
      BY <3>1, <3>2, <3>3 DEF Init, TypeOK
  <2>2. \A h \in Handles :
          lockCount[h] = 0 /\ lockedFor[h] = {} /\ mapped[h] = FALSE /\ held[h] = 0
    BY DEF Init
  <2>3. UnlockedForNothing /\ MappedWhileLocked /\ HeldLocksCount
    BY <2>2 DEF UnlockedForNothing, MappedWhileLocked, HeldLocksCount
  <2> QED
    BY <2>1, <2>3 DEF LocksInv
<1>2. LocksInv /\ [Next]_vars => LocksInv'
  BY LocksStep
<1> QED
  BY <1>1, <1>2, PTL DEF Spec

(* Every variable keeps its type: in particular the lock count never goes   *)
(* below zero, whatever clients with failed and nested locks unlock.        *)
THEOREM TypeCorrect == Spec => []TypeOK
<1>1. LocksInv => TypeOK
  BY DEF LocksInv
<1> QED
  BY <1>1, LocksHold, PTL

(* A software lock is the only lock of its buffer, and holds the mapping.   *)
THEOREM MappingIsExclusive == Spec => []MappedWhileLocked
<1>1. LocksInv => MappedWhileLocked
  BY DEF LocksInv
<1> QED
  BY <1>1, LocksHold, PTL

(* No client loses a lock before it gives it back.                          *)
THEOREM LocksAreKept == Spec => []HeldLocksCount
<1>1. LocksInv => HeldLocksCount
  BY DEF LocksInv
<1> QED
  BY <1>1, LocksHold, PTL

-----------------------------------------------------------------------------
(* While clients unregister only what they registered, each handle leads to *)
(* a buffer object from its allocation or registration to its end, and no   *)
(* entry waits at an address that will be used again.                       *)
THEOREM EveryHandleHasItsBuffer ==
  ASSUME ~LocalUnregister
  PROVE  Spec => []HandlesHaveBuffers
<1>1. Init => HandlesHaveBuffers
  BY DEF Init, HandlesHaveBuffers
<1>2. ASSUME TypeOK, HandlesHaveBuffers, [Next]_vars PROVE HandlesHaveBuffers'
  <2> USE <1>2 DEF TypeOK, HandlesHaveBuffers
  <2>1. CASE UNCHANGED handleVars
    BY <2>1 DEF handleVars
  <2>2. ASSUME NEW h \in Handles, NEW f \in Formats, NEW u \in Usages, Alloc(h, f, u)
        PROVE HandlesHaveBuffers'
    BY <2>2 DEF Alloc
  <2>3. ASSUME NEW h \in Handles, Free(h) PROVE HandlesHaveBuffers'
    BY <2>3 DEF Free, GbmFree
  <2>4. ASSUME NEW h \in Handles, NEW f \in Formats, NEW u \in Usages, Register(h, f, u)
        PROVE HandlesHaveBuffers'
    BY <2>4 DEF Register
  <2>5. ASSUME NEW h \in Handles, Unregister(h) PROVE HandlesHaveBuffers'
    BY <2>5 DEF Unregister, Unregistered, GbmFree
  <2>6. ASSUME NEW h \in Handles, NEW u \in Usages, LockFails(h, u)
        PROVE HandlesHaveBuffers'
    BY <2>6 DEF LockFails, Lookup
  <2> QED
    BY <2>1, <2>2, <2>3, <2>4, <2>5, <2>6
    DEF Next, vars, OpenDevice, CloseGpu0, Lock, LockYcbcr, Unlock
<1> QED
  BY <1>1, <1>2, TypeCorrect, PTL DEF Spec
=============================================================================

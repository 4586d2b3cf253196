--------------------------- MODULE GrallocBuffers ---------------------------
(***************************************************************************)
(* The GBM gralloc module of one process: which handles have a buffer       *)
(* object (gbm_bo_handle_map), and the lock state of each buffer object.    *)
(* Every call runs under dmod->mutex, so a call is a step; its clients (the *)
(* allocator and mapper services) may make them in any order, but use only  *)
(* handles that exist and unlock only what they locked.                     *)
(***************************************************************************)
EXTENDS Naturals, FiniteSets

CONSTANTS
  Handles,         (* addresses of native handles, which are used again      *)
  LocalUnregister, (* clients also unregister handles that they allocated    *)
  MaxLocks         (* BOUND: locks a client holds on a buffer                *)

ASSUME GrallocAssumption ==
  LocalUnregister \in BOOLEAN /\ MaxLocks \in Nat

(* Pixel formats: one without and one with a YCbCr layout, and one that GBM *)
(* has no format for.                                                       *)
Formats == {"RGBA_8888", "YV12", "YCbCr_420_888"}

GbmFormat == [f \in Formats |->
  CASE f = "RGBA_8888" -> "ABGR8888" [] f = "YV12" -> "GR88" [] OTHER -> "none"]

(* GRALLOC_USAGE bits; "hw" stands for texture, framebuffer and encoder.    *)
Usages == SUBSET {"read", "write", "hw"}
Software == {"read", "write"}

VARIABLES
  device,    (* dmod->gbm: "null", "open" or "destroyed"                    *)
  opened,    (* a client has the gpu0 device open                           *)
  origin,    (* "none", "local" (allocated here) or "remote" (registered)   *)
  boOf,      (* gbm_bo_handle_map: "absent", "null" or "bo"                 *)
  format,    (* handle->format                                              *)
  usage,     (* handle->usage                                               *)
  mapped,    (* bo_data->map_data is not NULL                               *)
  lockCount, (* bo_data->lock_count                                         *)
  lockedFor, (* bo_data->locked_for                                         *)
  held       (* history: locks a client got and has not unlocked            *)

lockVars   == <<mapped, lockCount, lockedFor, held>>
handleVars == <<origin, boOf, format, usage>>
vars       == <<device, opened, handleVars, lockVars>>

-----------------------------------------------------------------------------
(* gralloc_gbm_bo_from_handle is operator[]: it adds a NULL entry for a     *)
(* handle that the map does not know.                                       *)
Lookup(h) == IF boOf[h] = "absent" THEN "null" ELSE boOf[h]

(* A new bo has no bo_data; it is created, zeroed, by the first lock.       *)
Unlocked(h) ==
  /\ mapped' = [mapped EXCEPT ![h] = FALSE]
  /\ lockCount' = [lockCount EXCEPT ![h] = 0]
  /\ lockedFor' = [lockedFor EXCEPT ![h] = {}]
  /\ held' = [held EXCEPT ![h] = 0]

(* Mutant: the entry is kept.                                               *)
GbmFreeKeepingEntry(h) == boOf' = [boOf EXCEPT ![h] = "null"]

(* gbm_free: the entry goes with its bo; a NULL entry stays.                *)
GbmFree(h) == boOf' = [boOf EXCEPT ![h] = IF boOf[h] = "bo" THEN "absent" ELSE "null"]

Defined == device # "destroyed"

(* gbm_init creates the device unless there is one.                         *)
GbmInit == device' = IF device = "null" THEN "open" ELSE device

OpenDevice ==
  /\ ~opened
  /\ GbmInit
  /\ opened' = TRUE
  /\ UNCHANGED <<handleVars, lockVars>>

(* gbm_mod_close_gpu0: takes no mutex and leaves dmod->gbm as it is.  What  *)
(* later calls do with the dangling device is undefined: they are disabled. *)
CloseGpu0 ==
  /\ opened
  /\ opened' = FALSE
  /\ device' = "destroyed"
  /\ UNCHANGED <<handleVars, lockVars>>

(* gbm_mod_alloc_gpu0: a format without a GBM format cannot be allocated;   *)
(* emplace leaves an entry that is already there, and the new bo is lost.   *)
Alloc(h, f, u) ==
  /\ opened
  /\ Defined
  /\ origin[h] = "none"
  /\ GbmFormat[f] # "none"
  /\ origin' = [origin EXCEPT ![h] = "local"]
  /\ boOf' = [boOf EXCEPT ![h] = IF boOf[h] = "absent" THEN "bo" ELSE boOf[h]]
  /\ format' = [format EXCEPT ![h] = f]
  /\ usage' = [usage EXCEPT ![h] = u]
  /\ Unlocked(h)
  /\ UNCHANGED <<device, opened>>

(* gbm_mod_free_gpu0                                                        *)
Free(h) ==
  /\ opened
  /\ Defined
  /\ origin[h] = "local"
  /\ held[h] = 0
  /\ GbmFree(h)
  /\ origin' = [origin EXCEPT ![h] = "none"]
  /\ Unlocked(h)
  /\ UNCHANGED <<device, opened, format, usage>>

(* gbm_mod_register_buffer of a handle from another process; fails if the   *)
(* map has an entry, whatever is in it.                                     *)
Register(h, f, u) ==
  /\ Defined
  /\ origin[h] = "none"
  /\ GbmFormat[f] # "none"
  /\ boOf[h] = "absent"
  /\ GbmInit
  /\ origin' = [origin EXCEPT ![h] = "remote"]
  /\ boOf' = [boOf EXCEPT ![h] = "bo"]
  /\ format' = [format EXCEPT ![h] = f]
  /\ usage' = [usage EXCEPT ![h] = u]
  /\ Unlocked(h)
  /\ UNCHANGED opened

(* Whose handles clients unregister.                                        *)
Unregistered == {"remote"} \cup {o \in {"local"} : LocalUnregister}

(* gbm_mod_unregister_buffer: gbm_free, wherever the handle is from.  The   *)
(* client then deletes a registered handle, and keeps an allocated one.     *)
Unregister(h) ==
  /\ Defined
  /\ origin[h] \in Unregistered
  /\ held[h] = 0
  /\ GbmFree(h)
  /\ origin' = [origin EXCEPT ![h] = IF origin[h] = "remote" THEN "none" ELSE "local"]
  /\ Unlocked(h)
  /\ UNCHANGED <<device, opened, format, usage>>

-----------------------------------------------------------------------------
(* Locking.                                                                 *)

(* The handle's usage has to cover u; buffers for read, framebuffer,        *)
(* texture or encoder use can be locked for anything.                       *)
Allowed(h, u) == u \subseteq usage[h] \/ usage[h] \cap {"read", "hw"} # {}

Compatible(h, u) == lockCount[h] = 0 \/ u \subseteq lockedFor[h]

(* Mutant: gbm_map does not look at map_data.                               *)
MappableTwice(h, u) == TRUE

(* A software lock maps the buffer, and gbm_map refuses to map it twice.    *)
Mappable(h, u) == (u \cup lockedFor[h]) \cap Software = {} \/ ~mapped[h]

CanLock(h, u) ==
  boOf[h] = "bo" /\ Allowed(h, u) /\ Compatible(h, u) /\ Mappable(h, u)

(* gralloc_gbm_bo_lock, where gbm_map succeeds.                             *)
TakeLock(h, u) ==
  /\ mapped' = [mapped EXCEPT ![h] = mapped[h] \/ (u \cup lockedFor[h]) \cap Software # {}]
  /\ lockCount' = [lockCount EXCEPT ![h] = lockCount[h] + 1]
  /\ lockedFor' = [lockedFor EXCEPT ![h] = lockedFor[h] \cup u]

Lock(h, u) ==
  /\ Defined
  /\ origin[h] # "none"
  /\ lockCount[h] < MaxLocks
  /\ CanLock(h, u)
  /\ TakeLock(h, u)
  /\ held' = [held EXCEPT ![h] = held[h] + 1]
  /\ UNCHANGED <<device, opened, handleVars>>

(* A lock that is refused, or that cannot map the buffer, leaves the state  *)
(* alone, but for the NULL entry.                                           *)
LockFails(h, u) ==
  /\ Defined
  /\ origin[h] # "none"
  /\ ~CanLock(h, u) \/ (u \cup lockedFor[h]) \cap Software # {}
  /\ boOf' = [boOf EXCEPT ![h] = Lookup(h)]
  /\ UNCHANGED <<device, opened, origin, format, usage, lockVars>>

(* gralloc_gbm_bo_lock_ycbcr: the format is looked at after the lock was    *)
(* taken, and the error return does not undo it.                            *)
LockYcbcr(h, u) ==
  /\ Defined
  /\ origin[h] # "none"
  /\ lockCount[h] < MaxLocks
  /\ CanLock(h, u)
  /\ TakeLock(h, u)
  /\ held' = [held EXCEPT ![h] = IF format[h] # "RGBA_8888" THEN held[h] + 1 ELSE held[h]]
  /\ UNCHANGED <<device, opened, handleVars>>

(* Mutant: an unlock drops every lock.                                      *)
UnlockAll(h) ==
  /\ Defined
  /\ held[h] > 0
  /\ boOf[h] = "bo"
  /\ mapped' = [mapped EXCEPT ![h] = mapped[h] /\ lockedFor[h] \cap Software = {}]
  /\ lockCount' = [lockCount EXCEPT ![h] = 0]
  /\ lockedFor' = [lockedFor EXCEPT ![h] = {}]
  /\ held' = [held EXCEPT ![h] = held[h] - 1]
  /\ UNCHANGED <<device, opened, handleVars>>

(* gralloc_gbm_bo_unlock                                                    *)
Unlock(h) ==
  /\ Defined
  /\ held[h] > 0
  /\ boOf[h] = "bo"
  /\ mapped' = [mapped EXCEPT ![h] = mapped[h] /\ lockedFor[h] \cap Software = {}]
  /\ lockCount' = [lockCount EXCEPT ![h] = lockCount[h] - 1]
  /\ lockedFor' = [lockedFor EXCEPT ![h] = IF lockCount[h] = 1 THEN {} ELSE lockedFor[h]]
  /\ held' = [held EXCEPT ![h] = held[h] - 1]
  /\ UNCHANGED <<device, opened, handleVars>>

-----------------------------------------------------------------------------
Init ==
  /\ device = "null"
  /\ opened = FALSE
  /\ origin = [h \in Handles |-> "none"]
  /\ boOf = [h \in Handles |-> "absent"]
  /\ format = [h \in Handles |-> "RGBA_8888"]
  /\ usage = [h \in Handles |-> {}]
  /\ mapped = [h \in Handles |-> FALSE]
  /\ lockCount = [h \in Handles |-> 0]
  /\ lockedFor = [h \in Handles |-> {}]
  /\ held = [h \in Handles |-> 0]

Next ==
  \/ OpenDevice
  \/ CloseGpu0
  \/ \E h \in Handles :
       \/ \E f \in Formats, u \in Usages : Alloc(h, f, u)
       \/ Free(h)
       \/ \E f \in Formats, u \in Usages : Register(h, f, u)
       \/ Unregister(h)
       \/ \E u \in Usages : Lock(h, u)
       \/ \E u \in Usages : LockFails(h, u)
       \/ \E u \in Usages : LockYcbcr(h, u)
       \/ Unlock(h)

Spec == Init /\ [][Next]_vars

-----------------------------------------------------------------------------
(* Every variable has its type.                                             *)
TypeOK ==
  /\ device \in {"null", "open", "destroyed"}
  /\ opened \in BOOLEAN
  /\ origin \in [Handles -> {"none", "local", "remote"}]
  /\ boOf \in [Handles -> {"absent", "null", "bo"}]
  /\ format \in [Handles -> Formats]
  /\ usage \in [Handles -> Usages]
  /\ mapped \in [Handles -> BOOLEAN]
  /\ lockCount \in [Handles -> 0..MaxLocks]
  /\ lockedFor \in [Handles -> Usages]
  /\ held \in [Handles -> 0..MaxLocks]

(* A handle leads to a buffer object from its allocation or registration to *)
(* its free or unregistration, and no entry of a former handle is left at   *)
(* an address that will be used again.                                      *)
HandlesHaveBuffers ==
  \A h \in Handles : boOf[h] = (IF origin[h] = "none" THEN "absent" ELSE "bo")

(* A buffer is mapped exactly while it is locked for software use, and such *)
(* a lock is the only one: the client that unlocks never takes the mapping  *)
(* away from another.                                                       *)
MappedWhileLocked ==
  \A h \in Handles :
    /\ mapped[h] <=> lockCount[h] > 0 /\ lockedFor[h] \cap Software # {}
    /\ mapped[h] => lockCount[h] = 1

(* A client that got a lock has it until it unlocks, whatever other locks   *)
(* were refused or came and went meanwhile.                                 *)
HeldLocksCount == \A h \in Handles : held[h] <= lockCount[h]

(* A call that could not lock the buffer leaves no lock behind.             *)
NoLockWithoutHolder == \A h \in Handles : lockCount[h] = held[h]
=============================================================================

------------------------------- MODULE UserData -------------------------------
(***************************************************************************)
(* How a wayland callback finds its window (user_data_repository and the    *)
(* object wrappers): by the id of the protocol object, in a map that        *)
(* add_listener fills and reset empties again.  The map has a mutex, the    *)
(* calls around it have not: objects are made and reset by the thread of    *)
(* hwc_set and by the wayland thread, callbacks run on the latter, and      *)
(* libwayland gives an id to a new object once the compositor has confirmed *)
(* that the old one is gone (delete_id), which either thread may dispatch.  *)
(***************************************************************************)
EXTENDS Naturals

CONSTANTS
  Objects,   (* BOUND: the protocol objects there are at a time             *)
  ObjectIds, (* object ids                                                   *)
  NoObject

ASSUME UserDataAssumption == ObjectIds # {} /\ NoObject \notin Objects

VARIABLES
  state,    (* of an object: "none" before it is made and when its id is     *)
            (* free again, "bare" without a listener, "listening",           *)
            (* "resetting" between the two calls of reset, "destroyed"       *)
  id,       (* its id, once it has one                                       *)
  userData, (* user_data_map: the object whose data an id leads to           *)
  handling, (* the object of the callback that runs, or NoObject             *)
  found,    (* whose data get_user_data returned to it                       *)
  aborted,  (* add_user_data or remove_user_data called abort()              *)
  recycled  (* history: the id of the callback's object went to another one  *)

callbackVars == <<handling, found, recycled>>
userDataVars == <<state, id, userData, aborted, callbackVars>>

Registered == {i \in ObjectIds : userData[i] # NoObject}

Taken == {id[o] : o \in {p \in Objects : state[p] # "none"}}

-----------------------------------------------------------------------------
(* A request that makes a new object, with an id nobody has.                *)
Create(o, i) ==
  /\ state[o] = "none"
  /\ o # handling   (* a name for the object that is still free *)
  /\ i \notin Taken
  /\ state' = [state EXCEPT ![o] = "bare"]
  /\ id' = [id EXCEPT ![o] = i]
  /\ recycled' = IF handling = NoObject THEN FALSE ELSE recycled \/ id[handling] = i
  /\ UNCHANGED <<userData, handling, found, aborted>>

(* add_listener: add_user_data, then the listener.                          *)
AddListener(o) ==
  /\ state[o] = "bare"
  /\ IF id[o] \in Registered
     THEN aborted' = TRUE /\ UNCHANGED <<state, userData>>
     ELSE /\ userData' = [userData EXCEPT ![id[o]] = o]
          /\ state' = [state EXCEPT ![o] = "listening"]
          /\ UNCHANGED aborted
  /\ UNCHANGED <<id, callbackVars>>

RemoveUserData(o) ==
  IF id[o] \in Registered
  THEN userData' = [userData EXCEPT ![id[o]] = NoObject] /\ UNCHANGED aborted
  ELSE aborted' = TRUE /\ UNCHANGED userData

(* Mutant: reset deletes the object and unregisters its data then.          *)
ResetDeletingFirst(o) ==
  /\ \/ /\ state[o] \in {"bare", "listening"}
        /\ state' = [state EXCEPT ![o] = "destroyed"]
        /\ UNCHANGED <<userData, aborted>>
     \/ /\ state[o] \in {"destroyed", "none"}
        /\ userData[id[o]] = o
        /\ RemoveUserData(o)
        /\ UNCHANGED state
  /\ UNCHANGED <<id, callbackVars>>

(* reset: unregister_user_data if there is any, delete_wayland_object.      *)
Reset(o) ==
  /\ \/ /\ state[o] = "listening"
        /\ RemoveUserData(o)
        /\ state' = [state EXCEPT ![o] = "resetting"]
     \/ /\ state[o] \in {"bare", "resetting"}
        /\ state' = [state EXCEPT ![o] = "destroyed"]
        /\ UNCHANGED <<userData, aborted>>
  /\ UNCHANGED <<id, callbackVars>>

(* delete_id is dispatched.                                                 *)
DeleteId(o) ==
  /\ state[o] = "destroyed"
  /\ state' = [state EXCEPT ![o] = "none"]
  /\ UNCHANGED <<id, userData, aborted, callbackVars>>

-----------------------------------------------------------------------------
(* libwayland calls the listener of an object that is not destroyed yet.    *)
CallbackBegin(o) ==
  /\ handling = NoObject
  /\ state[o] \in {"listening", "resetting"}
  /\ handling' = o
  /\ UNCHANGED <<state, id, userData, aborted, found, recycled>>

(* get_user_data: get_as copies the data or returns an empty pointer.       *)
GetUserData ==
  /\ handling # NoObject
  /\ found' = userData[id[handling]]
  /\ UNCHANGED <<state, id, userData, aborted, handling, recycled>>

CallbackEnd ==
  /\ handling # NoObject
  /\ handling' = NoObject
  /\ found' = NoObject
  /\ recycled' = FALSE
  /\ UNCHANGED <<state, id, userData, aborted>>

-----------------------------------------------------------------------------
UserDataInit ==
  /\ state = [o \in Objects |-> "none"]
  /\ id = [o \in Objects |-> CHOOSE i \in ObjectIds : TRUE]
  /\ userData = [i \in ObjectIds |-> NoObject]
  /\ handling = NoObject
  /\ found = NoObject
  /\ aborted = FALSE
  /\ recycled = FALSE

UserDataNext ==
  \/ \E o \in Objects, i \in ObjectIds : Create(o, i)
  \/ \E o \in Objects : AddListener(o)
  \/ \E o \in Objects : Reset(o)
  \/ \E o \in Objects : DeleteId(o)
  \/ \E o \in Objects : CallbackBegin(o)
  \/ GetUserData
  \/ CallbackEnd

UserDataSpec == UserDataInit /\ [][UserDataNext]_userDataVars

-----------------------------------------------------------------------------
(* Every variable has its type.                                             *)
UserDataTypeOK ==
  /\ state \in [Objects -> {"none", "bare", "listening", "resetting", "destroyed"}]
  /\ id \in [Objects -> ObjectIds]
  /\ userData \in [ObjectIds -> Objects \cup {NoObject}]
  /\ {handling, found} \subseteq Objects \cup {NoObject}
  /\ {aborted, recycled} \subseteq BOOLEAN

(* However the threads interleave, no id is registered twice or             *)
(* unregistered without data, which would abort the process, and a callback *)
(* gets the data of its own object or none; only if the object was deleted  *)
(* and its id went to another one while the callback was starting, it gets  *)
(* that one's.                                                              *)
CallbacksFindTheirData ==
  /\ ~aborted
  /\ found # NoObject => found = handling \/ recycled
=============================================================================

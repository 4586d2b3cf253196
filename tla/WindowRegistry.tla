--------------------------- MODULE WindowRegistry ---------------------------
(***************************************************************************)
(* What the hwcomposer promises about its toplevel windows, with no thread, *)
(* no lock and no frame in sight: every window instance is born once for    *)
(* one key (a task id, "Waydroid" or "InputMethod"), becomes open once, is  *)
(* closed at most once, and two live instances never share a key.           *)
(* WindowLifecycle implements this specification.                           *)
(***************************************************************************)
EXTENDS Naturals

CONSTANTS
  Keys,       (* what a window can be keyed by in display->windows *)
  MaxWindows  (* instances that can be created                     *)

VARIABLES
  phase,      (* [1..MaxWindows -> Phase]                          *)
  keyOf       (* [1..MaxWindows -> Keys], the key of each instance *)

registryVars == <<phase, keyOf>>

Ids == 1..MaxWindows

Phase == {"unborn", "creating", "open", "closed"}

(* The first window may already be there: hwc_open adds it before any set.  *)
RegistryInit ==
  /\ phase \in [Ids -> {"unborn", "open"}]
  /\ keyOf \in [Ids -> Keys]
  /\ \A i, j \in Ids : phase[i] = "open" /\ phase[j] = "open" => i = j

(* A new instance for key k starts, provided no live one has that key.      *)
Start(i, k) ==
  /\ phase[i] = "unborn"
  /\ \A j \in Ids : keyOf[j] = k => phase[j] \notin {"creating", "open"}
  /\ phase' = [phase EXCEPT ![i] = "creating"]
  /\ keyOf' = [keyOf EXCEPT ![i] = k]

(* The instance under creation enters the map.                              *)
Publish(i) ==
  /\ phase[i] = "creating"
  /\ phase' = [phase EXCEPT ![i] = "open"]
  /\ UNCHANGED keyOf

(* Open instances leave the map, for good.                                  *)
CloseSome(S) ==
  /\ \A i \in S : phase[i] = "open"
  /\ phase' = [i \in Ids |-> IF i \in S THEN "closed" ELSE phase[i]]
  /\ UNCHANGED keyOf

RegistryNext ==
  \/ \E i \in Ids, k \in Keys : Start(i, k)
  \/ \E i \in Ids : Publish(i)
  \/ \E S \in SUBSET Ids : CloseSome(S)

RegistrySpec == RegistryInit /\ [][RegistryNext]_registryVars
=============================================================================

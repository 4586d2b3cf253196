------------------------------ MODULE MCServices ------------------------------
(***************************************************************************)
(* Model checking WindowLifecycle in multi-window mode, the services of the *)
(* binder thread (Clipboard, WindowService) and the callbacks' way to their *)
(* windows (UserData).  They share no variable, so a behaviour is one of    *)
(* one of them.                                                             *)
(***************************************************************************)
EXTENDS MCWindowLifecycle, UserData, WindowService, Clipboard

VARIABLE part   (* "windows", "clipboard", "service", "data"                 *)

MCInit ==
  /\ Init /\ ClipboardInit /\ ServiceInit /\ UserDataInit
  /\ part \in {"windows", "clipboard", "service", "data"}

MCNext ==
  \/ part = "windows" /\ Next /\ UNCHANGED <<clipboardVars, serviceVars, userDataVars, part>>
  \/ part = "clipboard" /\ ClipboardNext /\ UNCHANGED <<vars, serviceVars, userDataVars, part>>
  \/ part = "service" /\ ServiceNext /\ UNCHANGED <<vars, clipboardVars, userDataVars, part>>
  \/ part = "data" /\ UserDataNext /\ UNCHANGED <<vars, clipboardVars, serviceVars, part>>

MCSpec ==
  /\ MCInit
  /\ [][MCNext]_<<vars, clipboardVars, serviceVars, userDataVars, part>>
  /\ ClipboardFairness

(* Every variable of the services has its type.                             *)
ServicesTypeOK == ClipboardTypeOK /\ ServiceTypeOK /\ UserDataTypeOK
===============================================================================

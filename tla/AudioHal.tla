------------------------------ MODULE AudioHal ------------------------------
(***************************************************************************)
(* The audio HAL (audio_hw.c): output and input streams over ALSA's "pulse" *)
(* pcm, opened by the first write or read after standby.  AudioFlinger's    *)
(* threads call in at any time.  Each stream has a mutex and the device has *)
(* one: output calls take the device's first, input calls the stream's.     *)
(***************************************************************************)
EXTENDS Naturals, FiniteSets

CONSTANTS
  Outs,     (* output streams AudioFlinger may open                          *)
  Ins,      (* input streams                                                 *)
  Threads   (* threads of the audio service                                  *)

ASSUME AudioAssumption ==
  /\ Outs \cap Ins = {}
  /\ {"adev", "free", "none"} \cap (Outs \cup Ins \cup Threads) = {}

Adev    == "adev"   \* adev->lock
Free    == "free"   \* nobody holds a mutex
None    == "none"   \* NULL
Streams == Outs \cup Ins

VARIABLES
  exists,   (* the streams that are open                                    *)
  standby,  (* stream->standby                                              *)
  pcm,      (* stream->pcm: "null", "open", or "stale" (closed, not NULL)   *)
  active,   (* adev->active_output and adev->active_input                   *)
  micMute,  (* adev->mic_mute                                               *)
  lock,     (* the thread that holds each mutex                             *)
  pc,       (* where a thread is in its call                                *)
  op,       (* the call                                                     *)
  at,       (* the stream it is made on                                     *)
  broken    (* history: inputs whose last transfer failed                   *)

streamVars == <<exists, standby, pcm, active, micMute>>
callVars   == <<pc, op, at>>
vars       == <<streamVars, lock, callVars, broken>>

Side(s) == IF s \in Outs THEN "output" ELSE "input"

Ops(s) == IF s \in Outs THEN {"write", "standby", "set_parameters"}
          ELSE {"read", "standby", "close"}

Using(s) == {t \in Threads : pc[t] # "idle" /\ at[t] = s}

-----------------------------------------------------------------------------
(* The calls.  One thread at a time reads an input (a failed read is over   *)
(* only after the standby it ends with), and nobody uses a stream that is   *)
(* being closed: that is AudioFlinger's side of the bargain.                *)

Call(t, o, s) ==
  /\ pc[t] = "idle"
  /\ s \in exists
  /\ o \in Ops(s)
  /\ \A u \in Using(s) : o # "close" /\ op[u] # "close"
  /\ \A u \in Using(s) : o = "read" => op[u] = "standby" /\ s \notin broken
  /\ pc' = [pc EXCEPT ![t] = "first"]
  /\ op' = [op EXCEPT ![t] = o]
  /\ at' = [at EXCEPT ![t] = s]
  /\ UNCHANGED <<streamVars, lock, broken>>

(* The order in which a call takes the two mutexes.                         *)
FirstLock(t)  == IF at[t] \in Outs THEN Adev ELSE at[t]
SecondLock(t) == IF at[t] \in Outs THEN at[t] ELSE Adev

LockFirst(t) ==
  /\ pc[t] = "first"
  /\ lock[FirstLock(t)] = Free
  /\ lock' = [lock EXCEPT ![FirstLock(t)] = t]
  /\ pc' = [pc EXCEPT ![t] = "second"]
  /\ UNCHANGED <<streamVars, op, at, broken>>

LockSecond(t) ==
  /\ pc[t] = "second"
  /\ lock[SecondLock(t)] = Free
  /\ lock' = [lock EXCEPT ![SecondLock(t)] = t]
  /\ pc' = [pc EXCEPT ![t] = "critical"]
  /\ UNCHANGED <<streamVars, op, at, broken>>

Starting(t) == pc[t] = "critical" /\ op[t] \in {"write", "read"} /\ standby[at[t]]

UnlockBoth(t) == lock' = [lock EXCEPT ![Adev] = Free, ![at[t]] = Free]

(* The call is over; a read that failed goes on with in_standby.            *)
Return(t) ==
  /\ pc' = [pc EXCEPT ![t] = "idle"]
  /\ op' = [op EXCEPT ![t] = "none"]
  /\ at' = [at EXCEPT ![t] = None]

(* Mutant: a failed read just returns.                                      *)
FailReturning(t) == Return(t)

Fail(t) ==
  IF op[t] = "read"
  THEN /\ pc' = [pc EXCEPT ![t] = "first"]
       /\ op' = [op EXCEPT ![t] = "standby"]
       /\ UNCHANGED at
  ELSE Return(t)

(* start_output_stream, start_input_stream: snd_pcm_open (after up to 100   *)
(* tries), the hardware parameters and snd_pcm_prepare succeed.             *)
StartSucceeds(t) ==
  /\ Starting(t)
  /\ pcm' = [pcm EXCEPT ![at[t]] = "open"]
  /\ active' = [active EXCEPT ![Side(at[t])] = at[t]]
  /\ standby' = [standby EXCEPT ![at[t]] = FALSE]
  /\ lock' = [lock EXCEPT ![Adev] = Free]
  /\ pc' = [pc EXCEPT ![t] = "transfer"]
  /\ broken' = broken \ {at[t]}
  /\ UNCHANGED <<exists, micMute, op, at>>

(* Mutant: the early return forgets the device's mutex.                     *)
StartFailsHoldingDevice(t) ==
  /\ Starting(t)
  /\ \E p \in {"null", "open", "stale"} : pcm' = [pcm EXCEPT ![at[t]] = p]
  /\ active' = [active EXCEPT ![Side(at[t])] = None]
  /\ lock' = [lock EXCEPT ![at[t]] = Free]
  /\ Fail(t)
  /\ UNCHANGED <<exists, standby, micMute, broken>>

(* They fail: no try opens the pcm, which is NULL then; a parameter or      *)
(* prepare is refused, which leaves it open; or its state is not PREPARED,  *)
(* and it is closed without being set to NULL.                              *)
StartFails(t) ==
  /\ Starting(t)
  /\ \E p \in {"null", "open", "stale"} : pcm' = [pcm EXCEPT ![at[t]] = p]
  /\ active' = [active EXCEPT ![Side(at[t])] = None]
  /\ UnlockBoth(t)
  /\ Fail(t)
  /\ UNCHANGED <<exists, standby, micMute, broken>>

(* Mutant: both mutexes are released before the transfer.                   *)
KeepRunningUnlocked(t) ==
  /\ pc[t] = "critical"
  /\ op[t] \in {"write", "read"}
  /\ ~standby[at[t]]
  /\ UnlockBoth(t)
  /\ pc' = [pc EXCEPT ![t] = "transfer"]
  /\ UNCHANGED <<streamVars, op, at, broken>>

(* out_write, in_read on a running stream.                                  *)
KeepRunning(t) ==
  /\ pc[t] = "critical"
  /\ op[t] \in {"write", "read"}
  /\ ~standby[at[t]]
  /\ lock' = [lock EXCEPT ![Adev] = Free]
  /\ pc' = [pc EXCEPT ![t] = "transfer"]
  /\ UNCHANGED <<streamVars, op, at, broken>>

(* snd_pcm_writei and snd_pcm_readi, tried once more after an underrun, run *)
(* with the stream's mutex held.                                            *)
TransferSucceeds(t) ==
  /\ pc[t] = "transfer"
  /\ lock' = [lock EXCEPT ![at[t]] = Free]
  /\ Return(t)
  /\ UNCHANGED <<streamVars, broken>>

TransferFails(t) ==
  /\ pc[t] = "transfer"
  /\ lock' = [lock EXCEPT ![at[t]] = Free]
  /\ Fail(t)
  /\ broken' = IF op[t] = "read" THEN broken \cup {at[t]} ELSE broken
  /\ UNCHANGED streamVars

(* Mutant: active_output and active_input are not reset.                    *)
StandbyKeepingActive(t) ==
  /\ pc[t] = "critical"
  /\ op[t] \in {"standby", "close"}
  /\ pcm' = [pcm EXCEPT ![at[t]] = "null"]
  /\ standby' = [standby EXCEPT ![at[t]] = TRUE]
  /\ exists' = IF op[t] = "close" THEN exists \ {at[t]} ELSE exists
  /\ broken' = broken \ {at[t]}
  /\ UnlockBoth(t)
  /\ Return(t)
  /\ UNCHANGED <<active, micMute>>

(* do_output_standby, do_input_standby; adev_close_input_stream frees the   *)
(* stream afterwards.                                                       *)
Standby(t) ==
  /\ pc[t] = "critical"
  /\ op[t] \in {"standby", "close"}
  /\ IF standby[at[t]]
     THEN UNCHANGED <<pcm, active, standby>>
     ELSE /\ pcm' = [pcm EXCEPT ![at[t]] = "null"]
          /\ active' = [active EXCEPT ![Side(at[t])] = None]
          /\ standby' = [standby EXCEPT ![at[t]] = TRUE]
  /\ exists' = IF op[t] = "close" THEN exists \ {at[t]} ELSE exists
  /\ broken' = broken \ {at[t]}
  /\ UnlockBoth(t)
  /\ Return(t)
  /\ UNCHANGED micMute

(* out_set_parameters: routing, which only changes adev->out_devices.       *)
SetParameters(t) ==
  /\ pc[t] = "critical"
  /\ op[t] = "set_parameters"
  /\ UnlockBoth(t)
  /\ Return(t)
  /\ UNCHANGED <<streamVars, broken>>

(* adev_open_output_stream, adev_open_input_stream: no mutex is taken.      *)
OpenStream(s) ==
  /\ s \notin exists
  /\ exists' = exists \cup {s}
  /\ standby' = [standby EXCEPT ![s] = TRUE]
  /\ pcm' = [pcm EXCEPT ![s] = "null"]
  /\ UNCHANGED <<active, micMute, lock, callVars, broken>>

(* adev_close_output_stream only frees: AudioFlinger's playback threads put *)
(* the stream in standby before they close it.                              *)
CloseOutput(s) ==
  /\ s \in exists \cap Outs
  /\ Using(s) = {}
  /\ standby[s]
  /\ exists' = exists \ {s}
  /\ UNCHANGED <<standby, pcm, active, micMute, lock, callVars, broken>>

(* adev_set_mic_mute: no mutex either.                                      *)
SetMicMute(b) ==
  /\ micMute' = b
  /\ UNCHANGED <<exists, standby, pcm, active, lock, callVars, broken>>

Init ==
  /\ exists = {}
  /\ standby = [s \in Streams |-> TRUE]
  /\ pcm = [s \in Streams |-> "null"]
  /\ active = [d \in {"output", "input"} |-> None]
  /\ micMute = FALSE
  /\ lock = [l \in Streams \cup {Adev} |-> Free]
  /\ pc = [t \in Threads |-> "idle"]
  /\ op = [t \in Threads |-> "none"]
  /\ at = [t \in Threads |-> None]
  /\ broken = {}

Step(t) ==
  \/ LockFirst(t)
  \/ LockSecond(t)
  \/ StartSucceeds(t)
  \/ StartFails(t)
  \/ KeepRunning(t)
  \/ TransferSucceeds(t)
  \/ TransferFails(t)
  \/ Standby(t)
  \/ SetParameters(t)

Next ==
  \/ \E t \in Threads, s \in Streams : \E o \in Ops(s) : Call(t, o, s)
  \/ \E t \in Threads : Step(t)
  \/ \E s \in Streams : OpenStream(s)
  \/ \E s \in Outs : CloseOutput(s)
  \/ \E b \in BOOLEAN : SetMicMute(b)

Spec == Init /\ [][Next]_vars

(* A thread runs on, a mutex that is released again and again is got at     *)
(* last, and pulse answers every transfer.                                  *)
FairSpec == Spec /\ \A t \in Threads : SF_vars(Step(t))

-----------------------------------------------------------------------------
(* Every variable has its type.                                             *)
TypeOK ==
  /\ exists \subseteq Streams
  /\ standby \in [Streams -> BOOLEAN]
  /\ pcm \in [Streams -> {"null", "open", "stale"}]
  /\ active \in [{"output", "input"} -> Streams \cup {None}]
  /\ micMute \in BOOLEAN
  /\ lock \in [Streams \cup {Adev} -> Threads \cup {Free}]
  /\ pc \in [Threads -> {"idle", "first", "second", "critical", "transfer"}]
  /\ op \in [Threads -> {"none", "write", "read", "standby", "set_parameters", "close"}]
  /\ at \in [Threads -> Streams \cup {None}]
  /\ broken \subseteq Ins

(* snd_pcm_writei and snd_pcm_readi always get an open pcm, although the    *)
(* device's mutex is released before them, standby comes from other threads *)
(* and every start may have failed in any way before.                       *)
TransferHasPcm ==
  \A t \in Threads : pc[t] = "transfer" =>
    at[t] \in exists /\ ~standby[at[t]] /\ pcm[at[t]] = "open"

(* adev->active_output and active_input are NULL or a stream that exists    *)
(* and runs: never a freed one.                                             *)
ActiveStreamRuns ==
  \A d \in {"output", "input"} : active[d] # None =>
    active[d] \in exists /\ ~standby[active[d]]

(* After a failed read the pcm is closed and opened again before it is read *)
(* from once more, whoever calls standby meanwhile.                         *)
FailedReadReopens ==
  \A t \in Threads : pc[t] = "transfer" /\ op[t] = "read" => at[t] \notin broken

(* Every call returns: the two mutex orders, device first for outputs and   *)
(* stream first for inputs, cannot close a cycle.                           *)
CallsReturn == \A t \in Threads : pc[t] = "first" ~> pc[t] = "idle"
=============================================================================

---------------------------- MODULE AudioHalProofs ----------------------------
(***************************************************************************)
(* Theorems about AudioHal, for any streams and threads.                    *)
(***************************************************************************)
EXTENDS AudioHal, TLAPS

Busy(t) == t \in Threads /\ pc[t] # "idle"

(* A call is made on an open stream and is one of its side's.               *)
AtInv ==
  \A t \in Threads :
    /\ pc[t] # "idle" => at[t] \in exists /\ op[t] \in Ops(at[t])
    /\ pc[t] = "transfer" => op[t] \in {"write", "read"}

(* Who owns which mutex.                                                    *)
LockInv ==
  \A t \in Threads :
    /\ pc[t] = "second" => lock[FirstLock(t)] = t
    /\ pc[t] = "critical" => lock[Adev] = t
    /\ pc[t] \in {"critical", "transfer"} => lock[at[t]] = t

(* Nobody uses a stream that another thread closes.                         *)
CloseInv ==
  \A t, u \in Threads : Busy(t) /\ Busy(u) /\ at[t] = at[u] /\ op[t] = "close" => t = u

(* One thread at a time reads a stream, and only one that is not broken.    *)
ReadInv ==
  /\ \A t, u \in Threads :
       Busy(t) /\ Busy(u) /\ at[t] = at[u] /\ op[t] = "read" /\ op[u] = "read" => t = u
  /\ \A t \in Threads : Busy(t) /\ op[t] = "read" => at[t] \notin broken

(* A stream whose last transfer failed is about to be put in standby.       *)
BrokenInv ==
  \A s \in broken : \E t \in Threads : Busy(t) /\ at[t] = s /\ op[t] = "standby"

(* A stream that runs has its pcm, and one that transfers runs.             *)
RunInv ==
  /\ \A s \in Streams : ~standby[s] => pcm[s] = "open"
  /\ \A t \in Threads : pc[t] = "transfer" => ~standby[at[t]]

(* An active stream exists, runs and is of its side.                        *)
ActiveInv ==
  \A d \in {"output", "input"} : active[d] # None =>
    active[d] \in exists /\ ~standby[active[d]] /\ Side(active[d]) = d

AudioInv ==
  TypeOK /\ AtInv /\ LockInv /\ CloseInv /\ ReadInv /\ BrokenInv /\ RunInv /\ ActiveInv

(* The strings of the model are neither streams nor threads.                *)
LEMMA Names ==
  /\ Adev \notin Streams /\ None \notin Streams
  /\ Free \notin Threads
BY AudioAssumption DEF Adev, None, Free, Streams

-----------------------------------------------------------------------------
(* Nothing is open.                                                         *)
LEMMA InitInv ==
  ASSUME Init
  PROVE  AudioInv
<1>. USE DEF Init
<1>1. TypeOK
  BY DEF TypeOK
<1>2. AtInv /\ LockInv /\ CloseInv /\ ReadInv /\ BrokenInv
  BY DEF AtInv, LockInv, CloseInv, ReadInv, BrokenInv, Busy
<1>3. RunInv /\ ActiveInv
  BY DEF RunInv, ActiveInv
<1>. QED BY <1>1, <1>2, <1>3 DEF AudioInv

(* Who calls finds the stream open and unused in the ways that matter.      *)
LEMMA CallInv ==
  ASSUME AudioInv, NEW t \in Threads, NEW s \in Streams, NEW o \in Ops(s), Call(t, o, s)
  PROVE  AudioInv'
<1>. USE DEF AudioInv, Call
<1>1. TypeOK'
  BY DEF TypeOK, Ops, streamVars
<1>2. AtInv'
  BY DEF TypeOK, AtInv, streamVars
<1>3. LockInv'
  BY DEF TypeOK, LockInv, FirstLock
<1>4. CloseInv'
  BY DEF TypeOK, CloseInv, Busy, Using
<1>5. ReadInv'
  <2>1. \A u \in Threads \ {t} : pc'[u] = pc[u] /\ op'[u] = op[u] /\ at'[u] = at[u]
    BY DEF TypeOK
  <2>2. pc[t] = "idle" /\ at'[t] = s /\ op'[t] = o /\ broken' = broken
    BY DEF TypeOK
  <2>3. o = "read" => s \notin broken
    BY DEF BrokenInv, Using, Busy
  <2>4. o = "read" => \A u \in Threads : Busy(u) /\ at[u] = s => op[u] # "read"
    BY DEF Using, Busy
  <2>. QED BY <2>1, <2>2, <2>3, <2>4 DEF ReadInv, Busy
<1>7. BrokenInv'
  BY DEF TypeOK, BrokenInv, Busy
<1>6. RunInv' /\ ActiveInv'
  BY DEF TypeOK, RunInv, ActiveInv, streamVars
<1>. QED BY <1>1, <1>2, <1>3, <1>4, <1>5, <1>6, <1>7

(* Both mutexes on the way in.                                              *)
LEMMA LockingInv ==
  ASSUME AudioInv, NEW t \in Threads, LockFirst(t) \/ LockSecond(t)
  PROVE  AudioInv'
<1>. USE DEF AudioInv
<1>1. at[t] \in Streams
  BY DEF LockFirst, LockSecond, AtInv, TypeOK
<1>2. CASE LockFirst(t)
  <2>1. TypeOK'
    BY <1>1, <1>2 DEF LockFirst, TypeOK, streamVars, FirstLock
  <2>2. AtInv' /\ CloseInv' /\ ReadInv' /\ BrokenInv'
    BY <1>2 DEF LockFirst, TypeOK, AtInv, CloseInv, ReadInv, BrokenInv, Busy, streamVars
  <2>3. LockInv'
    BY <1>1, <1>2, Names DEF LockFirst, TypeOK, AtInv, LockInv, FirstLock
  <2>4. RunInv' /\ ActiveInv'
    BY <1>2 DEF LockFirst, TypeOK, RunInv, ActiveInv, streamVars
  <2>. QED BY <2>1, <2>2, <2>3, <2>4
<1>3. CASE LockSecond(t)
  <2>1. TypeOK'
    BY <1>1, <1>3 DEF LockSecond, TypeOK, streamVars, SecondLock
  <2>2. AtInv' /\ CloseInv' /\ ReadInv' /\ BrokenInv'
    BY <1>3 DEF LockSecond, TypeOK, AtInv, CloseInv, ReadInv, BrokenInv, Busy, streamVars
  <2>3. LockInv'
    BY <1>1, <1>3, Names DEF LockSecond, TypeOK, AtInv, LockInv, FirstLock, SecondLock
  <2>4. RunInv' /\ ActiveInv'
    BY <1>3 DEF LockSecond, TypeOK, RunInv, ActiveInv, streamVars
  <2>. QED BY <2>1, <2>2, <2>3, <2>4
<1>. QED BY <1>2, <1>3

(* What a thread that has a stream's mutex, or both, may give back: nobody  *)
(* else relied on them.                                                     *)
LEMMA Release ==
  ASSUME AudioInv, NEW t \in Threads, pc[t] \in {"critical", "transfer"},
         \/ lock' = [lock EXCEPT ![Adev] = Free] /\ pc[t] = "critical" /\ pc'[t] = "transfer"
         \/ UnlockBoth(t) /\ pc[t] = "critical" /\ pc'[t] \in {"idle", "first"}
         \/ lock' = [lock EXCEPT ![at[t]] = Free] /\ pc[t] = "transfer" /\ pc'[t] \in {"idle", "first"},
         pc' = [pc EXCEPT ![t] = pc'[t]],
         at'[t] = at[t] \/ pc'[t] = "idle",
         \A u \in Threads \ {t} : at'[u] = at[u]
  PROVE  LockInv' /\ lock' \in [Streams \cup {Adev} -> Threads \cup {Free}]
<1>. USE DEF AudioInv
<1>1. at[t] \in Streams
  BY DEF AtInv, TypeOK
<1>2. lock' \in [Streams \cup {Adev} -> Threads \cup {Free}]
  BY <1>1 DEF TypeOK, UnlockBoth
<1>3. ASSUME NEW u \in Threads \ {t}
      PROVE  /\ pc'[u] = "second" => lock'[FirstLock(u)'] = u
             /\ pc'[u] = "critical" => lock'[Adev] = u
             /\ pc'[u] \in {"critical", "transfer"} => lock'[at'[u]] = u
  <2>1. pc'[u] = pc[u] /\ at'[u] = at[u]
    BY DEF TypeOK
  <2>2. pc[u] # "idle" => at[u] \in Streams
    BY DEF TypeOK, AtInv
  <2>. QED BY <1>1, <2>1, <2>2, Names DEF TypeOK, LockInv, FirstLock, UnlockBoth
<1>4. /\ pc'[t] = "second" => lock'[FirstLock(t)'] = t
      /\ pc'[t] = "critical" => lock'[Adev] = t
      /\ pc'[t] \in {"critical", "transfer"} => lock'[at'[t]] = t
  BY <1>1, Names DEF TypeOK, LockInv
<1>. QED BY <1>2, <1>3, <1>4 DEF LockInv

(* A call that goes on to its transfer.                                     *)
LEMMA TransferringInv ==
  ASSUME AudioInv, NEW t \in Threads, StartSucceeds(t) \/ KeepRunning(t)
  PROVE  AudioInv'
<1>. USE DEF AudioInv
<1>1. /\ at[t] \in Streams /\ at[t] \in exists
      /\ pc[t] = "critical" /\ op[t] \in {"write", "read"}
      /\ pc' = [pc EXCEPT ![t] = "transfer"] /\ UNCHANGED <<op, at, exists, micMute>>
      /\ lock' = [lock EXCEPT ![Adev] = Free]
  BY DEF StartSucceeds, KeepRunning, Starting, streamVars, AtInv, TypeOK
<1>2. /\ broken' \subseteq broken
      /\ ~standby'[at[t]]
      /\ \A s \in Streams : s # at[t] => standby'[s] = standby[s] /\ pcm'[s] = pcm[s]
      /\ pcm'[at[t]] = "open"
  BY <1>1 DEF StartSucceeds, KeepRunning, Starting, streamVars, TypeOK, RunInv
<1>3. LockInv' /\ lock' \in [Streams \cup {Adev} -> Threads \cup {Free}]
  BY <1>1, Release DEF TypeOK
<1>4. TypeOK'
  <2>1. standby' \in [Streams -> BOOLEAN]
    BY <1>1 DEF StartSucceeds, KeepRunning, streamVars, TypeOK
  <2>2. pcm' \in [Streams -> {"null", "open", "stale"}]
    BY <1>1 DEF StartSucceeds, KeepRunning, streamVars, TypeOK
  <2>3. active' \in [{"output", "input"} -> Streams \cup {None}]
    BY <1>1 DEF StartSucceeds, KeepRunning, streamVars, TypeOK, Side
  <2>. QED BY <1>1, <1>2, <1>3, <2>1, <2>2, <2>3 DEF TypeOK
<1>5. AtInv' /\ CloseInv' /\ ReadInv'
  BY <1>1, <1>2 DEF TypeOK, AtInv, CloseInv, ReadInv, Busy
<1>6. BrokenInv'
  BY <1>1, <1>2 DEF TypeOK, BrokenInv, Busy
<1>7. RunInv'
  BY <1>1, <1>2 DEF TypeOK, RunInv, AtInv
<1>8. ActiveInv'
  BY <1>1, <1>2 DEF StartSucceeds, KeepRunning, streamVars, TypeOK, ActiveInv, Side
<1>. QED BY <1>3, <1>4, <1>5, <1>6, <1>7, <1>8

(* A call that ends, or goes on with in_standby: what it gives back, and    *)
(* that closing or breaking the stream is nobody else's business.           *)
LEMMA EndingInv ==
  ASSUME AudioInv, NEW t \in Threads,
         \/ pc[t] = "critical" /\ UnlockBoth(t)
         \/ pc[t] = "transfer" /\ lock' = [lock EXCEPT ![at[t]] = Free],
         Return(t) \/ Fail(t),
         exists' = exists \/ (Return(t) /\ op[t] = "close" /\ exists' = exists \ {at[t]}),
         broken' \subseteq broken \/ (op[t] = "read" /\ broken' = broken \cup {at[t]}),
         at[t] \in broken' =>
           \/ pc'[t] = "first" /\ op'[t] = "standby" /\ at'[t] = at[t]
           \/ op[t] # "standby" /\ at[t] \in broken
  PROVE  /\ AtInv' /\ LockInv' /\ CloseInv' /\ ReadInv' /\ BrokenInv'
         /\ exists' \subseteq Streams /\ broken' \subseteq Ins
         /\ lock' \in [Streams \cup {Adev} -> Threads \cup {Free}]
         /\ pc' \in [Threads -> {"idle", "first", "second", "critical", "transfer"}]
         /\ op' \in [Threads -> {"none", "write", "read", "standby", "set_parameters", "close"}]
         /\ at' \in [Threads -> Streams \cup {None}]
<1>. USE DEF AudioInv
<1>1. at[t] \in Streams /\ at[t] \in exists /\ op[t] \in Ops(at[t]) /\ Busy(t)
  BY DEF AtInv, TypeOK, Busy
<1>2. \A u \in Threads \ {t} : pc'[u] = pc[u] /\ op'[u] = op[u] /\ at'[u] = at[u]
  BY DEF Return, Fail, TypeOK
<1>3. \/ pc'[t] = "idle"
      \/ pc'[t] = "first" /\ op'[t] = "standby" /\ at'[t] = at[t]
  BY DEF Return, Fail, TypeOK
<1>4. /\ pc' = [pc EXCEPT ![t] = pc'[t]]
      /\ pc' \in [Threads -> {"idle", "first", "second", "critical", "transfer"}]
      /\ op' \in [Threads -> {"none", "write", "read", "standby", "set_parameters", "close"}]
      /\ at' \in [Threads -> Streams \cup {None}]
  BY DEF Return, Fail, TypeOK
<1>5. LockInv' /\ lock' \in [Streams \cup {Adev} -> Threads \cup {Free}]
  BY <1>2, <1>3, <1>4, Release
<1>6. exists' \subseteq Streams
  BY DEF TypeOK
<1>7. broken' \subseteq Ins
  BY <1>1, AudioAssumption DEF TypeOK, Ops, Streams
<1>8. AtInv'
  <2>1. ASSUME NEW u \in Threads \ {t}, pc[u] # "idle"
        PROVE  at[u] \in exists'
    BY <1>1, <2>1 DEF AtInv, CloseInv, Busy
  <2>2. pc'[t] # "idle" => at'[t] \in exists' /\ op'[t] \in Ops(at'[t])
    BY <1>1, <1>3 DEF Ops, Return, TypeOK
  <2>. QED BY <1>2, <1>3, <2>1, <2>2 DEF AtInv
<1>9. CloseInv'
  BY <1>1, <1>2, <1>3 DEF CloseInv, Busy
<1>10. ReadInv'
  BY <1>1, <1>2, <1>3 DEF ReadInv, Busy
<1>11. BrokenInv'
  <2>. SUFFICES ASSUME NEW s \in broken'
                PROVE  \E u \in Threads : Busy(u)' /\ at'[u] = s /\ op'[u] = "standby"
    BY DEF BrokenInv
  <2>1. CASE \E u \in Threads \ {t} : Busy(u) /\ at[u] = s /\ op[u] = "standby"
    BY <1>2, <2>1 DEF Busy
  <2>2. CASE ~\E u \in Threads \ {t} : Busy(u) /\ at[u] = s /\ op[u] = "standby"
    <3>1. s = at[t] /\ (s \in broken => op[t] = "standby")
      BY <2>2 DEF BrokenInv
    <3>2. pc'[t] = "first" /\ op'[t] = "standby" /\ at'[t] = s
      BY <3>1
    <3>. QED BY <3>2 DEF Busy
  <2>. QED BY <2>1, <2>2
<1>. QED BY <1>4, <1>5, <1>6, <1>7, <1>8, <1>9, <1>10, <1>11

(* A start that fails leaves the stream in standby, whatever its pcm is.    *)
LEMMA StartFailsInv ==
  ASSUME AudioInv, NEW t \in Threads, StartFails(t)
  PROVE  AudioInv'
<1>. USE DEF AudioInv
<1>1. /\ pc[t] = "critical" /\ op[t] \in {"write", "read"} /\ at[t] \in Streams
      /\ standby[at[t]] = TRUE
      /\ UnlockBoth(t) /\ Fail(t) /\ UNCHANGED <<exists, standby, micMute, broken>>
  BY DEF StartFails, Starting, AtInv, TypeOK
<1>2. PICK p \in {"null", "open", "stale"} : pcm' = [pcm EXCEPT ![at[t]] = p]
  BY DEF StartFails
<1>3. active' = [active EXCEPT ![Side(at[t])] = None]
  BY DEF StartFails
<1>4. /\ AtInv' /\ LockInv' /\ CloseInv' /\ ReadInv' /\ BrokenInv'
      /\ lock' \in [Streams \cup {Adev} -> Threads \cup {Free}]
      /\ pc' \in [Threads -> {"idle", "first", "second", "critical", "transfer"}]
      /\ op' \in [Threads -> {"none", "write", "read", "standby", "set_parameters", "close"}]
      /\ at' \in [Threads -> Streams \cup {None}]
  BY <1>1, EndingInv
<1>5. TypeOK'
  BY <1>1, <1>2, <1>3, <1>4 DEF TypeOK, Side
<1>6. RunInv'
  <2>1. \A s \in Streams : ~standby'[s] => pcm'[s] = "open"
    BY <1>1, <1>2 DEF RunInv, TypeOK
  <2>2. \A u \in Threads : pc'[u] = "transfer" => pc[u] = "transfer" /\ at'[u] = at[u]
    BY <1>1 DEF Fail, Return, TypeOK
  <2>. QED BY <1>1, <2>1, <2>2 DEF RunInv
<1>7. ActiveInv'
  BY <1>1, <1>3 DEF ActiveInv, TypeOK, Side
<1>. QED BY <1>4, <1>5, <1>6, <1>7

(* The end of a transfer, and set_parameters, leave the streams alone.      *)
LEMMA TransferInv ==
  ASSUME AudioInv, NEW t \in Threads,
         TransferSucceeds(t) \/ TransferFails(t) \/ SetParameters(t)
  PROVE  AudioInv'
<1>. USE DEF AudioInv
<1>1. /\ at[t] \in Streams
      /\ op[t] \in {"write", "read", "set_parameters"}
      /\ UNCHANGED <<exists, standby, pcm, active, micMute>>
  BY DEF TransferSucceeds, TransferFails, SetParameters, AtInv, TypeOK, streamVars
<1>2. \/ pc[t] = "critical" /\ UnlockBoth(t)
      \/ pc[t] = "transfer" /\ lock' = [lock EXCEPT ![at[t]] = Free]
  BY DEF TransferSucceeds, TransferFails, SetParameters
<1>3. /\ Return(t) \/ Fail(t)
      /\ broken' = broken \/ (op[t] = "read" /\ broken' = broken \cup {at[t]} /\ Fail(t))
  BY DEF TransferSucceeds, TransferFails, SetParameters
<1>4. at[t] \in broken' =>
        \/ pc'[t] = "first" /\ op'[t] = "standby" /\ at'[t] = at[t]
        \/ op[t] # "standby" /\ at[t] \in broken
  BY <1>1, <1>3 DEF Fail, TypeOK
<1>5. /\ AtInv' /\ LockInv' /\ CloseInv' /\ ReadInv' /\ BrokenInv'
      /\ exists' \subseteq Streams /\ broken' \subseteq Ins
      /\ lock' \in [Streams \cup {Adev} -> Threads \cup {Free}]
      /\ pc' \in [Threads -> {"idle", "first", "second", "critical", "transfer"}]
      /\ op' \in [Threads -> {"none", "write", "read", "standby", "set_parameters", "close"}]
      /\ at' \in [Threads -> Streams \cup {None}]
  BY <1>1, <1>2, <1>3, <1>4, EndingInv
<1>6. TypeOK' /\ ActiveInv'
  BY <1>1, <1>5 DEF TypeOK, ActiveInv
<1>7. \A u \in Threads : pc'[u] = "transfer" => pc[u] = "transfer" /\ at'[u] = at[u]
  BY <1>3 DEF Fail, Return, TypeOK
<1>8. RunInv'
  BY <1>1, <1>7 DEF RunInv
<1>. QED BY <1>5, <1>6, <1>8

(* standby and close: with the stream's mutex held nobody transfers from it. *)
LEMMA StandbyInv ==
  ASSUME AudioInv, NEW t \in Threads, Standby(t)
  PROVE  AudioInv'
<1>. USE DEF AudioInv
<1>1. /\ pc[t] = "critical" /\ op[t] \in {"standby", "close"} /\ at[t] \in Streams
      /\ UnlockBoth(t) /\ Return(t) /\ broken' = broken \ {at[t]} /\ micMute' = micMute
      /\ exists' = IF op[t] = "close" THEN exists \ {at[t]} ELSE exists
  BY DEF Standby, AtInv, TypeOK
<1>2. /\ standby' \in [Streams -> BOOLEAN] /\ pcm' \in [Streams -> {"null", "open", "stale"}]
      /\ standby'[at[t]] = TRUE
      /\ \A s \in Streams : s # at[t] => standby'[s] = standby[s] /\ pcm'[s] = pcm[s]
  BY <1>1 DEF Standby, TypeOK
<1>3. /\ active' \in [{"output", "input"} -> Streams \cup {None}]
      /\ \A d \in {"output", "input"} :
           active'[d] # None => active'[d] = active[d] /\ active[d] # at[t]
  BY <1>1 DEF Standby, TypeOK, ActiveInv, Side
<1>4. /\ AtInv' /\ LockInv' /\ CloseInv' /\ ReadInv' /\ BrokenInv'
      /\ exists' \subseteq Streams /\ broken' \subseteq Ins
      /\ lock' \in [Streams \cup {Adev} -> Threads \cup {Free}]
      /\ pc' \in [Threads -> {"idle", "first", "second", "critical", "transfer"}]
      /\ op' \in [Threads -> {"none", "write", "read", "standby", "set_parameters", "close"}]
      /\ at' \in [Threads -> Streams \cup {None}]
  BY <1>1, EndingInv
<1>5. TypeOK'
  BY <1>1, <1>2, <1>3, <1>4 DEF TypeOK
<1>6. RunInv'
  <2>1. \A u \in Threads : pc'[u] = "transfer" => /\ pc[u] = "transfer" /\ at'[u] = at[u]
                                                  /\ at[u] \in Streams
    BY <1>1 DEF Return, TypeOK, AtInv
  <2>2. \A u \in Threads : pc[u] = "transfer" => at[u] # at[t]
    BY <1>1 DEF LockInv, TypeOK
  <2>3. \A s \in Streams : ~standby'[s] => pcm'[s] = "open"
    BY <1>2 DEF RunInv
  <2>. QED BY <1>2, <2>1, <2>2, <2>3 DEF RunInv
<1>7. ActiveInv'
  BY <1>1, <1>2, <1>3 DEF ActiveInv, TypeOK
<1>. QED BY <1>4, <1>5, <1>6, <1>7

(* The calls that take no mutex.                                            *)
LEMMA UnlockedInv ==
  ASSUME AudioInv,
         \/ \E s \in Streams : OpenStream(s)
         \/ \E s \in Outs : CloseOutput(s)
         \/ \E b \in BOOLEAN : SetMicMute(b)
  PROVE  AudioInv'
<1>. USE DEF AudioInv
<1>1. CASE \E s \in Streams : OpenStream(s)
  <2>1. PICK s \in Streams : OpenStream(s)
    BY <1>1
  <2>2. TypeOK' /\ LockInv' /\ CloseInv' /\ ReadInv' /\ BrokenInv'
    BY <2>1 DEF OpenStream, callVars, TypeOK, LockInv, FirstLock, CloseInv, ReadInv, BrokenInv, Busy
  <2>3. AtInv' /\ RunInv' /\ ActiveInv'
    BY <2>1 DEF OpenStream, callVars, TypeOK, AtInv, RunInv, ActiveInv
  <2>. QED BY <2>2, <2>3
<1>2. CASE \E s \in Outs : CloseOutput(s)
  <2>1. PICK s \in Outs : CloseOutput(s)
    BY <1>2
  <2>2. TypeOK' /\ LockInv' /\ CloseInv' /\ ReadInv' /\ BrokenInv'
    BY <2>1
       DEF CloseOutput, callVars, TypeOK, LockInv, FirstLock, CloseInv, ReadInv, BrokenInv, Busy
  <2>3. AtInv' /\ RunInv' /\ ActiveInv'
    BY <2>1 DEF CloseOutput, Using, callVars, TypeOK, AtInv, RunInv, ActiveInv
  <2>. QED BY <2>2, <2>3
<1>3. CASE \E b \in BOOLEAN : SetMicMute(b)
  BY <1>3 DEF SetMicMute, callVars, TypeOK, LockInv, FirstLock, CloseInv, ReadInv, BrokenInv, Busy,
              AtInv, RunInv, ActiveInv
<1>. QED BY <1>1, <1>2, <1>3

(* Every step keeps the invariant.                                          *)
LEMMA StepInv ==
  ASSUME AudioInv, [Next]_vars
  PROVE  AudioInv'
<1>1. CASE UNCHANGED vars
  BY <1>1 DEF vars, streamVars, callVars, AudioInv, TypeOK, AtInv, LockInv, FirstLock, CloseInv,
              ReadInv, BrokenInv, Busy, RunInv, ActiveInv
<1>2. CASE Next
  BY <1>2, CallInv, LockingInv, TransferringInv, StartFailsInv, TransferInv, StandbyInv, UnlockedInv
     DEF Next, Step
<1>. QED BY <1>1, <1>2

-----------------------------------------------------------------------------
(* The invariant holds for any streams and threads: two orders of taking    *)
(* the mutexes, and a transfer with only one of them held.                  *)
THEOREM InvHolds == Spec => []AudioInv
<1>1. Init => AudioInv
  BY InitInv
<1>2. AudioInv /\ [Next]_vars => AudioInv'
  BY StepInv
<1>. QED BY <1>1, <1>2, PTL DEF Spec

(* Every variable has its type.                                             *)
THEOREM TypeCorrect == Spec => []TypeOK
<1>1. AudioInv => TypeOK
  BY DEF AudioInv
<1>. QED BY <1>1, InvHolds, PTL

(* snd_pcm_writei and snd_pcm_readi get an open pcm of a stream that is not *)
(* in standby, however calls of other threads and failed starts interleave. *)
THEOREM TransfersHavePcm == Spec => []TransferHasPcm
<1>1. AudioInv => TransferHasPcm
  BY DEF AudioInv, TransferHasPcm, AtInv, RunInv, TypeOK
<1>. QED BY <1>1, InvHolds, PTL

(* adev->active_output and active_input never point to a freed stream.      *)
THEOREM ActiveStreamsRun == Spec => []ActiveStreamRuns
<1>1. AudioInv => ActiveStreamRuns
  BY DEF AudioInv, ActiveStreamRuns, ActiveInv
<1>. QED BY <1>1, InvHolds, PTL

(* After a failed read nobody reads before the pcm was closed and opened    *)
(* again.                                                                   *)
THEOREM FailedReadsReopen == Spec => []FailedReadReopens
<1>1. AudioInv => FailedReadReopens
  BY DEF AudioInv, FailedReadReopens, ReadInv, Busy
<1>. QED BY <1>1, InvHolds, PTL

-----------------------------------------------------------------------------
(* No circle of waiting threads.  CallsReturn is out of the provers' reach; *)
(* this is what keeps it from failing, for any streams and threads.         *)

(* The mutexes a thread has where it is: the one its call took first, both, *)
(* or its stream's; none outside of a call.                                 *)
Holds(t) ==
  CASE pc[t] = "second"   -> {FirstLock(t)}
    [] pc[t] = "critical" -> {Adev, at[t]}
    [] pc[t] = "transfer" -> {at[t]}
    [] OTHER              -> {}

(* Nobody keeps a mutex past the point where the call gives it back.        *)
HoldInv == \A t \in Threads, l \in Streams \cup {Adev} : lock[l] = t => l \in Holds(t)

(* u has the mutex that t wants next.                                       *)
Blocks(u, t) ==
  \/ pc[t] = "first" /\ lock[FirstLock(t)] = u
  \/ pc[t] = "second" /\ lock[SecondLock(t)] = u

(* Device first for outputs, stream first for inputs.                       *)
Rank(t) ==
  CASE pc[t] = "first"                     -> 3
    [] pc[t] = "second" /\ at[t] \in Ins  -> 2
    [] pc[t] = "second" /\ at[t] \notin Ins -> 1
    [] OTHER                               -> 0

(* Whoever waits, waits for a thread of a lower rank.                       *)
WaitsDescend == \A t, u \in Threads : Blocks(u, t) => Rank(u) < Rank(t)

(* While calls are under way, one of them waits for nobody.                 *)
SomeCallRuns ==
  (\E t \in Threads : pc[t] # "idle") =>
    \E u \in Threads : pc[u] # "idle" /\ \A v \in Threads : ~Blocks(v, u)

(* Taking a mutex adds it to what the thread holds there.                   *)
LEMMA TakeHolds ==
  ASSUME AudioInv, HoldInv, NEW t \in Threads, LockFirst(t) \/ LockSecond(t)
  PROVE  HoldInv'
<1>. USE DEF AudioInv
<1>1. at[t] \in Streams /\ at' = at
  BY DEF LockFirst, LockSecond, AtInv, TypeOK
<1>2. FirstLock(t) \in Streams \cup {Adev} /\ SecondLock(t) \in Streams \cup {Adev}
  BY <1>1 DEF FirstLock, SecondLock
<1>3. {FirstLock(t), SecondLock(t)} = {Adev, at[t]}
  BY DEF FirstLock, SecondLock
<1>4. \A u \in Threads : FirstLock(u)' = FirstLock(u)
  BY <1>1 DEF FirstLock
<1>5. SUFFICES ASSUME NEW u \in Threads, NEW l \in Streams \cup {Adev}, lock'[l] = u
               PROVE  l \in Holds(u)'
  BY DEF HoldInv
<1>6. CASE LockFirst(t)
  <2>1. CASE u = t
    BY <1>2, <1>4, <1>5, <1>6, <2>1, Names DEF LockFirst, TypeOK, HoldInv, Holds
  <2>2. CASE u # t
    <3>1. lock[l] = u /\ pc'[u] = pc[u]
      BY <1>2, <1>5, <1>6, <2>2 DEF LockFirst, TypeOK
    <3>. QED BY <1>1, <1>4, <3>1 DEF HoldInv, Holds
  <2>. QED BY <2>1, <2>2
<1>7. CASE LockSecond(t)
  <2>1. CASE u = t
    <3>1. pc'[t] = "critical"
      BY <1>7 DEF LockSecond, TypeOK
    <3>2. l = SecondLock(t) \/ l = FirstLock(t)
      BY <1>2, <1>5, <1>7, <2>1 DEF LockSecond, TypeOK, HoldInv, Holds
    <3>3. Holds(t)' = {Adev, at[t]}
      BY <1>1, <3>1 DEF Holds
    <3>. QED BY <1>3, <2>1, <3>2, <3>3
  <2>2. CASE u # t
    <3>1. lock[l] = u /\ pc'[u] = pc[u]
      BY <1>2, <1>5, <1>7, <2>2 DEF LockSecond, TypeOK
    <3>. QED BY <1>1, <1>4, <3>1 DEF HoldInv, Holds
  <2>. QED BY <2>1, <2>2
<1>. QED BY <1>6, <1>7

(* Giving mutexes back leaves the thread with what it holds afterwards.     *)
LEMMA ReleaseHolds ==
  ASSUME AudioInv, HoldInv, NEW t \in Threads, pc[t] \in {"critical", "transfer"},
         \/ lock' = [lock EXCEPT ![Adev] = Free] /\ pc[t] = "critical" /\ pc'[t] = "transfer" /\ at' = at
         \/ UnlockBoth(t) /\ pc[t] = "critical"
         \/ lock' = [lock EXCEPT ![at[t]] = Free] /\ pc[t] = "transfer",
         pc' = [pc EXCEPT ![t] = pc'[t]],
         \A u \in Threads \ {t} : at'[u] = at[u]
  PROVE  HoldInv'
<1>. USE DEF AudioInv
<1>1. at[t] \in Streams
  BY DEF AtInv, TypeOK
<1>2. SUFFICES ASSUME NEW u \in Threads, NEW l \in Streams \cup {Adev}, lock'[l] = u
               PROVE  l \in Holds(u)'
  BY DEF HoldInv
<1>3. lock[l] = u
  BY <1>1, <1>2, Names DEF TypeOK, UnlockBoth
<1>4. l \in Holds(u)
  BY <1>3 DEF HoldInv
<1>5. CASE u # t
  <2>1. pc'[u] = pc[u] /\ at'[u] = at[u]
    BY <1>5 DEF TypeOK
  <2>. QED BY <1>4, <2>1 DEF Holds, FirstLock
<1>6. CASE u = t
  <2>1. CASE lock' = [lock EXCEPT ![Adev] = Free] /\ pc[t] = "critical" /\ pc'[t] = "transfer" /\ at' = at
    <3>1. l \in {Adev, at[t]} /\ l # Adev
      BY <1>2, <1>4, <1>6, <2>1, Names DEF Holds, TypeOK
    <3>. QED BY <1>6, <2>1, <3>1 DEF Holds
  <2>2. CASE UnlockBoth(t) /\ pc[t] = "critical"
    <3>1. l \in {Adev, at[t]}
      BY <1>4, <1>6, <2>2 DEF Holds
    <3>. QED BY <1>1, <1>2, <2>2, <3>1, Names DEF UnlockBoth, TypeOK
  <2>3. CASE lock' = [lock EXCEPT ![at[t]] = Free] /\ pc[t] = "transfer"
    <3>1. l = at[t]
      BY <1>4, <1>6, <2>3 DEF Holds
    <3>. QED BY <1>1, <1>2, <2>3, <3>1, Names DEF TypeOK
  <2>. QED BY <2>1, <2>2, <2>3
<1>. QED BY <1>5, <1>6

(* Every step keeps HoldInv.                                                *)
LEMMA StepHolds ==
  ASSUME AudioInv, HoldInv, [Next]_vars
  PROVE  HoldInv'
<1>. USE DEF AudioInv
<1>1. ASSUME NEW t \in Threads, NEW s \in Streams, NEW o \in Ops(s), Call(t, o, s)
      PROVE  HoldInv'
  <2>1. \A u \in Threads \ {t} : pc'[u] = pc[u] /\ at'[u] = at[u]
    BY <1>1 DEF Call, TypeOK
  <2>2. Holds(t) = {} /\ lock' = lock
    BY <1>1 DEF Call, Holds
  <2>3. \A u \in Threads \ {t} : Holds(u)' = Holds(u)
    BY <2>1 DEF Holds, FirstLock
  <2>. QED BY <2>2, <2>3 DEF HoldInv
<1>2. ASSUME NEW t \in Threads, LockFirst(t) \/ LockSecond(t)
      PROVE  HoldInv'
  BY <1>2, TakeHolds
<1>3. ASSUME NEW t \in Threads, StartSucceeds(t) \/ KeepRunning(t)
      PROVE  HoldInv'
  BY <1>3, ReleaseHolds DEF StartSucceeds, Starting, KeepRunning, TypeOK
<1>4. ASSUME NEW t \in Threads, StartFails(t)
      PROVE  HoldInv'
  BY <1>4, ReleaseHolds DEF StartFails, Starting, Fail, Return, TypeOK
<1>5. ASSUME NEW t \in Threads, TransferSucceeds(t) \/ TransferFails(t)
      PROVE  HoldInv'
  <2>1. pc[t] = "transfer" /\ lock' = [lock EXCEPT ![at[t]] = Free]
    BY <1>5 DEF TransferSucceeds, TransferFails
  <2>2. Return(t) \/ Fail(t)
    BY <1>5 DEF TransferSucceeds, TransferFails
  <2>3. pc' = [pc EXCEPT ![t] = pc'[t]]
    BY <2>2 DEF Fail, Return, TypeOK
  <2>4. \A u \in Threads \ {t} : at'[u] = at[u]
    BY <2>2 DEF Fail, Return, TypeOK
  <2>. QED BY <2>1, <2>3, <2>4, ReleaseHolds
<1>6. ASSUME NEW t \in Threads, Standby(t) \/ SetParameters(t)
      PROVE  HoldInv'
  BY <1>6, ReleaseHolds DEF Standby, SetParameters, Return, TypeOK
<1>7. ASSUME UNCHANGED <<lock, callVars>>
      PROVE  HoldInv'
  BY <1>7 DEF callVars, HoldInv, Holds, FirstLock
<1>. QED
  BY <1>1, <1>2, <1>3, <1>4, <1>5, <1>6, <1>7
     DEF Next, Step, vars, OpenStream, CloseOutput, SetMicMute

(* What a waiting thread waits for is held by one further along.            *)
LEMMA Descends ==
  ASSUME AudioInv, HoldInv
  PROVE  WaitsDescend
<1>. USE DEF AudioInv
<1>1. SUFFICES ASSUME NEW t \in Threads, NEW u \in Threads, Blocks(u, t)
               PROVE  Rank(u) < Rank(t)
  BY DEF WaitsDescend
<1>2. at[t] \in Streams
  BY <1>1 DEF Blocks, AtInv, TypeOK
<1>3. FirstLock(t) \in Streams \cup {Adev} /\ SecondLock(t) \in Streams \cup {Adev}
  BY <1>2 DEF FirstLock, SecondLock
<1>4. PICK l \in Streams \cup {Adev} :
        lock[l] = u /\ (pc[t] = "first" \/ (pc[t] = "second" /\ l = SecondLock(t)))
  BY <1>1, <1>3 DEF Blocks
<1>5. l \in Holds(u)
  BY <1>4 DEF HoldInv
<1>6. pc[u] \in {"second", "critical", "transfer"} /\ at[u] \in Streams
  BY <1>5 DEF Holds, AtInv, TypeOK
<1>7. CASE pc[u] # "second"
  BY <1>4, <1>6, <1>7 DEF Rank
<1>8. CASE pc[u] = "second" /\ pc[t] = "first"
  BY <1>8 DEF Rank
<1>9. CASE pc[u] = "second" /\ pc[t] = "second"
  <2>1. l = FirstLock(u) /\ l = SecondLock(t)
    BY <1>4, <1>5, <1>9 DEF Holds
  <2>2. CASE at[t] \in Outs
    <3>1. at[u] = at[t] /\ at[u] \notin Outs
      BY <1>2, <2>1, <2>2, Names DEF FirstLock, SecondLock
    <3>. QED BY <2>2, <3>1
  <2>3. CASE at[t] \notin Outs
    <3>1. at[t] \in Ins /\ at[u] \in Outs
      BY <1>2, <1>6, <2>1, <2>3, Names DEF FirstLock, SecondLock, Streams
    <3>2. at[u] \notin Ins
      BY <3>1, AudioAssumption
    <3>. QED BY <1>9, <3>1, <3>2 DEF Rank
  <2>. QED BY <2>2, <2>3
<1>. QED BY <1>4, <1>6, <1>7, <1>8, <1>9

(* Ranks go down to a thread that waits for nobody.                         *)
LEMMA Someone ==
  ASSUME AudioInv, HoldInv
  PROVE  SomeCallRuns
<1>1. SUFFICES ASSUME \A u \in Threads : pc[u] # "idle" => \E v \in Threads : Blocks(v, u)
               PROVE  \A t \in Threads : pc[t] = "idle"
  BY DEF SomeCallRuns
<1>2. \A u, v \in Threads : Blocks(v, u) => pc[v] # "idle"
  <2>1. SUFFICES ASSUME NEW u \in Threads, NEW v \in Threads, Blocks(v, u)
                 PROVE  pc[v] # "idle"
    OBVIOUS
  <2>2. at[u] \in Streams
    BY <2>1 DEF Blocks, AudioInv, AtInv, TypeOK
  <2>3. PICK l \in Streams \cup {Adev} : lock[l] = v
    BY <2>1, <2>2 DEF Blocks, FirstLock, SecondLock
  <2>. QED BY <2>3 DEF HoldInv, Holds
<1>3. \A u \in Threads : pc[u] # "idle" =>
        \E v \in Threads : pc[v] # "idle" /\ Rank(v) < Rank(u)
  BY <1>1, <1>2, Descends DEF WaitsDescend
<1>4. \A u \in Threads : Rank(u) \in {0, 1, 2, 3}
  BY DEF Rank
<1>5. \A u \in Threads : pc[u] # "idle" => Rank(u) # 0
  BY <1>3, <1>4
<1>6. \A u \in Threads : pc[u] # "idle" => Rank(u) # 1
  BY <1>3, <1>4, <1>5
<1>7. \A u \in Threads : pc[u] # "idle" => Rank(u) # 2
  BY <1>3, <1>4, <1>5, <1>6
<1>8. \A u \in Threads : pc[u] # "idle" => Rank(u) # 3
  BY <1>3, <1>4, <1>5, <1>6, <1>7
<1>. QED BY <1>4, <1>5, <1>6, <1>7, <1>8

(* The two orders of taking the mutexes, device first for outputs and       *)
(* stream first for inputs, never close a circle of threads that wait.      *)
THEOREM MutexWaitsDescend == Spec => [](HoldInv /\ WaitsDescend)
<1>1. Init => HoldInv
  BY Names DEF Init, HoldInv
<1>2. AudioInv /\ HoldInv /\ [Next]_vars => HoldInv'
  BY StepHolds
<1>3. AudioInv /\ HoldInv => WaitsDescend
  BY Descends
<1>. QED BY <1>1, <1>2, <1>3, InvHolds, PTL DEF Spec

(* While calls are under way one of them can go on, so there is no          *)
(* deadlock among AudioFlinger's threads.                                   *)
THEOREM AudioNeverStuck == Spec => []SomeCallRuns
<1>1. AudioInv /\ HoldInv => SomeCallRuns
  BY Someone
<1>. QED BY <1>1, InvHolds, MutexWaitsDescend, PTL
=============================================================================

----------------------------- MODULE FrameTiming ------------------------------
(***************************************************************************)
(* When SurfaceFlinger hears of a vsync and when the retire fence of a      *)
(* frame signals.  hwc_vsync_thread sleeps up to the next point of the grid *)
(* that the last presentation feedback and vsync_period span, and calls     *)
(* SurfaceFlinger if it still wants to be called; feedback_presented moves  *)
(* the grid from the wayland thread, hwc_event_control and                  *)
(* hwc_register_procs change what the thread checks, all without a lock.    *)
(* hwc_set moves the sw_sync timeline and hands out the next fence on it.   *)
(* Time is whole ticks; the compositor's clock is not ours                  *)
(* (presentation_clock_id ignores which it is), so a feedback's stamp may   *)
(* lie anywhere, in the future too.                                         *)
(***************************************************************************)
EXTENDS Integers

CONSTANTS
  Period,    (* vsync_period, in ticks                                       *)
  MaxTime,   (* BOUND: the last tick                                         *)
  Stamps,    (* the times feedback_presented is called with                  *)
  SyncPoints (* BOUND: how many sync points there are, 2^32 in the program   *)

(* A vsync_period of 0 divides by zero in the program too.                  *)
ASSUME TimingAssumption ==
  /\ Period \in Nat \ {0} /\ MaxTime \in Nat /\ Stamps \subseteq Int
  /\ SyncPoints \in Nat /\ SyncPoints >= 4

VARIABLES
  now,          (* vsync_clock                                               *)
  lastVsync,    (* pdev->last_vsync                                          *)
  enabled,      (* pdev->vsync_callback_enabled                              *)
  procs,        (* pdev->procs: "null", "noVsync" without the callback, or   *)
                (* "vsync"                                                   *)
  thread,       (* where hwc_vsync_thread is: "read", "compute", "sleep",    *)
                (* "call"                                                    *)
  base,         (* the last_vsync it read                                    *)
  sleepUntil,   (* the time it computed                                      *)
  timeline,     (* the value of the sw_sync timeline                         *)
  nextSyncPoint,(* pdev->next_sync_point                                     *)
  pending,      (* the sync points of the fences that have not signalled     *)
  computed,     (* history: when sleepUntil was computed                     *)
  delivered,    (* history: the last time SurfaceFlinger was called with     *)
  late          (* history: calls since the callback was disabled            *)

fenceVars == <<timeline, nextSyncPoint, pending>>
deviceVars == <<lastVsync, enabled, procs>>
threadVars == <<thread, base, sleepUntil, computed, delivered>>
timingVars == <<now, deviceVars, threadVars, late, fenceVars>>

-----------------------------------------------------------------------------
(* hwc_vsync_thread.                                                        *)

(* The division of durations rounds towards zero.                           *)
Quotient(a, b) == IF a >= 0 THEN a \div b ELSE -((-a) \div b)

(* Mutant: the point that was reached, not the one after it.                *)
TimeToSleepReached(last) == last + Period * Quotient(now - last, Period)

(* calculate_time_to_sleep                                                  *)
TimeToSleep(last) == last + Period * (Quotient(now - last, Period) + 1)

ReadLastVsync ==
  /\ thread = "read"
  /\ base' = lastVsync
  /\ thread' = "compute"
  /\ UNCHANGED <<now, deviceVars, sleepUntil, computed, delivered, late, fenceVars>>

GoToSleep ==
  /\ thread = "compute"
  /\ sleepUntil' = TimeToSleep(base)
  /\ computed' = now
  /\ thread' = "sleep"
  /\ UNCHANGED <<now, deviceVars, base, delivered, late, fenceVars>>

(* Mutant: the flag is read before going to sleep only.                     *)
AwokenUnasked ==
  /\ thread = "sleep"
  /\ now >= sleepUntil
  /\ thread' = IF procs = "vsync" THEN "call" ELSE "read"
  /\ UNCHANGED <<now, deviceVars, base, sleepUntil, computed, delivered, late, fenceVars>>

(* The checks; what they find may have changed when the call is made.       *)
Awoken ==
  /\ thread = "sleep"
  /\ now >= sleepUntil
  /\ thread' = IF enabled /\ procs = "vsync" THEN "call" ELSE "read"
  /\ UNCHANGED <<now, deviceVars, base, sleepUntil, computed, delivered, late, fenceVars>>

CallVsync ==
  /\ thread = "call"
  /\ thread' = "read"
  /\ delivered' = sleepUntil
  /\ late' = IF enabled THEN 0 ELSE late + 1
  /\ UNCHANGED <<now, deviceVars, base, sleepUntil, computed, fenceVars>>

-----------------------------------------------------------------------------
(* The other threads.                                                       *)

FeedbackPresented(stamp) ==
  /\ lastVsync' = stamp
  /\ UNCHANGED <<now, enabled, procs, threadVars, late, fenceVars>>

(* hwc_event_control.  Other displays, other events and other values than 0 *)
(* and 1 change nothing.                                                    *)
EventControl(on) ==
  /\ enabled' = on
  /\ late' = 0
  /\ UNCHANGED <<now, lastVsync, procs, threadVars, fenceVars>>

RegisterProcs(p) ==
  /\ procs = "null"
  /\ procs' = p
  /\ UNCHANGED <<now, lastVsync, enabled, threadVars, late, fenceVars>>

(* A sync point is reached if it is not later than the timeline, as numbers *)
(* of as many bits that wrap around.                                        *)
Reached(point, value) ==
  (point - value + SyncPoints) % SyncPoints \notin 1..(SyncPoints \div 2 - 1)

Wrap(n) == n % SyncPoints

(* Mutant: next_sync_point++ as an argument.                                *)
RetireFenceReached ==
  /\ timeline' = Wrap(timeline + 1)
  /\ nextSyncPoint' = Wrap(nextSyncPoint + 1)
  /\ pending' = {p \in pending \cup {nextSyncPoint} : ~Reached(p, timeline')}
  /\ UNCHANGED <<now, deviceVars, threadVars, late>>

(* hwc_set's last lines.  Without displays it returns before them.          *)
RetireFence ==
  /\ timeline' = Wrap(timeline + 1)
  /\ nextSyncPoint' = Wrap(nextSyncPoint + 1)
  /\ pending' = {p \in pending \cup {nextSyncPoint'} : ~Reached(p, timeline')}
  /\ UNCHANGED <<now, deviceVars, threadVars, late>>

Tick ==
  /\ now < MaxTime
  /\ now' = now + 1
  /\ UNCHANGED <<deviceVars, threadVars, late, fenceVars>>

-----------------------------------------------------------------------------
(* waydroid_hwc_composer_device_1::create: last_vsync is the time it ran.   *)
TimingInit ==
  /\ now = 0
  /\ lastVsync = 0
  /\ enabled = TRUE
  /\ procs = "null"
  /\ thread = "read"
  /\ base = 0 /\ sleepUntil = 0
  /\ timeline = 0
  /\ nextSyncPoint = 1
  /\ pending = {}
  /\ computed = 0 /\ delivered = 0 /\ late = 0

TimingNext ==
  \/ ReadLastVsync
  \/ GoToSleep
  \/ Awoken
  \/ CallVsync
  \/ \E stamp \in Stamps : FeedbackPresented(stamp)
  \/ \E on \in BOOLEAN : EventControl(on)
  \/ \E p \in {"noVsync", "vsync"} : RegisterProcs(p)
  \/ RetireFence
  \/ Tick

TimingSpec == TimingInit /\ [][TimingNext]_timingVars

-----------------------------------------------------------------------------
(* Every variable has its type.                                             *)
TimingTypeOK ==
  /\ now \in 0..MaxTime
  /\ {lastVsync, base} \subseteq Stamps \cup {0}
  /\ enabled \in BOOLEAN
  /\ procs \in {"null", "noVsync", "vsync"}
  /\ thread \in {"read", "compute", "sleep", "call"}
  /\ sleepUntil \in Int /\ computed \in 0..MaxTime /\ delivered \in 0..MaxTime
  /\ {timeline, nextSyncPoint} \cup pending \subseteq 0..(SyncPoints - 1)
  /\ late \in Nat

(* Whatever the compositor's clock says and whenever the grid moves, the    *)
(* thread sleeps to a point of the grid it read, in the future and at most  *)
(* two periods away, and SurfaceFlinger is called with times that have come *)
(* and are later than every time before.                                    *)
VsyncsAdvance ==
  /\ thread \in {"sleep", "call"} =>
       /\ computed < sleepUntil /\ sleepUntil < computed + 2 * Period
       /\ (sleepUntil - base) % Period = 0
       /\ delivered < sleepUntil
  /\ thread = "call" => sleepUntil <= now

(* The thread checks and then calls: once the callback is disabled, one     *)
(* call more can come, and no second one.                                   *)
OneLateVsync == late <= 1

(* When hwc_set returned, the fences of all sets before have signalled and  *)
(* its own has not, although both counters wrap around: whoever waits for   *)
(* the frame's own fence waits for the next frame.                          *)
OnlyLastFencePending ==
  \/ pending = {nextSyncPoint}
  \/ pending = {} /\ timeline = 0 /\ nextSyncPoint = 1   (* no set yet *)
=============================================================================

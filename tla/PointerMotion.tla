--------------------------- MODULE PointerMotion ----------------------------
(***************************************************************************)
(* The arithmetic of the pointer handlers of wayland-hwc.cpp: positions     *)
(* become relative motion through ptrPrvX, and fractions of a wheel step or *)
(* of a pixel wait in accumulators until they make a whole one.             *)
(*                                                                         *)
(* A double is a number of fractions, Step of which are 1.0 (wl_fixed_t has *)
(* 256).  Handlers are atomic: two threads in one of them at a time would   *)
(* race for the doubles themselves.                                        *)
(***************************************************************************)
EXTENDS Integers

CONSTANTS
  Step,      (* fractions in 1.0                                            *)
  Deltas,    (* values of one axis or relative-motion event, in fractions   *)
  Positions, (* coordinates of motion events                                *)
  MaxLost    (* BOUND: fractions in the events that did not fit, per axis   *)

ASSUME MotionAssumption ==
  Step \in Nat \ {0} /\ Deltas \subseteq Int /\ Positions \subseteq Int /\ MaxLost \in Nat

Axes == {"x", "y"}
Still == [a \in Axes |-> 0]

(* Where a behaviour looks: the groups share pointer_surface and the pipe,  *)
(* and the two motion handlers REL_X and REL_Y as well.                     *)
Groups == {"wheel", "motion"}

VARIABLES
  group,     (* the group of handlers this behaviour follows                *)
  open,      (* input_fd[INPUT_POINTER] # -1                                *)
  over,      (* pointer_surface # NULL                                      *)
  wheel,     (* wheelAccumulatorX, wheelAccumulatorY                        *)
  discrete,  (* wheelEvtIsDiscrete                                          *)
  wheelOwed, (* history: vertically, what came in less what Android read; a  *)
             (* wheel click forgets the rest                                *)
  wheelLost, (* history: vertically, what the lost events would have moved  *)
  relative,  (* acc_x, acc_y of handle_relative_motion                      *)
  ptrPrv,    (* ptrPrvX                                                     *)
  position,  (* history: where the last motion event was                    *)
  owed,      (* history: per axis, the motion that came in, relative or     *)
             (* from position to position, less what Android read           *)
  lost       (* history: per axis, the motion of the lost events            *)

wheelVars  == <<wheel, discrete, wheelOwed, wheelLost>>
movingVars == <<relative, ptrPrv, position, owed, lost>>
motionVars == <<group, open, over, wheelVars, movingVars>>

Abs(n) == IF n < 0 THEN -n ELSE n

(* (int)(d): towards zero.                                                  *)
Whole(n) == IF n < 0 THEN -(Abs(n) \div Step) ELSE n \div Step

(* std::fmod(d, 1.0): the sign of d.                                        *)
Fraction(n) == n - Step * Whole(n)

(* ensure_pipe: may fail until it has succeeded once.                       *)
EnsurePipe == open' = TRUE

PointerPipeFails ==
  /\ ~open
  /\ UNCHANGED motionVars

(* write() of an event that moves by n: Android reads it or, if it does not *)
(* fit into the pipe, it is lost, and the handler only logs that.           *)
Read(fits, n) == IF fits THEN n ELSE 0
Lost(fits, n) == IF fits THEN 0 ELSE n

(* pointer_handle_enter (of a surface that still exists) and _leave.        *)
EnterOrLeave ==
  /\ over' = ~over
  /\ UNCHANGED <<group, open, wheelVars, movingVars>>

(* pointer_handle_axis_source.                                              *)
AxisSource ==
  /\ group = "wheel"
  /\ discrete' \in BOOLEAN
  /\ UNCHANGED <<group, open, over, wheel, wheelOwed, wheelLost, movingVars>>

(* Mutant: the remainder is rounded down, not towards zero.                 *)
RemainderFloored(a, n) == n % Step

(* What is left in the accumulator of axis a, which holds n, after a move:  *)
(* that of x gets the fraction of y.                                        *)
Remainder(a, n) == Fraction(IF a = "y" THEN n ELSE wheel["y"])

(* pointer_handle_axis: the accumulator is reduced before the write.        *)
Axis(a, d) ==
  /\ group = "wheel"
  /\ over
  /\ EnsurePipe
  /\ LET n == wheel[a] + d
         move == Step * Whole(n)
         forgotten == IF discrete THEN Fraction(n) ELSE 0 IN
     IF Abs(n) < Step
     THEN /\ wheel' = [wheel EXCEPT ![a] = n]
          /\ wheelOwed' = IF a = "y" THEN wheelOwed + d ELSE wheelOwed
          /\ UNCHANGED wheelLost
     ELSE \E fits \in BOOLEAN :
          /\ wheel' = [wheel EXCEPT ![a] = IF discrete THEN 0 ELSE Remainder(a, n)]
          /\ wheelOwed' = IF a = "y" THEN wheelOwed + d - forgotten - Read(fits, move)
                          ELSE wheelOwed
          /\ wheelLost' = IF a = "y" THEN wheelLost + Lost(fits, move) ELSE wheelLost
          /\ Abs(wheelLost') <= MaxLost
  /\ UNCHANGED <<group, over, discrete, movingVars>>

(* Without a surface under the pointer an axis event only opens the pipe.   *)
AxisIgnored ==
  /\ group = "wheel"
  /\ ~over
  /\ EnsurePipe
  /\ UNCHANGED <<group, over, wheelVars, movingVars>>

(* handle_relative_motion: whether the pixels are kept back.                *)
RelativeWaits(m) == Abs(m["x"]) < Step /\ Abs(m["y"]) < Step

RelativeKeeps(m) == [a \in Axes |-> Fraction(m[a])]

Relative(dx, dy) ==
  /\ group = "motion"
  /\ EnsurePipe
  /\ LET d == [a \in Axes |-> IF a = "x" THEN dx ELSE dy]
         m == [a \in Axes |-> relative[a] + d[a]]
         move == [a \in Axes |-> Step * Whole(m[a])] IN
     IF RelativeWaits(m)
     THEN /\ relative' = m
          /\ owed' = [a \in Axes |-> owed[a] + d[a]]
          /\ UNCHANGED lost
     ELSE \E fits \in BOOLEAN :
          /\ relative' = RelativeKeeps(m)
          /\ owed' = [a \in Axes |-> owed[a] + d[a] - Read(fits, move[a])]
          /\ lost' = [a \in Axes |-> lost[a] + Lost(fits, move[a])]
          /\ \A a \in Axes : Abs(lost'[a]) <= MaxLost
  /\ UNCHANGED <<group, over, ptrPrv, position, wheelVars>>

(* pointer_handle_motion: ptrPrvX moves on even if the write fails.         *)
Motion(x) ==
  /\ group = "motion"
  /\ over
  /\ EnsurePipe
  /\ ptrPrv' = x
  /\ position' = x
  /\ LET move == Step * (x - ptrPrv) IN
     \E fits \in BOOLEAN :
       /\ owed' = [owed EXCEPT !["x"] = @ + Step * (x - position) - Read(fits, move)]
       /\ lost' = [lost EXCEPT !["x"] = @ + Lost(fits, move)]
       /\ Abs(lost'["x"]) <= MaxLost
  /\ UNCHANGED <<group, over, relative, wheelVars>>

(* seat_handle_capabilities: the pointer goes and comes back, to Android a  *)
(* new device at 0.  The accumulators survive, and pointer_surface does too  *)
(* unless a leave event came first.                                         *)
Replug ==
  /\ open' = FALSE
  /\ over' \in {over, FALSE}
  /\ ptrPrv' = 0 /\ position' = 0
  /\ UNCHANGED <<group, wheelVars, relative, owed, lost>>

MotionInit ==
  /\ group \in Groups
  /\ open = FALSE
  /\ over = FALSE
  /\ wheel = Still /\ discrete = FALSE /\ wheelOwed = 0 /\ wheelLost = 0
  /\ relative = Still
  /\ ptrPrv = 0 /\ position = 0
  /\ owed = Still /\ lost = Still

MotionNext ==
  \/ PointerPipeFails
  \/ EnterOrLeave
  \/ AxisSource
  \/ \E a \in Axes, d \in Deltas : Axis(a, d)
  \/ AxisIgnored
  \/ \E dx, dy \in Deltas : Relative(dx, dy)
  \/ \E x \in Positions : Motion(x)
  \/ Replug

MotionSpec == MotionInit /\ [][MotionNext]_motionVars

-----------------------------------------------------------------------------
(* Every variable has its type.                                             *)
MotionTypeOK ==
  /\ group \in Groups
  /\ open \in BOOLEAN /\ over \in BOOLEAN /\ discrete \in BOOLEAN
  /\ wheel \in [Axes -> Int] /\ wheelOwed \in Int /\ wheelLost \in Int
  /\ relative \in [Axes -> Int] /\ owed \in [Axes -> Int] /\ lost \in [Axes -> Int]
  /\ ptrPrv \in Int /\ position \in Int

(* Nothing that makes a whole step stays behind in any accumulator, the     *)
(* horizontal wheel's included, which takes its fraction from the vertical. *)
AccumulatorsBelowStep ==
  \A a \in Axes : Abs(wheel[a]) < Step /\ Abs(relative[a]) < Step

(* Whatever comes in is read by Android, or was in an event that did not    *)
(* fit into the pipe, or waits in an accumulator as less than one step:     *)
(* vertical scrolling in whatever order directions and sources follow each  *)
(* other, up to the rest that a wheel click forgets; and on each axis the   *)
(* REL_X and REL_Y that both motion handlers write to the same device,      *)
(* over every surface and replugging.  A full pipe costs the motion of the  *)
(* events that did not fit for good, and no other: none is made up, kept    *)
(* twice or written again later.                                            *)
MotionKept ==
  /\ wheelOwed = wheel["y"] + wheelLost
  /\ \A a \in Axes : owed[a] = relative[a] + lost[a]
  /\ AccumulatorsBelowStep
=============================================================================

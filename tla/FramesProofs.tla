----------------------------- MODULE FramesProofs -----------------------------
(***************************************************************************)
(* Proofs about FrameComposition, for frames of any length: the types, that *)
(* every fence is closed once (FencesClosedOnce), that every layer is shown *)
(* once (EveryLayerShownOnce) and in its place (ZOrderKept).                *)
(*                                                                         *)
(* The argument is a loop invariant of hwc_set: the fences of the layers    *)
(* that were handled are closed, and the target's, which may be closed long *)
(* before its turn, is closed exactly if it had its turn or was drawn       *)
(* (TargetDrawn); what was drawn so far lies below what is still to come.   *)
(*                                                                         *)
(* Then FrameTiming, for any period, length of time, stamps and number of   *)
(* sync points, and at the end the composition of the two with              *)
(* WindowSurfaces that MCFrames checks.                                     *)
(***************************************************************************)
EXTENDS MCFrames, WindowSurfacesProofs, WellFoundedInduction

-----------------------------------------------------------------------------
(* The least and the greatest of a set of numbers.                          *)

(* The order of the natural numbers is well-founded.                        *)
LessThan == OpToRel(<, Nat)

(* Less-than on the natural numbers is well-founded.                        *)
LEMMA LessThanWellFounded == IsWellFoundedOn(LessThan, Nat)
  BY NatLessThanWellFounded DEF LessThan

(* A smaller number comes before a greater one in that order.               *)
LEMMA LessThanIsLess == \A x, y \in Nat : x < y => <<x, y>> \in LessThan
  BY DEF LessThan, OpToRel

(* A set of numbers that is not empty has a least element.                  *)
LEMMA LeastIsIn ==
  ASSUME NEW S \in SUBSET Nat, S # {}
  PROVE  Least(S) \in S /\ \A x \in S : Least(S) <= x
  <1>1. PICK x \in S : \A y \in S : ~ (<<y, x>> \in LessThan)
    BY LessThanWellFounded, WFMin
  <1>2. \A y \in S : ~(y < x)  BY <1>1, LessThanIsLess
  <1>3. \A y \in S : x <= y  BY <1>2
  <1> QED  BY <1>3 DEF Least

(* A bounded set of numbers that is not empty has a greatest element.       *)
LEMMA GreatestIsIn ==
  ASSUME NEW N \in Nat, NEW S \in SUBSET (0..N), S # {}
  PROVE  Greatest(S) \in S /\ \A x \in S : x <= Greatest(S)
  <1> DEFINE T == {N - x : x \in S}
  <1>1. T \in SUBSET Nat /\ T # {}
    <2>1. \A x \in S : x \in 0..N  OBVIOUS
    <2>2. \A x \in S : N - x \in Nat  BY <2>1
    <2>3. T \in SUBSET Nat  BY <2>2
    <2>4. PICK x \in S : TRUE  OBVIOUS
    <2>5. N - x \in T  BY <2>4
    <2> QED  BY <2>3, <2>5
  <1>2. Least(T) \in T /\ \A y \in T : Least(T) <= y  BY <1>1, LeastIsIn
  <1>3. PICK m \in S : Least(T) = N - m  BY <1>2
  <1>4. \A x \in S : N - m <= N - x  BY <1>2, <1>3
  <1>5. \A x \in S : x <= m  BY <1>4
  <1> QED  BY <1>5 DEF Greatest

(* What lies below n lies below the next number and n does.                 *)
LEMMA BelowNext == \A m, n \in Nat : m < n + 1 <=> m < n \/ m = n
  OBVIOUS

-----------------------------------------------------------------------------
(* The inductive invariant.                                                 *)

LayerTypes ==
  [kind : {"plain", "skip", "cursor"}, type : Types, handle : BOOLEAN, fence : BOOLEAN]

(* What hwc_prepare has made of a layer in front of the target.             *)
Prepared(i) ==
  LET l == layers[i]
      skipped == first # 0 /\ first <= i /\ i <= last IN
  /\ l.type # "target"
  /\ l.fence => l.handle
  /\ l.kind = "cursor" => l.type = "overlay"
  /\ l.kind = "skip" => l.type = "framebuffer" /\ skipped
  /\ mode = "composing" /\ l.kind # "cursor" => (l.type = "framebuffer" <=> skipped)
  /\ mode = "nonComposing" /\ l.kind # "cursor" => l.type = "framebuffer"
  /\ mode = "multi" /\ l.type = "framebuffer" => l.kind = "skip"

FrameInv ==
  /\ pc = "frame" => layers = << >>
  /\ pc = "set" =>
       /\ Target \in 1..(MaxLayers + 1)
       /\ layers \in [1..Target -> LayerTypes]
       /\ layers[Target].kind = "plain" /\ layers[Target].type = "target"
       /\ \A i \in 1..(Target - 1) : Prepared(i)
       /\ first # 0 => /\ first < Target /\ last < Target /\ first <= last
                       /\ layers[first].kind = "skip"
       /\ idx <= Target + 1

(* The target has been committed, or would have been had it had a buffer.   *)
TargetDrawn ==
  /\ show
  /\ \/ mode = "composing" /\ first # 0 /\ idx > first
     \/ mode = "nonComposing" /\ idx > DrawTargetAt

(* hwc_set is done with the fence of layer i.                               *)
FenceDone(i) ==
  IF i = Target THEN idx > Target \/ TargetDrawn ELSE i < idx /\ ~LeakedCursor(i)

ClosedInv ==
  pc = "set" =>
    closed = [i \in Indices |-> IF layers[i].fence /\ FenceDone(i) THEN 1 ELSE 0]

DrawnSet == {drawn[n] : n \in DOMAIN drawn}

(* A layer that is to be shown from a surface of its own.                   *)
HasSurface(i) ==
  /\ i # Target /\ show /\ mode # "closed"
  /\ layers[i].kind # "cursor" /\ layers[i].type = "overlay" /\ layers[i].handle

DrawnInv ==
  pc = "set" =>
    /\ drawn \in Seq(Indices) /\ failed \subseteq Indices
    /\ \A n \in 1..Len(drawn) : IF drawn[n] = Target THEN TargetDrawn
                                ELSE drawn[n] < idx /\ layers[drawn[n]].type = "overlay"
    /\ \A m, n \in 1..Len(drawn) : drawn[m] = drawn[n] => m = n
    /\ \A i \in Indices : i < idx /\ HasSurface(i) => i \in failed \cup DrawnSet
    /\ TargetDrawn => Target \in failed \cup DrawnSet

(* Layer i is not a cursor and part of what x shows.                        *)
Content(x, i) == i \in Shown(x) /\ layers[i].kind # "cursor"

OrderInv ==
  pc = "set" =>
    \A m, n \in 1..Len(drawn) : m < n =>
      \A i, j \in Indices : Content(drawn[m], i) /\ Content(drawn[n], j) => i < j

IInv == TypeOK /\ FrameInv /\ ClosedInv /\ DrawnInv /\ OrderInv

-----------------------------------------------------------------------------
(* Facts about one state.                                                   *)

(* What is known within hwc_set.                                            *)
LEMMA SetFacts ==
  ASSUME TypeOK, FrameInv, pc = "set"
  PROVE  /\ Target \in Nat /\ Target >= 1
         /\ Indices = 1..Target /\ Target \in Indices
         /\ layers \in [1..Target -> LayerTypes]
         /\ idx \in Nat /\ idx >= 1 /\ idx <= Target + 1
         /\ first \in Nat /\ last \in Nat
  BY CompositionAssumption DEF TypeOK, FrameInv, Indices

(* non_compositing_window_mode draws the target in the place of the first   *)
(* layer that GLES composed, or of the target itself.                       *)
LEMMA TargetPlace ==
  ASSUME TypeOK, FrameInv, pc = "set"
  PROVE  /\ DrawTargetAt \in Indices
         /\ layers[DrawTargetAt].type \in {"framebuffer", "target"}
         /\ \A i \in Indices : layers[i].type \in {"framebuffer", "target"} => DrawTargetAt <= i
  <1> DEFINE S == {i \in Indices : layers[i].type \in {"framebuffer", "target"}}
  <1>1. S \in SUBSET Nat /\ Target \in S  BY SetFacts DEF FrameInv
  <1>2. Least(S) \in S /\ \A x \in S : Least(S) <= x  BY <1>1, LeastIsIn
  <1> QED  BY <1>2 DEF DrawTargetAt

(* A step of the loop leaves the frame alone.                               *)
LEMMA NextLayerFacts ==
  ASSUME TypeOK, FrameInv, AtLayer, NextLayer
  PROVE  /\ UNCHANGED <<pc, mode, show, cursor, layers, first, last>>
         /\ Indices' = Indices /\ Target' = Target /\ DrawTargetAt' = DrawTargetAt
         /\ idx' = idx + 1 /\ pc = "set" /\ idx \in Indices
         /\ FrameInv'
  <1>1. /\ UNCHANGED <<pc, mode, show, cursor, layers, first, last>>
        /\ idx' = idx + 1 /\ pc = "set" /\ idx <= Target
    BY DEF NextLayer, AtLayer
  <1>2. idx \in Indices  BY <1>1, SetFacts
  <1>3. FrameInv'
    <2>1. \A i : Prepared(i) => Prepared(i)'  BY <1>1 DEF Prepared
    <2>2. Target' = Target /\ idx' <= Target + 1  BY <1>1, SetFacts DEF Target
    <2> QED  BY <1>1, <2>1, <2>2 DEF FrameInv
  <1> QED  BY <1>1, <1>2, <1>3 DEF Indices, Target, DrawTargetAt

(* The types after a step of the loop.                                      *)
LEMMA LoopTypes ==
  ASSUME TypeOK, FrameInv, AtLayer, NextLayer, closed' \in [Indices -> Nat],
         \/ UNCHANGED <<drawn, failed>>
         \/ \E x \in Indices : /\ \/ UNCHANGED drawn
                                  \/ drawn \in Seq(Indices) /\ drawn' = Append(drawn, x)
                               /\ failed' \subseteq failed \cup {x}
  PROVE  TypeOK'
  <1>1. /\ UNCHANGED <<pc, mode, show, cursor, layers, first, last>>
        /\ Indices' = Indices /\ idx' = idx + 1 /\ idx \in Indices
    BY NextLayerFacts
  <1>2. idx' \in 1..(MaxLayers + 2)
    BY SMTT(30), <1>1, SetFacts, CompositionAssumption DEF FrameInv, AtLayer
  <1>3. (\A n \in DOMAIN drawn' : drawn'[n] \in Indices) /\ failed' \subseteq Indices
    <2>1. CASE UNCHANGED <<drawn, failed>>  BY <2>1 DEF TypeOK
    <2>2. ASSUME NEW x \in Indices,
                 \/ UNCHANGED drawn
                 \/ drawn \in Seq(Indices) /\ drawn' = Append(drawn, x),
                 failed' \subseteq failed \cup {x}
          PROVE  (\A n \in DOMAIN drawn' : drawn'[n] \in Indices) /\ failed' \subseteq Indices
      <3>1. CASE UNCHANGED drawn  BY <2>2, <3>1 DEF TypeOK
      <3>2. CASE drawn \in Seq(Indices) /\ drawn' = Append(drawn, x)
        <4>1. drawn' \in Seq(Indices)  BY <3>2
        <4> QED  BY <2>2, <4>1 DEF TypeOK
      <3> QED  BY <2>2, <3>1, <3>2
    <2> QED  BY <2>1, <2>2
  <1> QED  BY <1>1, <1>2, <1>3 DEF TypeOK

-----------------------------------------------------------------------------
(* The fences.                                                              *)

(* Close counts each fence of S once more; closing none changes nothing.    *)
LEMMA ClosedStep ==
  ASSUME TypeOK, FrameInv, ClosedInv, AtLayer, NextLayer, NEW S,
         closed' = [i \in Indices |-> IF i \in S /\ layers[i].fence THEN closed[i] + 1
                                                                      ELSE closed[i]],
         \A i \in Indices : layers[i].fence =>
            (FenceDone(i)' <=> FenceDone(i) \/ i \in S) /\ ~(FenceDone(i) /\ i \in S)
  PROVE  ClosedInv' /\ closed' \in [Indices -> Nat]
  <1>1. UNCHANGED layers /\ Indices' = Indices /\ pc = "set"  BY NextLayerFacts
  <1>2. \A i \in Indices : closed[i] = IF layers[i].fence /\ FenceDone(i) THEN 1 ELSE 0
    BY <1>1 DEF ClosedInv
  <1>3. \A i \in Indices : closed'[i] = IF layers[i].fence /\ FenceDone(i)' THEN 1 ELSE 0
    BY <1>2
  <1> QED  BY <1>1, <1>3 DEF ClosedInv

(* A pass of the loop that closes no fence keeps ClosedInv if no fence      *)
(* becomes due by it.                                                       *)
LEMMA ClosedStays ==
  ASSUME TypeOK, FrameInv, ClosedInv, AtLayer, NextLayer, UNCHANGED closed,
         \A i \in Indices : layers[i].fence => (FenceDone(i)' <=> FenceDone(i))
  PROVE  ClosedInv' /\ closed' \in [Indices -> Nat]
  <1>1. UNCHANGED layers /\ Indices' = Indices /\ pc = "set"  BY NextLayerFacts
  <1> QED  BY <1>1 DEF ClosedInv, TypeOK

(* Which fences a step is done with, if it draws no target.                 *)
LEMMA FencesWithoutTarget ==
  ASSUME TypeOK, FrameInv, AtLayer, NextLayer, TargetDrawn' <=> TargetDrawn
  PROVE  \A i \in Indices :
           FenceDone(i)' <=> FenceDone(i) \/ (i = idx /\ ~LeakedCursor(i))
  <1>1. /\ UNCHANGED <<cursor, layers>> /\ Target' = Target /\ idx' = idx + 1
        /\ idx \in Indices
    BY NextLayerFacts
  <1>2. Indices \subseteq Nat /\ Target \in Nat /\ idx \in Nat /\ layers[Target].kind = "plain"
    BY SetFacts DEF FrameInv, AtLayer
  <1> SUFFICES ASSUME NEW i \in Indices
               PROVE  FenceDone(i)' <=> FenceDone(i) \/ (i = idx /\ ~LeakedCursor(i))
    OBVIOUS
  <1>3. LeakedCursor(i)' <=> LeakedCursor(i)  BY <1>1 DEF LeakedCursor
  <1>4. idx' > Target <=> idx = Target \/ idx > Target  BY <1>1, <1>2
  <1>5. CASE i = Target
    <2>1. ~LeakedCursor(i)  BY <1>2, <1>5 DEF LeakedCursor
    <2>2. FenceDone(i) <=> idx > Target \/ TargetDrawn  BY <1>5 DEF FenceDone
    <2>3. FenceDone(i)' <=> idx' > Target \/ TargetDrawn'  BY <1>1, <1>5 DEF FenceDone
    <2>4. i = idx <=> idx = Target  BY <1>5
    <2> QED  BY <1>4, <2>1, <2>2, <2>3, <2>4
  <1>6. CASE i # Target
    <2>1. i < idx' <=> i < idx \/ i = idx  BY <1>1, <1>2, BelowNext
    <2> QED  BY <1>1, <1>3, <1>6, <2>1 DEF FenceDone
  <1> QED  BY <1>5, <1>6

-----------------------------------------------------------------------------
(* What is drawn.                                                           *)

(* Nothing is drawn: there is nothing to draw, or x has no buffer.          *)
LEMMA SkipStep ==
  ASSUME IInv, AtLayer, NextLayer, UNCHANGED drawn, TargetDrawn => TargetDrawn',
         \/ failed' = failed /\ ~HasSurface(idx) /\ (TargetDrawn' => TargetDrawn)
         \/ \E x \in Indices :
              /\ failed' = failed \cup {x}
              /\ IF x = Target THEN ~HasSurface(idx)
                               ELSE x = idx /\ (TargetDrawn' => TargetDrawn)
  PROVE  DrawnInv' /\ OrderInv'
  <1> USE DEF IInv
  <1>1. /\ UNCHANGED <<pc, mode, show, layers>> /\ Target' = Target /\ Indices' = Indices
        /\ idx' = idx + 1 /\ idx \in Indices /\ pc = "set"
    BY NextLayerFacts
  <1>2. Indices \subseteq Nat /\ idx \in Nat  BY <1>1, SetFacts
  <1>3. failed \subseteq failed' /\ failed' \subseteq Indices /\ DrawnSet' = DrawnSet
    BY <1>1 DEF DrawnInv, DrawnSet
  <1>4. \A i \in Indices : HasSurface(i)' <=> HasSurface(i)  BY <1>1 DEF HasSurface
  <1>5. \A i \in Indices : i < idx' /\ HasSurface(i)' => i \in failed' \cup DrawnSet'
    <2> SUFFICES ASSUME NEW i \in Indices, i < idx', HasSurface(i)
                 PROVE  i \in failed' \cup DrawnSet'
      BY <1>4
    <2>1. i < idx \/ i = idx  BY <1>1, <1>2
    <2> QED  BY <1>1, <1>3, <2>1 DEF DrawnInv
  <1>6. \A n \in 1..Len(drawn) : IF drawn[n] = Target THEN TargetDrawn'
                                 ELSE drawn[n] < idx' /\ layers[drawn[n]].type = "overlay"
    <2> SUFFICES ASSUME NEW n \in 1..Len(drawn), drawn[n] # Target
                 PROVE  drawn[n] < idx' /\ layers[drawn[n]].type = "overlay"
      BY <1>1 DEF DrawnInv
    <2>1. drawn[n] \in Indices /\ drawn[n] < idx /\ layers[drawn[n]].type = "overlay"
      BY <1>1 DEF DrawnInv
    <2>2. drawn[n] < idx + 1  BY <1>2, <2>1, BelowNext
    <2> QED  BY <1>1, <2>1, <2>2
  <1>7. TargetDrawn' => Target \in failed' \cup DrawnSet'  BY <1>1, <1>3 DEF DrawnInv
  <1>8. DrawnInv'  BY <1>1, <1>3, <1>5, <1>6, <1>7 DEF DrawnInv
  <1>9. OrderInv'  BY <1>1 DEF OrderInv, Content, Shown
  <1> QED  BY <1>8, <1>9

(* x, which is idx or the target, is drawn.                                 *)
LEMMA DrawStep ==
  ASSUME IInv, AtLayer, NextLayer, NEW x \in Indices, drawn' = Append(drawn, x),
         UNCHANGED failed,
         IF x = Target THEN TargetDrawn' /\ ~HasSurface(idx)
                       ELSE x = idx /\ layers[idx].type = "overlay" /\ (TargetDrawn' <=> TargetDrawn),
         \A n \in 1..Len(drawn) : drawn[n] # x,
         \A n \in 1..Len(drawn) : \A i, j \in Indices :
            Content(drawn[n], i) /\ Content(x, j) => i < j
  PROVE  DrawnInv' /\ OrderInv'
  <1> USE DEF IInv
  <1>1. /\ UNCHANGED <<pc, mode, show, layers>> /\ Target' = Target /\ Indices' = Indices
        /\ idx' = idx + 1 /\ idx \in Indices /\ pc = "set"
    BY NextLayerFacts
  <1>2. Indices \subseteq Nat /\ idx \in Nat  BY <1>1, SetFacts
  <1>3. drawn \in Seq(Indices) /\ Len(drawn) \in Nat  BY <1>1 DEF DrawnInv
  <1>4. /\ drawn' \in Seq(Indices) /\ Len(drawn') = Len(drawn) + 1
        /\ drawn'[Len(drawn) + 1] = x
        /\ \A n \in 1..Len(drawn) : drawn'[n] = drawn[n]
    BY <1>3
  <1>5. \A n \in 1..Len(drawn') : n \in 1..Len(drawn) \/ n = Len(drawn) + 1
    BY <1>3, <1>4
  <1>6. DrawnSet \cup {x} \subseteq DrawnSet'
    <2>1. DOMAIN drawn = 1..Len(drawn) /\ DOMAIN drawn' = 1..Len(drawn')  BY <1>3, <1>4
    <2>2. Len(drawn) + 1 \in DOMAIN drawn' /\ DOMAIN drawn \subseteq DOMAIN drawn'
      BY <1>3, <1>4, <2>1
    <2> QED  BY <1>4, <2>1, <2>2 DEF DrawnSet
  <1>7. \A i \in Indices : HasSurface(i)' <=> HasSurface(i)  BY <1>1 DEF HasSurface
  <1>8. \A i \in Indices : i < idx' /\ HasSurface(i)' => i \in failed' \cup DrawnSet'
    <2> SUFFICES ASSUME NEW i \in Indices, i < idx', HasSurface(i)
                 PROVE  i \in failed' \cup DrawnSet'
      BY <1>7
    <2>1. i < idx \/ i = idx  BY <1>1, <1>2
    <2>2. i = idx => i = x  BY DEF HasSurface
    <2> QED  BY <1>1, <1>6, <2>1, <2>2 DEF DrawnInv
  <1>9. \A n \in 1..Len(drawn') : IF drawn'[n] = Target THEN TargetDrawn'
                                  ELSE drawn'[n] < idx' /\ layers[drawn'[n]].type = "overlay"
    <2>1. ASSUME NEW n \in 1..Len(drawn)
          PROVE  IF drawn[n] = Target THEN TargetDrawn'
                 ELSE drawn[n] < idx' /\ layers[drawn[n]].type = "overlay"
      <3>1. CASE drawn[n] = Target  BY <1>1, <3>1 DEF DrawnInv
      <3>2. CASE drawn[n] # Target
        <4>1. drawn[n] \in Indices /\ drawn[n] < idx /\ layers[drawn[n]].type = "overlay"
          BY <1>1, <3>2 DEF DrawnInv
        <4>2. drawn[n] < idx + 1  BY <1>2, <4>1, BelowNext
        <4> QED  BY <1>1, <3>2, <4>1, <4>2
      <3> QED  BY <3>1, <3>2
    <2>2. IF x = Target THEN TargetDrawn' ELSE x < idx' /\ layers[x].type = "overlay"
      BY <1>1, <1>2
    <2> QED  BY <1>4, <1>5, <2>1, <2>2
  <1>10. \A m, n \in 1..Len(drawn') : drawn'[m] = drawn'[n] => m = n
    BY <1>1, <1>4, <1>5 DEF DrawnInv
  <1>11. TargetDrawn' => Target \in failed' \cup DrawnSet'
    BY <1>1, <1>6 DEF DrawnInv
  <1>12. DrawnInv'
    <2>1. failed' \subseteq Indices  BY <1>1 DEF DrawnInv
    <2> QED  BY <1>1, <1>4, <1>8, <1>9, <1>10, <1>11, <2>1 DEF DrawnInv
  <1>13. OrderInv'
    <2>1. \A y, i : Content(y, i)' <=> Content(y, i)  BY <1>1 DEF Content, Shown
    <2>2. ASSUME NEW m \in 1..Len(drawn'), NEW n \in 1..Len(drawn'), m < n,
                 NEW i \in Indices, NEW j \in Indices,
                 Content(drawn'[m], i), Content(drawn'[n], j)
          PROVE  i < j
      <3>1. m \in 1..Len(drawn)  BY <1>3, <1>4, <2>2
      <3>2. CASE n \in 1..Len(drawn)  BY <1>1, <1>4, <2>2, <3>1, <3>2 DEF OrderInv
      <3>3. CASE n = Len(drawn) + 1  BY <1>4, <2>2, <3>1, <3>3
      <3> QED  BY <1>5, <3>2, <3>3
    <2> QED  BY <1>1, <2>1, <2>2 DEF OrderInv
  <1> QED  BY <1>12, <1>13

(* The turn of the target is over after the step that has it.               *)
TargetTurn ==
  /\ show
  /\ \/ mode = "composing" /\ idx = first
     \/ mode = "nonComposing" /\ idx = DrawTargetAt

(* A pass of the loop draws the target exactly if its turn has come, and it *)
(* comes once.                                                              *)
LEMMA TargetNext ==
  ASSUME TypeOK, FrameInv, AtLayer, NextLayer
  PROVE  /\ TargetDrawn' <=> TargetDrawn \/ TargetTurn
         /\ ~(TargetDrawn /\ TargetTurn)
  <1>1. /\ UNCHANGED <<mode, show, first>> /\ DrawTargetAt' = DrawTargetAt
        /\ idx' = idx + 1 /\ idx \in Indices /\ pc = "set"
    BY NextLayerFacts
  <1>2. idx \in Nat /\ idx >= 1 /\ first \in Nat  BY <1>1, SetFacts
  <1>3. DrawTargetAt \in Nat  BY <1>1, SetFacts, TargetPlace
  <1>4. /\ idx' > first <=> idx > first \/ idx = first
        /\ idx' > DrawTargetAt <=> idx > DrawTargetAt \/ idx = DrawTargetAt
        /\ idx = first => first # 0
    BY <1>1, <1>2, <1>3
  <1>5. ~(idx > first /\ idx = first) /\ ~(idx > DrawTargetAt /\ idx = DrawTargetAt)
    BY <1>2, <1>3
  <1>6. TargetDrawn' <=> /\ show
                         /\ \/ mode = "composing" /\ first # 0 /\ idx' > first
                            \/ mode = "nonComposing" /\ idx' > DrawTargetAt
    BY <1>1 DEF TargetDrawn
  <1> QED  BY <1>4, <1>5, <1>6 DEF TargetDrawn, TargetTurn

(* The fences of a step that is not the target's.                           *)
LEMMA FencesOfLayer ==
  ASSUME TypeOK, FrameInv, ClosedInv, AtLayer, NextLayer, ~TargetTurn,
         \/ Close({idx}) /\ ~LeakedCursor(idx) /\ ~(idx = Target /\ TargetDrawn)
         \/ Close({idx} \ {Target}) /\ ~LeakedCursor(idx) /\ (idx = Target => TargetDrawn)
         \/ /\ UNCHANGED closed
            /\ layers[idx].fence => LeakedCursor(idx) \/ (idx = Target /\ TargetDrawn)
  PROVE  ClosedInv' /\ closed' \in [Indices -> Nat]
  <1>1. idx \in Indices /\ pc = "set"  BY NextLayerFacts
  <1>2. Indices \subseteq Nat /\ Target \in Nat  BY <1>1, SetFacts
  <1>3. \A i \in Indices : FenceDone(i)' <=> FenceDone(i) \/ (i = idx /\ ~LeakedCursor(i))
    BY TargetNext, FencesWithoutTarget
  <1>4. FenceDone(idx) <=> idx = Target /\ TargetDrawn  BY <1>1, <1>2 DEF FenceDone
  <1>5. CASE Close({idx}) /\ ~LeakedCursor(idx) /\ ~(idx = Target /\ TargetDrawn)
    <2>1. \A i \in Indices : /\ FenceDone(i)' <=> FenceDone(i) \/ i \in {idx}
                             /\ ~(FenceDone(i) /\ i \in {idx})
      BY <1>3, <1>4, <1>5
    <2> QED  BY <1>5, <2>1, ClosedStep DEF Close
  <1>6. CASE Close({idx} \ {Target}) /\ ~LeakedCursor(idx) /\ (idx = Target => TargetDrawn)
    <2>1. \A i \in Indices : /\ FenceDone(i)' <=> FenceDone(i) \/ i \in {idx} \ {Target}
                             /\ ~(FenceDone(i) /\ i \in {idx} \ {Target})
      BY <1>3, <1>4, <1>6
    <2> QED  BY <1>6, <2>1, ClosedStep DEF Close
  <1>7. CASE /\ UNCHANGED closed
             /\ layers[idx].fence => LeakedCursor(idx) \/ (idx = Target /\ TargetDrawn)
    <2>1. \A i \in Indices : layers[i].fence => (FenceDone(i)' <=> FenceDone(i))
      BY <1>3, <1>4, <1>7
    <2> QED  BY <1>7, <2>1, ClosedStays
  <1> QED  BY <1>5, <1>6, <1>7

(* The fences of the step that draws the target.                            *)
LEMMA FencesOfTarget ==
  ASSUME TypeOK, FrameInv, ClosedInv, AtLayer, NextLayer, TargetTurn,
         Close({idx, Target}), layers[idx].kind # "cursor"
  PROVE  ClosedInv' /\ closed' \in [Indices -> Nat]
  <1>1. /\ UNCHANGED <<cursor, layers>> /\ Target' = Target /\ idx' = idx + 1
        /\ idx \in Indices /\ pc = "set"
    BY NextLayerFacts
  <1>2. Indices \subseteq Nat /\ Target \in Nat /\ idx <= Target  BY <1>1, SetFacts DEF AtLayer
  <1>3. ~TargetDrawn /\ TargetDrawn'  BY TargetNext
  <1>4. \A i \in Indices : /\ FenceDone(i)' <=> FenceDone(i) \/ i \in {idx, Target}
                           /\ ~(FenceDone(i) /\ i \in {idx, Target})
    <2> SUFFICES ASSUME NEW i \in Indices
                 PROVE  /\ FenceDone(i)' <=> FenceDone(i) \/ i \in {idx, Target}
                        /\ ~(FenceDone(i) /\ i \in {idx, Target})
      OBVIOUS
    <2>1. CASE i = Target
      <3>1. FenceDone(i)'  BY <1>1, <1>3, <2>1 DEF FenceDone
      <3>2. ~(idx > Target)  BY <1>1, <1>2
      <3>3. ~FenceDone(i)  BY <1>3, <2>1, <3>2 DEF FenceDone
      <3> QED  BY <2>1, <3>1, <3>3
    <2>2. CASE i # Target
      <3>1. FenceDone(i) <=> i < idx /\ ~LeakedCursor(i)  BY <2>2 DEF FenceDone
      <3>2. FenceDone(i)' <=> i < idx' /\ ~LeakedCursor(i)
        BY <1>1, <2>2 DEF FenceDone, LeakedCursor
      <3>3. i < idx' <=> i < idx \/ i = idx  BY <1>1, <1>2, BelowNext
      <3>4. ~LeakedCursor(idx) /\ ~(idx < idx)  BY <1>1, <1>2 DEF LeakedCursor
      <3> QED  BY <2>2, <3>1, <3>2, <3>3, <3>4
    <2> QED  BY <2>1, <2>2
  <1> QED  BY <1>4, ClosedStep DEF Close

-----------------------------------------------------------------------------
(* The three kinds of step.                                                 *)

(* What a drawn buffer shows lies among what is handled already, or in the  *)
(* range that SurfaceFlinger composed.                                      *)
LEMMA DrawnFacts ==
  ASSUME IInv, pc = "set", NEW n \in 1..Len(drawn)
  PROVE  /\ drawn[n] \in Indices
         /\ drawn[n] = Target => TargetDrawn
         /\ drawn[n] # Target =>
              drawn[n] < idx /\ \A i : Content(drawn[n], i) => i = drawn[n]
  BY DEF IInv, DrawnInv, Content, Shown

(* The target shows what its type says, from first to last or from where it *)
(* is drawn.                                                                *)
LEMMA TargetShows ==
  ASSUME IInv, pc = "set", NEW i \in Indices, Content(Target, i)
  PROVE  /\ i # Target /\ layers[i].type = "framebuffer"
         /\ mode = "composing" => first # 0 /\ first <= i /\ i <= last
         /\ DrawTargetAt <= i
  <1> USE DEF IInv
  <1>1. layers[i].type = "framebuffer" /\ layers[i].kind # "cursor"  BY DEF Content, Shown
  <1>2. i # Target  BY <1>1 DEF FrameInv
  <1>3. Indices = 1..Target /\ Target \in Nat  BY SetFacts
  <1>4. i \in 1..(Target - 1)  BY <1>2, <1>3
  <1>5. Prepared(i)  BY <1>4 DEF FrameInv
  <1>6. mode = "composing" => first # 0 /\ first <= i /\ i <= last
    BY <1>1, <1>5 DEF Prepared
  <1>7. DrawTargetAt <= i  BY <1>1, TargetPlace
  <1> QED  BY <1>1, <1>2, <1>6, <1>7

(* A step that commits nothing.                                             *)
LEMMA QuietStep ==
  ASSUME IInv, AtLayer, NextLayer, Skip, ~HasSurface(idx), ~TargetTurn,
         \/ Close({idx}) /\ ~LeakedCursor(idx) /\ ~(idx = Target /\ TargetDrawn)
         \/ Close({idx} \ {Target}) /\ ~LeakedCursor(idx) /\ (idx = Target => TargetDrawn)
         \/ /\ UNCHANGED closed
            /\ layers[idx].fence => LeakedCursor(idx) \/ (idx = Target /\ TargetDrawn)
  PROVE  IInv'
  <1> USE DEF IInv
  <1>1. ClosedInv' /\ closed' \in [Indices -> Nat]  BY FencesOfLayer
  <1>2. FrameInv'  BY NextLayerFacts
  <1>3. TypeOK'  BY <1>1, LoopTypes DEF Skip
  <1>4. TargetDrawn' <=> TargetDrawn  BY TargetNext
  <1>5. DrawnInv' /\ OrderInv'  BY <1>4, SkipStep DEF Skip
  <1> QED  BY <1>1, <1>2, <1>3, <1>5

(* A step that commits the layer's own buffer, if there is one.             *)
LEMMA OwnStep ==
  ASSUME IInv, AtLayer, NextLayer, Apply(idx), ~TargetTurn,
         idx # Target, layers[idx].type = "overlay",
         \/ Close({idx}) /\ ~LeakedCursor(idx)
         \/ UNCHANGED closed /\ LeakedCursor(idx),
         TargetDrawn /\ layers[idx].kind # "cursor" =>
            \A i \in Indices : Content(Target, i) => i < idx
  PROVE  IInv'
  <1> USE DEF IInv
  <1>0. idx \in Indices /\ pc = "set"  BY NextLayerFacts
  <1>1. ClosedInv' /\ closed' \in [Indices -> Nat]  BY FencesOfLayer
  <1>2. FrameInv'  BY NextLayerFacts
  <1>3. drawn \in Seq(Indices)  BY <1>0 DEF DrawnInv
  <1>4. TypeOK'  BY <1>0, <1>1, <1>3, LoopTypes DEF Apply
  <1>5. TargetDrawn' <=> TargetDrawn  BY TargetNext
  <1>6. DrawnInv' /\ OrderInv'
    <2>1. CASE drawn' = Append(drawn, idx) /\ UNCHANGED failed
      <3>1. \A n \in 1..Len(drawn) : drawn[n] # idx
        <4> SUFFICES ASSUME NEW n \in 1..Len(drawn) PROVE drawn[n] # idx  OBVIOUS
        <4>1. ~(idx < idx)  BY <1>0, SetFacts
        <4> QED  BY <1>0, <4>1, DrawnFacts
      <3>2. \A n \in 1..Len(drawn) : \A i, j \in Indices :
               Content(drawn[n], i) /\ Content(idx, j) => i < j
        <4> SUFFICES ASSUME NEW n \in 1..Len(drawn), NEW i \in Indices, NEW j \in Indices,
                            Content(drawn[n], i), Content(idx, j)
                     PROVE  i < j
          OBVIOUS
        <4>1. j = idx /\ layers[idx].kind # "cursor"  BY DEF Content, Shown
        <4>2. CASE drawn[n] = Target  BY <1>0, <4>1, <4>2, DrawnFacts
        <4>3. CASE drawn[n] # Target  BY <1>0, <4>1, <4>3, DrawnFacts
        <4> QED  BY <4>2, <4>3
      <3> QED  BY <1>0, <1>5, <2>1, <3>1, <3>2, DrawStep
    <2>2. CASE failed' = failed \cup {idx} /\ UNCHANGED drawn
      BY <1>0, <1>5, <2>2, SkipStep
    <2> QED  BY <2>1, <2>2 DEF Apply
  <1> QED  BY <1>1, <1>2, <1>4, <1>6

(* The step that commits the target, if it has a buffer.                    *)
LEMMA TargetStep ==
  ASSUME IInv, AtLayer, NextLayer, Apply(Target), TargetTurn, Close({idx, Target}),
         layers[idx].kind # "cursor", ~HasSurface(idx),
         \A i \in Indices : Content(Target, i) => idx <= i
  PROVE  IInv'
  <1> USE DEF IInv
  <1>0. idx \in Indices /\ pc = "set"  BY NextLayerFacts
  <1>1. ClosedInv' /\ closed' \in [Indices -> Nat]  BY FencesOfTarget
  <1>2. FrameInv'  BY NextLayerFacts
  <1>3. drawn \in Seq(Indices) /\ Target \in Indices  BY <1>0, SetFacts DEF DrawnInv
  <1>4. TypeOK'  BY <1>1, <1>3, LoopTypes DEF Apply
  <1>5. ~TargetDrawn /\ TargetDrawn'  BY TargetNext
  <1>6. DrawnInv' /\ OrderInv'
    <2>1. CASE drawn' = Append(drawn, Target) /\ UNCHANGED failed
      <3>1. \A n \in 1..Len(drawn) : drawn[n] # Target  BY <1>0, <1>5, DrawnFacts
      <3>2. \A n \in 1..Len(drawn) : \A i, j \in Indices :
               Content(drawn[n], i) /\ Content(Target, j) => i < j
        <4> SUFFICES ASSUME NEW n \in 1..Len(drawn), NEW i \in Indices, NEW j \in Indices,
                            Content(drawn[n], i), Content(Target, j)
                     PROVE  i < j
          OBVIOUS
        <4>1. i < idx  BY <1>0, <3>1, DrawnFacts
        <4>2. i \in Nat /\ j \in Nat /\ idx \in Nat  BY <1>0, SetFacts
        <4> QED  BY <4>1, <4>2
      <3> QED  BY <1>3, <1>5, <2>1, <3>1, <3>2, DrawStep
    <2>2. CASE failed' = failed \cup {Target} /\ UNCHANGED drawn
      BY <1>3, <1>5, <2>2, SkipStep
    <2> QED  BY <2>1, <2>2 DEF Apply
  <1> QED  BY <1>1, <1>2, <1>4, <1>6

-----------------------------------------------------------------------------
(* The loop, action by action.                                              *)

(* Facts about the layer the loop is at.                                    *)
LEMMA ShownLayerFacts ==
  ASSUME TypeOK, FrameInv, AtLayer
  PROVE  /\ pc = "set" /\ idx \in Indices /\ idx \in Nat /\ idx # 0 /\ Target \in Nat
         /\ idx # Target => Prepared(idx) /\ idx < Target
         /\ idx = Target => layers[idx].kind = "plain" /\ layers[idx].type = "target"
         /\ first # 0 => /\ first < Target /\ last < Target /\ first <= last
                         /\ layers[first].kind = "skip"
         /\ first \in Nat /\ last \in Nat
  <1>1. pc = "set" /\ idx <= Target  BY DEF AtLayer
  <1>2. idx \in Nat /\ idx >= 1 /\ Target \in Nat /\ Indices = 1..Target  BY <1>1, SetFacts
  <1>3. idx # Target => idx \in 1..(Target - 1)  BY <1>1, <1>2
  <1>4. first \in Nat /\ last \in Nat  BY <1>1, SetFacts
  <1> QED  BY <1>1, <1>2, <1>3, <1>4 DEF FrameInv

(* A cursor layer that goes to the cursor surface.                          *)
LEMMA SetCursorKeeps == ASSUME IInv, SetCursor PROVE IInv'
  <1> USE DEF IInv
  <1>1. AtLayer /\ NextLayer /\ layers[idx].kind = "cursor"  BY DEF SetCursor
  <1>2. idx # Target /\ Prepared(idx) /\ pc = "set"  BY <1>1, ShownLayerFacts
  <1>3. layers[idx].type = "overlay"  BY <1>1, <1>2 DEF Prepared
  <1>4. ~HasSurface(idx)  BY <1>1 DEF HasSurface
  <1>5. ~TargetTurn
    <2>1. mode = "composing" /\ idx = first => layers[first].kind = "skip"
      BY <1>1, ShownLayerFacts
    <2>2. idx # DrawTargetAt  BY <1>2, <1>3, TargetPlace
    <2> QED  BY <1>1, <2>1, <2>2 DEF TargetTurn
  <1>6. \/ Close({idx}) /\ ~LeakedCursor(idx)
        \/ UNCHANGED closed /\ LeakedCursor(idx)
    BY <1>1 DEF SetCursor, LeakedCursor
  <1>7. CASE cursor = "shown"
    <2>1. Apply(idx)  BY <1>7 DEF SetCursor
    <2> QED  BY <1>1, <1>2, <1>3, <1>5, <1>6, <2>1, OwnStep
  <1>8. CASE cursor # "shown"
    <2>1. Skip  BY <1>8 DEF SetCursor
    <2> QED  BY <1>1, <1>2, <1>4, <1>5, <1>6, <2>1, QuietStep
  <1> QED  BY <1>7, <1>8

(* A layer of a mode that shows nothing.                                    *)
LEMMA SetHiddenKeeps == ASSUME IInv, SetHidden PROVE IInv'
  <1>1. AtLayer /\ NextLayer /\ layers[idx].kind # "cursor" /\ Close({idx}) /\ Skip
    BY DEF SetHidden, Plain
  <1>2. ~TargetTurn /\ ~TargetDrawn /\ ~HasSurface(idx)
    BY DEF SetHidden, TargetTurn, TargetDrawn, HasSurface
  <1> QED  BY <1>1, <1>2, QuietStep DEF LeakedCursor

(* The first of the layers GLES composed: the target is drawn in its place. *)
LEMMA SetFirstSkippedKeeps == ASSUME IInv, SetFirstSkipped PROVE IInv'
  <1> USE DEF IInv
  <1>1. /\ AtLayer /\ NextLayer /\ layers[idx].kind # "cursor" /\ Close({idx, Target})
        /\ Apply(Target) /\ show /\ mode = "composing" /\ idx = first
    BY DEF SetFirstSkipped, Composing, Plain
  <1>2. TargetTurn  BY <1>1 DEF TargetTurn
  <1>3. ~HasSurface(idx)
    <2>1. layers[idx].kind = "skip" /\ idx # Target /\ Prepared(idx)
      BY <1>1, ShownLayerFacts
    <2> QED  BY <2>1 DEF HasSurface, Prepared
  <1>4. \A i \in Indices : Content(Target, i) => idx <= i
    BY <1>1, TargetShows, ShownLayerFacts
  <1> QED  BY <1>1, <1>2, <1>3, <1>4, TargetStep

(* A further layer GLES composed.                                           *)
LEMMA SetInsideSkippedKeeps == ASSUME IInv, SetInsideSkipped PROVE IInv'
  <1> USE DEF IInv
  <1>1. /\ AtLayer /\ NextLayer /\ layers[idx].kind # "cursor" /\ Close({idx}) /\ Skip
        /\ mode = "composing" /\ first # 0 /\ first < idx /\ idx <= last
    BY DEF SetInsideSkipped, InsideSkipped, Composing, Plain
  <1>2. idx # Target /\ Prepared(idx) /\ idx # first /\ first <= idx  BY <1>1, ShownLayerFacts
  <1>3. ~TargetTurn  BY <1>1, <1>2 DEF TargetTurn
  <1>4. ~HasSurface(idx)  BY <1>1, <1>2 DEF HasSurface, Prepared
  <1> QED  BY <1>1, <1>2, <1>3, <1>4, QuietStep DEF LeakedCursor

(* The framebuffer target when nothing was composed by GLES.                *)
LEMMA SetUnusedTargetKeeps == ASSUME IInv, SetUnusedTarget PROVE IInv'
  <1> USE DEF IInv
  <1>1. /\ AtLayer /\ NextLayer /\ layers[idx].kind # "cursor" /\ Skip /\ show
        /\ mode = "composing" /\ idx = Target
        /\ IF first = 0 THEN Close({idx}) ELSE UNCHANGED closed
    BY DEF SetUnusedTarget, Composing, Plain
  <1>2. ~HasSurface(idx)  BY <1>1 DEF HasSurface
  <1>3. idx # 0 /\ (first # 0 => idx > first)  BY <1>1, ShownLayerFacts
  <1>4. idx # first  BY <1>3, <1>1, ShownLayerFacts
  <1>5. ~TargetTurn  BY <1>1, <1>4 DEF TargetTurn
  <1>6. TargetDrawn <=> first # 0  BY <1>1, <1>3 DEF TargetDrawn
  <1> QED  BY <1>1, <1>2, <1>5, <1>6, QuietStep DEF LeakedCursor

(* A layer that is not an overlay.                                          *)
LEMMA SetUnsupportedKeeps == ASSUME IInv, SetUnsupported PROVE IInv'
  <1>1. /\ AtLayer /\ NextLayer /\ layers[idx].kind # "cursor" /\ Skip /\ Close({idx})
        /\ mode = "composing" /\ idx # Target /\ idx # first
        /\ layers[idx].type # "overlay"
    BY DEF SetUnsupported, OwnSurface, Composing, Plain
  <1>2. ~HasSurface(idx)  BY <1>1 DEF HasSurface
  <1>3. ~TargetTurn  BY <1>1 DEF TargetTurn
  <1> QED  BY <1>1, <1>2, <1>3, QuietStep DEF LeakedCursor

(* A layer create_buffer finds no wl_buffer for.                            *)
LEMMA SetNoBufferKeeps == ASSUME IInv, SetNoBuffer PROVE IInv'
  <1> USE DEF IInv
  <1>1. /\ AtLayer /\ NextLayer /\ Skip /\ UNCHANGED closed
        /\ mode = "composing" /\ idx # Target /\ idx # first /\ ~layers[idx].handle
    BY DEF SetNoBuffer, OwnSurface, Composing, Plain
  <1>2. ~HasSurface(idx)  BY <1>1 DEF HasSurface
  <1>3. ~TargetTurn  BY <1>1 DEF TargetTurn
  <1>4. ~layers[idx].fence  BY <1>1, ShownLayerFacts DEF Prepared
  <1> QED  BY <1>1, <1>2, <1>3, <1>4, QuietStep

(* An overlay that goes to a surface.                                       *)
LEMMA SetOverlayKeeps == ASSUME IInv, SetOverlay PROVE IInv'
  <1> USE DEF IInv
  <1>1. /\ AtLayer /\ NextLayer /\ layers[idx].kind # "cursor" /\ Close({idx}) /\ Apply(idx)
        /\ mode = "composing" /\ idx # Target /\ idx # first /\ ~InsideSkipped
        /\ layers[idx].type = "overlay"
    BY DEF SetOverlay, OwnSurface, Composing, Plain
  <1>2. ~TargetTurn  BY <1>1 DEF TargetTurn
  <1>3. ASSUME TargetDrawn, NEW i \in Indices, Content(Target, i)
        PROVE  i < idx
    <2>1. first # 0 /\ idx > first  BY <1>1, <1>3 DEF TargetDrawn
    <2>2. idx > last  BY <1>1, <2>1, ShownLayerFacts DEF InsideSkipped
    <2>3. i <= last  BY <1>1, <1>3, TargetShows, ShownLayerFacts
    <2>4. i \in Nat /\ last \in Nat /\ idx \in Nat  BY <1>1, ShownLayerFacts, SetFacts
    <2> QED  BY <2>2, <2>3, <2>4
  <1> QED  BY <1>1, <1>2, <1>3, OwnStep DEF LeakedCursor

(* The modes without subsurfaces draw the target once, in the place of the  *)
(* first layer GLES composed.                                               *)
LEMMA SetNonComposingKeeps == ASSUME IInv, SetNonComposing PROVE IInv'
  <1> USE DEF IInv
  <1>1. /\ AtLayer /\ NextLayer /\ layers[idx].kind # "cursor" /\ show
        /\ mode = "nonComposing"
    BY DEF SetNonComposing, Plain
  <1>2. ~HasSurface(idx)
    <2>1. idx # Target => layers[idx].type = "framebuffer"  BY <1>1, ShownLayerFacts DEF Prepared
    <2> QED  BY <2>1 DEF HasSurface
  <1>3. CASE idx = DrawTargetAt
    <2>1. Close({idx, Target}) /\ Apply(Target)  BY <1>3 DEF SetNonComposing
    <2>2. TargetTurn  BY <1>1, <1>3 DEF TargetTurn
    <2>3. \A i \in Indices : Content(Target, i) => idx <= i
      BY <1>1, <1>3, TargetShows, ShownLayerFacts
    <2> QED  BY <1>1, <1>2, <2>1, <2>2, <2>3, TargetStep
  <1>4. CASE idx # DrawTargetAt
    <2>1. Close({idx} \ {Target}) /\ Skip  BY <1>4 DEF SetNonComposing
    <2>2. ~TargetTurn  BY <1>1, <1>4 DEF TargetTurn
    <2>3. idx = Target => TargetDrawn
      <3>1. DrawTargetAt \in Indices /\ Indices = 1..Target /\ Target \in Nat
        BY <1>1, ShownLayerFacts, TargetPlace, SetFacts
      <3>2. idx = Target => idx > DrawTargetAt  BY <1>4, <3>1
      <3> QED  BY <1>1, <3>2 DEF TargetDrawn
    <2> QED  BY <1>1, <1>2, <2>1, <2>2, <2>3, QuietStep DEF LeakedCursor
  <1> QED  BY <1>3, <1>4

(* In multi-windows mode, a layer that is no overlay or is skipped.         *)
LEMMA SetMultiUnsupportedKeeps == ASSUME IInv, SetMultiUnsupported PROVE IInv'
  <1> USE DEF IInv
  <1>1. /\ AtLayer /\ NextLayer /\ layers[idx].kind # "cursor" /\ Close({idx}) /\ Skip
        /\ mode = "multi" /\ ~CanHandle
    BY DEF SetMultiUnsupported, Multi, Plain
  <1>2. ~TargetTurn /\ ~TargetDrawn  BY <1>1 DEF TargetTurn, TargetDrawn
  <1>3. ~HasSurface(idx)
    <2>1. idx # Target /\ layers[idx].kind = "skip" => layers[idx].type = "framebuffer"
      BY <1>1, ShownLayerFacts DEF Prepared
    <2> QED  BY <1>1, <2>1 DEF HasSurface, CanHandle
  <1> QED  BY <1>1, <1>2, <1>3, QuietStep DEF LeakedCursor

(* In multi-windows mode, an overlay with a buffer.                         *)
LEMMA SetMultiOverlayKeeps == ASSUME IInv, SetMultiOverlay PROVE IInv'
  <1> USE DEF IInv
  <1>1. /\ AtLayer /\ NextLayer /\ layers[idx].kind # "cursor" /\ Close({idx}) /\ Apply(idx)
        /\ mode = "multi" /\ layers[idx].type = "overlay"
    BY DEF SetMultiOverlay, Multi, Plain, CanHandle
  <1>2. ~TargetTurn /\ ~TargetDrawn  BY <1>1 DEF TargetTurn, TargetDrawn
  <1>3. idx # Target  BY <1>1, ShownLayerFacts
  <1> QED  BY <1>1, <1>2, <1>3, OwnStep DEF LeakedCursor

-----------------------------------------------------------------------------
(* hwc_prepare.                                                             *)

(* The skipped range begins and ends with a skipped layer.                  *)
LEMMA SkippedRange ==
  ASSUME NEW N \in Nat, NEW ls, DOMAIN ls = 1..N
  PROVE  IF SkippedIn(ls) = {} THEN FirstSkipped(ls) = 0 /\ LastSkipped(ls) = 0
         ELSE /\ FirstSkipped(ls) \in SkippedIn(ls) /\ LastSkipped(ls) \in SkippedIn(ls)
              /\ \A i \in SkippedIn(ls) : FirstSkipped(ls) <= i /\ i <= LastSkipped(ls)
  <1> DEFINE S == SkippedIn(ls)
  <1>1. S \in SUBSET (0..N) /\ S \in SUBSET Nat  BY DEF SkippedIn
  <1>2. CASE S = {}  BY <1>2 DEF FirstSkipped, LastSkipped
  <1>3. CASE S # {}
    <2>1. Least(S) \in S /\ \A i \in S : Least(S) <= i  BY <1>1, <1>3, LeastIsIn
    <2>2. Greatest(S) \in S /\ \A i \in S : i <= Greatest(S)  BY <1>1, <1>3, GreatestIsIn
    <2> QED  BY <1>3, <2>1, <2>2 DEF FirstSkipped, LastSkipped
  <1> QED  BY <1>2, <1>3

(* The contents SurfaceFlinger brings: its layers, then the target.         *)
LEMMA ContentsFacts ==
  ASSUME NEW n \in 0..MaxLayers, NEW ls \in [1..n -> Layers], NEW t \in TargetLayers,
         NEW all, all = Append(ls, t)
  PROVE  /\ DOMAIN all = 1..(n + 1) /\ all[n + 1] = t
         /\ \A i \in 1..n : all[i] \in Layers
         /\ n \in Nat /\ n <= MaxLayers
  <1>1. n \in Nat /\ n <= MaxLayers  BY CompositionAssumption
  <1>2. ls \in Seq(Layers) /\ Len(ls) = n  BY <1>1
  <1> QED  BY <1>1, <1>2

(* hwc_prepare: a new frame starts with nothing handled and nothing closed. *)
LEMMA PrepareKeeps == ASSUME PrepareFrame PROVE IInv'
  <1>1. PICK m \in Modes, s \in BOOLEAN, c \in Cursors, n \in 0..MaxLayers, t \in TargetLayers :
          \E ls \in [1..n -> Layers] :
            LET all == Append(ls, t) IN
            /\ m \in {"closed", "multi"} => s
            /\ mode' = m
            /\ show' = s
            /\ cursor' = c
            /\ layers' = [i \in DOMAIN all |->
                            [all[i] EXCEPT !.type = PreparedType(m, all, i)]]
            /\ first' = FirstSkipped(all)
            /\ last' = LastSkipped(all)
            /\ closed' = [i \in DOMAIN all |-> 0]
    BY Zenon DEF PrepareFrame
  <1>2. PICK all :
          \E ls \in [1..n -> Layers] :
            /\ all = Append(ls, t)
            /\ mode' = m /\ show' = s /\ cursor' = c
            /\ layers' = [i \in DOMAIN all |-> [all[i] EXCEPT !.type = PreparedType(m, all, i)]]
            /\ first' = FirstSkipped(all) /\ last' = LastSkipped(all)
            /\ closed' = [i \in DOMAIN all |-> 0]
    BY <1>1
  <1>3. pc' = "set" /\ idx' = 1 /\ drawn' = << >> /\ failed' = {}
    BY DEF PrepareFrame
  <1>4. /\ DOMAIN all = 1..(n + 1) /\ all[n + 1] = t
        /\ \A i \in 1..n : all[i] \in Layers
        /\ n \in Nat /\ n <= MaxLayers
    BY <1>2, ContentsFacts
  <1>5. Indices' = 1..(n + 1) /\ Target' = n + 1  BY <1>2, <1>3, <1>4 DEF Indices, Target
  <1>6. t.kind = "plain" /\ t.type = "target"  BY DEF TargetLayers
  <1>7. IF SkippedIn(all) = {} THEN first' = 0 /\ last' = 0
        ELSE /\ first' \in SkippedIn(all) /\ last' \in SkippedIn(all)
             /\ \A i \in SkippedIn(all) : first' <= i /\ i <= last'
    <2>1. n + 1 \in Nat  BY <1>4
    <2>2. IF SkippedIn(all) = {} THEN FirstSkipped(all) = 0 /\ LastSkipped(all) = 0
          ELSE /\ FirstSkipped(all) \in SkippedIn(all) /\ LastSkipped(all) \in SkippedIn(all)
               /\ \A i \in SkippedIn(all) : FirstSkipped(all) <= i /\ i <= LastSkipped(all)
      BY <1>4, <2>1, SkippedRange
    <2> QED  BY <1>2, <2>2
  <1>8. \A i \in SkippedIn(all) : i \in 1..n
    BY <1>4, <1>6 DEF SkippedIn
  <1>9. first' \in 0..n /\ last' \in 0..n /\ (first' # 0 => first' <= last')
    BY <1>4, <1>7, <1>8
  <1>10. ASSUME NEW i \in 1..(n + 1)
         PROVE  /\ layers'[i] \in LayerTypes
                /\ layers'[i].kind = all[i].kind /\ layers'[i].handle = all[i].handle
                /\ layers'[i].fence = all[i].fence
                /\ layers'[i].type = PreparedType(m, all, i)
    <2>1. all[i] \in LayerTypes
      <3>1. CASE i = n + 1  BY <1>4, <3>1 DEF TargetLayers, LayerTypes, Types
      <3>2. CASE i \in 1..n
        <4>1. all[i] \in Layers  BY <1>4, <3>2
        <4> QED  BY <4>1 DEF Layers, LayerTypes, Types
      <3> QED  BY <1>4, <3>1, <3>2
    <2>2. PreparedType(m, all, i) \in Types
      BY <2>1 DEF PreparedType, ComposingType, LayerTypes, Types
    <2>3. layers'[i] = [all[i] EXCEPT !.type = PreparedType(m, all, i)]  BY <1>2, <1>3, <1>4
    <2> QED  BY <2>1, <2>2, <2>3 DEF LayerTypes
  <1>11. ASSUME NEW i \in 1..n PROVE Prepared(i)'
    <2>1. i \in 1..(n + 1) /\ all[i] \in Layers  BY <1>4
    <2>2. /\ layers'[i].kind = all[i].kind /\ layers'[i].handle = all[i].handle
          /\ layers'[i].fence = all[i].fence
          /\ layers'[i].type = PreparedType(m, all, i)
      BY <2>1, <1>10
    <2>3. all[i].kind = "skip" => i \in SkippedIn(all)  BY <1>4, <2>1 DEF SkippedIn
    <2>4. all[i].kind = "skip" => first' # 0 /\ first' <= i /\ i <= last'
      BY <1>7, <1>8, <2>3
    <2>5. /\ all[i].kind \in {"plain", "skip", "cursor"}
          /\ all[i].type \in {"framebuffer", "overlay", "background"}
          /\ all[i].fence => all[i].handle
          /\ all[i].kind = "skip" => all[i].type = "framebuffer"
      BY <2>1 DEF Layers
    <2>6. PreparedType(m, all, i) # "target"
      BY <2>5 DEF PreparedType, ComposingType
    <2>7. all[i].kind = "skip" => PreparedType(m, all, i) = "framebuffer"
      BY <2>5 DEF PreparedType
    <2>8. all[i].kind = "cursor" => PreparedType(m, all, i) = "overlay"
      BY DEF PreparedType
    <2>9. m = "composing" /\ all[i].kind # "cursor" =>
            (PreparedType(m, all, i) = "framebuffer" <=> first' # 0 /\ first' <= i /\ i <= last')
      BY <1>2, <1>3, <2>4, <2>5 DEF PreparedType, ComposingType
    <2>10. m = "nonComposing" /\ all[i].kind # "cursor" => PreparedType(m, all, i) = "framebuffer"
      BY <2>5 DEF PreparedType
    <2>11. m = "multi" /\ PreparedType(m, all, i) = "framebuffer" => all[i].kind = "skip"
      BY <2>5 DEF PreparedType
    <2> QED
      BY <1>2, <1>3, <2>2, <2>4, <2>5, <2>6, <2>7, <2>8, <2>9, <2>10, <2>11 DEF Prepared
  <1>12. layers'[n + 1].kind = "plain" /\ layers'[n + 1].type = "target"
    <2>1. n + 1 \in 1..(n + 1)  BY <1>4
    <2>2. PreparedType(m, all, n + 1) = "target"  BY <1>4, <1>6 DEF PreparedType
    <2> QED  BY <1>4, <1>6, <1>10, <2>1, <2>2
  <1>13. FrameInv'
    <2>1. layers' \in [1..(n + 1) -> LayerTypes]  BY <1>2, <1>3, <1>4, <1>10
    <2>2. n + 1 \in 1..(MaxLayers + 1) /\ (n + 1) - 1 = n  BY <1>4, CompositionAssumption
    <2>3. first' # 0 => first' < n + 1 /\ last' < n + 1  BY <1>4, <1>9
    <2>4. first' # 0 => layers'[first'].kind = "skip"
      <3>1. first' # 0 => first' \in SkippedIn(all)  BY <1>7
      <3>2. first' # 0 => first' \in 1..(n + 1)  BY <1>4, <1>9
      <3>3. first' # 0 => all[first'].kind = "skip"  BY <3>1 DEF SkippedIn
      <3> QED  BY <1>10, <3>2, <3>3
    <2>5. 1 <= (n + 1) + 1  BY <1>4
    <2> QED  BY <1>2, <1>3, <1>5, <1>9, <1>11, <1>12, <2>1, <2>2, <2>3, <2>4, <2>5 DEF FrameInv
  <1>14. TypeOK'
    <2>1. \A i \in 1..(n + 1) : layers'[i].type \in Types  BY <1>10 DEF LayerTypes
    <2>2. closed' \in [1..(n + 1) -> Nat]  BY <1>2, <1>3, <1>4
    <2>3. first' \in 0..MaxLayers /\ last' \in 0..MaxLayers /\ 1 \in 1..(MaxLayers + 2)
      BY <1>4, <1>9, CompositionAssumption
    <2>4. mode' \in Modes /\ show' \in BOOLEAN /\ cursor' \in Cursors /\ pc' \in {"frame", "set"}
      BY <1>2, <1>3
    <2>5. DOMAIN drawn' = {} /\ failed' \subseteq Indices'  BY <1>3
    <2> QED  BY <1>3, <1>5, <2>1, <2>2, <2>3, <2>4, <2>5 DEF TypeOK
  <1>15. ~TargetDrawn'
    <2> DEFINE S == {i \in 1..(n + 1) : layers'[i].type \in {"framebuffer", "target"}}
    <2>1. S \in SUBSET Nat /\ n + 1 \in S  BY <1>4, <1>12
    <2>2. Least(S) \in 1..(n + 1)  BY <2>1, LeastIsIn
    <2>3. DrawTargetAt' = Least(S)  BY <1>5 DEF DrawTargetAt
    <2>4. ~(1 > DrawTargetAt')  BY <2>2, <2>3
    <2>5. first' # 0 => ~(1 > first')  BY <1>9
    <2> QED  BY <1>2, <1>3, <2>4, <2>5 DEF TargetDrawn
  <1>16. ClosedInv'
    <2>1. \A i \in 1..(n + 1) : ~FenceDone(i)'
      BY <1>2, <1>3, <1>4, <1>5, <1>15 DEF FenceDone
    <2> QED  BY <1>2, <1>3, <1>4, <1>5, <2>1 DEF ClosedInv
  <1>17. DrawnInv'  BY <1>2, <1>3, <1>5, <1>15 DEF DrawnInv
  <1>18. OrderInv'  BY <1>2, <1>3 DEF OrderInv
  <1> QED  BY <1>13, <1>14, <1>16, <1>17, <1>18 DEF IInv

(* Between two frames there is nothing to say.                              *)
LEMMA NoFrameKeeps == ASSUME NoFrame PROVE IInv'
  <1>1. /\ pc' = "frame" /\ mode' = "closed" /\ show' = TRUE /\ cursor' = "shown"
        /\ layers' = << >> /\ first' = 0 /\ last' = 0 /\ idx' = 1 /\ closed' = << >>
        /\ drawn' = << >> /\ failed' = {}
    BY DEF NoFrame
  <1>2. Indices' = {}  BY <1>1 DEF Indices
  <1>3. TypeOK'
    <2>1. << >> \in [{} -> Nat]  OBVIOUS
    <2> QED  BY <1>1, <1>2, <2>1, CompositionAssumption DEF TypeOK, Modes, Cursors
  <1> QED  BY <1>1, <1>3 DEF IInv, FrameInv, ClosedInv, DrawnInv, OrderInv

(* Before the first frame the invariant holds.                              *)
LEMMA InitInv == Init => IInv
  <1> SUFFICES ASSUME Init PROVE IInv  OBVIOUS
  <1>1. Indices = {}  BY DEF Init, Indices
  <1>2. TypeOK
    <2>1. << >> \in [{} -> Nat]  OBVIOUS
    <2> QED  BY <1>1, <2>1, CompositionAssumption DEF Init, TypeOK, Modes, Cursors
  <1> QED  BY <1>2 DEF Init, IInv, FrameInv, ClosedInv, DrawnInv, OrderInv

-----------------------------------------------------------------------------
(* Every behaviour.                                                         *)

(* Every step keeps the invariant.                                          *)
LEMMA Inductive == IInv /\ [Next]_vars => IInv'
  <1> SUFFICES ASSUME IInv, [Next]_vars PROVE IInv'  OBVIOUS
  <1>1. CASE PrepareFrame  BY <1>1, PrepareKeeps
  <1>2. CASE SetCursor  BY <1>2, SetCursorKeeps
  <1>3. CASE SetHidden  BY <1>3, SetHiddenKeeps
  <1>4. CASE SetFirstSkipped  BY <1>4, SetFirstSkippedKeeps
  <1>5. CASE SetInsideSkipped  BY <1>5, SetInsideSkippedKeeps
  <1>6. CASE SetUnusedTarget  BY <1>6, SetUnusedTargetKeeps
  <1>7. CASE SetUnsupported  BY <1>7, SetUnsupportedKeeps
  <1>8. CASE SetNoBuffer  BY <1>8, SetNoBufferKeeps
  <1>9. CASE SetOverlay  BY <1>9, SetOverlayKeeps
  <1>10. CASE SetNonComposing  BY <1>10, SetNonComposingKeeps
  <1>11. CASE SetMultiUnsupported  BY <1>11, SetMultiUnsupportedKeeps
  <1>12. CASE SetMultiOverlay  BY <1>12, SetMultiOverlayKeeps
  <1>13. CASE SetMultiAbort  BY <1>13, NoFrameKeeps DEF SetMultiAbort
  <1>14. CASE EndFrame  BY <1>14, NoFrameKeeps DEF EndFrame
  <1>15. CASE UNCHANGED vars
    <2>1. /\ UNCHANGED <<pc, mode, show, cursor, layers, first, last, idx, closed, drawn, failed>>
          /\ Indices' = Indices /\ Target' = Target /\ DrawTargetAt' = DrawTargetAt
      BY <1>15 DEF vars, Indices, Target, DrawTargetAt
    <2>2. TypeOK'  BY <2>1 DEF IInv, TypeOK
    <2>3. FrameInv'  BY <2>1 DEF IInv, FrameInv, Prepared
    <2>4. TargetDrawn' <=> TargetDrawn  BY <2>1 DEF TargetDrawn
    <2>5. \A i : FenceDone(i)' <=> FenceDone(i)
      BY <2>1, <2>4 DEF FenceDone, LeakedCursor
    <2>6. ClosedInv'  BY <2>1, <2>5 DEF IInv, ClosedInv
    <2>7. DrawnInv'  BY <2>1, <2>4 DEF IInv, DrawnInv, DrawnSet, HasSurface
    <2>8. OrderInv'  BY <2>1 DEF IInv, OrderInv, Content, Shown
    <2> QED  BY <2>2, <2>3, <2>6, <2>7, <2>8 DEF IInv
  <1> QED
    BY <1>1, <1>2, <1>3, <1>4, <1>5, <1>6, <1>7, <1>8, <1>9, <1>10, <1>11, <1>12, <1>13,
       <1>14, <1>15 DEF Next

(* The invariant holds at every step of every frame.                        *)
THEOREM InvariantHolds == Spec => []IInv
  BY InitInv, Inductive, PTL DEF Spec

(* Every variable has its type.                                             *)
THEOREM TypeCorrect == Spec => []TypeOK
  <1>1. IInv => TypeOK  BY DEF IInv
  <1> QED  BY <1>1, InvariantHolds, PTL

(* When hwc_set is done no fence is open, and none was closed twice.        *)
LEMMA OnceIsImplied == IInv => FencesClosedOnce
  <1> SUFFICES ASSUME IInv PROVE FencesClosedOnce  OBVIOUS
  <1> USE DEF IInv
  <1>1. pc \in {"frame", "set"}  BY DEF TypeOK
  <1>2. CASE pc = "frame"
    <2>1. Indices = {}  BY <1>2 DEF FrameInv, Indices
    <2> QED  BY <1>2, <2>1 DEF FencesClosedOnce, SetDone
  <1>3. CASE pc = "set"
    <2>1. \A i \in Indices : closed[i] = IF layers[i].fence /\ FenceDone(i) THEN 1 ELSE 0
      BY <1>3 DEF ClosedInv
    <2>2. ASSUME SetDone, NEW i \in Indices, ~LeakedCursor(i) PROVE FenceDone(i)
      <3>1. idx > Target /\ i \in 1..Target /\ Target \in Nat /\ idx \in Nat
        BY <1>3, <2>2, SetFacts DEF SetDone
      <3>2. i < idx  BY <3>1
      <3> QED  BY <2>2, <3>1, <3>2 DEF FenceDone
    <2> QED  BY <2>1, <2>2 DEF FencesClosedOnce
  <1> QED  BY <1>1, <1>2, <1>3

(* No fence is ever closed twice, and hwc_set closes each of them but the   *)
(* cursor's that no handler takes (compositing_window_mode::handle_layer    *)
(* and its siblings), in frames of any length.                              *)
THEOREM FencesAreClosedOnce == Spec => []FencesClosedOnce
  BY OnceIsImplied, InvariantHolds, PTL

(* When the loop is over, a layer with something to show is in one of the   *)
(* committed buffers, and in no other.                                      *)
LEMMA ShownIsImplied == IInv => EveryLayerShownOnce
  <1> SUFFICES ASSUME IInv, SetDone, NEW i \in ToShow
               PROVE  Cardinality({n \in DOMAIN drawn : i \in Shown(drawn[n])}) = 1
    BY DEF EveryLayerShownOnce
  <1> USE DEF IInv
  <1>1. pc = "set" /\ idx > Target  BY DEF SetDone
  <1>2. /\ Target \in Nat /\ idx \in Nat /\ Indices = 1..Target /\ first \in Nat
        /\ drawn \in Seq(Indices)
    BY <1>1, SetFacts DEF DrawnInv
  <1>3. /\ i \in Indices /\ i # Target /\ show /\ mode # "closed" /\ layers[i].handle
        /\ layers[i].type \in {"overlay", "framebuffer"} /\ layers[i].kind # "cursor"
        /\ mode = "multi" => layers[i].kind # "skip"
        /\ \A f \in failed : i \notin Shown(f)
    BY DEF ToShow
  <1>4. DOMAIN drawn = 1..Len(drawn)  BY <1>2
  <1>5. \E n \in DOMAIN drawn : \A k \in DOMAIN drawn : i \in Shown(drawn[k]) <=> k = n
    <2>1. CASE layers[i].type = "overlay"
      <3>1. HasSurface(i)  BY <1>3, <2>1 DEF HasSurface
      <3>2. i < idx  BY <1>1, <1>2, <1>3
      <3>3. i \in Shown(i)  BY <1>3 DEF Shown
      <3>4. i \in DrawnSet  BY <1>1, <1>3, <3>1, <3>2, <3>3 DEF DrawnInv
      <3>5. PICK n \in DOMAIN drawn : drawn[n] = i  BY <3>4 DEF DrawnSet
      <3>6. ASSUME NEW k \in DOMAIN drawn PROVE i \in Shown(drawn[k]) <=> k = n
        <4>1. i \in Shown(drawn[k]) => drawn[k] = i  BY <2>1 DEF Shown
        <4>2. drawn[k] = i => k = n  BY <1>1, <1>4, <3>5, <3>6 DEF DrawnInv
        <4> QED  BY <3>3, <3>5, <4>1, <4>2
      <3> QED  BY <3>6
    <2>2. CASE layers[i].type = "framebuffer"
      <3>1. i \in Shown(Target)  BY <1>3, <2>2 DEF Shown
      <3>2. TargetDrawn
        <4>1. i \in 1..(Target - 1)  BY <1>2, <1>3
        <4>2. Prepared(i)  BY <1>1, <4>1 DEF FrameInv
        <4>3. mode \in {"composing", "nonComposing"}
          BY <1>3, <2>2, <4>2 DEF Prepared, TypeOK, Modes
        <4>4. CASE mode = "composing"
          <5>1. first # 0  BY <1>3, <2>2, <4>2, <4>4 DEF Prepared
          <5>2. idx > first  BY <1>1, <1>2, <5>1 DEF FrameInv
          <5> QED  BY <1>3, <4>4, <5>1, <5>2 DEF TargetDrawn
        <4>5. CASE mode = "nonComposing"
          <5>1. DrawTargetAt \in 1..Target  BY <1>1, <1>2, TargetPlace
          <5>2. idx > DrawTargetAt  BY <1>1, <1>2, <5>1
          <5> QED  BY <1>3, <4>5, <5>2 DEF TargetDrawn
        <4> QED  BY <4>3, <4>4, <4>5
      <3>3. Target \in DrawnSet  BY <1>1, <1>3, <3>1, <3>2 DEF DrawnInv
      <3>4. PICK n \in DOMAIN drawn : drawn[n] = Target  BY <3>3 DEF DrawnSet
      <3>5. ASSUME NEW k \in DOMAIN drawn PROVE i \in Shown(drawn[k]) <=> k = n
        <4>1. drawn[k] # Target => layers[drawn[k]].type = "overlay"
          BY <1>1, <1>4, <3>5 DEF DrawnInv
        <4>2. i \in Shown(drawn[k]) => drawn[k] = Target  BY <2>2, <4>1 DEF Shown
        <4>3. drawn[k] = Target => k = n  BY <1>1, <1>4, <3>4, <3>5 DEF DrawnInv
        <4> QED  BY <3>1, <3>4, <4>2, <4>3
      <3> QED  BY <3>5
    <2> QED  BY <1>3, <2>1, <2>2
  <1>6. PICK n \in DOMAIN drawn : \A k \in DOMAIN drawn : i \in Shown(drawn[k]) <=> k = n
    BY <1>5
  <1>7. {k \in DOMAIN drawn : i \in Shown(drawn[k])} = {n}  BY <1>6
  <1> QED  BY <1>7, FS_Singleton

(* Whatever the mode and the skipped range, what a layer shows is committed *)
(* once: from a surface of its own or within the target, not both, and not  *)
(* neither.                                                                 *)
THEOREM LayersAreShownOnce == Spec => []EveryLayerShownOnce
  BY ShownIsImplied, InvariantHolds, PTL

(* What is on the surfaces is in the order of the layers.                   *)
LEMMA OrderIsImplied == IInv => ZOrderKept
  <1> SUFFICES ASSUME IInv, NEW m \in DOMAIN drawn, NEW n \in DOMAIN drawn, m < n,
                      NEW i \in Shown(drawn[m]) \cap ToShow,
                      NEW j \in Shown(drawn[n]) \cap ToShow
               PROVE  i < j
    BY DEF ZOrderKept
  <1> USE DEF IInv
  <1>1. drawn[m] \in Indices  BY DEF TypeOK
  <1>2. pc = "set"  BY <1>1 DEF TypeOK, FrameInv, Indices
  <1>3. m \in 1..Len(drawn) /\ n \in 1..Len(drawn)  BY <1>2 DEF DrawnInv
  <1>4. i \in Indices /\ j \in Indices /\ Content(drawn[m], i) /\ Content(drawn[n], j)
    BY DEF ToShow, Content
  <1> QED  BY <1>2, <1>3, <1>4 DEF OrderInv

(* The surfaces are committed from the bottom to the top, although the      *)
(* target goes in the place of the first layer it shows.                    *)
THEOREM SurfacesAreStacked == Spec => []ZOrderKept
  BY OrderIsImplied, InvariantHolds, PTL

-----------------------------------------------------------------------------
(* When SurfaceFlinger hears of a vsync, and when a retire fence signals.   *)

(* What SurfaceFlinger was called with lies in the past, and the point the  *)
(* thread sleeps to after what it computed it at.                           *)
ClockInv ==
  /\ {now, computed, delivered, base, lastVsync, sleepUntil} \subseteq Int
  /\ thread \in {"read", "compute", "sleep", "call"}
  /\ delivered <= now
  /\ VsyncsAdvance

(* The thread is about to call only if the callback was enabled when it     *)
(* last looked, and nothing was late then.                                  *)
LateInv ==
  /\ late \in {0, 1}
  /\ enabled => late = 0
  /\ thread = "call" => late = 0
  /\ enabled \in BOOLEAN
  /\ thread \in {"read", "compute", "sleep", "call"}

-----------------------------------------------------------------------------
(* Division by a positive number rounds down.                               *)
LEMMA Division ==
  ASSUME NEW a \in Int, NEW p \in Int, p > 0
  PROVE  /\ a \div p \in Int
         /\ p * (a \div p) <= a
         /\ a < p * (a \div p) + p
OBVIOUS

(* A multiple of the period leaves no remainder.                            *)
LEMMA Multiple ==
  ASSUME NEW n \in Int, NEW p \in Int, p > 0
  PROVE  (p * n) % p = 0
OBVIOUS

(* Quotient rounds towards zero: for a negative number that is the next     *)
(* multiple above, not below.                                               *)
LEMMA RoundsTowardsZero ==
  ASSUME NEW a \in Int, NEW p \in Int, p > 0
  PROVE  /\ Quotient(a, p) \in Int
         /\ a < p * (Quotient(a, p) + 1)
         /\ p * (Quotient(a, p) + 1) < a + 2 * p
<1>1. CASE a >= 0
  <2>1. Quotient(a, p) = a \div p
    BY <1>1 DEF Quotient
  <2>2. PICK q \in Int : q = a \div p /\ p * q <= a /\ a < p * q + p
    BY Division
  <2>3. p * (q + 1) = p * q + p
    OBVIOUS
  <2>. QED BY <2>1, <2>2, <2>3
<1>2. CASE a < 0
  <2>1. Quotient(a, p) = -((-a) \div p)
    BY <1>2 DEF Quotient
  <2>2. PICK q \in Int : q = (-a) \div p /\ p * q <= -a /\ -a < p * q + p
    BY Division
  <2>3. p * (-q + 1) = p - p * q
    OBVIOUS
  <2>. QED BY <2>1, <2>2, <2>3
<1>. QED BY <1>1, <1>2

(* calculate_time_to_sleep: a point of the grid, in the future, less than   *)
(* two periods away.                                                        *)
LEMMA NextPoint ==
  ASSUME now \in Int, NEW stamp \in Int
  PROVE  /\ TimeToSleep(stamp) \in Int
         /\ now < TimeToSleep(stamp) /\ TimeToSleep(stamp) < now + 2 * Period
         /\ (TimeToSleep(stamp) - stamp) % Period = 0
<1>0. now - stamp \in Int /\ Period \in Int /\ Period > 0
  BY TimingAssumption
<1>1. PICK q \in Int : /\ q = Quotient(now - stamp, Period)
                       /\ now - stamp < Period * (q + 1)
                       /\ Period * (q + 1) < now - stamp + 2 * Period
  BY ONLY <1>0, RoundsTowardsZero
<1>2. PICK n \in Int : n = Period * (q + 1)
  BY TimingAssumption
<1>3. TimeToSleep(stamp) = stamp + n
  BY <1>1, <1>2 DEF TimeToSleep
<1>4. n % Period = 0
  BY <1>2, Multiple, TimingAssumption
<1>5. (stamp + n) - stamp = n
  OBVIOUS
<1>. QED BY <1>1, <1>2, <1>3, <1>4, <1>5, TimingAssumption

-----------------------------------------------------------------------------
(* Every step keeps ClockInv.                                               *)
LEMMA ClockStep ==
  ASSUME ClockInv, [TimingNext]_timingVars
  PROVE  ClockInv'
<1>. USE TimingAssumption DEF ClockInv
<1>1. CASE ReadLastVsync
  BY <1>1 DEF ReadLastVsync, deviceVars, VsyncsAdvance
<1>2. CASE GoToSleep
  <2>1. /\ sleepUntil' = TimeToSleep(base) /\ computed' = now /\ thread' = "sleep"
        /\ UNCHANGED <<now, lastVsync, base, delivered>>
    BY <1>2 DEF GoToSleep, deviceVars
  <2>2. /\ sleepUntil' \in Int
        /\ now < sleepUntil' /\ sleepUntil' < now + 2 * Period
        /\ (sleepUntil' - base) % Period = 0
    BY <2>1, NextPoint
  <2>. QED BY <2>1, <2>2 DEF VsyncsAdvance
<1>3. CASE Awoken
  BY <1>3 DEF Awoken, deviceVars, VsyncsAdvance
<1>4. CASE CallVsync
  BY <1>4 DEF CallVsync, deviceVars, VsyncsAdvance
<1>5. CASE \E stamp \in Stamps : FeedbackPresented(stamp)
  BY <1>5 DEF FeedbackPresented, threadVars, VsyncsAdvance
<1>6. CASE \E on \in BOOLEAN : EventControl(on)
  BY <1>6 DEF EventControl, threadVars, VsyncsAdvance
<1>7. CASE \E p \in {"noVsync", "vsync"} : RegisterProcs(p)
  BY <1>7 DEF RegisterProcs, threadVars, VsyncsAdvance
<1>8. CASE RetireFence
  BY <1>8 DEF RetireFence, deviceVars, threadVars, VsyncsAdvance
<1>9. CASE Tick
  BY <1>9 DEF Tick, deviceVars, threadVars, VsyncsAdvance
<1>10. CASE UNCHANGED timingVars
  BY <1>10 DEF timingVars, deviceVars, threadVars, VsyncsAdvance
<1>. QED BY <1>1, <1>2, <1>3, <1>4, <1>5, <1>6, <1>7, <1>8, <1>9, <1>10 DEF TimingNext

(* Every step keeps LateInv.                                                *)
LEMMA LateStep ==
  ASSUME LateInv, [TimingNext]_timingVars
  PROVE  LateInv'
<1>. USE DEF LateInv
<1>1. CASE ReadLastVsync \/ GoToSleep \/ RetireFence \/ Tick
  BY <1>1 DEF ReadLastVsync, GoToSleep, RetireFence, Tick, deviceVars, threadVars
<1>2. CASE Awoken
  BY <1>2 DEF Awoken, deviceVars
<1>3. CASE CallVsync
  BY <1>3 DEF CallVsync, deviceVars
<1>4. CASE \E stamp \in Stamps : FeedbackPresented(stamp)
  BY <1>4 DEF FeedbackPresented, threadVars
<1>5. CASE \E on \in BOOLEAN : EventControl(on)
  BY <1>5 DEF EventControl, threadVars
<1>6. CASE \E p \in {"noVsync", "vsync"} : RegisterProcs(p)
  BY <1>6 DEF RegisterProcs, threadVars
<1>7. CASE UNCHANGED timingVars
  BY <1>7 DEF timingVars, deviceVars, threadVars
<1>. QED BY <1>1, <1>2, <1>3, <1>4, <1>5, <1>6, <1>7 DEF TimingNext

-----------------------------------------------------------------------------
(* Whatever the period and the compositor's stamps: the vsync thread sleeps *)
(* to a point of the grid it read, less than two periods away, and          *)
(* SurfaceFlinger is called with times that have come and only grow.        *)
THEOREM VsyncsComeInOrder == TimingSpec => []VsyncsAdvance
<1>1. TimingInit => ClockInv
  BY DEF TimingInit, ClockInv, VsyncsAdvance
<1>2. ClockInv /\ [TimingNext]_timingVars => ClockInv'
  BY ClockStep
<1>3. ClockInv => VsyncsAdvance
  BY DEF ClockInv
<1>. QED BY <1>1, <1>2, <1>3, PTL DEF TimingSpec

(* One vsync more at most comes after the callback was disabled.            *)
THEOREM AtMostOneLate == TimingSpec => []OneLateVsync
<1>1. TimingInit => LateInv
  BY DEF TimingInit, LateInv
<1>2. LateInv /\ [TimingNext]_timingVars => LateInv'
  BY LateStep
<1>3. LateInv => OneLateVsync
  BY DEF LateInv, OneLateVsync
<1>. QED BY <1>1, <1>2, <1>3, PTL DEF TimingSpec

-----------------------------------------------------------------------------
(* Sync points that wrap around.                                            *)

(* A sync point's number is below SyncPoints.                               *)
LEMMA WrapSmall ==
  ASSUME NEW n \in Nat, n < SyncPoints
  PROVE  n % SyncPoints = n
<1>. PICK M \in Nat : M = SyncPoints /\ M >= 4
  BY TimingAssumption
<1>. QED OBVIOUS

(* The sync point after the last one is the first.                          *)
LEMMA WrapOver ==
  ASSUME NEW n \in Nat, n < SyncPoints
  PROVE  (SyncPoints + n) % SyncPoints = n
<1>. PICK M \in Nat : M = SyncPoints /\ M >= 4
  BY TimingAssumption
<1>. QED OBVIOUS

(* The next sync point is the number after, or 0 after the last.            *)
LEMMA WrapNext ==
  ASSUME NEW n \in 0..(SyncPoints - 1)
  PROVE  Wrap(n + 1) = IF n + 1 = SyncPoints THEN 0 ELSE n + 1
<1>1. CASE n + 1 = SyncPoints
  <2>1. (SyncPoints + 0) % SyncPoints = 0
    BY WrapOver, TimingAssumption
  <2>. QED BY <1>1, <2>1, TimingAssumption DEF Wrap
<1>2. CASE n + 1 # SyncPoints
  BY <1>2, WrapSmall, TimingAssumption DEF Wrap
<1>. QED BY <1>1, <1>2

(* The timeline has reached where it is and not the point after.            *)
LEMMA ReachedHere ==
  ASSUME NEW n \in 0..(SyncPoints - 1)
  PROVE  Reached(n, n) /\ ~Reached(Wrap(n + 1), n)
<1>1. (n - n + SyncPoints) % SyncPoints = 0
  <2>1. n - n + SyncPoints = SyncPoints + 0
    BY TimingAssumption
  <2>. QED BY <2>1, WrapOver, TimingAssumption
<1>2. (Wrap(n + 1) - n + SyncPoints) % SyncPoints = 1
  <2>1. CASE n + 1 = SyncPoints
    <3>1. Wrap(n + 1) - n + SyncPoints = 1
      BY <2>1, WrapNext, TimingAssumption
    <3>. QED BY <3>1, WrapSmall, TimingAssumption
  <2>2. CASE n + 1 # SyncPoints
    <3>1. Wrap(n + 1) - n + SyncPoints = SyncPoints + 1
      BY <2>2, WrapNext, TimingAssumption
    <3>. QED BY <3>1, WrapOver, TimingAssumption
  <2>. QED BY <2>1, <2>2
<1>3. 1 \in 1..(SyncPoints \div 2 - 1) /\ 0 \notin 1..(SyncPoints \div 2 - 1)
  BY TimingAssumption
<1>. QED BY <1>1, <1>2, <1>3 DEF Reached

(* The next sync point is the one after the timeline, and its fence is the  *)
(* only one to wait.                                                        *)
FenceInv ==
  /\ timeline \in 0..(SyncPoints - 1)
  /\ nextSyncPoint = Wrap(timeline + 1)
  /\ OnlyLastFencePending

(* A set keeps FenceInv, and nothing else touches what it is about.         *)
LEMMA FenceStep ==
  ASSUME FenceInv, [TimingNext]_timingVars
  PROVE  FenceInv'
<1>1. CASE RetireFence
  <2>1. timeline' = nextSyncPoint /\ nextSyncPoint' = Wrap(timeline' + 1)
    BY <1>1 DEF RetireFence, FenceInv
  <2>2. timeline' \in 0..(SyncPoints - 1)
    BY <2>1, WrapNext, TimingAssumption DEF FenceInv
  <2>3. Reached(nextSyncPoint, timeline') /\ ~Reached(nextSyncPoint', timeline')
    BY <2>1, <2>2, ReachedHere
  <2>4. pending \subseteq {nextSyncPoint}
    BY DEF FenceInv, OnlyLastFencePending
  <2>5. pending' = {p \in pending \cup {nextSyncPoint'} : ~Reached(p, timeline')}
    BY <1>1 DEF RetireFence
  <2>6. pending' = {nextSyncPoint'}
    BY <2>3, <2>4, <2>5
  <2>. QED BY <2>1, <2>2, <2>6 DEF FenceInv, OnlyLastFencePending
<1>2. CASE UNCHANGED fenceVars
  BY <1>2 DEF fenceVars, FenceInv, OnlyLastFencePending
<1>3. CASE TimingNext /\ ~RetireFence
  <2>1. UNCHANGED fenceVars
    BY <1>3 DEF TimingNext, ReadLastVsync, GoToSleep, Awoken, CallVsync, FeedbackPresented,
                EventControl, RegisterProcs, Tick
  <2>. QED BY <1>2, <2>1
<1>4. CASE UNCHANGED timingVars
  BY <1>2, <1>4 DEF timingVars
<1>. QED BY <1>1, <1>3, <1>4

(* However often the counters wrap around, when hwc_set has returned its    *)
(* own retire fence waits for the next frame and every earlier one has      *)
(* signalled.                                                               *)
THEOREM RetireFencesLagOneFrame == TimingSpec => []OnlyLastFencePending
<1>1. TimingInit => FenceInv
  BY WrapNext, TimingAssumption DEF TimingInit, FenceInv, OnlyLastFencePending
<1>2. FenceInv /\ [TimingNext]_timingVars => FenceInv'
  BY FenceStep
<1>3. FenceInv => OnlyLastFencePending
  BY DEF FenceInv
<1>. QED BY <1>1, <1>2, <1>3, PTL DEF TimingSpec

-----------------------------------------------------------------------------
(* The types need both invariants: the thread calls SurfaceFlinger with a   *)
(* time within 0..MaxTime since it lies behind the one it was computed at   *)
(* and has come, and the fences are those of sync points.                   *)
TimingInv == TimingTypeOK /\ ClockInv /\ FenceInv

(* Every step keeps the types.                                              *)
LEMMA TimingTypesStep ==
  ASSUME TimingInv, [TimingNext]_timingVars
  PROVE  TimingTypeOK'
<1>. USE TimingAssumption DEF TimingInv, TimingTypeOK
<1>1. CASE ReadLastVsync
  BY <1>1 DEF ReadLastVsync, deviceVars, fenceVars
<1>2. CASE GoToSleep
  <2>1. base \in Int /\ now \in Int
    BY DEF ClockInv
  <2>2. TimeToSleep(base) \in Int
    BY <2>1, NextPoint
  <2>. QED BY <1>2, <2>2 DEF GoToSleep, deviceVars, fenceVars
<1>3. CASE Awoken
  BY <1>3 DEF Awoken, deviceVars, fenceVars
<1>4. CASE CallVsync
  <2>1. computed < sleepUntil /\ sleepUntil <= now
    BY <1>4 DEF CallVsync, ClockInv, VsyncsAdvance
  <2>2. sleepUntil \in 0..MaxTime
    BY <2>1
  <2>. QED BY <1>4, <2>2 DEF CallVsync, deviceVars, fenceVars
<1>5. CASE \E stamp \in Stamps : FeedbackPresented(stamp)
  BY <1>5 DEF FeedbackPresented, threadVars, fenceVars
<1>6. CASE \E on \in BOOLEAN : EventControl(on)
  BY <1>6 DEF EventControl, threadVars, fenceVars
<1>7. CASE \E p \in {"noVsync", "vsync"} : RegisterProcs(p)
  BY <1>7 DEF RegisterProcs, threadVars, fenceVars
<1>8. CASE RetireFence
  <2>1. timeline' \in 0..(SyncPoints - 1) /\ nextSyncPoint' \in 0..(SyncPoints - 1)
    BY <1>8, WrapNext DEF RetireFence
  <2>2. pending' \subseteq pending \cup {nextSyncPoint'}
    BY <1>8 DEF RetireFence
  <2>. QED BY <1>8, <2>1, <2>2 DEF RetireFence, deviceVars, threadVars
<1>9. CASE Tick
  BY <1>9 DEF Tick, deviceVars, threadVars, fenceVars
<1>10. CASE UNCHANGED timingVars
  BY <1>10 DEF timingVars, deviceVars, threadVars, fenceVars
<1>. QED BY <1>1, <1>2, <1>3, <1>4, <1>5, <1>6, <1>7, <1>8, <1>9, <1>10 DEF TimingNext

(* The invariant holds at the start.                                        *)
LEMMA TimingInitInv == TimingInit => TimingInv
<1>1. TimingInit => FenceInv
  BY WrapNext, TimingAssumption DEF TimingInit, FenceInv, OnlyLastFencePending
<1>. QED
  BY <1>1, TimingAssumption DEF TimingInit, TimingInv, TimingTypeOK, ClockInv, VsyncsAdvance

(* Every step keeps it.                                                     *)
LEMMA TimingStepInv == TimingInv /\ [TimingNext]_timingVars => TimingInv'
BY TimingTypesStep, ClockStep, FenceStep DEF TimingInv

(* Every variable of FrameTiming keeps its type: the times are ticks, and   *)
(* the sync points are numbers of SyncPoints values.                        *)
THEOREM TimingTypes == TimingSpec => []TimingTypeOK
<1>1. TimingInv => TimingTypeOK
  BY DEF TimingInv
<1>. QED BY <1>1, TimingInitInv, TimingStepInv, PTL DEF TimingSpec

-----------------------------------------------------------------------------
(* What is checked together: each behaviour of MCFrames is one of one of    *)
(* the three specifications, and the invariants of all three hold in it.    *)
FramesInv == IInv /\ SurfacesInv /\ TimingInv

(* Every step is a step of one part and leaves the others alone.            *)
LEMMA FramesStepInv == FramesInv /\ [MCNext]_<<vars, surfacesVars, timingVars, part>> => FramesInv'
<1>1. [MCNext]_<<vars, surfacesVars, timingVars, part>>
        => [Next]_vars /\ [SurfacesNext]_surfacesVars /\ [TimingNext]_timingVars
  BY DEF MCNext
<1>. QED BY <1>1, Inductive, SurfacesStepInv, TimingStepInv DEF FramesInv

(* Every variable of FrameComposition, WindowSurfaces and FrameTiming has   *)
(* its type, whichever of the three takes the steps.                        *)
THEOREM FramesTypes == MCSpec => []FramesTypeOK
<1>1. MCInit => FramesInv
  BY InitInv, SurfacesInitInv, TimingInitInv DEF MCInit, FramesInv
<1>2. FramesInv => FramesTypeOK
  BY SurfacesInvImplies DEF FramesInv, IInv, TimingInv, FramesTypeOK
<1>. QED BY <1>1, <1>2, FramesStepInv, PTL DEF MCSpec
=============================================================================

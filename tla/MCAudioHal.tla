----------------------------- MODULE MCAudioHal -----------------------------
(* Model values for AudioHal.                                               *)
EXTENDS AudioHal

CONSTANTS o1, o2, i1, a, b

TwoOuts    == {o1, o2}
OneIn      == {i1}
TwoThreads == {a, b}
=============================================================================

-------------------------- MODULE MCGrallocBuffers --------------------------
(* Model values for GrallocBuffers.                                         *)
EXTENDS GrallocBuffers, TLC

CONSTANTS h1, h2

TwoHandles == {h1, h2}
OneHandle  == {h1}
(* Handle addresses are not told apart.                                     *)
AnyHandle  == Permutations(TwoHandles)
=============================================================================

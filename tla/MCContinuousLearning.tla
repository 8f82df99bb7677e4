------------------------ MODULE MCContinuousLearning ------------------------
(* Instances of ContinuousLearning for TLC: messages and cycles are model  *)
(* values.                                                                 *)
EXTENDS ContinuousLearning

CONSTANTS m1, m2, m3, k1, k2
=============================================================================

--------------------------- MODULE MCTrainingData ---------------------------
(* Instances of TrainingData for TLC: exchanges and sessions are model values. *)
EXTENDS TrainingData, TLC

CONSTANTS e1, e2, e3, e4, s1, s2

Symmetry == Permutations(Exchanges) \cup Permutations(Sessions)
=============================================================================

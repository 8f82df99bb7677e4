------------------------ MODULE MCAdapterDeployment -------------------------
(* Instances of AdapterDeployment for TLC: tasks and names are model values. *)
EXTENDS AdapterDeployment, TLC

CONSTANTS l1, l2, q1, a, b, c, d, e, base

Symmetry == Permutations(Names) \cup Permutations(Learners)
=============================================================================

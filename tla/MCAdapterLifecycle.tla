------------------------- MODULE MCAdapterLifecycle -------------------------
(* Instances of AdapterLifecycle for TLC: tasks and adapters are model values. *)
EXTENDS AdapterLifecycle, TLC

CONSTANTS o1, o2, sup, a, b, c, d, e, base

\* Adapters, and tasks, are interchangeable; used by the safety run only.
Symmetry == Permutations(Names) \cup Permutations(Ops)
=============================================================================

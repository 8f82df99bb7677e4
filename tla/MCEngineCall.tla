---------------------------- MODULE MCEngineCall ----------------------------
(* Instances of EngineCall for TLC: the tasks are model values. *)
EXTENDS EngineCall

CONSTANTS t1, t2, t3, t4
=============================================================================

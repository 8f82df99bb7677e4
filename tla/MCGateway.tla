------------------------------ MODULE MCGateway ------------------------------
(* Instances of Gateway for TLC: clients and keys are model values. *)
EXTENDS Gateway

CONSTANTS c1, c2, w1, k1, k2
=============================================================================

---------------------------- MODULE MCAgentGraph ----------------------------
(* Instances of AgentGraph and ChatWire for TLC: tool-call ids are model values. *)
EXTENDS ChatWire

CONSTANTS c1, c2
=============================================================================

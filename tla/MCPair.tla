------------------------------- MODULE MCPair -------------------------------
(* Instances of Pair for TLC. *)
EXTENDS Pair

CONSTANTS cloud, lan, i1, i2
=============================================================================

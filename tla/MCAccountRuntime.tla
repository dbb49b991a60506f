--------------------------- MODULE MCAccountRuntime ---------------------------
(* Instances of AccountRuntime for TLC. *)
EXTENDS AccountRuntime

TwoRuntimes == 1..2
=============================================================================

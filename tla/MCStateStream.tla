--------------------------- MODULE MCStateStream ----------------------------
(* Instances of StateStream for TLC. *)
EXTENDS StateStream

CONSTANTS draft, inbox, search
=============================================================================

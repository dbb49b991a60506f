----------------------------- MODULE MCUndoHold -----------------------------
(* Instances of UndoHold for TLC. *)
EXTENDS UndoHold

CONSTANTS c1, c2, held

OneOfEach == [c \in {c1, c2} |-> IF c = c1 THEN "desktop" ELSE "tui"]
=============================================================================

---------------------------- MODULE MCPendingOps ----------------------------
(* Instances of PendingOps for TLC. *)
EXTENDS PendingOps

CONSTANTS t1, a, b

(* One row, which holds the mail a at first. *)
RowOfA == [t \in {t1} |-> a]

TwoIds   == 1..2
ThreeIds == 1..3
FourIds  == 1..4
=============================================================================

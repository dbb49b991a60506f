-------------------------------- MODULE MCSync --------------------------------
(* Instances of Sync for TLC. *)
EXTENDS Sync

CONSTANTS inbox, archive, m1, m2

TwoBoxes == <<inbox, archive>>

Of(local, foreign, faults, resets) ==
    [local |-> local, foreign |-> foreign, faults |-> faults, resets |-> resets]

(* Each behaviour has the budget of one of these. *)
Mixed == {Of(2, 0, 1, 0), Of(0, 2, 1, 0), Of(1, 1, 0, 1)}
=============================================================================

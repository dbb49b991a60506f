------------------------------ MODULE MCOutbox ------------------------------
(* Instances of Outbox for TLC. *)
EXTENDS OutboxRefinement

CONSTANT d1

(* Every send is of one draft, or of none. *)
SameDraft == [s \in Sends |-> d1]
Invites   == [s \in Sends |-> None]

OneRow  == 1..1
TwoRows == 1..2
=============================================================================

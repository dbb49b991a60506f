----------------------------- MODULE DurableSend ------------------------------
(***************************************************************************)
(* What the outbox promises of the messages of an account, whatever happens *)
(* to the daemon, its connections and its store (src/outbox.rs, "Exactly     *)
(* once"): one row of the ledger per message, a recipient reached at most     *)
(* once, a draft on its way as one message at a time, and one copy in Sent.   *)
(*                                                                          *)
(* Nothing here says how: no marker, no locks, no attempts, no memory.        *)
(***************************************************************************)
EXTENDS Naturals

CONSTANTS Messages, Recipients, DraftOf, None

VARIABLES
    stage,   \* what the ledger says of each message
    copies,  \* how often each recipient got each message
    filed    \* how many copies of each message the Sent mailbox holds

vars == <<stage, copies, filed>>

Stages == {"new", "open", "sent", "done", "parked", "gone"}

Underway == {"open", "sent"}

Reached(m) == {r \in Recipients : copies[m][r] > 0}

Init ==
    /\ stage = [m \in Messages |-> "new"]
    /\ copies = [m \in Messages |-> [r \in Recipients |-> 0]]
    /\ filed = [m \in Messages |-> 0]

(* A message is accepted once, and never beside another of its draft. *)
Accept(m) ==
    /\ stage[m] = "new"
    /\ \A n \in Messages : DraftOf[m] # None /\ DraftOf[n] = DraftOf[m] => stage[n] \notin Underway
    /\ stage' = [stage EXCEPT ![m] = "open"]
    /\ UNCHANGED <<copies, filed>>

(* Sends that are turned away, or die with the daemon, never were messages. *)
TurnAway(M) ==
    /\ \A m \in M : stage[m] = "new"
    /\ stage' = [m \in Messages |-> IF m \in M THEN "gone" ELSE stage[m]]
    /\ UNCHANGED <<copies, filed>>

Deliver(m, r) ==
    /\ stage[m] = "open" /\ copies[m][r] = 0
    /\ copies' = [copies EXCEPT ![m][r] = @ + 1]
    /\ UNCHANGED <<stage, filed>>

(* A message is sent when somebody has it. *)
Sent(m) ==
    /\ stage[m] = "open" /\ Reached(m) # {}
    /\ \E s \in {"sent", "done"} : stage' = [stage EXCEPT ![m] = s]
    /\ UNCHANGED <<copies, filed>>

File(m) ==
    /\ stage[m] = "sent" /\ filed[m] = 0
    /\ filed' = [filed EXCEPT ![m] = 1]
    /\ UNCHANGED <<stage, copies>>

Done(m) ==
    /\ stage[m] = "sent" /\ filed[m] = 1
    /\ stage' = [stage EXCEPT ![m] = "done"]
    /\ UNCHANGED <<copies, filed>>

(* Messages nobody can vouch for are left to the operator ... *)
Park(M) ==
    /\ \A m \in M : stage[m] = "open"
    /\ stage' = [m \in Messages |-> IF m \in M THEN "parked" ELSE stage[m]]
    /\ UNCHANGED <<copies, filed>>

(* ... who may strike them out. *)
Discard(m) ==
    /\ stage[m] = "parked"
    /\ stage' = [stage EXCEPT ![m] = "gone"]
    /\ UNCHANGED <<copies, filed>>

Next ==
    \/ \E m \in Messages :
          \/ Accept(m) \/ Sent(m) \/ File(m) \/ Done(m) \/ Discard(m)
          \/ \E r \in Recipients : Deliver(m, r)
    \/ \E M \in SUBSET Messages : TurnAway(M) \/ Park(M)

Spec == Init /\ [][Next]_vars
=============================================================================

--------------------------- MODULE OutboxRefinement ---------------------------
(* Outbox implements DurableSend: the ledger is the outbox table, and a       *)
(* message without a row is still to be accepted or will never be one.         *)
EXTENDS Outbox

RowsOf(m) == {i \in Present : rows[i].msg = m}

StageOf(row) ==
    CASE row.state = "pending_send" -> "open"
      [] row.state = "sent_pending_append" -> "sent"
      [] row.state = "done" -> "done"
      [] row.state = "failed" -> "parked"

Stage == [m \in Sends |->
    IF RowsOf(m) # {} THEN StageOf(rows[Newest(RowsOf(m))])
    ELSE IF pc[m] \in {"idle", "claim", "enqueue"} THEN "new" ELSE "gone"]

Ledger == INSTANCE DurableSend WITH Messages <- Sends, stage <- Stage, filed <- sentBox

(* KeepsItsPromise: every step of the sends, resumes, drains, crashes and      *)
(* discards (outbox.rs, send.rs) is a step of DurableSend or invisible to it:  *)
(* a recipient is reached only while the message's row is pending and only      *)
(* once, a row says sent only when somebody has the message and done only       *)
(* when its copy is filed, and a draft has one message underway.                *)
KeepsItsPromise == Ledger!Spec
=============================================================================

-------------------------- MODULE OutboxPromiseProofs --------------------------
(***************************************************************************)
(* What the outbox promises while whoever sends or resumes holds the turn,   *)
(* for every number of sends, resumes, drafts, recipients and rows: a draft  *)
(* reaches people as one message, and the table, the recipients and the Sent *)
(* mailbox behave as the ledger of DurableSend does.                         *)
(***************************************************************************)
EXTENDS OutboxProofs, OutboxRefinement

-----------------------------------------------------------------------------
(* A draft is one message.                                                   *)

Reached(m) == \E r \in Recipients : copies[m][r] > 0

(* An approved draft names no message, in its file or as a send read it.     *)
Approved ==
    \A d \in Drafts \ released :
        /\ file[d].status = "approved" => file[d].sentAs = None
        /\ \A s \in Sends : DraftOf[s] = d /\ pc[s] \in {"claim", "enqueue"} => cur[s].sentAs = None

NewestOf(d, i) == i \in RowsOfDraft(d) /\ \A j \in RowsOfDraft(d) : j <= i

(* A row with something owed is its draft's newest, ...                      *)
OpenIsNewest == \A d \in Drafts \ released : \A i \in ActiveRows(d) : NewestOf(d, i)

(* ... so is the row of a message somebody has, marked when it was parked, ...*)
ReachedIsNewest ==
    \A m \in Sends : Reached(m) /\ DraftOf[m] \notin released \cup {None} =>
        \E i \in Present : /\ rows[i].msg = m /\ NewestOf(DraftOf[m], i)
                           /\ rows[i].state = "failed" => rows[i].marker

(* ... and a send past refuse_a_finished_draft finds it open.                *)
Refuses ==
    \A s \in Sends : pc[s] = "enqueue" /\ DraftOf[s] \notin released \cup {None} =>
        \A m \in Sends : DraftOf[m] = DraftOf[s] /\ Reached(m) => ActiveRows(DraftOf[s]) # {}

DraftInv == Approved /\ OpenIsNewest /\ ReachedIsNewest /\ Refuses

(* A step that adds no row, reaches nobody new and starts no send.           *)
Calm ==
    /\ released \subseteq released'
    /\ \A d \in Drafts \ released' : file'[d].status = "approved" => file'[d] = file[d]
    /\ \A s \in Sends : pc'[s] \in {"claim", "enqueue"} => pc'[s] = pc[s] /\ cur'[s] = cur[s]
    /\ \A m \in Sends : Reached(m)' => Reached(m)
    /\ \A i \in Present' :
          /\ i \in Present /\ rows'[i].msg = rows[i].msg
          /\ rows'[i].state \in Open => rows[i].state \in Open
          /\ rows'[i].state = "failed" =>
                rows'[i].marker \/ rows'[i] = rows[i] \/ ~Reached(rows[i].msg)
    /\ \A i \in Present \ Present' : DraftOf[rows[i].msg] \in released' \cup {None}
    /\ (\E s \in Sends : pc'[s] = "enqueue") =>
          \A i \in Present : rows[i].state \in Open => i \in Present' /\ rows'[i].state \in Open

LEMMA CalmKeeps ==
    ASSUME DraftInv, Calm
    PROVE  DraftInv'
<1>1. ASSUME NEW d \in Drafts, d \notin released'
      PROVE  /\ RowsOfDraft(d)' = RowsOfDraft(d) /\ d # None /\ d \notin released
             /\ \A i : NewestOf(d, i)' <=> NewestOf(d, i)
  <2>1. d # None /\ d \notin released
    BY <1>1, DraftOfAssumption DEF Calm
  <2>2. RowsOfDraft(d)' = RowsOfDraft(d)
    BY <1>1, <2>1 DEF Calm, RowsOfDraft
  <2> QED
    BY <2>1, <2>2 DEF NewestOf
<1>2. Approved'
  BY DEF DraftInv, Approved, Calm
<1>3. ASSUME NEW d \in Drafts, d \notin released', NEW i \in ActiveRows(d)'
      PROVE  NewestOf(d, i)'
  <2>1. i \in Present' /\ rows'[i].state \in Open /\ i \in RowsOfDraft(d)'
    BY <1>3 DEF ActiveRows, InState
  <2>2. i \in RowsOfDraft(d) /\ rows[i].state \in Open
    BY <1>1, <1>3, <2>1 DEF Calm
  <2>3. NewestOf(d, i)
    BY <1>1, <1>3, <2>2 DEF DraftInv, OpenIsNewest, ActiveRows, InState, RowsOfDraft
  <2> QED
    BY <1>1, <1>3, <2>3
<1>4. ASSUME NEW m \in Sends, Reached(m)', DraftOf[m] \notin released' \cup {None}
      PROVE  \E i \in Present' : /\ rows'[i].msg = m /\ NewestOf(DraftOf[m], i)'
                                 /\ rows'[i].state = "failed" => rows'[i].marker
  <2>1. Reached(m) /\ DraftOf[m] \in Drafts
    BY <1>4, DraftOfAssumption DEF Calm
  <2>2. PICK i \in Present : /\ rows[i].msg = m /\ NewestOf(DraftOf[m], i)
                             /\ rows[i].state = "failed" => rows[i].marker
    BY <1>1, <1>4, <2>1 DEF DraftInv, ReachedIsNewest
  <2>3. i \in Present'
    BY <1>4, <2>2 DEF Calm
  <2>4. NewestOf(DraftOf[m], i)'
    BY <1>1, <1>4, <2>1, <2>2
  <2>5. rows'[i].msg = m /\ (rows'[i].state = "failed" => rows'[i].marker)
    BY <2>1, <2>2, <2>3 DEF Calm
  <2> QED
    BY <2>3, <2>4, <2>5
<1>5. ASSUME NEW s \in Sends, pc'[s] = "enqueue", DraftOf[s] \notin released' \cup {None},
             NEW m \in Sends, DraftOf[m] = DraftOf[s], Reached(m)'
      PROVE  ActiveRows(DraftOf[s])' # {}
  <2>1. pc[s] = "enqueue" /\ Reached(m) /\ DraftOf[s] \notin released \cup {None}
    BY <1>5 DEF Calm
  <2>2. PICK i : i \in ActiveRows(DraftOf[s])
    BY <1>5, <2>1 DEF DraftInv, Refuses
  <2>3. i \in Present' /\ rows'[i].state \in Open /\ rows'[i].msg = rows[i].msg
    BY <1>5, <2>2 DEF Calm, ActiveRows, InState
  <2> QED
    BY <2>2, <2>3 DEF ActiveRows, RowsOfDraft, InState
<1>6. OpenIsNewest'
  BY <1>3 DEF OpenIsNewest
<1>7. ReachedIsNewest'
  BY <1>4 DEF ReachedIsNewest
<1>8. Refuses'
  BY <1>5 DEF Refuses
<1> QED
  BY <1>2, <1>6, <1>7, <1>8 DEF DraftInv

(* While somebody else is at work no send is about to commit a row.          *)
LEMMA NoneStarting ==
    ASSUME TurnInv, TypeOK, NEW a \in Actors, ~Resting(a), NEW l, l \notin {"claim", "enqueue"},
           pc' = [pc EXCEPT ![a] = l] \/ (pc' = pc /\ pc[a] = l)
    PROVE  \A s \in Sends : pc'[s] \notin {"claim", "enqueue"}
<1>1. turn = a
  BY AtWork
<1>2. \A b \in Actors \ {a} : pc'[b] \in {"idle", "ended"}
  BY <1>1, OthersRest DEF Resting, TypeOK
<1>3. pc'[a] = l
  BY DEF TypeOK
<1> QED
  BY <1>2, <1>3, ActorKinds

(* A row rewritten by a step of somebody at work.                            *)
LEMMA RowCalm ==
    ASSUME TypeOK, NEW i \in Present, NEW r \in Row, r.msg = rows[i].msg,
           rows' = [rows EXCEPT ![i] = r], UNCHANGED <<copies, released, file>>,
           \A s \in Sends : pc'[s] \notin {"claim", "enqueue"},
           rows[i].state \in Open,
           r.state = "failed" => r.marker \/ ~Reached(r.msg)
    PROVE  Calm
<1>1. /\ rows'[i] = r /\ Present' = Present
      /\ \A j \in Present : j # i => rows'[j] = rows[j]
  BY NoneAssumption DEF TypeOK, Present
<1>2. \A m \in Sends : Reached(m)' => Reached(m)
  BY DEF Reached
<1> QED
  BY <1>1, <1>2 DEF Calm

(* A step of somebody at work that leaves the rows alone.                    *)
LEMMA SameCalm ==
    ASSUME UNCHANGED <<rows, copies, released>>,
           \A d \in Drafts : file'[d].status = "approved" => file'[d] = file[d],
           \A s \in Sends : pc'[s] \notin {"claim", "enqueue"} \/ (pc'[s] = pc[s] /\ cur'[s] = cur[s])
    PROVE  Calm
<1>1. \A m \in Sends : Reached(m)' => Reached(m)
  BY DEF Reached
<1> QED
  BY <1>1 DEF Calm, Present

LEMMA SubmitDraft ==
    ASSUME TurnInv, Filing, DraftInv, NEW a \in Actors,
           Mark(a) \/ FailClean(a) \/ Record(a) \/ Transition(a) \/ Ingest(a) \/ Complete(a)
    PROVE  DraftInv'
<1>0. TypeOK
  BY DEF Filing
<1>1. ~Resting(a) /\ turn = a
  BY AtWork DEF Mark, FailClean, Record, Transition, Ingest, Complete, Resting
<1>2. UNCHANGED <<copies, released, file>>
  BY DEF Mark, FailClean, Record, Transition, Ingest, Complete, world, history
<1>3. \A s \in Sends : pc'[s] \notin {"claim", "enqueue"}
  <2>1. PICK l \in {"smtp", "ended", "retire", "transition", "settle", "ingest", "complete", "drain"} :
            pc' = [pc EXCEPT ![a] = l]
    BY DEF Mark, FailClean, Record, Transition, Ingest, Complete, SubmitFailed, Submitted,
       Ended, Goto
  <2> QED
    BY <1>0, <1>1, <2>1, NoneStarting
<1>4. CASE Mark(a) \/ FailClean(a) \/ Record(a)
  <2>1. PICK i \in Present, r \in Row :
              /\ rows' = [rows EXCEPT ![i] = r] /\ r.msg = rows[i].msg
              /\ rows[i].state = "pending_send" /\ r.state = "pending_send"
    BY <1>4, PendingRow
  <2> QED
    BY <1>0, <1>2, <1>3, <2>1, RowCalm, CalmKeeps DEF Open
<1>5. CASE Transition(a)
  <2>1. CASE rows' = rows
    BY <1>2, <1>3, <2>1, SameCalm, CalmKeeps
  <2>2. CASE rows' # rows
    <3>1. PICK i \in Present, r \in Row :
                 /\ rows' = [rows EXCEPT ![i] = r] /\ r.msg = rows[i].msg
                 /\ rows[i].state = "pending_send"
                 /\ r.state = "failed" =>
                       r.marker \/ \A q \in Recipients : ~(copies[r.msg][q] > 0)
      BY <1>5, <2>2, TransitionRow
    <3> QED
      BY <1>0, <1>2, <1>3, <3>1, RowCalm, CalmKeeps DEF Open, Reached
  <2> QED
    BY <2>1, <2>2
<1>6. CASE Ingest(a)
  BY <1>2, <1>3, <1>6, SameCalm, CalmKeeps DEF Ingest
<1>7. CASE Complete(a)
  <2>1. PICK i \in Present, r \in Row :
              /\ rows[i].state = IF gate = a THEN "sent_pending_append" ELSE "pending_send"
              /\ r.msg = rows[i].msg /\ r.state = "done"
              /\ rows' = [rows EXCEPT ![i] = r]
    BY <1>7, CompleteShape
  <2>2. rows[i].state \in Open
    BY <2>1 DEF Open
  <2> QED
    BY <1>0, <1>2, <1>3, <2>1, <2>2, RowCalm, CalmKeeps
<1> QED
  BY <1>4, <1>5, <1>6, <1>7

LEMMA DrainDraft ==
    ASSUME TurnInv, Filing, DraftInv, NEW a \in Actors, Drain(a)
    PROVE  DraftInv'
<1>0. TypeOK
  BY DEF Filing
<1>1. ~Resting(a) /\ turn = a
  BY AtWork DEF Drain, TakeGate, BeginAppend, SkipAppend, RecordAppend, EndPass, AppendOnce, Resting
<1>2. UNCHANGED <<copies, released, file>>
  BY DEF Drain, TakeGate, BeginAppend, SkipAppend, RecordAppend, EndPass, AppendOnce, world, history
<1>3. \A s \in Sends : pc'[s] \notin {"claim", "enqueue"}
  <2>1. PICK l \in {"retire", "idle", "drain", "append", "filed", "ingest"} :
            pc' = [pc EXCEPT ![a] = l] \/ (pc' = pc /\ pc[a] = l)
    BY DEF Drain, TakeGate, BeginAppend, SkipAppend, RecordAppend, EndPass, AppendOnce,
       Drained, Settled, Goto
  <2> QED
    BY <1>0, <1>1, <2>1, NoneStarting
<1>4. CASE rows' = rows
  BY <1>2, <1>3, <1>4, SameCalm, CalmKeeps
<1>5. CASE rows' # rows
  <2>1. BeginAppend(a)
    BY <1>5 DEF Drain, TakeGate, SkipAppend, RecordAppend, EndPass, AppendOnce, store
  <2>2. PICK i \in Present, r \in Row :
                 /\ rows' = [rows EXCEPT ![i] = r] /\ r.msg = rows[i].msg
                 /\ rows[i].state = "sent_pending_append" /\ r.state = "sent_pending_append"
    BY <1>5, <2>1, BeginRow
  <2> QED
    BY <1>0, <1>2, <1>3, <2>2, RowCalm, CalmKeeps DEF Open
<1> QED
  BY <1>4, <1>5

(* A recipient who is spoken to is one of an open row's message.             *)
LEMMA SpeakDraft ==
    ASSUME TurnInv, Filing, DraftInv, NEW a \in Actors, NEW r \in Recipients, NEW v \in Verdicts,
           Speak(a, r, v)
    PROVE  DraftInv'
<1>0. TypeOK
  BY DEF Filing
<1>1. pc[a] = "smtp" /\ turn = a /\ Work(a) /\ ~Resting(a)
  BY AtWork DEF Speak, Resting
<1>2. WorksOn(a, "pending_send")
  BY <1>1 DEF Work, Lists, Submits, Submitting, Draining, Finishing
<1>3. PICK i \in Present : rows[i].msg = cur[a].row.msg /\ rows[i].state = "pending_send"
  BY <1>0, <1>2, SubjectRow
<1>4. UNCHANGED <<rows, file, pc, released>>
  BY DEF Speak, store, history
<1>5. \A s \in Sends : pc'[s] \notin {"claim", "enqueue"}
  BY <1>0, <1>1, <1>4, NoneStarting
<1>6. \A m \in Sends : m # rows[i].msg => copies'[m] = copies[m]
  BY <1>0, <1>3 DEF Speak, TypeOK
<1>7. /\ Present' = Present /\ \A S : InState(S)' = InState(S)
      /\ \A d : ActiveRows(d)' = ActiveRows(d)
      /\ \A d, j : NewestOf(d, j)' <=> NewestOf(d, j)
  BY <1>4 DEF Present, InState, NewestOf, RowsOfDraft, ActiveRows
<1>8. ASSUME NEW m \in Sends, Reached(m)', DraftOf[m] \notin released' \cup {None}
      PROVE  \E j \in Present' : /\ rows'[j].msg = m /\ NewestOf(DraftOf[m], j)'
                                 /\ rows'[j].state = "failed" => rows'[j].marker
  <2>1. CASE m = rows[i].msg
    <3>1. NewestOf(DraftOf[m], i)
      BY <1>3, <1>4, <1>8, <2>1, DraftOfAssumption
         DEF DraftInv, OpenIsNewest, ActiveRows, RowsOfDraft, InState, Open
    <3> QED
      BY <1>3, <1>4, <1>7, <2>1, <3>1
  <2>2. CASE m # rows[i].msg
    <3>1. Reached(m)
      BY <1>6, <1>8, <2>2 DEF Reached
    <3>2. PICK j \in Present : /\ rows[j].msg = m /\ NewestOf(DraftOf[m], j)
                               /\ rows[j].state = "failed" => rows[j].marker
      BY <1>4, <1>8, <3>1 DEF DraftInv, ReachedIsNewest
    <3> QED
      BY <1>4, <1>7, <3>2
  <2> QED
    BY <2>1, <2>2
<1>9. Approved' /\ OpenIsNewest'
  BY <1>4, <1>5, <1>7 DEF DraftInv, Approved, OpenIsNewest
<1> QED
  BY <1>5, <1>8, <1>9 DEF DraftInv, ReachedIsNewest, Refuses

(* The newest row of a draft is the one refuse_a_finished_draft looks at.    *)
LEMMA NewestIs ==
    ASSUME TypeOK, NEW d, NEW i, NewestOf(d, i)
    PROVE  Newest(RowsOfDraft(d)) = i /\ RowsOfDraft(d) # {}
<1>1. \A j \in RowsOfDraft(d) : j \in Nat
  BY IdsAssumption DEF RowsOfDraft, Present
<1>2. \A j \in RowsOfDraft(d) : (\A k \in RowsOfDraft(d) : k <= j) => j = i
  BY <1>1 DEF NewestOf
<1> QED
  BY <1>2 DEF Newest, NewestOf

(* What the table says of a draft, when it stays as it is.                   *)
LEMMA TableSame ==
    ASSUME DraftInv, UNCHANGED <<rows, copies, released>>
    PROVE  /\ OpenIsNewest' /\ ReachedIsNewest'
           /\ Present' = Present /\ \A d : ActiveRows(d)' = ActiveRows(d)
           /\ \A m \in Sends : Reached(m)' <=> Reached(m)
<1>1. Present' = Present /\ \A S : InState(S)' = InState(S)
  BY DEF Present, InState
<1>2. \A d : RowsOfDraft(d)' = RowsOfDraft(d)
  BY <1>1 DEF RowsOfDraft
<1>3. (\A d, i : NewestOf(d, i)' <=> NewestOf(d, i)) /\ \A d : ActiveRows(d)' = ActiveRows(d)
  BY <1>1, <1>2 DEF NewestOf, ActiveRows
<1>4. \A m \in Sends : Reached(m)' <=> Reached(m)
  BY DEF Reached
<1>5. OpenIsNewest'
  BY <1>3 DEF DraftInv, OpenIsNewest
<1>6. ReachedIsNewest'
  BY <1>1, <1>3, <1>4 DEF DraftInv, ReachedIsNewest
<1> QED
  BY <1>1, <1>3, <1>4, <1>5, <1>6

(* A send that reads an approved draft reads that it names no message.       *)
LEMMA StartDraft ==
    ASSUME TurnInv, Filing, DraftInv, NEW s \in Sends, StartSend(s)
    PROVE  DraftInv'
<1>0. TypeOK
  BY DEF Filing
<1>1. s \in Actors /\ turn = None
  BY DEF StartSend, TurnFree, TurnInv, TurnHeld, Actors
<1>2. \A b \in Sends \ {s} : b \in Actors /\ pc[b] \in {"idle", "ended"}
  BY <1>1, OthersRest, ActorKinds DEF Resting
<1>3. UNCHANGED <<rows, copies, released, file>>
  BY DEF StartSend, store, world, history
<1>4. /\ \A b \in Sends \ {s} : pc'[b] = pc[b]
      /\ IF DraftOf[s] = None THEN pc'[s] = "enqueue"
         ELSE /\ pc'[s] = "claim" /\ file[DraftOf[s]].status = "approved"
              /\ cur'[s].sentAs = file[DraftOf[s]].sentAs
  <2>1. cur[s] \in Cur
    BY <1>0, <1>1, CurTyped
  <2>2. CASE DraftOf[s] = None
    BY <1>0, <1>1, <1>2, <2>2 DEF StartSend, Goto, TypeOK
  <2>3. CASE DraftOf[s] # None
    <3>1. /\ pc' = [pc EXCEPT ![s] = "claim"] /\ file[DraftOf[s]].status = "approved"
          /\ cur' = [cur EXCEPT ![s] = [cur[s] EXCEPT !.sentAs = file[DraftOf[s]].sentAs]]
      BY <2>3 DEF StartSend, Goto
    <3>2. cur'[s] = [cur[s] EXCEPT !.sentAs = file[DraftOf[s]].sentAs]
      BY <1>0, <1>1, <3>1 DEF TypeOK
    <3>3. cur'[s].sentAs = file[DraftOf[s]].sentAs
      BY <2>1, <3>2 DEF Cur
    <3>4. pc'[s] = "claim" /\ \A b \in Sends \ {s} : pc'[b] = pc[b]
      BY <1>0, <1>1, <1>2, <3>1 DEF TypeOK
    <3> QED
      BY <2>3, <3>1, <3>3, <3>4
  <2> QED
    BY <2>2, <2>3
<1>5. Approved'
  BY <1>2, <1>3, <1>4, DraftOfAssumption DEF DraftInv, Approved
<1>6. Refuses'
  BY <1>2, <1>4 DEF Refuses
<1> QED
  BY <1>3, <1>5, <1>6, TableSame DEF DraftInv

(* A send past refuse_a_finished_draft has not been sent, or is being sent.  *)
LEMMA ClaimPasses ==
    ASSUME TurnInv, Filing, DraftInv, NEW s \in Sends, pc[s] = "claim",
           ~RefusesFinished(DraftOf[s], cur[s].sentAs), DraftOf[s] \notin released \cup {None},
           NEW m \in Sends, DraftOf[m] = DraftOf[s], Reached(m)
    PROVE  ActiveRows(DraftOf[s]) # {}
<1>0. TypeOK
  BY DEF Filing
<1>1. cur[s].sentAs = None
  BY DraftOfAssumption DEF DraftInv, Approved
<1>2. PICK i \in Present : /\ rows[i].msg = m /\ NewestOf(DraftOf[s], i)
                           /\ rows[i].state = "failed" => rows[i].marker
  BY DEF DraftInv, ReachedIsNewest
<1>3. Newest(RowsOfDraft(DraftOf[s])) = i /\ RowsOfDraft(DraftOf[s]) # {}
  BY <1>0, <1>2, NewestIs
<1>4. None # m /\ rows[i] \in Row
  BY <1>0, <1>2, RowTyped, ActorsAssumption
<1>5. rows[i].state \notin {"done", "failed"}
  BY <1>1, <1>2, <1>3, <1>4 DEF RefusesFinished
<1>6. rows[i].state \in Open
  BY <1>4, <1>5 DEF Row, States, Open
<1> QED
  BY <1>2, <1>6 DEF ActiveRows, InState, NewestOf

LEMMA ClaimKeepsDraft ==
    ASSUME TurnInv, Filing, DraftInv, NEW s \in Sends, ClaimDraft(s)
    PROVE  DraftInv'
<1>0. TypeOK
  BY DEF Filing
<1>1. s \in Actors /\ pc[s] = "claim" /\ ~Resting(s) /\ turn = s
  BY AtWork DEF ClaimDraft, Resting, Actors
<1>2. UNCHANGED <<rows, copies, released, file>>
  BY DEF ClaimDraft, store, world, history
<1>3. CASE Claimed(DraftOf[s]) \/ RefusesFinished(DraftOf[s], cur[s].sentAs)
  <2>1. PICK l \in {"ended"} : pc' = [pc EXCEPT ![s] = l]
    BY <1>3 DEF ClaimDraft, Ended, Goto
  <2>2. \A b \in Sends : pc'[b] \notin {"claim", "enqueue"}
    BY <1>0, <1>1, <2>1, NoneStarting
  <2> QED
    BY <1>2, <2>2, SameCalm, CalmKeeps
<1>4. CASE ~(Claimed(DraftOf[s]) \/ RefusesFinished(DraftOf[s], cur[s].sentAs))
  <2>1. pc' = [pc EXCEPT ![s] = "enqueue"] /\ cur' = cur
    BY <1>4 DEF ClaimDraft, Goto
  <2>2. \A b \in Sends \ {s} : b \in Actors /\ pc[b] \in {"idle", "ended"} /\ pc'[b] = pc[b]
    BY <1>0, <1>1, <2>1, OthersRest, ActorKinds DEF Resting, TypeOK
  <2>3. Approved'
    BY <1>1, <1>2, <2>1, <2>2 DEF DraftInv, Approved
  <2>4. Refuses'
    BY <1>1, <1>2, <1>4, <2>2, ClaimPasses, TableSame DEF Refuses
  <2> QED
    BY <1>2, <2>3, <2>4, TableSame DEF DraftInv
<1> QED
  BY <1>3, <1>4

(* The row of a new message is its draft's newest, and nobody has the        *)
(* draft's earlier messages.                                                 *)
LEMMA AcceptDraft ==
    ASSUME TurnInv, Filing, DraftInv, NEW s \in Sends, pc[s] = "enqueue",
           DraftOf[s] = None \/ ActiveRows(DraftOf[s]) = {},
           NEW i \in Ids, IsNextId(i), NEW r \in Row, r.msg = s,
           rows' = [rows EXCEPT ![i] = r], pc' = [pc EXCEPT ![s] = "mark"],
           UNCHANGED <<copies, released, file>>
    PROVE  DraftInv'
<1>0. TypeOK
  BY DEF Filing
<1>1. s \in Actors /\ ~Resting(s)
  BY DEF Resting, Actors
<1>2. \A b \in Sends : pc'[b] \notin {"claim", "enqueue"}
  <2>1. PICK l \in {"mark"} : pc' = [pc EXCEPT ![s] = l]
    OBVIOUS
  <2> QED
    BY <1>0, <1>1, <2>1, NoneStarting
<1>3. /\ rows'[i] = r /\ Present' = Present \cup {i} /\ i \notin Present
      /\ \A j \in Present : j < i /\ j # i /\ rows'[j] = rows[j]
  BY <1>0, NoneAssumption, IdsAssumption DEF TypeOK, Present, IsNextId
<1>4. ASSUME NEW d \in Drafts, d # DraftOf[s]
      PROVE  RowsOfDraft(d)' = RowsOfDraft(d)
  BY <1>3, <1>4 DEF RowsOfDraft
<1>5. ASSUME NEW d \in Drafts, d = DraftOf[s]
      PROVE  NewestOf(d, i)' /\ RowsOfDraft(d)' = RowsOfDraft(d) \cup {i}
  <2>1. RowsOfDraft(d)' = RowsOfDraft(d) \cup {i}
    BY <1>3, <1>5 DEF RowsOfDraft
  <2>2. i <= i /\ \A j \in RowsOfDraft(d) : j <= i
    BY <1>3, IdsAssumption DEF RowsOfDraft, Present
  <2> QED
    BY <2>1, <2>2 DEF NewestOf
<1>6. Approved' /\ Refuses'
  BY <1>2 DEF DraftInv, Approved, Refuses
<1>7. OpenIsNewest'
  <2>1. ASSUME NEW d \in Drafts \ released', NEW j \in ActiveRows(d)'
        PROVE  NewestOf(d, j)'
    <3>1. j \in RowsOfDraft(d)' /\ rows'[j].state \in Open
      BY <2>1 DEF ActiveRows, InState
    <3>2. CASE d = DraftOf[s]
      <4>1. j = i
        <5>1. ASSUME j # i PROVE FALSE
          <6>1. j \in RowsOfDraft(d) /\ rows[j].state \in Open
            BY <1>3, <1>5, <3>1, <3>2, <5>1 DEF RowsOfDraft
          <6> QED
            BY <3>2, <6>1, DraftOfAssumption DEF ActiveRows, InState, RowsOfDraft
        <5> QED
          BY <5>1
      <4> QED
        BY <1>5, <3>2, <4>1
    <3>3. CASE d # DraftOf[s]
      <4>1. j \in RowsOfDraft(d) /\ rows[j].state \in Open
        BY <1>3, <1>4, <3>1, <3>3 DEF RowsOfDraft
      <4>2. NewestOf(d, j)
        BY <2>1, <4>1 DEF DraftInv, OpenIsNewest, ActiveRows, InState, RowsOfDraft
      <4> QED
        BY <1>4, <3>3, <4>2 DEF NewestOf
    <3> QED
      BY <3>2, <3>3
  <2> QED
    BY <2>1 DEF OpenIsNewest
<1>8. ReachedIsNewest'
  <2>1. ASSUME NEW m \in Sends, Reached(m)', DraftOf[m] \notin released' \cup {None}
        PROVE  \E j \in Present' : /\ rows'[j].msg = m /\ NewestOf(DraftOf[m], j)'
                                   /\ rows'[j].state = "failed" => rows'[j].marker
    <3>1. Reached(m) /\ DraftOf[m] \in Drafts
      BY <2>1, DraftOfAssumption DEF Reached
    <3>2. DraftOf[m] # DraftOf[s]
      BY <2>1, <3>1 DEF DraftInv, Refuses
    <3>3. PICK j \in Present : /\ rows[j].msg = m /\ NewestOf(DraftOf[m], j)
                               /\ rows[j].state = "failed" => rows[j].marker
      BY <2>1, <3>1 DEF DraftInv, ReachedIsNewest
    <3>4. NewestOf(DraftOf[m], j)'
      BY <1>4, <3>1, <3>2, <3>3 DEF NewestOf
    <3> QED
      BY <1>3, <3>3, <3>4
  <2> QED
    BY <2>1 DEF ReachedIsNewest
<1> QED
  BY <1>6, <1>7, <1>8 DEF DraftInv

LEMMA EnqueueDraft ==
    ASSUME TurnInv, Filing, DraftInv, NEW s \in Sends, Enqueue(s)
    PROVE  DraftInv'
<1>0. TypeOK
  BY DEF Filing
<1>1. s \in Actors /\ pc[s] = "enqueue" /\ ~Resting(s)
  BY DEF Enqueue, Resting, Actors
<1>2. UNCHANGED <<copies, released, file>>
  BY DEF Enqueue, world, history
<1>3. CASE Ended(s) /\ UNCHANGED store
  <2>1. PICK l \in {"ended"} : pc' = [pc EXCEPT ![s] = l]
    BY <1>3 DEF Ended, Goto
  <2>2. \A b \in Sends : pc'[b] \notin {"claim", "enqueue"}
    BY <1>0, <1>1, <2>1, NoneStarting
  <2> QED
    BY <1>2, <1>3, <2>2, SameCalm, CalmKeeps DEF store
<1>4. CASE ~(Ended(s) /\ UNCHANGED store)
  <2>1. PICK i \in Ids, target \in SaveSettings :
            /\ IsNextId(i)
            /\ rows' = [rows EXCEPT ![i] = [msg |-> s, state |-> "pending_send", target |-> target,
                           marker |-> FALSE, attempts |-> 0,
                           delivered |-> {}, rejected |-> {}]]
    BY <1>4 DEF Enqueue
  <2>2. PICK r : r = [msg |-> s, state |-> "pending_send", target |-> target,
                      marker |-> FALSE, attempts |-> 0, delivered |-> {}, rejected |-> {}]
    OBVIOUS
  <2>3. r \in Row /\ r.msg = s
    BY <2>2, FlagsAssumption DEF Row, States
  <2>4. /\ DraftOf[s] = None \/ ActiveRows(DraftOf[s]) = {}
        /\ pc' = [pc EXCEPT ![s] = "mark"]
    BY <1>4 DEF Enqueue, Goto
  <2> QED
    BY <1>1, <1>2, <2>1, <2>2, <2>3, <2>4, AcceptDraft
<1> QED
  BY <1>3, <1>4

-----------------------------------------------------------------------------
(* The ends of a submission, the rest of a resume, and the operator.         *)

LEMMA RetiredApproves ==
    ASSUME TypeOK, NEW d \in Drafts, NEW m, NEW fully, Retired(d, m, fully)
    PROVE  \A e \in Drafts : file'[e].status = "approved" => file'[e] = file[e]
<1>1. CASE file' = file
  BY <1>1
<1>2. CASE file' # file
  <2>1. PICK st \in {"retired", "sent"} : file' = [file EXCEPT ![d] = [status |-> st, sentAs |-> m]]
    BY <1>2 DEF Retired
  <2> QED
    BY <2>1 DEF TypeOK
<1> QED
  BY <1>1, <1>2

LEMMA EndDraft ==
    ASSUME TurnInv, Filing, DraftInv, NEW a \in Actors, SettleDraft(a) \/ RetireDraftOfRow(a)
    PROVE  DraftInv'
<1>0. TypeOK
  BY DEF Filing
<1>1. pc[a] = "retire" /\ ~Resting(a)
  BY DEF SettleDraft, RetireDraftOfRow, Resting
<1>2. UNCHANGED <<rows, copies, released>>
  BY DEF SettleDraft, RetireDraftOfRow, store, world, history
<1>3. \A s \in Sends : pc'[s] \notin {"claim", "enqueue"}
  <2>1. PICK l \in {"ended", "resubmit"} : pc' = [pc EXCEPT ![a] = l]
    BY DEF SettleDraft, RetireDraftOfRow, Ended, Goto
  <2> QED
    BY <1>0, <1>1, <2>1, NoneStarting
<1>4. \A d \in Drafts : file'[d].status = "approved" => file'[d] = file[d]
  <2>1. CASE SettleDraft(a)
    BY <1>0, <2>1, RetiredApproves, DraftOfAssumption DEF SettleDraft
  <2>2. CASE RetireDraftOfRow(a)
    BY <1>0, <2>2, RetiredApproves, RowTyped, DraftOfAssumption DEF RetireDraftOfRow
  <2> QED
    BY <2>1, <2>2
<1> QED
  BY <1>2, <1>3, <1>4, SameCalm, CalmKeeps

LEMMA ResumeDraft ==
    ASSUME TurnInv, Filing, DraftInv, NEW w \in Resumers,
           Tick(w) \/ Sweep(w) \/ SkipRow(w) \/ ClaimRow(w) \/ EndResubmit(w)
    PROVE  DraftInv'
<1>0. TypeOK
  BY DEF Filing
<1>1. UNCHANGED <<rows, copies, released, file>>
  BY DEF Tick, Sweep, SkipRow, ClaimRow, EndResubmit, store, world, history
<1>2. \A s \in Sends : pc'[s] = pc[s]
  <2>1. w \in Resumers /\ pc \in [Actors -> Labels] /\ \A s \in Sends : s \in Actors /\ s # w
    BY <1>0, ActorKinds DEF TypeOK
  <2>2. pc' = pc \/ \E l : pc' = [pc EXCEPT ![w] = l]
    <3>1. CASE ClaimRow(w)
      BY <3>1 DEF ClaimRow, Goto
    <3>2. CASE Tick(w) \/ Sweep(w) \/ SkipRow(w) \/ EndResubmit(w)
      BY <3>2 DEF Tick, Sweep, SkipRow, EndResubmit, Goto
    <3> QED
      BY <3>1, <3>2
  <2> QED
    BY <2>1, <2>2
<1>3. \A s \in Sends : cur'[s] = cur[s]
  <2>1. w \in Resumers /\ cur \in [Actors -> Cur] /\ \A s \in Sends : s \in Actors /\ s # w
    BY <1>0, ActorKinds DEF TypeOK
  <2>2. cur' = cur \/ \E c : cur' = [cur EXCEPT ![w] = c]
    <3>1. CASE ClaimRow(w)
      BY <3>1 DEF ClaimRow
    <3>2. CASE Tick(w) \/ Sweep(w) \/ SkipRow(w) \/ EndResubmit(w)
      BY <3>2 DEF Tick, Sweep, SkipRow, EndResubmit
    <3> QED
      BY <3>1, <3>2
  <2> QED
    BY <2>1, <2>2
<1> QED
  BY <1>1, <1>2, <1>3, SameCalm, CalmKeeps

(* What is parked was marked.                                                *)
LEMMA ParkDraft ==
    ASSUME TurnInv, Filing, DraftInv, NEW w \in Resumers, Park(w)
    PROVE  DraftInv'
<1>0. TypeOK
  BY DEF Filing
<1>1. w \in Actors /\ pc[w] = "park" /\ ~Resting(w)
  BY DEF Park, Resting, Actors
<1>2. UNCHANGED <<copies, released, file>>
  BY DEF Park, world, history
<1>3. \A s \in Sends : pc'[s] \notin {"claim", "enqueue"}
  <2>1. pc' = [pc EXCEPT ![w] = "resubmit"]
    BY DEF Park, Goto
  <2> QED
    <3>1. turn = w
      BY <1>1, AtWork
    <3>2. \A s \in Sends : s \in Actors /\ pc[s] \in {"idle", "ended", "park"}
      BY <1>1, <3>1, ActorKinds, OthersRest DEF Resting
    <3> QED
      BY <1>0, <2>1, <3>2 DEF TypeOK
<1>4. /\ Present' = Present
      /\ \A i \in Present : \/ rows'[i] = rows[i]
                            \/ /\ rows'[i].msg = rows[i].msg /\ rows'[i].state = "failed"
                               /\ rows'[i].marker
  BY ParkShape DEF Present
<1>5. \A m \in Sends : Reached(m)' => Reached(m)
  BY <1>2 DEF Reached
<1>6. Calm
  BY <1>2, <1>3, <1>4, <1>5 DEF Calm, Open
<1> QED
  BY <1>6, CalmKeeps

LEMMA DiscardDraft ==
    ASSUME TurnInv, Filing, DraftInv, NEW i \in Ids, Discard(i)
    PROVE  DraftInv'
<1>0. TypeOK
  BY DEF Filing
<1>1. i \in Present /\ rows[i].state = "failed"
  BY DEF Discard, InState, TurnInv, TurnHeld
<1>2. /\ Present' = Present \ {i}
      /\ \A j \in Present' : rows'[j] = rows[j]
  BY <1>0, <1>1 DEF Discard, TypeOK, Present
<1>3. /\ UNCHANGED <<copies, file, pc, cur>> /\ released \subseteq released'
      /\ DraftOf[rows[i].msg] \in released' \cup {None}
  BY DEF Discard, world
<1>4. \A m \in Sends : Reached(m)' => Reached(m)
  BY <1>3 DEF Reached
<1>5. Calm
  BY <1>1, <1>2, <1>3, <1>4 DEF Calm, Open
<1> QED
  BY <1>5, CalmKeeps

LEMMA ReapproveDraft ==
    ASSUME TurnInv, Filing, DraftInv, NEW d \in Drafts, Reapprove(d)
    PROVE  DraftInv'
<1>0. TypeOK
  BY DEF Filing
<1>1. UNCHANGED <<rows, copies, pc, cur>> /\ released' = released \cup {d}
  BY DEF Reapprove, store, world
<1>2. \A e \in Drafts \ released' : file'[e] = file[e]
  BY <1>0, <1>1 DEF Reapprove, TypeOK
<1>3. \A m \in Sends : Reached(m)' => Reached(m)
  BY <1>1 DEF Reached
<1>4. Calm
  BY <1>1, <1>2, <1>3 DEF Calm, Present
<1> QED
  BY <1>4, CalmKeeps

LEMMA CrashDraft ==
    ASSUME TurnInv, Filing, DraftInv, Crash
    PROVE  DraftInv'
<1>1. UNCHANGED <<rows, copies, released, file>>
  BY DEF Crash, store, world
<1>2. \A s \in Sends : pc'[s] \notin {"claim", "enqueue"}
  BY ActorKinds DEF Crash
<1> QED
  BY <1>1, <1>2, SameCalm, CalmKeeps

-----------------------------------------------------------------------------
LEMMA DraftStep ==
    ASSUME TurnInv, Filing, DraftInv, [Next]_vars
    PROVE  DraftInv'
<1>1. ASSUME NEW a \in Actors, Submit(a) PROVE DraftInv'
  BY <1>1, SubmitDraft, SpeakDraft DEF Submit
<1>2. ASSUME NEW a \in Actors, Drain(a) PROVE DraftInv'
  BY <1>2, DrainDraft
<1>3. ASSUME NEW s \in Sends, SendStep(s) PROVE DraftInv'
  BY <1>3, StartDraft, ClaimKeepsDraft, EnqueueDraft, EndDraft, ActorKinds DEF SendStep
<1>4. ASSUME NEW w \in Resumers, ResumeStep(w) \/ Tick(w) PROVE DraftInv'
  BY <1>4, ResumeDraft, ParkDraft, EndDraft DEF ResumeStep, Actors
<1>5. ASSUME NEW w \in Resumers, SyncRun(w) PROVE DraftInv'
  BY <1>5 DEF SyncRun, TurnInv, TurnHeld
<1>6. ASSUME NEW w \in Resumers, NEW i \in Ids, Retry(w, i) PROVE DraftInv'
  BY <1>6 DEF Retry, TurnInv, TurnHeld
<1>7. CASE UNCHANGED vars
  BY <1>7, SameCalm, CalmKeeps DEF vars
<1> QED
  BY <1>1, <1>2, <1>3, <1>4, <1>5, <1>6, <1>7, DiscardDraft, ReapproveDraft, CrashDraft DEF Next

(* DraftInvariant: send, the gates it passes and the steps of a submission   *)
(* keep the row of a draft somebody has the newest of that draft.            *)
THEOREM DraftInvariant == TurnHeld /\ Spec => []DraftInv
<1>1. Init => DraftInv
  <2> SUFFICES ASSUME Init PROVE DraftInv
    OBVIOUS
  <2>1. \A s \in Sends : pc[s] = "idle"
    BY ActorKinds DEF Init
  <2>2. Present = {} /\ \A m \in Sends : ~Reached(m)
    BY DEF Init, Present, Reached
  <2> QED
    BY <2>1, <2>2 DEF Init, DraftInv, Approved, OpenIsNewest, ReachedIsNewest, Refuses,
       ActiveRows, InState
<1>2. TurnInv /\ Filing /\ DraftInv /\ [Next]_vars => DraftInv'
  BY DraftStep
<1> QED
  BY <1>1, <1>2, TurnInvariant, FilingInvariant, PTL DEF Spec

(* DraftOnceUnderTurn: two messages of one draft reach people only if the    *)
(* user set the draft back or the operator discarded a row                   *)
(* (refuse_a_finished_draft, find_active_submission).                        *)
THEOREM DraftOnceUnderTurn == TurnHeld /\ Spec => []DraftSentOnce
<1>1. ASSUME TypeOK, DraftInv, NEW m \in Sends, NEW n \in Sends,
             DraftOf[m] # None, DraftOf[m] = DraftOf[n], Reached(m), Reached(n),
             DraftOf[m] \notin released
      PROVE  m = n
  <2>1. PICK i \in Present : rows[i].msg = m /\ NewestOf(DraftOf[m], i)
    BY <1>1 DEF DraftInv, ReachedIsNewest
  <2>2. PICK j \in Present : rows[j].msg = n /\ NewestOf(DraftOf[m], j)
    BY <1>1 DEF DraftInv, ReachedIsNewest
  <2> QED
    BY <1>1, <2>1, <2>2, NewestIs
<1>2. TypeOK /\ DraftInv => DraftSentOnce
  BY <1>1 DEF DraftSentOnce, Reached
<1> QED
  BY <1>2, DraftInvariant, Typing, PTL

-----------------------------------------------------------------------------
(* The ledger of DurableSend, read from the table.                           *)

(* A message with a row is at the stage its row says, ...                    *)
RowStages == \A i \in Present : Stage[rows[i].msg] = StageOf(rows[i])

(* ... one without is still to be accepted, or will never be one.            *)
Rowless ==
    \A m \in Sends : (\A i \in Present : rows[i].msg # m) =>
        Stage[m] = IF m \in Fresh THEN "new" ELSE "gone"

Ledgered == RowStages /\ Rowless

LEMMA LedgerRows == Filing => Ledgered
<1> SUFFICES ASSUME Filing PROVE Ledgered
  OBVIOUS
<1>1. ASSUME NEW i \in Present PROVE Stage[rows[i].msg] = StageOf(rows[i])
  <2>1. rows[i].msg \in Sends /\ i \in Nat
    BY RowTyped, IdsAssumption DEF Filing
  <2>2. RowsOf(rows[i].msg) = {i}
    BY DEF Filing, OneRowPerMessage, RowsOf
  <2>3. Newest({i}) = i
    BY <2>1 DEF Newest
  <2> QED
    BY <2>1, <2>2, <2>3 DEF Stage
<1>2. ASSUME NEW m \in Sends, \A i \in Present : rows[i].msg # m
      PROVE  Stage[m] = IF m \in Fresh THEN "new" ELSE "gone"
  <2>1. RowsOf(m) = {}
    BY <1>2 DEF RowsOf
  <2> QED
    BY <2>1 DEF Stage, Fresh
<1> QED
  BY <1>1, <1>2 DEF Ledgered, RowStages, Rowless

LEMMA StageOfState ==
    ASSUME NEW r
    PROVE  /\ r.state = "pending_send" => StageOf(r) = "open"
           /\ r.state = "sent_pending_append" => StageOf(r) = "sent"
           /\ r.state = "done" => StageOf(r) = "done"
           /\ r.state = "failed" => StageOf(r) = "parked"
  BY DEF StageOf

LEMMA StageMaps == Stage = [m \in Sends |-> Stage[m]] /\ Stage' = [m \in Sends |-> Stage'[m]]
  BY DEF Stage

LEMMA StageSet ==
    ASSUME NEW m \in Sends, NEW x, Stage'[m] = x, \A n \in Sends : n # m => Stage'[n] = Stage[n]
    PROVE  Stage' = [Stage EXCEPT ![m] = x]
  BY StageMaps

LEMMA StageMoved ==
    ASSUME NEW M, NEW x, \A n \in Sends : Stage'[n] = IF n \in M THEN x ELSE Stage[n]
    PROVE  Stage' = [n \in Sends |-> IF n \in M THEN x ELSE Stage[n]]
  BY StageMaps

(* A row rewritten in place moves its message, and no other.                 *)
LEMMA RowMoves ==
    ASSUME Filing, Ledgered, Ledgered', Fresh' = Fresh,
           NEW i \in Present, NEW r \in Row, r.msg = rows[i].msg,
           rows' = [rows EXCEPT ![i] = r]
    PROVE  /\ rows[i].msg \in Sends /\ Stage[rows[i].msg] = StageOf(rows[i])
           /\ Stage' = [Stage EXCEPT ![rows[i].msg] = StageOf(r)]
           /\ StageOf(r) = StageOf(rows[i]) => Stage' = Stage
<1>0. TypeOK
  BY DEF Filing
<1>1. rows[i].msg \in Sends /\ i \in Ids
  BY <1>0, RowTyped
<1>2. /\ Present' = Present /\ rows'[i] = r
      /\ \A j \in Present : j # i => rows'[j] = rows[j]
  BY <1>0, NoneAssumption DEF TypeOK, Present
<1>3. Stage[rows[i].msg] = StageOf(rows[i])
  BY DEF Ledgered, RowStages
<1>4. Stage'[rows[i].msg] = StageOf(r)
  BY <1>2 DEF Ledgered, RowStages
<1>5. ASSUME NEW n \in Sends, n # rows[i].msg
      PROVE  Stage'[n] = Stage[n]
  <2>1. CASE \E j \in Present : rows[j].msg = n
    BY <1>2, <1>5, <2>1 DEF Ledgered, RowStages
  <2>2. CASE \A j \in Present : rows[j].msg # n
    <3>1. \A j \in Present' : rows'[j].msg # n
      BY <1>2, <1>5, <2>2
    <3> QED
      BY <2>2, <3>1 DEF Ledgered, Rowless
  <2> QED
    BY <2>1, <2>2
<1>6. Stage' = [Stage EXCEPT ![rows[i].msg] = StageOf(r)]
  BY <1>1, <1>4, <1>5, StageSet
<1> QED
  BY <1>1, <1>3, <1>6, StageMaps

LEMMA RowsStay ==
    ASSUME Ledgered, Ledgered', Fresh' = Fresh, rows' = rows
    PROVE  Stage' = Stage
<1>1. Present' = Present
  BY DEF Present
<1>2. ASSUME NEW n \in Sends PROVE Stage'[n] = Stage[n]
  <2>1. CASE \E j \in Present : rows[j].msg = n
    BY <1>1, <2>1 DEF Ledgered, RowStages
  <2>2. CASE \A j \in Present : rows[j].msg # n
    BY <1>1, <2>2 DEF Ledgered, Rowless
  <2> QED
    BY <2>1, <2>2
<1> QED
  BY <1>2, StageMaps

(* Sends that have not enqueued stay where they are while another is at work.*)
LEMMA FreshKept ==
    ASSUME TypeOK, NEW a \in Actors, NEW l,
           pc' = [pc EXCEPT ![a] = l] \/ pc' = pc,
           a \in Sends => pc[a] \notin FreshLabels /\ l \notin FreshLabels
    PROVE  Fresh' = Fresh
<1>1. \A s \in Sends : pc'[s] \in FreshLabels <=> pc[s] \in FreshLabels
  BY ActorKinds DEF TypeOK
<1> QED
  BY <1>1 DEF Fresh, FreshLabels

Still == UNCHANGED <<Stage, copies, sentBox>>

LEMMA StillSteps ==
    \/ Still
    \/ \E m \in Sends :
          \/ Ledger!Accept(m) \/ Ledger!Sent(m) \/ Ledger!File(m) \/ Ledger!Done(m)
          \/ Ledger!Discard(m) \/ \E r \in Recipients : Ledger!Deliver(m, r)
    \/ \E M \in SUBSET Sends : Ledger!TurnAway(M) \/ Ledger!Park(M)
    => [Ledger!Next]_(Ledger!vars)
  BY DEF Still, Ledger!Next, Ledger!vars

LEMMA SubmitPromise ==
    ASSUME TurnInv, Filing, Ledgered, Ledgered', NEW a \in Actors,
           Mark(a) \/ FailClean(a) \/ Record(a) \/ Transition(a) \/ Ingest(a) \/ Complete(a)
    PROVE  Still \/ \E m \in Sends : Ledger!Sent(m) \/ Ledger!Done(m) \/ Ledger!Park({m})
<1>0. TypeOK
  BY DEF Filing
<1>1. pc[a] \in Submitting \cup Finishing
  BY DEF Mark, FailClean, Record, Transition, Ingest, Complete, Submitting, Finishing
<1>2. UNCHANGED <<copies, sentBox>>
  BY DEF Mark, FailClean, Record, Transition, Ingest, Complete, world
<1>3. Fresh' = Fresh
  <2>1. PICK l \in {"smtp", "ended", "retire", "transition", "settle", "ingest", "complete", "drain"} :
            pc' = [pc EXCEPT ![a] = l]
    BY DEF Mark, FailClean, Record, Transition, Ingest, Complete, SubmitFailed, Submitted,
       Ended, Goto
  <2> QED
    BY <1>0, <1>1, <2>1, FreshKept DEF FreshLabels, Submitting, Finishing
<1>4. CASE rows' = rows
  BY <1>2, <1>3, <1>4, RowsStay DEF Still
<1>5. CASE Mark(a) \/ FailClean(a) \/ Record(a)
  <2>1. PICK i \in Present, r \in Row :
              /\ rows' = [rows EXCEPT ![i] = r] /\ r.msg = rows[i].msg
              /\ rows[i].state = "pending_send" /\ r.state = "pending_send"
    BY <1>5, PendingRow
  <2>2. StageOf(r) = "open" /\ StageOf(rows[i]) = "open"
    BY <2>1, StageOfState
  <2>3. Stage' = Stage
    BY <1>3, <2>1, <2>2, RowMoves
  <2> QED
    BY <1>2, <2>3 DEF Still
<1>6. CASE Transition(a) /\ rows' # rows
  <2>1. PICK i \in Present, r \in Row :
               /\ rows' = [rows EXCEPT ![i] = r] /\ r.msg = rows[i].msg
               /\ rows[i].state = "pending_send"
               /\ r.state \in {"pending_send", "sent_pending_append", "failed"}
               /\ r.state = "sent_pending_append" =>
                     \E q \in Recipients : copies[r.msg][q] > 0
    BY <1>6, TransitionRow
  <2>2. /\ rows[i].msg \in Sends /\ Stage[rows[i].msg] = StageOf(rows[i])
        /\ Stage' = [Stage EXCEPT ![rows[i].msg] = StageOf(r)]
        /\ StageOf(r) = StageOf(rows[i]) => Stage' = Stage
    BY <1>3, <2>1, RowMoves
  <2>3. StageOf(rows[i]) = "open"
    BY <2>1, StageOfState
  <2>4. CASE r.state = "pending_send"
    BY <1>2, <2>2, <2>3, <2>4, StageOfState DEF Still
  <2>5. CASE r.state = "sent_pending_append"
    <3>1. StageOf(r) = "sent"
      BY <2>5, StageOfState
    <3> QED
      BY <1>2, <2>1, <2>2, <2>3, <2>5, <3>1 DEF Ledger!Sent, Ledger!Reached
  <2>6. CASE r.state = "failed"
    <3>1. StageOf(r) = "parked"
      BY <2>6, StageOfState
    <3>2. Ledger!Park({rows[i].msg})
      <4>1. \A n \in Sends : Stage'[n] = IF n \in {rows[i].msg} THEN "parked" ELSE Stage[n]
        BY <2>2, <3>1, StageMaps
      <4>2. Stage' = [n \in Sends |-> IF n \in {rows[i].msg} THEN "parked" ELSE Stage[n]]
        BY <4>1, StageMoved
      <4> QED
        BY <1>2, <2>2, <2>3, <4>2 DEF Ledger!Park
    <3> QED
      BY <2>2, <3>2
  <2> QED
    BY <2>1, <2>4, <2>5, <2>6
<1>7. CASE Complete(a)
  <2>1. PICK i \in Present, r \in Row :
              /\ rows[i].state = IF gate = a THEN "sent_pending_append" ELSE "pending_send"
              /\ gate = a => sentBox[rows[i].msg] > 0
              /\ r.msg = rows[i].msg /\ r.state = "done" /\ r.delivered = rows[i].delivered
              /\ r.delivered # {}
              /\ rows' = [rows EXCEPT ![i] = r]
    BY <1>7, CompleteShape
  <2>2. PICK m \in Sends : /\ m = rows[i].msg /\ Stage[m] = StageOf(rows[i])
                           /\ Stage' = [Stage EXCEPT ![m] = StageOf(r)]
    BY <1>3, <2>1, RowMoves
  <2>3. /\ Stage[m] = IF gate = a THEN "sent" ELSE "open"
        /\ Stage' = [Stage EXCEPT ![m] = "done"]
    <3>1. StageOf(r) = "done"
      BY <2>1, StageOfState
    <3>2. StageOf(rows[i]) = IF gate = a THEN "sent" ELSE "open"
      BY <2>1, StageOfState
    <3> QED
      BY <2>2, <3>1, <3>2
  <2>4. CASE gate = a
    <3>1. sentBox[m] = 1
      BY <1>0, <2>1, <2>2, <2>4 DEF Filing, SentCopyOnce, TypeOK
    <3> QED
      BY <1>2, <2>2, <2>3, <2>4, <3>1 DEF Ledger!Done
  <2>5. CASE gate # a
    <3>1. rows[i].delivered \subseteq Recipients
      BY <1>0, RowTyped DEF Row
    <3>2. \E r1 \in Recipients : copies[m][r1] > 0
      BY <2>1, <2>2, <3>1 DEF TurnInv, Envelopes
    <3> QED
      BY <1>2, <2>2, <2>3, <2>5, <3>2 DEF Ledger!Sent, Ledger!Reached
  <2> QED
    BY <2>4, <2>5
<1> QED
  BY <1>4, <1>5, <1>6, <1>7 DEF Ingest

(* Somebody new has the message, or nobody.                                  *)
LEMMA SpeakPromise ==
    ASSUME TurnInv, Filing, Ledgered, Ledgered', NEW a \in Actors,
           NEW r \in Recipients, NEW v \in Verdicts, Speak(a, r, v)
    PROVE  Still \/ \E m \in Sends : Ledger!Deliver(m, r)
<1>0. TypeOK
  BY DEF Filing
<1>1. pc[a] = "smtp" /\ r \in cur[a].todo /\ Work(a)
  BY DEF Speak, TurnInv
<1>2. UNCHANGED <<rows, pc, sentBox>>
  BY DEF Speak, store
<1>3. Stage' = Stage
  BY <1>2, RowsStay DEF Fresh
<1>4. copies' = copies \/ copies' = [copies EXCEPT ![cur[a].row.msg][r] = @ + 1]
  BY DEF Speak
<1>5. gate # a
  BY <1>1 DEF Work, Lists, Draining, Finishing
<1>6. WorksOn(a, "pending_send") /\ copies[cur[a].row.msg][r] = 0
  BY <1>0, <1>1, <1>5, NotYetReached DEF Work, Submits, Submitting
<1>7. PICK i \in Present : rows[i].msg = cur[a].row.msg /\ rows[i].state = "pending_send"
  BY <1>0, <1>6, SubjectRow
<1>8. rows[i].msg \in Sends /\ Stage[rows[i].msg] = "open"
  BY <1>0, <1>7, RowTyped, StageOfState DEF Ledgered, RowStages
<1> QED
  BY <1>2, <1>3, <1>4, <1>6, <1>7, <1>8 DEF Still, Ledger!Deliver

LEMMA DrainPromise ==
    ASSUME TurnInv, Filing, Filing', Ledgered, Ledgered', NEW a \in Actors, Drain(a)
    PROVE  Still \/ \E m \in Sends : Ledger!File(m)
<1>0. TypeOK
  BY DEF Filing
<1>1. pc[a] \in {"settle", "drain", "append", "filed"}
  BY DEF Drain, TakeGate, BeginAppend, SkipAppend, RecordAppend, EndPass, AppendOnce
<1>2. copies' = copies
  BY DEF Drain, TakeGate, BeginAppend, SkipAppend, RecordAppend, EndPass, AppendOnce, world
<1>3. Fresh' = Fresh
  <2>1. PICK l \in {"retire", "idle", "drain", "append", "filed", "ingest"} :
            (pc' = [pc EXCEPT ![a] = l] \/ pc' = pc) /\ (a \in Sends => l # "idle")
    BY DEF Drain, TakeGate, BeginAppend, SkipAppend, RecordAppend, EndPass, AppendOnce,
       Drained, Settled, Goto
  <2> QED
    BY <1>0, <1>1, <2>1, FreshKept DEF FreshLabels
<1>4. Stage' = Stage
  <2>1. CASE rows' = rows
    BY <1>3, <2>1, RowsStay
  <2>2. CASE rows' # rows
    <3>1. BeginAppend(a)
      BY <2>2 DEF Drain, TakeGate, SkipAppend, RecordAppend, EndPass, AppendOnce, store
    <3>2. PICK i \in Present, r \in Row :
                 /\ rows' = [rows EXCEPT ![i] = r] /\ r.msg = rows[i].msg
                 /\ rows[i].state = "sent_pending_append" /\ r.state = "sent_pending_append"
      BY <2>2, <3>1, BeginRow
    <3>3. StageOf(r) = "sent" /\ StageOf(rows[i]) = "sent"
      BY <3>2, StageOfState
    <3> QED
      BY <1>3, <3>2, <3>3, RowMoves
  <2> QED
    BY <2>1, <2>2
<1>5. CASE sentBox' = sentBox
  BY <1>2, <1>4, <1>5 DEF Still
<1>6. CASE sentBox' # sentBox
  <2>1. /\ pc[a] = "append"
        /\ sentBox' = [sentBox EXCEPT ![cur[a].row.msg] = @ + 1]
    BY <1>6 DEF Drain, TakeGate, BeginAppend, SkipAppend, RecordAppend, EndPass, AppendOnce, world
  <2>2. gate = a /\ Work(a)
    BY <2>1 DEF Filing, GateHeld, TurnInv
  <2>3. WorksOn(a, "sent_pending_append")
    BY <2>1, <2>2 DEF Work, Files
  <2>4. PICK i \in Present, m \in Sends :
            rows[i].msg = m /\ cur[a].row.msg = m /\ rows[i].state = "sent_pending_append"
    BY <1>0, <2>3, SubjectRow
  <2>5. Stage[m] = "sent"
    BY <2>4, StageOfState DEF Ledgered, RowStages
  <2>6. sentBox[m] = 0 /\ sentBox' = [sentBox EXCEPT ![m] = 1]
    <3>1. sentBox[m] \in Nat /\ sentBox'[m] <= 1 /\ sentBox'[m] = sentBox[m] + 1
      BY <1>0, <2>1, <2>4 DEF Filing, SentCopyOnce, TypeOK
    <3>2. sentBox[m] = 0
      BY <3>1
    <3> QED
      BY <2>1, <2>4, <3>2
  <2> QED
    BY <1>2, <1>4, <2>5, <2>6 DEF Ledger!File
<1> QED
  BY <1>5, <1>6

-----------------------------------------------------------------------------
(* Sends that never became messages, those that do, and the operator.        *)

LEMMA TurnedAway ==
    ASSUME Filing, Ledgered, Ledgered', rows' = rows, UNCHANGED <<copies, sentBox>>,
           NEW M, M \subseteq Fresh, Fresh' = Fresh \ M
    PROVE  Ledger!TurnAway(M)
<1>1. Present' = Present
  BY DEF Present
<1>2. ASSUME NEW m \in M PROVE Stage[m] = "new" /\ Stage'[m] = "gone"
  <2>1. m \in Sends /\ m \in Fresh /\ m \notin Fresh' /\ \A i \in Present : rows[i].msg # m
    BY <1>2 DEF Filing, FreshUnknown, Fresh
  <2> QED
    BY <1>1, <2>1 DEF Ledgered, Rowless
<1>3. ASSUME NEW n \in Sends, n \notin M PROVE Stage'[n] = Stage[n]
  <2>1. CASE \E j \in Present : rows[j].msg = n
    BY <1>1, <2>1 DEF Ledgered, RowStages
  <2>2. CASE \A j \in Present : rows[j].msg # n
    BY <1>1, <1>3, <2>2 DEF Ledgered, Rowless
  <2> QED
    BY <2>1, <2>2
<1>4. Stage' = [n \in Sends |-> IF n \in M THEN "gone" ELSE Stage[n]]
  BY <1>2, <1>3, StageMoved
<1> QED
  BY <1>2, <1>4 DEF Ledger!TurnAway

LEMMA EndedFresh ==
    ASSUME TypeOK, NEW s \in Sends, s \in Fresh, Ended(s)
    PROVE  Fresh' = Fresh \ {s}
<1>1. pc'[s] = "ended" /\ \A b \in Sends \ {s} : pc'[b] = pc[b]
  BY ActorKinds DEF Ended, Goto, TypeOK
<1> QED
  BY <1>1 DEF Fresh

(* A row committed is a message accepted, beside no other of its draft.      *)
LEMMA Accepted ==
    ASSUME Filing, Ledgered, Ledgered', NEW s \in Sends, pc[s] = "enqueue",
           DraftOf[s] = None \/ ActiveRows(DraftOf[s]) = {},
           NEW i \in Ids, IsNextId(i), NEW r \in Row, r.msg = s, r.state = "pending_send",
           rows' = [rows EXCEPT ![i] = r], pc' = [pc EXCEPT ![s] = "mark"],
           UNCHANGED <<copies, sentBox>>
    PROVE  Ledger!Accept(s)
<1>0. TypeOK
  BY DEF Filing
<1>1. /\ rows'[i] = r /\ Present' = Present \cup {i}
      /\ \A j \in Present : rows'[j] = rows[j]
  BY <1>0, NoneAssumption, IdsAssumption DEF TypeOK, Present, IsNextId
<1>2. \A b \in Sends \ {s} : b \in Fresh' <=> b \in Fresh
  BY <1>0, ActorKinds DEF Fresh, TypeOK
<1>3. s \in Fresh /\ \A j \in Present : rows[j].msg # s
  BY DEF Filing, FreshUnknown, Fresh
<1>4. Stage[s] = "new"
  BY <1>3 DEF Ledgered, Rowless
<1>5. Stage'[s] = "open"
  <2>1. StageOf(r) = "open"
    BY StageOfState
  <2> QED
    BY <1>1, <2>1 DEF Ledgered, RowStages
<1>6. ASSUME NEW n \in Sends, n # s PROVE Stage'[n] = Stage[n]
  <2>1. CASE \E j \in Present : rows[j].msg = n
    BY <1>1, <2>1 DEF Ledgered, RowStages
  <2>2. CASE \A j \in Present : rows[j].msg # n
    <3>1. \A j \in Present' : rows'[j].msg # n
      BY <1>1, <1>6, <2>2
    <3> QED
      BY <1>2, <1>6, <2>2, <3>1 DEF Ledgered, Rowless
  <2> QED
    BY <2>1, <2>2
<1>7. ASSUME NEW n \in Sends, DraftOf[s] # None, DraftOf[n] = DraftOf[s]
      PROVE  Stage[n] \notin {"open", "sent"}
  <2>1. CASE \E j \in Present : rows[j].msg = n
    <3>1. PICK j \in Present : rows[j].msg = n
      BY <2>1
    <3>2. rows[j].state \notin Open /\ rows[j] \in Row
      BY <1>0, <1>7, <3>1, RowTyped DEF ActiveRows, RowsOfDraft, InState
    <3>3. rows[j].state \in {"done", "failed"}
      BY <3>2 DEF Row, States, Open
    <3>4. StageOf(rows[j]) \in {"done", "parked"}
      BY <3>3, StageOfState
    <3> QED
      BY <3>1, <3>4 DEF Ledgered, RowStages
  <2>2. CASE \A j \in Present : rows[j].msg # n
    BY <2>2 DEF Ledgered, Rowless
  <2> QED
    BY <2>1, <2>2
<1>8. Stage' = [Stage EXCEPT ![s] = "open"]
  BY <1>5, <1>6, StageSet
<1> QED
  BY <1>4, <1>7, <1>8 DEF Ledger!Accept, Ledger!Underway

LEMMA SendPromise ==
    ASSUME TurnInv, Filing, Ledgered, Ledgered', NEW s \in Sends, SendStep(s)
    PROVE  Still \/ Ledger!Accept(s) \/ Ledger!TurnAway({s})
<1>0. TypeOK /\ s \in Actors
  BY DEF Filing, Actors
<1>1. UNCHANGED <<copies, sentBox>>
  BY DEF SendStep, StartSend, ClaimDraft, Enqueue, SettleDraft, world
<1>2. CASE StartSend(s)
  <2>1. PICK l \in {"claim", "enqueue"} : pc[s] = "idle" /\ pc' = [pc EXCEPT ![s] = l]
    BY <1>2 DEF StartSend, Goto
  <2>2. Fresh' = Fresh
    BY <1>0, <2>1, ActorKinds DEF Fresh, TypeOK
  <2> QED
    BY <1>1, <1>2, <2>2, RowsStay DEF Still, StartSend, store
<1>3. CASE ClaimDraft(s)
  <2>1. rows' = rows /\ s \in Fresh
    BY <1>3 DEF ClaimDraft, store, Fresh
  <2>2. CASE Ended(s)
    <3>1. Fresh' = Fresh \ {s}
      BY <1>0, <2>1, <2>2, EndedFresh
    <3> QED
      BY <1>1, <2>1, <3>1, TurnedAway
  <2>3. CASE pc' = [pc EXCEPT ![s] = "enqueue"]
    <3>1. Fresh' = Fresh
      BY <1>0, <1>3, <2>3, ActorKinds DEF ClaimDraft, Fresh, TypeOK
    <3> QED
      BY <1>1, <2>1, <3>1, RowsStay DEF Still
  <2> QED
    BY <1>3, <2>2, <2>3 DEF ClaimDraft, Goto
<1>4. CASE Enqueue(s)
  <2>1. CASE Ended(s) /\ UNCHANGED store
    <3>1. s \in Fresh
      BY <1>4 DEF Enqueue, Fresh
    <3>2. Fresh' = Fresh \ {s}
      BY <1>0, <2>1, <3>1, EndedFresh
    <3> QED
      BY <1>1, <2>1, <3>1, <3>2, TurnedAway DEF store
  <2>2. CASE ~(Ended(s) /\ UNCHANGED store)
    <3>1. PICK i \in Ids, target \in SaveSettings :
              /\ IsNextId(i)
              /\ rows' = [rows EXCEPT ![i] = [msg |-> s, state |-> "pending_send", target |-> target,
                             marker |-> FALSE, attempts |-> 0,
                             delivered |-> {}, rejected |-> {}]]
      BY <1>4, <2>2 DEF Enqueue
    <3>2. PICK r : r = [msg |-> s, state |-> "pending_send", target |-> target,
                        marker |-> FALSE, attempts |-> 0, delivered |-> {}, rejected |-> {}]
      OBVIOUS
    <3>3. r \in Row /\ r.msg = s /\ r.state = "pending_send"
      BY <3>2, FlagsAssumption DEF Row, States
    <3>4. /\ DraftOf[s] = None \/ ActiveRows(DraftOf[s]) = {}
          /\ pc[s] = "enqueue" /\ pc' = [pc EXCEPT ![s] = "mark"]
      BY <1>4, <2>2 DEF Enqueue, Goto
    <3>5. rows' = [rows EXCEPT ![i] = r]
      BY <3>1, <3>2
    <3> QED
      BY <1>1, <3>1, <3>3, <3>4, <3>5, Accepted
  <2> QED
    BY <2>1, <2>2
<1>5. CASE SettleDraft(s)
  <2>1. PICK l \in {"ended"} : pc[s] = "retire" /\ pc' = [pc EXCEPT ![s] = l]
    BY <1>5 DEF SettleDraft, Ended, Goto
  <2>2. Fresh' = Fresh
    BY <1>0, <2>1, FreshKept DEF FreshLabels
  <2> QED
    BY <1>1, <1>5, <2>2, RowsStay DEF Still, SettleDraft, store
<1> QED
  BY <1>2, <1>3, <1>4, <1>5 DEF SendStep

(* The sweep parks what is still open.                                       *)
LEMMA ParkPromise ==
    ASSUME TurnInv, Filing, Ledgered, Ledgered', Fresh' = Fresh, NEW w \in Resumers, Park(w)
    PROVE  \E M \in SUBSET Sends : Ledger!Park(M)
<1>0. TypeOK
  BY DEF Filing
<1>1. UNCHANGED <<copies, sentBox>>
  BY DEF Park, world
<1>2. /\ Present' = Present
      /\ \A i \in Stranded(w) : /\ i \in Present /\ rows[i].state = "pending_send"
                                /\ rows'[i].msg = rows[i].msg /\ rows'[i].state = "failed"
      /\ \A i \in Present : i \notin Stranded(w) => rows'[i] = rows[i]
  BY ParkShape DEF Present
<1>3. PICK M : M = {rows[i].msg : i \in Stranded(w)}
  OBVIOUS
<1>4. M \subseteq Sends
  BY <1>0, <1>2, <1>3, RowTyped
<1>5. ASSUME NEW m \in M PROVE Stage[m] = "open" /\ Stage'[m] = "parked"
  <2>1. PICK i \in Stranded(w) : m = rows[i].msg
    BY <1>3, <1>5
  <2>2. /\ i \in Present /\ i \in Present' /\ rows'[i].msg = m
        /\ rows[i].state = "pending_send" /\ rows'[i].state = "failed"
    BY <1>2, <2>1
  <2>3. Stage[m] = StageOf(rows[i]) /\ Stage'[m] = StageOf(rows'[i])
    BY <2>1, <2>2 DEF Ledgered, RowStages
  <2> QED
    BY <2>2, <2>3, StageOfState
<1>6. ASSUME NEW n \in Sends, n \notin M PROVE Stage'[n] = Stage[n]
  <2>1. CASE \E j \in Present : rows[j].msg = n
    <3>1. PICK j \in Present : rows[j].msg = n
      BY <2>1
    <3>2. j \notin Stranded(w)
      BY <1>3, <1>6, <3>1
    <3> QED
      BY <1>2, <3>1, <3>2 DEF Ledgered, RowStages
  <2>2. CASE \A j \in Present : rows[j].msg # n
    <3>1. \A j \in Present' : rows'[j].msg # n
      BY <1>2, <2>2
    <3> QED
      BY <2>2, <3>1 DEF Ledgered, Rowless
  <2> QED
    BY <2>1, <2>2
<1>7. Stage' = [n \in Sends |-> IF n \in M THEN "parked" ELSE Stage[n]]
  BY <1>5, <1>6, StageMoved
<1> QED
  BY <1>1, <1>4, <1>5, <1>7 DEF Ledger!Park

LEMMA ResumePromise ==
    ASSUME TurnInv, Filing, Ledgered, Ledgered', NEW w \in Resumers, ResumeStep(w) \/ Tick(w)
    PROVE  Still \/ \E M \in SUBSET Sends : Ledger!Park(M)
<1>0. TypeOK /\ w \in Actors /\ w \notin Sends
  BY ActorKinds DEF Filing, Actors
<1>1. UNCHANGED <<copies, sentBox>>
  BY DEF ResumeStep, Tick, Sweep, Park, SkipRow, ClaimRow, RetireDraftOfRow, EndResubmit, world
<1>2. Fresh' = Fresh
  <2>1. PICK l : pc' = [pc EXCEPT ![w] = l] \/ pc' = pc
    BY DEF ResumeStep, Tick, Sweep, Park, SkipRow, ClaimRow, RetireDraftOfRow, EndResubmit, Goto
  <2> QED
    BY <1>0, <2>1, FreshKept
<1>3. Park(w) \/ rows' = rows
  BY DEF ResumeStep, Tick, Sweep, SkipRow, ClaimRow, RetireDraftOfRow, EndResubmit, store
<1> QED
  BY <1>1, <1>2, <1>3, ParkPromise, RowsStay DEF Still

(* A parked row struck out.                                                  *)
LEMMA DiscardPromise ==
    ASSUME TurnInv, Filing, Ledgered, Ledgered', NEW i \in Ids, Discard(i)
    PROVE  \E m \in Sends : Ledger!Discard(m)
<1>0. TypeOK
  BY DEF Filing
<1>1. i \in Present /\ rows[i].state = "failed"
  BY DEF Discard, InState, TurnInv, TurnHeld
<1>2. Present' = Present \ {i} /\ \A j \in Present' : rows'[j] = rows[j]
  BY <1>0, <1>1 DEF Discard, TypeOK, Present
<1>3. UNCHANGED <<copies, sentBox>> /\ Fresh' = Fresh
  BY DEF Discard, world, Fresh
<1>4. PICK m \in Sends : m = rows[i].msg
  BY <1>0, <1>1, RowTyped
<1>5. Stage[m] = "parked"
  BY <1>1, <1>4, StageOfState DEF Ledgered, RowStages
<1>6. Stage'[m] = "gone"
  <2>1. \A j \in Present' : rows'[j].msg # m
    BY <1>1, <1>2, <1>4 DEF Filing, OneRowPerMessage
  <2>2. m \notin Fresh
    BY <1>1, <1>4 DEF Filing, FreshUnknown
  <2> QED
    BY <1>3, <2>1, <2>2 DEF Ledgered, Rowless
<1>7. ASSUME NEW n \in Sends, n # m PROVE Stage'[n] = Stage[n]
  <2>1. CASE \E j \in Present : rows[j].msg = n
    BY <1>2, <1>4, <1>7, <2>1 DEF Ledgered, RowStages
  <2>2. CASE \A j \in Present : rows[j].msg # n
    BY <1>2, <1>3, <2>2 DEF Ledgered, Rowless
  <2> QED
    BY <2>1, <2>2
<1>8. Stage' = [Stage EXCEPT ![m] = "gone"]
  BY <1>6, <1>7, StageSet
<1> QED
  BY <1>3, <1>5, <1>8 DEF Ledger!Discard

(* A send that a crash ends before it enqueued was no message.               *)
LEMMA CrashPromise ==
    ASSUME Filing, Ledgered, Ledgered', Crash
    PROVE  \E M \in SUBSET Sends : Ledger!TurnAway(M)
<1>1. PICK M : M = {s \in Fresh : pc[s] # "idle"}
  OBVIOUS
<1>2. Fresh' = Fresh \ M
  BY <1>1, ActorKinds DEF Crash, Fresh
<1>3. rows' = rows /\ UNCHANGED <<copies, sentBox>>
  BY DEF Crash, store, world
<1>4. M \in SUBSET Sends /\ M \subseteq Fresh
  BY <1>1 DEF Fresh
<1> QED
  BY <1>2, <1>3, <1>4, TurnedAway

LEMMA StillWhen ==
    ASSUME Ledgered, Ledgered', UNCHANGED <<rows, pc, copies, sentBox>>
    PROVE  Still
  BY RowsStay DEF Still, Fresh

-----------------------------------------------------------------------------
LEMMA PromiseStep ==
    ASSUME TurnInv, Filing, Filing', Ledgered, Ledgered', [Next]_vars
    PROVE  [Ledger!Next]_(Ledger!vars)
<1>1. ASSUME NEW a \in Actors, Submit(a) PROVE [Ledger!Next]_(Ledger!vars)
  <2>1. CASE Mark(a) \/ FailClean(a) \/ Record(a) \/ Transition(a) \/ Ingest(a) \/ Complete(a)
    BY <2>1, SubmitPromise, StillSteps
  <2>2. ASSUME NEW r \in Recipients, NEW v \in Verdicts, Speak(a, r, v)
        PROVE  [Ledger!Next]_(Ledger!vars)
    BY <2>2, SpeakPromise, StillSteps
  <2> QED
    BY <1>1, <2>1, <2>2 DEF Submit
<1>2. ASSUME NEW a \in Actors, Drain(a) PROVE [Ledger!Next]_(Ledger!vars)
  BY <1>2, DrainPromise, StillSteps
<1>3. ASSUME NEW s \in Sends, SendStep(s) PROVE [Ledger!Next]_(Ledger!vars)
  BY <1>3, SendPromise, StillSteps
<1>4. ASSUME NEW w \in Resumers, ResumeStep(w) \/ Tick(w) PROVE [Ledger!Next]_(Ledger!vars)
  BY <1>4, ResumePromise, StillSteps
<1>5. ASSUME NEW w \in Resumers, SyncRun(w) PROVE FALSE
  BY <1>5 DEF SyncRun, TurnInv, TurnHeld
<1>6. ASSUME NEW w \in Resumers, NEW i \in Ids, Retry(w, i) PROVE FALSE
  BY <1>6 DEF Retry, TurnInv, TurnHeld
<1>7. ASSUME NEW i \in Ids, Discard(i) PROVE [Ledger!Next]_(Ledger!vars)
  BY <1>7, DiscardPromise, StillSteps
<1>8. ASSUME NEW d \in Drafts, Reapprove(d) PROVE [Ledger!Next]_(Ledger!vars)
  BY <1>8, StillWhen, StillSteps DEF Reapprove, store, world
<1>9. CASE Crash
  BY <1>9, CrashPromise, StillSteps
<1>10. CASE UNCHANGED vars
  BY <1>10, StillWhen, StillSteps DEF vars
<1> QED
  BY <1>1, <1>2, <1>3, <1>4, <1>5, <1>6, <1>7, <1>8, <1>9, <1>10 DEF Next

(* PromiseKept: under the turn the outbox implements DurableSend: its first  *)
(* state is an empty ledger, and every step of a send, a resume, a drain,    *)
(* the operator or a crash is a step of the ledger or none (send.rs,         *)
(* outbox.rs).                                                               *)
THEOREM PromiseKept == TurnHeld /\ Spec => KeepsItsPromise
<1>1. Init => Ledger!Init
  <2> SUFFICES ASSUME Init PROVE Ledger!Init
    OBVIOUS
  <2>1. Present = {} /\ \A s \in Sends : pc[s] = "idle"
    BY ActorKinds DEF Init, Present
  <2>2. \A m \in Sends : RowsOf(m) = {}
    BY <2>1 DEF RowsOf
  <2>3. Stage = [m \in Sends |-> "new"]
    BY <2>1, <2>2 DEF Stage
  <2> QED
    BY <2>3 DEF Init, Ledger!Init
<1>2. TurnInv /\ Filing /\ Filing' /\ Ledgered /\ Ledgered' /\ [Next]_vars
        => [Ledger!Next]_(Ledger!vars)
  BY PromiseStep
<1>3. Filing => Ledgered
  BY LedgerRows
<1> QED
  BY <1>1, <1>2, <1>3, TurnInvariant, FilingInvariant, PTL DEF Spec, KeepsItsPromise, Ledger!Spec

=============================================================================

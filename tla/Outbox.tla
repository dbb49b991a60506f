------------------------------- MODULE Outbox -------------------------------
(***************************************************************************)
(* The durable send path of one account: the outbox rows (src/outbox.rs),   *)
(* the live sends that create them and the resumes that finish them         *)
(* (src/send.rs), and the operator's retry and discard                      *)
(* (src/daemon/methods/send.rs).                                            *)
(*                                                                          *)
(* A message is named by the send that built it: every build mints a fresh  *)
(* Message-ID, and a send builds once.  One step is one committed store     *)
(* transaction, one answer of a server, or one change of an in-process lock,*)
(* so every await and every commit is a point where another actor may run.  *)
(***************************************************************************)
EXTENDS Naturals, FiniteSets

CONSTANTS
    Sends,         \* the send operations clients ask for, each run at most once
    Resumers,      \* the tasks that run resume_outbox
    Drafts,        \* the draft files
    DraftOf,       \* the draft a send is built from, None for an invitation
    Recipients,    \* the addresses of a message
    Ids,           \* the row ids, 1..n
    HoldsTurn,     \* the sends of mirrored drafts: they hold the runtime's turn
    TurnResumers,  \* the resumers that hold it: the tick and the drainer
    SaveSettings,  \* whether a queued row is owed a copy in Sent: the settings in use
    DiscardStates, \* the row states in which the operator discards a row
    Reapproves,    \* whether the user sets a partly delivered draft back to approved
    MaxAttempts,   \* bound: a server stops failing a row after so many attempts
    MaxCrashes,    \* bound on the crashes of the daemon
    MaxRetries,    \* bound on the operator's retries
    None           \* no draft, no row, no holder

ASSUME ActorsAssumption == Sends \cap Resumers = {} /\ None \notin Sends \cup Resumers
ASSUME DraftOfAssumption == DraftOf \in [Sends -> Drafts \cup {None}] /\ None \notin Drafts
ASSUME IdsAssumption == Ids \subseteq Nat /\ None \notin Ids
ASSUME FlagsAssumption == SaveSettings \subseteq BOOLEAN /\ Reapproves \in BOOLEAN
ASSUME BoundsAssumption == {MaxAttempts, MaxCrashes, MaxRetries} \subseteq Nat

VARIABLES
    rows,      \* the outbox table
    refs,      \* references held on the raw blob of each message
    localCopy, \* whether the message has its local Sent copy (a messages row)
    file,      \* the draft files
    slot,      \* SENDING: the draft or row slot an actor holds
    turn,      \* who holds the runtime's turn
    gate,      \* who holds the account's engine lock
    pc,        \* where an actor is
    cur,       \* the row an actor is working on, as it has it in memory
    snap,      \* the rows an actor read in its last SELECT
    copies,    \* how often each recipient got each message
    sentBox,   \* how many copies of each message the Sent mailbox holds
    crashes, retries, \* counters of the bounds
    rearmed,   \* history: messages the operator re-armed
    released   \* history: drafts the user or the operator allowed to be sent again

store   == <<rows, refs, localCopy>>
world   == <<copies, sentBox>>
history == <<crashes, retries, rearmed, released>>
vars == <<rows, refs, localCopy, file, slot, turn, gate, pc, cur, snap, copies,
          sentBox, crashes, retries, rearmed, released>>

Actors == Sends \cup Resumers

States == {"pending_send", "sent_pending_append", "done", "failed"}
Open   == {"pending_send", "sent_pending_append"}

Row == [msg : Sends, state : States, target : BOOLEAN, marker : BOOLEAN, attempts : Nat,
        delivered : SUBSET Recipients, rejected : SUBSET Recipients]

ASSUME NoneAssumption == None \notin Row

Verdicts == {"none", "delivered", "rejected", "retryable", "ambiguous"}

(* What an actor holds in memory: the row it works on, the recipients it    *)
(* has still to submit to, the verdicts so far, the outcome of its APPEND,  *)
(* whether this drain pass completed a row, whether it overrides backoffs,  *)
(* and the Message-ID the draft file named when it was read.                *)
Cur == [id : Ids \cup {None}, row : Row \cup {None}, todo : SUBSET Recipients,
        said : [Recipients -> Verdicts], filed : BOOLEAN, progress : BOOLEAN,
        now : BOOLEAN, sentAs : Sends \cup {None}]

NoCur == [id |-> None, row |-> None, todo |-> {},
          said |-> [r \in Recipients |-> "none"], filed |-> FALSE,
          progress |-> FALSE, now |-> FALSE, sentAs |-> None]

File == [status : {"approved", "sent", "retired"}, sentAs : Sends \cup {None}]

-----------------------------------------------------------------------------
(* The table and the gates read from it. *)

Present == {i \in Ids : rows[i] # None}

InState(S) == {i \in Present : rows[i].state \in S}

RowsOfDraft(d) == {i \in Present : DraftOf[rows[i].msg] = d}

(* find_active_submission: the rows that own a draft. *)
ActiveRows(d) == RowsOfDraft(d) \cap InState(Open)

Newest(S) == CHOOSE i \in S : \A j \in S : j <= i

(* The next row of the SELECT an actor is walking through, oldest first. *)
Oldest(a, e) == e \in snap[a] /\ \A f \in snap[a] : e.id <= f.id

(* A gate that knows the finished row and forgets the ambiguous one. *)
RefusesDoneOnly(d, sentAs) ==
    /\ RowsOfDraft(d) # {}
    /\ LET row == rows[Newest(RowsOfDraft(d))] IN row.state = "done" /\ sentAs # row.msg

(* refuse_a_finished_draft. *)
RefusesFinished(d, sentAs) ==
    /\ RowsOfDraft(d) # {}
    /\ LET row == rows[Newest(RowsOfDraft(d))]
       IN  \/ row.state = "done" /\ sentAs # row.msg
           \/ row.state = "failed" /\ row.marker

(* The id SQLite gives an inserted row: one more than the largest in use. *)
IsNextId(i) ==
    /\ \A j \in Present : j < i
    /\ \A k \in Ids : k < i => \E j \in Present : k <= j

Everybody(row) == Recipients  \* a resume that submits to the whole address list

(* Envelope::outstanding. *)
Outstanding(row) == Recipients \ (row.delivered \cup row.rejected)

(* SendAdmission::claim_row: the draft's slot, or one of the row's own. *)
SlotOf(id, row) == IF DraftOf[row.msg] # None THEN DraftOf[row.msg] ELSE id

(* A send or a resume in this process holds the slot. *)
Claimed(key) == \E a \in Actors : slot[a] = key

Snapshot(S) == {[id |-> i, row |-> rows[i]] : i \in S}

(* UPDATE ... WHERE id: no row, no effect; the row's state is not looked at. *)
Updated(i, row) == IF rows[i] = None THEN rows ELSE [rows EXCEPT ![i] = row]

Goto(a, l) == pc' = [pc EXCEPT ![a] = l]

TurnFree == turn = None

GateIgnored == TRUE  \* a drain that takes no lock (#0116)
GateFree == gate = None

(* A send returns: its slot and its turn are dropped. *)
Ended(s) ==
    /\ Goto(s, "ended")
    /\ slot' = [slot EXCEPT ![s] = None]
    /\ turn' = IF turn = s THEN None ELSE turn
    /\ cur' = [cur EXCEPT ![s] = NoCur]

-----------------------------------------------------------------------------
Init ==
    /\ rows = [i \in Ids |-> None]
    /\ refs = [m \in Sends |-> 0]
    /\ localCopy = [m \in Sends |-> FALSE]
    /\ file = [d \in Drafts |-> [status |-> "approved", sentAs |-> None]]
    /\ slot = [a \in Actors |-> None]
    /\ turn = None
    /\ gate = None
    /\ pc = [a \in Actors |-> "idle"]
    /\ cur = [a \in Actors |-> NoCur]
    /\ snap = [a \in Actors |-> {}]
    /\ copies = [m \in Sends |-> [r \in Recipients |-> 0]]
    /\ sentBox = [m \in Sends |-> 0]
    /\ crashes = 0 /\ retries = 0
    /\ rearmed = {} /\ released = {}

-----------------------------------------------------------------------------
(* A live send: send_one, send_draft, send_durably. *)

(* The turn of a mirrored draft's send, then the draft is parsed. *)
StartSend(s) ==
    /\ pc[s] = "idle"
    /\ s \in HoldsTurn => TurnFree
    /\ turn' = IF s \in HoldsTurn THEN s ELSE turn
    /\ LET d == DraftOf[s] IN
       IF d = None
       THEN Goto(s, "enqueue") /\ UNCHANGED cur
       ELSE /\ file[d].status = "approved"
            /\ Goto(s, "claim")
            /\ cur' = [cur EXCEPT ![s].sentAs = file[d].sentAs]
    /\ UNCHANGED <<store, file, slot, gate, snap, world, history>>

(* The slot in SENDING, and the check of the draft's newest row. *)
ClaimDraft(s) ==
    /\ pc[s] = "claim"
    /\ IF Claimed(DraftOf[s]) \/ RefusesFinished(DraftOf[s], cur[s].sentAs)
       THEN Ended(s)
       ELSE /\ slot' = [slot EXCEPT ![s] = DraftOf[s]]
            /\ Goto(s, "enqueue")
            /\ UNCHANGED <<turn, cur>>
    /\ UNCHANGED <<store, file, gate, snap, world, history>>

(* The IMMEDIATE transaction of enqueue: the gate, the row, the blob. *)
Enqueue(s) ==
    /\ pc[s] = "enqueue"
    /\ \/ /\ DraftOf[s] # None /\ ActiveRows(DraftOf[s]) # {}
          /\ Ended(s)
          /\ UNCHANGED store
       \/ /\ DraftOf[s] = None \/ ActiveRows(DraftOf[s]) = {}
          /\ \E i \in Ids, target \in SaveSettings :
               LET row == [msg |-> s, state |-> "pending_send", target |-> target,
                           marker |-> FALSE, attempts |-> 0,
                           delivered |-> {}, rejected |-> {}]
               IN /\ IsNextId(i)
                  /\ rows' = [rows EXCEPT ![i] = row]
                  /\ cur' = [cur EXCEPT ![s] = [@ EXCEPT !.id = i, !.row = row,
                                                          !.todo = Recipients]]
          /\ refs' = [refs EXCEPT ![s] = @ + 1]
          /\ Goto(s, "mark")
          /\ UNCHANGED <<localCopy, slot, turn>>
    /\ UNCHANGED <<file, gate, snap, world, history>>

-----------------------------------------------------------------------------
(* The submission, by a live send (submit_durably) or a resume              *)
(* (resubmit_row): the marker, one SMTP envelope per recipient, the record. *)

(* Where an actor goes when its submission is over, and the state it left   *)
(* the row in: a live send files the copies now owed, then retires its      *)
(* draft; a resume retires the row's draft and takes its next row.          *)
Submitted(a, state) ==
    Goto(a, IF a \in Sends /\ state = "sent_pending_append" THEN "settle" ELSE "retire")

(* A submission that ends in an error: the live send returns it, the resume *)
(* logs it.                                                                 *)
SubmitFailed(a) ==
    IF a \in Sends THEN Ended(a) ELSE Goto(a, "retire") /\ UNCHANGED <<slot, turn, cur>>

Unmarked(i) == rows  \* the marker is not committed
Marked(i) == [rows EXCEPT ![i].marker = TRUE]

(* mark_submission_started. *)
Mark(a) ==
    /\ pc[a] = "mark"
    /\ LET i == cur[a].id IN
       IF i \in InState({"pending_send"})
       THEN /\ rows' = Marked(i)
            /\ Goto(a, "smtp")
            /\ UNCHANGED <<slot, turn, cur>>
       ELSE SubmitFailed(a) /\ UNCHANGED rows
    /\ UNCHANGED <<refs, localCopy, file, gate, snap, world, history>>

MayFail(i) == i \in Present => rows[i].attempts < MaxAttempts

(* One recipient's SMTP conversation (submit_through).  No verdict means    *)
(* the message may have been taken.                                         *)
Speak(a, r, v) ==
    /\ pc[a] = "smtp"
    /\ r \in cur[a].todo
    /\ v = "retryable" => MayFail(cur[a].id)
    /\ cur' = [cur EXCEPT ![a].todo = @ \ {r}, ![a].said[r] = v]
    /\ \/ /\ v \in {"delivered", "ambiguous"}
          /\ copies' = [copies EXCEPT ![cur[a].row.msg][r] = @ + 1]
       \/ /\ v \in {"rejected", "retryable", "ambiguous"}
          /\ UNCHANGED copies
    /\ UNCHANGED <<store, file, slot, turn, gate, pc, snap, sentBox, history>>

(* submit fails before the first connection: record_submission(Clean...).   *)
FailClean(a) ==
    /\ pc[a] = "smtp"
    /\ cur[a].todo # {} /\ \A r \in Recipients : cur[a].said[r] = "none"
    /\ MayFail(cur[a].id)
    /\ LET i == cur[a].id IN
       rows' = IF i \in InState({"pending_send"})
               THEN [rows EXCEPT ![i].attempts = @ + 1, ![i].marker = FALSE]
               ELSE rows
    /\ SubmitFailed(a)
    /\ UNCHANGED <<refs, localCopy, file, gate, snap, world, history>>

Said(a, v) == {r \in Recipients : cur[a].said[r] = v}

(* The row's envelope with the verdicts of this pass folded in: a delivery  *)
(* wins over an earlier refusal, a refusal never over a delivery.           *)
Folded(row, a) ==
    LET took == row.delivered \cup Said(a, "delivered")
    IN  [row EXCEPT !.delivered = took,
                    !.rejected = (@ \cup Said(a, "rejected")) \ took]

(* record_submission, first commit: the row is loaded and its state         *)
(* checked, and the verdicts go into its envelope.                          *)
Record(a) ==
    /\ pc[a] = "smtp"
    /\ cur[a].todo = {}
    /\ LET i == cur[a].id IN
       \/ /\ i \notin Present
          /\ SubmitFailed(a)
          /\ UNCHANGED rows
       \/ /\ i \in Present /\ rows[i].state # "pending_send"
          /\ Submitted(a, rows[i].state)
          /\ UNCHANGED <<rows, slot, turn, cur>>
       \/ /\ i \in InState({"pending_send"})
          /\ rows' = [rows EXCEPT ![i] = Folded(@, a)]
          /\ cur' = [cur EXCEPT ![a].row = Folded(rows[i], a)]
          /\ Goto(a, "transition")
          /\ UNCHANGED <<slot, turn>>
    /\ UNCHANGED <<refs, localCopy, file, gate, snap, world, history>>

(* An attempt counter that runs the wrong way. *)
CountsDown(row, env, a) ==
    IF Outstanding(env) # {} THEN [row EXCEPT !.attempts = @ - 1, !.marker = FALSE]
    ELSE [row EXCEPT !.state = "failed"]

(* What record_per_recipient makes of a row whose envelope is env: parked,  *)
(* kept for another pass, refused by everybody, or sent.                    *)
AfterPass(row, env, a) ==
    CASE Said(a, "ambiguous") # {} -> [row EXCEPT !.state = "failed"]
      [] Said(a, "ambiguous") = {} /\ Outstanding(env) # {} ->
            [row EXCEPT !.attempts = @ + 1, !.marker = FALSE]
      [] Said(a, "ambiguous") = {} /\ Outstanding(env) = {} /\ env.delivered = {} ->
            [row EXCEPT !.state = "failed", !.marker = FALSE]
      [] OTHER -> [row EXCEPT !.state = "sent_pending_append"]

(* record_per_recipient, second commit.  The UPDATE names the row by its id *)
(* alone; without a Sent mailbox to append to the row is finished at once.  *)
Transition(a) ==
    /\ pc[a] = "transition"
    /\ LET i     == cur[a].id
           state == AfterPass(cur[a].row, cur[a].row, a).state
       IN  IF state = "sent_pending_append" /\ ~cur[a].row.target
           THEN Goto(a, "ingest") /\ UNCHANGED rows
           ELSE /\ rows' = Updated(i, AfterPass(rows[i], cur[a].row, a))
                /\ Submitted(a, state)
    /\ UNCHANGED <<refs, localCopy, file, slot, turn, gate, cur, snap, world, history>>

(* Bytes that can be read and are not yet those of a local copy. *)
AlwaysNew(m) == refs[m] > 0
NewLocalCopy(m) == refs[m] > 0 /\ ~localCopy[m]

(* finish_done, first commit: the local Sent copy, which takes a reference  *)
(* of its own on the bytes it reads.  Bytes that are gone leave no copy.    *)
Ingest(a) ==
    /\ pc[a] = "ingest"
    /\ LET m == cur[a].row.msg IN
       IF NewLocalCopy(m)
       THEN /\ localCopy' = [localCopy EXCEPT ![m] = TRUE]
            /\ refs' = [refs EXCEPT ![m] = @ + 1]
       ELSE UNCHANGED <<localCopy, refs>>
    /\ Goto(a, "complete")
    /\ UNCHANGED <<rows, file, slot, turn, gate, cur, snap, world, history>>

(* BlobStore::release: a reference nobody holds is not an error. *)
Released(m) == [refs EXCEPT ![m] = IF @ > 0 THEN @ - 1 ELSE 0]

(* finish_done, second commit: done, and the outbox's reference released.   *)
(* It ends a submission, or one row of the drain that holds the gate.       *)
Complete(a) ==
    /\ pc[a] = "complete"
    /\ rows' = Updated(cur[a].id, [rows[cur[a].id] EXCEPT !.state = "done"])
    /\ refs' = Released(cur[a].row.msg)
    /\ IF gate = a
       THEN Goto(a, "drain") /\ cur' = [cur EXCEPT ![a].progress = TRUE]
       ELSE Submitted(a, "done") /\ UNCHANGED cur
    /\ UNCHANGED <<localCopy, file, slot, turn, gate, snap, world, history>>

-----------------------------------------------------------------------------
(* The draft file of a message that went out: marked sent, and moved away   *)
(* once every recipient has it.                                             *)

(* A file moved away although somebody was refused. *)
RetiredAnyway(d, m, fully) ==
    file' = [file EXCEPT ![d] = [status |-> "retired", sentAs |-> m]]

Retired(d, m, fully) ==
    file' = IF file[d].status = "retired" THEN file
            ELSE [file EXCEPT ![d] = [status |-> IF fully THEN "retired" ELSE "sent",
                                      sentAs |-> m]]

(* settle_sent_draft, by what this pass was told; then the send returns. *)
SettleDraft(s) ==
    /\ pc[s] = "retire"
    /\ s \in Sends
    /\ IF DraftOf[s] # None /\ Said(s, "delivered") # {}
       THEN Retired(DraftOf[s], s, Said(s, "delivered") = Recipients)
       ELSE UNCHANGED file
    /\ Ended(s)
    /\ UNCHANGED <<store, gate, snap, world, history>>

(* retire_draft_of_row, by what the row says; then the slot is dropped. *)
RetireDraftOfRow(w) ==
    /\ pc[w] = "retire"
    /\ w \in Resumers
    /\ LET i == cur[w].id IN
       IF i \in Present /\ DraftOf[rows[i].msg] # None
          /\ (rows[i].state \in {"done", "sent_pending_append"} \/ rows[i].delivered # {})
       THEN Retired(DraftOf[rows[i].msg], rows[i].msg,
                    /\ rows[i].state \in {"done", "sent_pending_append"}
                    /\ rows[i].rejected = {})
       ELSE UNCHANGED file
    /\ slot' = [slot EXCEPT ![w] = None]
    /\ cur' = [cur EXCEPT ![w] = [NoCur EXCEPT !.now = cur[w].now]]
    /\ Goto(w, "resubmit")
    /\ UNCHANGED <<store, turn, gate, snap, world, history>>

-----------------------------------------------------------------------------
(* The drain of the Sent copies (drain_account_at, drain_guarded_at, drain),*)
(* by the live send that wants its own copy filed or by a resume.           *)

(* Back to the send, which settles its draft, or the end of the resume. *)
Settled(a) ==
    IF a \in Sends
    THEN Goto(a, "retire") /\ UNCHANGED <<cur, turn>>
    ELSE /\ Goto(a, "idle")
         /\ cur' = [cur EXCEPT ![a] = NoCur]
         /\ turn' = IF turn = a THEN None ELSE turn

Drained(a) == gate' = None /\ snap' = [snap EXCEPT ![a] = {}] /\ Settled(a)

(* Nothing open, or somebody else drains: not this caller's work. *)
TakeGate(a) ==
    /\ pc[a] = "settle"
    /\ IF GateFree /\ InState(Open) # {}
       THEN /\ gate' = a
            /\ snap' = [snap EXCEPT ![a] = Snapshot(InState({"sent_pending_append"}))]
            /\ Goto(a, "drain")
            /\ UNCHANGED <<cur, turn>>
       ELSE Settled(a) /\ UNCHANGED <<gate, snap>>
    /\ UNCHANGED <<store, file, slot, world, history>>

Attempted(i) == [rows EXCEPT ![i].attempts = @ + 1]

(* The next row of the pass: begin_append_attempt counts the attempt before *)
(* it goes out.  A row that left the state is somebody else's.              *)
BeginAppend(a) ==
    /\ pc[a] = "drain"
    /\ \E e \in snap[a] :
       /\ Oldest(a, e)
       /\ snap' = [snap EXCEPT ![a] = @ \ {e}]
       /\ IF e.id \in InState({"sent_pending_append"})
          THEN /\ rows' = Attempted(e.id)
               /\ cur' = [cur EXCEPT ![a] = [@ EXCEPT !.id = e.id, !.row = e.row]]
               /\ Goto(a, "append")
          ELSE UNCHANGED <<rows, cur, pc>>
    /\ UNCHANGED <<refs, localCopy, file, slot, turn, gate, world, history>>

(* A row still in its backoff waits for a later pass. *)
SkipAppend(a) ==
    /\ pc[a] = "drain"
    /\ \E e \in snap[a] :
       /\ Oldest(a, e)
       /\ e.row.attempts > 0 /\ ~cur[a].now
       /\ snap' = [snap EXCEPT ![a] = @ \ {e}]
    /\ UNCHANGED <<store, file, slot, turn, gate, pc, cur, world, history>>

(* append_once: an attempt that is not the row's first looks in the Sent    *)
(* mailbox before it appends.  A failed APPEND may have landed.             *)
AppendOnce(a, filed) ==
    /\ pc[a] = "append"
    /\ ~filed => MayFail(cur[a].id)
    /\ LET m         == cur[a].row.msg
           attempted == cur[a].row.attempts > 0
           found     == attempted /\ sentBox[m] > 0
           lands     == sentBox' = [sentBox EXCEPT ![m] = @ + 1]
       IN \/ filed /\ found /\ UNCHANGED sentBox
          \/ filed /\ ~found /\ refs[m] > 0 /\ lands
          \/ ~filed /\ UNCHANGED sentBox
          \/ ~filed /\ ~found /\ refs[m] > 0 /\ lands
    /\ cur' = [cur EXCEPT ![a].filed = filed]
    /\ Goto(a, "filed")
    /\ UNCHANGED <<store, file, slot, turn, gate, snap, copies, history>>

Filed(a) == cur[a].filed

(* record_append: only a row still waiting for one is completed, and the    *)
(* row completed is the one loaded now.  A row that is gone ends the drain. *)
RecordAppend(a) ==
    /\ pc[a] = "filed"
    /\ LET i == cur[a].id IN
       IF i \notin Present
       THEN Drained(a)
       ELSE /\ IF rows[i].state = "sent_pending_append" /\ Filed(a)
               THEN Goto(a, "ingest") /\ cur' = [cur EXCEPT ![a].row = rows[i]]
               ELSE /\ Goto(a, "drain")
                    /\ cur' = [cur EXCEPT ![a].progress = @ \/ rows[i].state = "done"]
            /\ UNCHANGED <<gate, snap, turn>>
    /\ UNCHANGED <<store, file, slot, world, history>>

(* The end of a pass: the drain sweeps again while it gets somewhere. *)
EndPass(a) ==
    /\ pc[a] = "drain"
    /\ snap[a] = {}
    /\ IF cur[a].progress
       THEN /\ snap' = [snap EXCEPT ![a] = Snapshot(InState({"sent_pending_append"}))]
            /\ cur' = [cur EXCEPT ![a].progress = FALSE]
            /\ UNCHANGED <<pc, gate, turn>>
       ELSE Drained(a)
    /\ UNCHANGED <<store, file, slot, world, history>>

-----------------------------------------------------------------------------
(* A resume (resume_outbox_at): sweep, resubmit, drain. *)

(* The tick and the drainer, which wait for the runtime's turn. *)
Tick(w) ==
    /\ pc[w] = "idle" /\ w \in TurnResumers
    /\ TurnFree
    /\ turn' = w
    /\ Goto(w, "sweep")
    /\ UNCHANGED <<store, file, slot, gate, cur, snap, world, history>>

(* sync.run drains at both ends of its pass, outside the turn. *)
SyncRun(w) ==
    /\ pc[w] = "idle" /\ w \in Resumers \ TurnResumers
    /\ Goto(w, "sweep")
    /\ UNCHANGED <<store, file, slot, turn, gate, cur, snap, world, history>>

(* send.outbox_retry, one at a time: a failed row is re-armed, and the      *)
(* resume that follows looks at no backoff.                                 *)
Retry(w, i) ==
    /\ pc[w] = "idle" /\ w \in Resumers \ TurnResumers
    /\ \A v \in Resumers : ~cur[v].now
    /\ retries < MaxRetries /\ retries' = retries + 1
    /\ \/ /\ i \in InState({"failed"})
          /\ rows' = [rows EXCEPT ![i].state = "pending_send", ![i].marker = FALSE]
          /\ rearmed' = rearmed \cup {rows[i].msg}
       \/ /\ i \in InState({"sent_pending_append"}) /\ rows[i].attempts > 0
          /\ UNCHANGED <<rows, rearmed>>
    /\ cur' = [cur EXCEPT ![w].now = TRUE]
    /\ Goto(w, "sweep")
    /\ UNCHANGED <<refs, localCopy, file, slot, turn, gate, snap, world, crashes, released>>

(* sweep_pending_sends: the pending rows are read, ... *)
Sweep(w) ==
    /\ pc[w] = "sweep"
    /\ snap' = [snap EXCEPT ![w] = Snapshot(InState({"pending_send"}))]
    /\ Goto(w, "park")
    /\ UNCHANGED <<store, file, slot, turn, gate, cur, world, history>>

NothingStranded(w) == {}  \* a sweep that leaves a marked row as it is
Stranded(w) == {e.id : e \in {f \in snap[w] : f.row.marker}} \cap InState({"pending_send"})

(* ... those read with a marker are parked if they are still pending, and   *)
(* those read without one are the rows to submit.                           *)
Park(w) ==
    /\ pc[w] = "park"
    /\ rows' = [i \in Ids |-> IF i \in Stranded(w)
                              THEN [rows[i] EXCEPT !.state = "failed"]
                              ELSE rows[i]]
    /\ snap' = [snap EXCEPT ![w] = {e \in @ : ~e.row.marker}]
    /\ Goto(w, "resubmit")
    /\ UNCHANGED <<refs, localCopy, file, slot, turn, gate, cur, world, history>>

(* A row whose draft a send in this process still holds is left alone, and  *)
(* so is one in its backoff.                                                *)
SkipRow(w) ==
    /\ pc[w] = "resubmit"
    /\ \E e \in snap[w] :
       /\ Oldest(w, e)
       /\ Claimed(SlotOf(e.id, e.row)) \/ (e.row.attempts > 0 /\ ~cur[w].now)
       /\ snap' = [snap EXCEPT ![w] = @ \ {e}]
    /\ UNCHANGED <<store, file, slot, turn, gate, pc, cur, world, history>>

(* resubmit_row: the slot is claimed and the bytes are read; a row with     *)
(* nobody left to submit to only needs its transition.                      *)
ClaimRow(w) ==
    /\ pc[w] = "resubmit"
    /\ \E e \in snap[w] :
       /\ Oldest(w, e)
       /\ ~Claimed(SlotOf(e.id, e.row))
       /\ slot' = [slot EXCEPT ![w] = SlotOf(e.id, e.row)]
       /\ snap' = [snap EXCEPT ![w] = @ \ {e}]
       /\ cur' = [cur EXCEPT ![w] = [@ EXCEPT !.id = e.id, !.row = e.row,
                                              !.todo = Outstanding(e.row)]]
       /\ Goto(w, IF Outstanding(e.row) = {} THEN "smtp"
                  ELSE IF refs[e.row.msg] > 0 THEN "mark"
                  ELSE "retire")
    /\ UNCHANGED <<store, file, turn, gate, world, history>>

EndResubmit(w) ==
    /\ pc[w] = "resubmit"
    /\ snap[w] = {}
    /\ Goto(w, "settle")
    /\ UNCHANGED <<store, file, slot, turn, gate, cur, snap, world, history>>

-----------------------------------------------------------------------------
(* The operator, the user, and a crash of the daemon. *)

(* send.outbox_discard, refused while a send or a resume holds the slot.    *)
(* A done row has released its reference already.                           *)
Discard(i) ==
    /\ i \in InState(DiscardStates)
    /\ ~Claimed(SlotOf(i, rows[i]))
    /\ rows' = [rows EXCEPT ![i] = None]
    /\ refs' = IF rows[i].state = "done" THEN refs ELSE Released(rows[i].msg)
    /\ released' = released \cup ({DraftOf[rows[i].msg]} \ {None})
    /\ UNCHANGED <<localCopy, file, slot, turn, gate, pc, cur, snap, world,
                   crashes, retries, rearmed>>

(* The documented re-send after a partial delivery: status set back. *)
Reapprove(d) ==
    /\ Reapproves
    /\ file[d].status = "sent"
    /\ file' = [file EXCEPT ![d].status = "approved"]
    /\ released' = released \cup {d}
    /\ UNCHANGED <<store, slot, turn, gate, pc, cur, snap, world, crashes, retries, rearmed>>

(* Everything in memory is lost; a send in flight is not run again. *)
Crash ==
    /\ crashes < MaxCrashes /\ crashes' = crashes + 1
    /\ \E a \in Actors : pc[a] \notin {"idle", "ended"}
    /\ pc' = [a \in Actors |-> IF a \in Resumers \/ pc[a] = "idle" THEN "idle" ELSE "ended"]
    /\ slot' = [a \in Actors |-> None]
    /\ turn' = None /\ gate' = None
    /\ cur' = [a \in Actors |-> NoCur]
    /\ snap' = [a \in Actors |-> {}]
    /\ UNCHANGED <<store, file, world, retries, rearmed, released>>

-----------------------------------------------------------------------------
Submit(a) ==
    \/ Mark(a) \/ FailClean(a) \/ Record(a) \/ Transition(a) \/ Ingest(a) \/ Complete(a)
    \/ \E r \in Recipients, v \in Verdicts \ {"none"} : Speak(a, r, v)

Drain(a) ==
    \/ TakeGate(a) \/ BeginAppend(a) \/ SkipAppend(a) \/ RecordAppend(a) \/ EndPass(a)
    \/ \E filed \in BOOLEAN : AppendOnce(a, filed)

SendStep(s) ==
    \/ StartSend(s) \/ ClaimDraft(s) \/ Enqueue(s) \/ SettleDraft(s)

ResumeStep(w) ==
    \/ Sweep(w) \/ Park(w) \/ SkipRow(w) \/ ClaimRow(w) \/ RetireDraftOfRow(w)
    \/ EndResubmit(w)

Next ==
    \/ \E a \in Actors : Submit(a) \/ Drain(a)
    \/ \E s \in Sends : SendStep(s)
    \/ \E w \in Resumers : ResumeStep(w) \/ Tick(w) \/ SyncRun(w)
    \/ \E w \in Resumers, i \in Ids : Retry(w, i)
    \/ \E i \in Ids : Discard(i)
    \/ \E d \in Drafts : Reapprove(d)
    \/ Crash

Spec == Init /\ [][Next]_vars

(* The runtime is asked for a pass again and again and its turn is a fair   *)
(* lock; a task that was started runs on; and a backoff is at most          *)
(* BACKOFF_MAX_SECS, so a row skipped again and again is due in the end.    *)
Fairness ==
    /\ \A s \in Sends : WF_vars(ClaimDraft(s) \/ Enqueue(s) \/ Submit(s) \/ SettleDraft(s))
    /\ \A w \in TurnResumers : SF_vars(Tick(w))
    /\ \A w \in Resumers : WF_vars(ResumeStep(w) \/ Submit(w)) /\ SF_vars(ClaimRow(w))
    /\ \A a \in Actors : WF_vars(Drain(a)) /\ SF_vars(BeginAppend(a))

FairSpec == Spec /\ Fairness

-----------------------------------------------------------------------------
Labels == {"idle", "claim", "enqueue", "mark", "smtp", "transition", "ingest", "complete",
           "settle", "drain", "append", "filed", "retire", "ended", "sweep", "park", "resubmit"}

Keys == Drafts \cup Ids

(* TypeOK: the type invariant. *)
TypeOK ==
    /\ rows \in [Ids -> Row \cup {None}]
    /\ refs \in [Sends -> Nat]
    /\ localCopy \in [Sends -> BOOLEAN]
    /\ file \in [Drafts -> File]
    /\ slot \in [Actors -> Keys \cup {None}]
    /\ turn \in Actors \cup {None}
    /\ gate \in Actors \cup {None}
    /\ pc \in [Actors -> Labels]
    /\ cur \in [Actors -> Cur]
    /\ snap \in [Actors -> SUBSET [id : Ids, row : Row]]
    /\ copies \in [Sends -> [Recipients -> Nat]]
    /\ sentBox \in [Sends -> Nat]
    /\ crashes \in Nat /\ retries \in Nat
    /\ rearmed \subseteq Sends
    /\ released \subseteq Drafts

(* DeliveredOnce: SMTP runs at most once per message and recipient          *)
(* (outbox.rs, "Exactly once"): a recipient is sent a message again only if *)
(* the operator re-armed its row.                                           *)
DeliveredOnce == \A m \in Sends, r \in Recipients : copies[m][r] > 1 => m \in rearmed

(* NeverSpokenToTwice: a recipient whose 250 is recorded in the row's       *)
(* envelope gets no further copy, from a resume or from a retry.            *)
NeverSpokenToTwice ==
    [][\A i \in Present : \A r \in rows[i].delivered :
          copies'[rows[i].msg][r] = copies[rows[i].msg][r]]_vars

(* DraftSentOnce: a draft is one message however often send is pressed: two *)
(* messages of one draft reach people only if the user set the draft back   *)
(* or the operator discarded the earlier row.                               *)
DraftSentOnce ==
    \A m, n \in Sends :
        /\ m # n /\ DraftOf[m] # None /\ DraftOf[m] = DraftOf[n]
        /\ \E r \in Recipients : copies[m][r] > 0
        /\ \E r \in Recipients : copies[n][r] > 0
        => DraftOf[m] \in released

(* SentCopyOnce: however many drains, crashes and lost answers, the Sent    *)
(* mailbox holds a message at most once (#0116).                            *)
SentCopyOnce == \A m \in Sends : sentBox[m] <= 1

(* RetiredIsDelivered: a draft file is moved away only when every recipient *)
(* of the message it was sent as has it.                                    *)
RetiredIsDelivered ==
    \A d \in Drafts : file[d].status = "retired" =>
        \A r \in Recipients : copies[file[d].sentAs][r] > 0

OutboxRefs(m) == Cardinality({i \in Present : rows[i].msg = m /\ rows[i].state # "done"})

(* BlobsAccounted: the raw bytes carry one reference for a row that is not  *)
(* done and one for the local Sent copy, so neither loses them to the other.*)
BlobsAccounted ==
    \A m \in Sends : refs[m] = OutboxRefs(m) + (IF localCopy[m] THEN 1 ELSE 0)

(* OpenRowSettles: whatever crashes and failures, a committed row is done,  *)
(* parked for the operator, or discarded in the end.                        *)
OpenRowSettles ==
    \A i \in Ids : i \in InState(Open) ~> i \notin InState(Open)

=============================================================================

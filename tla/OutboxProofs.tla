---------------------------- MODULE OutboxProofs ----------------------------
(***************************************************************************)
(* What holds of the outbox for every number of sends, resumes, drafts,     *)
(* recipients, rows, crashes and attempts.                                  *)
(*                                                                          *)
(* First, with or without the turn and whatever the operator discards: its  *)
(* type, and that the Sent mailbox holds a message at most once.            *)
(*                                                                          *)
(* Then, while whoever sends or resumes holds the runtime's turn: nobody    *)
(* gets a message twice, a draft is moved away only when everybody has it,  *)
(* and its bytes are accounted for.  With one actor at work at a time the   *)
(* rest of the invariant says how far that actor's memory may be trusted:   *)
(* its row is in the state it works on, whoever may have the message is in  *)
(* the row's envelope, among the verdicts or covered by the marker, and     *)
(* everybody else has nothing in memory.                                    *)
(***************************************************************************)
EXTENDS Outbox, FiniteSetTheorems, TLAPS

-----------------------------------------------------------------------------
(* The records: what a step writes into a row, or into what an actor has in *)
(* memory, leaves it of its type.                                           *)

USE ActorsAssumption, DraftOfAssumption, IdsAssumption, FlagsAssumption

(* What the transitions of outbox.rs write into a row leaves it a row.      *)
LEMMA RowUpdates ==
    /\ \A r \in Row, state \in States : [r EXCEPT !.state = state] \in Row
    /\ \A r \in Row, b \in BOOLEAN : [r EXCEPT !.marker = b] \in Row
    /\ \A r \in Row, state \in States, b \in BOOLEAN :
           [r EXCEPT !.state = state, !.marker = b] \in Row
    /\ \A r \in Row, n \in Nat : [r EXCEPT !.attempts = n] \in Row
    /\ \A r \in Row, n \in Nat, b \in BOOLEAN : [r EXCEPT !.attempts = n, !.marker = b] \in Row
<1>1. \A r \in Row, state \in States : [r EXCEPT !.state = state] \in Row
  BY DEF Row
<1>2. \A r \in Row, b \in BOOLEAN : [r EXCEPT !.marker = b] \in Row
  BY DEF Row
<1>3. \A r \in Row, state \in States, b \in BOOLEAN :
           [r EXCEPT !.state = state, !.marker = b] \in Row
  BY DEF Row
<1>4. \A r \in Row, n \in Nat : [r EXCEPT !.attempts = n] \in Row
  BY DEF Row
<1>5. \A r \in Row, n \in Nat, b \in BOOLEAN : [r EXCEPT !.attempts = n, !.marker = b] \in Row
  BY DEF Row
<1> QED
  BY <1>1, <1>2, <1>3, <1>4, <1>5

(* What an actor changes in memory keeps its shape.                         *)
LEMMA CurUpdates ==
    /\ \A c \in Cur, m \in Sends \cup {None} : [c EXCEPT !.sentAs = m] \in Cur
    /\ \A c \in Cur, row \in Row : [c EXCEPT !.row = row] \in Cur
    /\ \A c \in Cur, b \in BOOLEAN : [c EXCEPT !.filed = b] \in Cur
    /\ \A c \in Cur, b \in BOOLEAN : [c EXCEPT !.progress = b] \in Cur
    /\ \A c \in Cur, b \in BOOLEAN : [c EXCEPT !.now = b] \in Cur
    /\ \A c \in Cur, i \in Ids, row \in Row : [c EXCEPT !.id = i, !.row = row] \in Cur
<1>1. \A c \in Cur, m \in Sends \cup {None} : [c EXCEPT !.sentAs = m] \in Cur
  BY DEF Cur
<1>2. \A c \in Cur, row \in Row : [c EXCEPT !.row = row] \in Cur
  BY DEF Cur
<1>3. \A c \in Cur, b \in BOOLEAN : [c EXCEPT !.filed = b] \in Cur
  BY DEF Cur
<1>4. \A c \in Cur, b \in BOOLEAN : [c EXCEPT !.progress = b] \in Cur
  BY DEF Cur
<1>5. \A c \in Cur, b \in BOOLEAN : [c EXCEPT !.now = b] \in Cur
  BY DEF Cur
<1>6. \A c \in Cur, i \in Ids, row \in Row : [c EXCEPT !.id = i, !.row = row] \in Cur
  BY DEF Cur
<1> QED
  BY <1>1, <1>2, <1>3, <1>4, <1>5, <1>6

(* The same when a resume takes up a row.                                   *)
LEMMA WorkTyped ==
    \A c \in Cur, i \in Ids, row \in Row, R \in SUBSET Recipients :
        [c EXCEPT !.id = i, !.row = row, !.todo = R] \in Cur
  BY DEF Cur

(* An actor with no work has nothing of the wrong type in memory.           *)
LEMMA NoCurTyped == NoCur \in Cur
  BY DEF NoCur, Cur, Verdicts

(* A recipient's verdict keeps what a submission has in memory typed.       *)
LEMMA SpeakTyped ==
    ASSUME NEW c \in Cur, NEW r \in Recipients, NEW v \in Verdicts
    PROVE  [c EXCEPT !.todo = c.todo \ {r}, !.said[r] = v] \in Cur
<1>1. c.todo \ {r} \in SUBSET Recipients
  BY DEF Cur
<1>2. [c.said EXCEPT ![r] = v] \in [Recipients -> Verdicts]
  BY DEF Cur
<1>3. ASSUME NEW T \in SUBSET Recipients, NEW S \in [Recipients -> Verdicts]
      PROVE  [c EXCEPT !.todo = T, !.said = S] \in Cur
  BY DEF Cur
<1>4. [c EXCEPT !.todo = c.todo \ {r}, !.said[r] = v]
        = [c EXCEPT !.todo = c.todo \ {r}, !.said = [c.said EXCEPT ![r] = v]]
  BY DEF Cur
<1> QED
  BY <1>1, <1>2, <1>3, <1>4

-----------------------------------------------------------------------------
(* The type invariant, one lemma for each kind of actor. *)

(* A row that is there is a row, of a message.                              *)
LEMMA RowTyped ==
    ASSUME TypeOK, NEW i \in Present
    PROVE  /\ i \in Ids
           /\ rows[i] \in Row
           /\ rows[i].msg \in Sends /\ rows[i].attempts + 1 \in Nat
  BY DEF TypeOK, Present, Row

(* What a SELECT returned is rows under their ids.                          *)
LEMMA SnapTyped ==
    ASSUME TypeOK, NEW a \in Actors, NEW e \in snap[a]
    PROVE  /\ e.id \in Ids /\ e.row \in Row
           /\ e.row.msg \in Sends /\ Outstanding(e.row) \in SUBSET Recipients
           /\ SlotOf(e.id, e.row) \in Keys
<1>1. e \in [id : Ids, row : Row]
  BY DEF TypeOK
<1>2. e.id \in Ids /\ e.row \in Row
  BY <1>1
<1>3. e.row.msg \in Sends
  BY <1>2 DEF Row
<1> QED
  BY <1>2, <1>3 DEF Outstanding, SlotOf, Keys

(* What an actor has in memory has its type, and its row its message.       *)
LEMMA CurTyped ==
    ASSUME TypeOK, NEW a \in Actors
    PROVE  /\ cur \in [Actors -> Cur] /\ cur[a] \in Cur
           /\ cur[a].row # None => cur[a].row \in Row /\ cur[a].row.msg \in Sends
<1>1. cur[a] \in Cur
  BY DEF TypeOK
<1>2. cur[a].row \in Row \cup {None}
  BY <1>1 DEF Cur
<1> QED
  BY <1>1, <1>2 DEF TypeOK, Row

(* A SELECT over rows that are there returns rows.                          *)
LEMMA SnapshotTyped ==
    ASSUME TypeOK, NEW S, S \subseteq Present
    PROVE  Snapshot(S) \subseteq [id : Ids, row : Row]
<1>1. ASSUME NEW i \in S PROVE [id |-> i, row |-> rows[i]] \in [id : Ids, row : Row]
  BY RowTyped
<1> QED
  BY <1>1 DEF Snapshot

(* A send is an actor and no resume.                                        *)
LEMMA ActorKinds == \A a \in Sends : a \in Actors /\ a \notin Resumers
  BY DEF Actors

(* An actor that goes on stands at a label.                                  *)
LEMMA GotoTyped ==
    ASSUME TypeOK, NEW a, NEW l \in Labels, Goto(a, l)
    PROVE  pc' \in [Actors -> Labels]
  BY DEF Goto, TypeOK

(* A send that returns leaves slots, turn and memory typed.                 *)
LEMMA EndedTyped ==
    ASSUME TypeOK, NEW s \in Actors, Ended(s)
    PROVE  /\ pc' \in [Actors -> Labels] /\ slot' \in [Actors -> Keys \cup {None}]
           /\ turn' \in Actors \cup {None} /\ cur' \in [Actors -> Cur]
  BY NoCurTyped DEF TypeOK, Ended, Goto, Labels

(* So does a submission that ends in an error.                              *)
LEMMA SubmitFailedTyped ==
    ASSUME TypeOK, NEW a \in Actors, SubmitFailed(a)
    PROVE  /\ pc' \in [Actors -> Labels] /\ slot' \in [Actors -> Keys \cup {None}]
           /\ turn' \in Actors \cup {None} /\ cur' \in [Actors -> Cur]
<1>1. CASE a \in Sends
  BY <1>1, EndedTyped DEF SubmitFailed
<1>2. CASE a \notin Sends
  BY <1>2 DEF SubmitFailed, TypeOK, Goto, Labels
<1> QED
  BY <1>1, <1>2

(* record_per_recipient turns a row into a row.                             *)
LEMMA AfterPassTyped ==
    ASSUME NEW row \in Row, NEW env, NEW a
    PROVE  AfterPass(row, env, a) \in Row
<1>1. row.attempts + 1 \in Nat
  BY DEF Row
<1>2. /\ [row EXCEPT !.state = "failed"] \in Row
      /\ [row EXCEPT !.attempts = @ + 1, !.marker = FALSE] \in Row
      /\ [row EXCEPT !.state = "failed", !.marker = FALSE] \in Row
      /\ [row EXCEPT !.state = "sent_pending_append"] \in Row
  BY <1>1, RowUpdates DEF States
<1> HIDE DEF Row
<1> QED
  BY <1>2, Zenon DEF AfterPass

(* Folding a pass's verdicts into the envelope leaves a row.                *)
LEMMA FoldedTyped ==
    ASSUME NEW row \in Row, NEW a
    PROVE  Folded(row, a) \in Row
<1> DEFINE took == row.delivered \cup Said(a, "delivered")
           refused == (row.rejected \cup Said(a, "rejected")) \ took
<1>1. took \in SUBSET Recipients /\ refused \in SUBSET Recipients
  BY DEF Row, Said
<1>2. Folded(row, a) = [row EXCEPT !.delivered = took, !.rejected = refused]
  BY DEF Folded
<1> HIDE DEF took, refused
<1>3. [row EXCEPT !.delivered = took, !.rejected = refused] \in Row
  BY <1>1 DEF Row
<1> QED
  BY <1>2, <1>3

(* The steps of a live send of their own keep the types.                    *)
LEMMA SendTyping ==
    ASSUME TypeOK, NEW s \in Sends, SendStep(s)
    PROVE  TypeOK'
<1> USE ActorKinds
<1>1. CASE StartSend(s)
  <2>1. cur' \in [Actors -> Cur]
    <3>1. CASE DraftOf[s] = None
      BY <1>1, <3>1 DEF StartSend, TypeOK
    <3>2. CASE DraftOf[s] # None
      <4> DEFINE m == file[DraftOf[s]].sentAs
      <4>1. m \in Sends \cup {None}
        BY <3>2 DEF TypeOK, File
      <4>2. cur' = [cur EXCEPT ![s] = [cur[s] EXCEPT !.sentAs = m]]
        BY <1>1, <3>2 DEF StartSend
      <4> HIDE DEF m
      <4>3. [cur[s] EXCEPT !.sentAs = m] \in Cur
        BY <4>1, CurTyped, CurUpdates
      <4> QED
        BY <4>2, <4>3, CurTyped
    <3> QED
      BY <3>1, <3>2
  <2>2. pc' \in [Actors -> Labels]
    <3>1. PICK l \in {"claim", "enqueue"} : Goto(s, l)
      BY <1>1 DEF StartSend
    <3>2. l \in Labels
      BY <3>1 DEF Labels
    <3> QED
      BY <3>1, <3>2, GotoTyped
  <2> QED
    BY <1>1, <2>1, <2>2 DEF StartSend, TypeOK, store, world, history
<1>2. CASE ClaimDraft(s)
  <2>1. /\ pc' \in [Actors -> Labels] /\ slot' \in [Actors -> Keys \cup {None}]
        /\ turn' \in Actors \cup {None} /\ cur' \in [Actors -> Cur]
    <3>1. CASE Ended(s)
      BY <3>1, EndedTyped
    <3>2. CASE ~Ended(s)
      <4>1. /\ slot' = [slot EXCEPT ![s] = DraftOf[s]] /\ Goto(s, "enqueue")
            /\ UNCHANGED <<turn, cur>>
        BY <1>2, <3>2 DEF ClaimDraft
      <4>2. DraftOf[s] \in Keys \cup {None} /\ "enqueue" \in Labels
        BY DEF Keys, Labels
      <4>3. pc' \in [Actors -> Labels]
        BY <4>1, <4>2, GotoTyped
      <4> QED
        BY <4>1, <4>2, <4>3 DEF TypeOK
    <3> QED
      BY <3>1, <3>2
  <2> QED
    BY <1>2, <2>1 DEF ClaimDraft, TypeOK, store, world, history
<1>3. CASE Enqueue(s)
  <2>1. CASE Ended(s) /\ UNCHANGED store
    BY <1>3, <2>1, EndedTyped DEF Enqueue, TypeOK, store, world, history
  <2>2. CASE ~(Ended(s) /\ UNCHANGED store)
    <3>1. PICK i \in Ids, target \in SaveSettings :
            LET row == [msg |-> s, state |-> "pending_send", target |-> target,
                        marker |-> FALSE, attempts |-> 0,
                        delivered |-> {}, rejected |-> {}]
            IN /\ IsNextId(i)
               /\ rows' = [rows EXCEPT ![i] = row]
               /\ cur' = [cur EXCEPT ![s] = [@ EXCEPT !.id = i, !.row = row,
                                                      !.todo = Recipients]]
      BY <1>3, <2>2 DEF Enqueue
    <3> DEFINE row == [msg |-> s, state |-> "pending_send", target |-> target,
                       marker |-> FALSE, attempts |-> 0,
                       delivered |-> {}, rejected |-> {}]
    <3>2. row \in Row
      BY DEF Row, States
    <3>3. /\ rows' = [rows EXCEPT ![i] = row]
          /\ cur' = [cur EXCEPT ![s] = [cur[s] EXCEPT !.id = i, !.row = row,
                                                      !.todo = Recipients]]
      BY <3>1
    <3> HIDE DEF row
    <3>4. cur' \in [Actors -> Cur]
      BY <3>2, <3>3, CurTyped, WorkTyped
    <3>5. rows' \in [Ids -> Row \cup {None}]
      BY <3>2, <3>3 DEF TypeOK
    <3>6. refs' = [refs EXCEPT ![s] = @ + 1] /\ Goto(s, "mark")
      BY <1>3, <2>2 DEF Enqueue
    <3>7. refs' \in [Sends -> Nat] /\ pc' \in [Actors -> Labels]
      BY <3>6 DEF TypeOK, Goto, Labels
    <3> QED
      BY <1>3, <2>2, <3>4, <3>5, <3>7 DEF Enqueue, TypeOK, world, history
  <2> QED
    BY <2>1, <2>2
<1>4. CASE SettleDraft(s)
  <2>1. file' \in [Drafts -> File]
    <3>1. CASE DraftOf[s] # None
      <4>1. \A st \in {"retired", "sent"} : [status |-> st, sentAs |-> s] \in File
        BY DEF File
      <4> QED
        BY <1>4, <3>1, <4>1 DEF SettleDraft, Retired, TypeOK
    <3>2. CASE DraftOf[s] = None
      BY <1>4, <3>2 DEF SettleDraft, TypeOK
    <3> QED
      BY <3>1, <3>2
  <2>2. Ended(s)
    BY <1>4 DEF SettleDraft
  <2> QED
    BY <1>4, <2>1, <2>2, EndedTyped DEF SettleDraft, TypeOK, store, world, history
<1> QED
  BY <1>1, <1>2, <1>3, <1>4 DEF SendStep

(* A reference taken or released leaves the counts natural numbers.         *)
LEMMA RefsTyped ==
    ASSUME TypeOK, NEW m
    PROVE  [refs EXCEPT ![m] = @ + 1] \in [Sends -> Nat] /\ Released(m) \in [Sends -> Nat]
<1>1. CASE m \in Sends
  <2>1. refs[m] + 1 \in Nat /\ (IF refs[m] > 0 THEN refs[m] - 1 ELSE 0) \in Nat
    BY <1>1 DEF TypeOK
  <2> QED
    BY <1>1, <2>1 DEF TypeOK, Released
<1>2. CASE m \notin Sends
  BY <1>2 DEF TypeOK, Released
<1> QED
  BY <1>1, <1>2

(* The end of a drain keeps the types.                                      *)
LEMMA SettledTyped ==
    ASSUME TypeOK, NEW a \in Actors, Settled(a)
    PROVE  /\ pc' \in [Actors -> Labels] /\ cur' \in [Actors -> Cur]
           /\ turn' \in Actors \cup {None}
<1>1. pc' \in [Actors -> Labels]
  BY DEF Settled, TypeOK, Goto, Labels
<1>2. cur' \in [Actors -> Cur]
  BY NoCurTyped DEF Settled, TypeOK
<1>3. turn' \in Actors \cup {None}
  BY DEF Settled, TypeOK
<1> QED
  BY <1>1, <1>2, <1>3

(* The steps of a submission keep the types.                                *)
LEMMA SubmitTyping ==
    ASSUME TypeOK, NEW a \in Actors, Submit(a)
    PROVE  TypeOK'
<1> DEFINE i == cur[a].id
<1>1. CASE Mark(a)
  <2>1. rows' \in [Ids -> Row \cup {None}]
    <3>1. CASE i \in InState({"pending_send"})
      <4>1. [rows[i] EXCEPT !.marker = TRUE] \in Row
        BY <3>1, RowTyped, RowUpdates DEF InState
      <4>2. rows' = [rows EXCEPT ![i] = [rows[i] EXCEPT !.marker = TRUE]]
        BY <1>1, <3>1 DEF Mark, Marked
      <4> QED
        BY <4>1, <4>2 DEF TypeOK
    <3>2. CASE i \notin InState({"pending_send"})
      BY <1>1, <3>2 DEF Mark, TypeOK
    <3> QED
      BY <3>1, <3>2
  <2>2. /\ pc' \in [Actors -> Labels] /\ slot' \in [Actors -> Keys \cup {None}]
        /\ turn' \in Actors \cup {None} /\ cur' \in [Actors -> Cur]
    <3>1. CASE SubmitFailed(a)
      BY <3>1, SubmitFailedTyped
    <3>2. CASE ~SubmitFailed(a)
      BY <1>1, <3>2 DEF Mark, TypeOK, Goto, Labels
    <3> QED
      BY <3>1, <3>2
  <2> QED
    BY <1>1, <2>1, <2>2 DEF Mark, TypeOK, world, history
<1>2. CASE FailClean(a)
  <2>1. rows' \in [Ids -> Row \cup {None}]
    <3>1. CASE i \in InState({"pending_send"})
      <4>1. [rows[i] EXCEPT !.attempts = @ + 1, !.marker = FALSE] \in Row
        BY <3>1, RowTyped, RowUpdates DEF InState
      <4>2. rows' = [rows EXCEPT ![i] = [rows[i] EXCEPT !.attempts = @ + 1, !.marker = FALSE]]
        BY <1>2, <3>1 DEF FailClean
      <4> QED
        BY <4>1, <4>2 DEF TypeOK
    <3>2. CASE i \notin InState({"pending_send"})
      BY <1>2, <3>2 DEF FailClean, TypeOK
    <3> QED
      BY <3>1, <3>2
  <2>2. SubmitFailed(a)
    BY <1>2 DEF FailClean
  <2> QED
    BY <1>2, <2>1, <2>2, SubmitFailedTyped DEF FailClean, TypeOK, world, history
<1>3. CASE Record(a)
  <2>1. CASE i \notin Present
    <3>1. SubmitFailed(a) /\ UNCHANGED rows
      BY <1>3, <2>1 DEF Record, InState
    <3> QED
      BY <1>3, <3>1, SubmitFailedTyped DEF Record, TypeOK, world, history
  <2>2. CASE i \in Present /\ rows[i].state # "pending_send"
    <3>1. Submitted(a, rows[i].state) /\ UNCHANGED <<rows, slot, turn, cur>>
      BY <1>3, <2>2 DEF Record, InState
    <3> QED
      BY <1>3, <3>1 DEF Record, TypeOK, world, history, Submitted, Goto, Labels
  <2>3. CASE i \in InState({"pending_send"})
    <3>1. Folded(rows[i], a) \in Row
      BY <2>3, RowTyped, FoldedTyped DEF InState
    <3>2. /\ rows' = [rows EXCEPT ![i] = Folded(rows[i], a)]
          /\ cur' = [cur EXCEPT ![a] = [cur[a] EXCEPT !.row = Folded(rows[i], a)]]
          /\ Goto(a, "transition") /\ UNCHANGED <<slot, turn>>
      BY <1>3, <2>3 DEF Record, InState
    <3>3. cur' \in [Actors -> Cur]
      BY <3>1, <3>2, CurTyped, CurUpdates
    <3>4. rows' \in [Ids -> Row \cup {None}]
      BY <3>1, <3>2 DEF TypeOK
    <3> QED
      BY <1>3, <3>2, <3>3, <3>4 DEF Record, TypeOK, world, history, Goto, Labels
  <2> QED
    BY <2>1, <2>2, <2>3 DEF InState
<1>4. CASE Transition(a)
  <2>1. rows' \in [Ids -> Row \cup {None}]
    <3>1. ASSUME rows' # rows
          PROVE  rows[i] # None /\ rows' = [rows EXCEPT ![i] = AfterPass(rows[i], cur[a].row, a)]
      BY <1>4, <3>1 DEF Transition, Updated
    <3>2. ASSUME i \in Present PROVE AfterPass(rows[i], cur[a].row, a) \in Row
      BY <3>2, RowTyped, AfterPassTyped
    <3> QED
      BY <3>1, <3>2 DEF TypeOK, Present
  <2>2. pc' \in [Actors -> Labels]
    <3>1. PICK l \in {"ingest", "settle", "retire"} : Goto(a, l)
      BY <1>4 DEF Transition, Submitted
    <3>2. l \in Labels
      BY <3>1 DEF Labels
    <3> QED
      BY <3>1, <3>2, GotoTyped
  <2> QED
    BY <1>4, <2>1, <2>2 DEF Transition, TypeOK, world, history
<1>5. CASE Ingest(a)
  <2>1. refs' \in [Sends -> Nat]
    BY <1>5, RefsTyped DEF Ingest, TypeOK
  <2>2. localCopy' \in [Sends -> BOOLEAN]
    BY <1>5 DEF Ingest, TypeOK
  <2> QED
    BY <1>5, <2>1, <2>2 DEF Ingest, TypeOK, world, history, Goto, Labels
<1>6. CASE Complete(a)
  <2>1. rows' \in [Ids -> Row \cup {None}]
    <3>1. ASSUME i \in Present PROVE [rows[i] EXCEPT !.state = "done"] \in Row
      BY <3>1, RowTyped, RowUpdates DEF States
    <3> QED
      BY <1>6, <3>1 DEF Complete, Updated, TypeOK, Present
  <2>2. cur' \in [Actors -> Cur]
    <3>1. cur' = cur \/ cur' = [cur EXCEPT ![a] = [cur[a] EXCEPT !.progress = TRUE]]
      BY <1>6 DEF Complete
    <3>2. cur \in [Actors -> Cur] /\ cur[a] \in Cur
      BY CurTyped
    <3>3. [cur[a] EXCEPT !.progress = TRUE] \in Cur
      BY <3>2, CurUpdates
    <3> QED
      BY <3>1, <3>2, <3>3
  <2>3. refs' \in [Sends -> Nat]
    BY <1>6, RefsTyped DEF Complete
  <2>4. pc' \in [Actors -> Labels]
    <3>1. \E l \in {"drain", "settle", "retire"} : Goto(a, l)
      BY <1>6 DEF Complete, Submitted
    <3> QED
      BY <3>1 DEF Goto, TypeOK, Labels
  <2> QED
    BY <1>6, <2>1, <2>2, <2>3, <2>4 DEF Complete, TypeOK, world, history
<1>7. ASSUME NEW r \in Recipients, NEW v \in Verdicts \ {"none"}, Speak(a, r, v)
      PROVE  TypeOK'
  <2>1. cur' \in [Actors -> Cur]
    <3> DEFINE c == [cur[a] EXCEPT !.todo = cur[a].todo \ {r}, !.said[r] = v]
    <3>1. cur' = [cur EXCEPT ![a] = c]
      <4>1. cur' = [cur EXCEPT ![a].todo = @ \ {r}, ![a].said[r] = v]
        BY <1>7 DEF Speak
      <4> QED
        BY <4>1
    <3>2. c \in Cur
      BY CurTyped, SpeakTyped
    <3> HIDE DEF c
    <3> QED
      BY <3>1, <3>2, CurTyped
  <2>2. copies' \in [Sends -> [Recipients -> Nat]]
    <3> DEFINE m == cur[a].row.msg
    <3>1. copies' = copies \/ copies' = [copies EXCEPT ![m][r] = @ + 1]
      BY <1>7, Zenon DEF Speak
    <3>2. CASE m \in Sends
      <4>1. copies[m] \in [Recipients -> Nat] /\ copies[m][r] + 1 \in Nat
        BY <3>2 DEF TypeOK
      <4>2. [copies[m] EXCEPT ![r] = @ + 1] \in [Recipients -> Nat]
        BY <4>1
      <4>3. copies' = copies \/ copies' = [copies EXCEPT ![m] = [copies[m] EXCEPT ![r] = @ + 1]]
        BY <3>1, Zenon
      <4> HIDE DEF m
      <4> QED
        BY <3>2, <4>2, <4>3 DEF TypeOK
    <3>3. CASE m \notin Sends
      <4> HIDE DEF m
      <4> QED
        BY <3>1, <3>3 DEF TypeOK
    <3> QED
      BY <3>2, <3>3
  <2> QED
    BY <1>7, <2>1, <2>2 DEF Speak, TypeOK, store, history
<1> QED
  BY <1>1, <1>2, <1>3, <1>4, <1>5, <1>6, <1>7 DEF Submit

(* The steps of a drain keep the types.                                     *)
LEMMA DrainTyping ==
    ASSUME TypeOK, NEW a \in Actors, Drain(a)
    PROVE  TypeOK'
<1>1. Snapshot(InState({"sent_pending_append"})) \subseteq [id : Ids, row : Row]
  BY SnapshotTyped DEF InState
<1>3. CASE TakeGate(a)
  <2>1. CASE Settled(a) /\ UNCHANGED <<gate, snap>>
    BY <1>3, <2>1, SettledTyped DEF TakeGate, TypeOK, store, world, history
  <2>2. CASE ~(Settled(a) /\ UNCHANGED <<gate, snap>>)
    <3>1. /\ gate' = a
          /\ snap' = [snap EXCEPT ![a] = Snapshot(InState({"sent_pending_append"}))]
          /\ Goto(a, "drain")
          /\ UNCHANGED <<cur, turn>>
      BY <1>3, <2>2, Zenon DEF TakeGate
    <3> QED
      BY <1>1, <1>3, <3>1 DEF TakeGate, TypeOK, store, world, history, Goto, Labels
  <2> QED
    BY <2>1, <2>2
<1>4. CASE BeginAppend(a)
  <2>1. PICK e \in snap[a] :
          /\ snap' = [snap EXCEPT ![a] = @ \ {e}]
          /\ IF e.id \in InState({"sent_pending_append"})
             THEN /\ rows' = Attempted(e.id)
                  /\ cur' = [cur EXCEPT ![a] = [@ EXCEPT !.id = e.id, !.row = e.row]]
                  /\ Goto(a, "append")
             ELSE UNCHANGED <<rows, cur, pc>>
    BY <1>4 DEF BeginAppend
  <2>2. rows' \in [Ids -> Row \cup {None}] /\ cur' \in [Actors -> Cur] /\ pc' \in [Actors -> Labels]
    <3>1. CASE e.id \in InState({"sent_pending_append"})
      <4>1. [rows[e.id] EXCEPT !.attempts = @ + 1] \in Row
        BY <3>1, RowTyped, RowUpdates DEF InState
      <4>2. rows' = [rows EXCEPT ![e.id] = [rows[e.id] EXCEPT !.attempts = @ + 1]]
        BY <2>1, <3>1 DEF Attempted
      <4>3. [cur[a] EXCEPT !.id = e.id, !.row = e.row] \in Cur
        BY CurTyped, SnapTyped, CurUpdates
      <4>4. cur' = [cur EXCEPT ![a] = [cur[a] EXCEPT !.id = e.id, !.row = e.row]]
        BY <2>1, <3>1
      <4>5. cur' \in [Actors -> Cur]
        BY <4>3, <4>4, CurTyped
      <4>6. rows' \in [Ids -> Row \cup {None}]
        BY <4>1, <4>2 DEF TypeOK
      <4> QED
        BY <2>1, <3>1, <4>5, <4>6 DEF TypeOK, Goto, Labels
    <3>2. CASE e.id \notin InState({"sent_pending_append"})
      BY <2>1, <3>2 DEF TypeOK
    <3> QED
      BY <3>1, <3>2
  <2> QED
    BY <1>4, <2>1, <2>2 DEF BeginAppend, TypeOK, world, history
<1>5. CASE SkipAppend(a)
  BY <1>5 DEF SkipAppend, TypeOK, store, world, history
<1>6. CASE RecordAppend(a)
  <2>1. CASE cur[a].id \notin Present
    <3>1. Drained(a)
      BY <1>6, <2>1, Zenon DEF RecordAppend
    <3> QED
      BY <1>6, <3>1, SettledTyped DEF RecordAppend, Drained, TypeOK, store, world, history
  <2>2. CASE cur[a].id \in Present
    <3> DEFINE row == rows[cur[a].id]
               progress == cur[a].progress \/ row.state = "done"
    <3>1. \/ cur' = [cur EXCEPT ![a] = [cur[a] EXCEPT !.row = row]]
          \/ cur' = [cur EXCEPT ![a] = [cur[a] EXCEPT !.progress = progress]]
      BY <1>6, <2>2 DEF RecordAppend
    <3>2. row \in Row /\ progress \in BOOLEAN
      BY <2>2, RowTyped, CurTyped DEF Cur
    <3> HIDE DEF row, progress
    <3>3. cur' \in [Actors -> Cur]
      <4>1. /\ [cur[a] EXCEPT !.row = row] \in Cur
            /\ [cur[a] EXCEPT !.progress = progress] \in Cur
        BY <3>2, CurTyped, CurUpdates
      <4> QED
        BY <3>1, <4>1, CurTyped
    <3>4. pc' \in [Actors -> Labels]
      <4>1. \E l \in {"ingest", "drain"} : Goto(a, l)
        BY <1>6, <2>2 DEF RecordAppend
      <4> QED
        BY <4>1 DEF TypeOK, Goto, Labels
    <3> QED
      BY <1>6, <2>2, <3>3, <3>4 DEF RecordAppend, TypeOK, store, world, history
  <2> QED
    BY <2>1, <2>2
<1>7. CASE EndPass(a)
  <2>1. CASE Drained(a)
    BY <1>7, <2>1, SettledTyped DEF EndPass, Drained, TypeOK, store, world, history
  <2>2. CASE ~Drained(a)
    <3>1. /\ snap' = [snap EXCEPT ![a] = Snapshot(InState({"sent_pending_append"}))]
          /\ cur' = [cur EXCEPT ![a] = [cur[a] EXCEPT !.progress = FALSE]]
          /\ UNCHANGED <<pc, gate, turn>>
      BY <1>7, <2>2 DEF EndPass
    <3>2. [cur[a] EXCEPT !.progress = FALSE] \in Cur
      BY CurTyped, CurUpdates
    <3> QED
      BY <1>1, <1>7, <3>1, <3>2 DEF EndPass, TypeOK, store, world, history
  <2> QED
    BY <2>1, <2>2
<1>8. ASSUME NEW filed \in BOOLEAN, AppendOnce(a, filed) PROVE TypeOK'
  <2>1. cur' \in [Actors -> Cur]
    BY <1>8, CurTyped, CurUpdates DEF AppendOnce
  <2>2. sentBox' \in [Sends -> Nat]
    BY <1>8 DEF AppendOnce, TypeOK
  <2> QED
    BY <1>8, <2>1, <2>2 DEF AppendOnce, TypeOK, store, history, Goto, Labels
<1> QED
  BY <1>3, <1>4, <1>5, <1>6, <1>7, <1>8 DEF Drain

(* The sweep and the resubmission of a resume keep the types.               *)
LEMMA ResumeTyping ==
    ASSUME TypeOK, NEW w \in Resumers, ResumeStep(w)
    PROVE  TypeOK'
<1>0. w \in Actors
  BY DEF Actors
<1>1. CASE Sweep(w)
  <2>1. Snapshot(InState({"pending_send"})) \subseteq [id : Ids, row : Row]
    BY SnapshotTyped DEF InState
  <2> QED
    BY <1>0, <1>1, <2>1 DEF Sweep, TypeOK, store, world, history, Goto, Labels
<1>2. CASE Park(w)
  <2>1. ASSUME NEW i \in Stranded(w) PROVE [rows[i] EXCEPT !.state = "failed"] \in Row
    <3>1. i \in Present
      BY <2>1 DEF Stranded, InState
    <3> QED
      BY <3>1, RowTyped, RowUpdates DEF States
  <2>2. rows' \in [Ids -> Row \cup {None}]
    BY <1>2, <2>1 DEF Park, TypeOK
  <2>3. \A a \in Actors : snap'[a] \subseteq snap[a]
    BY <1>0, <1>2 DEF Park, TypeOK
  <2> QED
    BY <1>0, <1>2, <2>2, <2>3 DEF Park, TypeOK, world, history, Goto, Labels
<1>3. CASE SkipRow(w)
  <2>1. \A a \in Actors : snap'[a] \subseteq snap[a]
    BY <1>3 DEF SkipRow, TypeOK
  <2> QED
    BY <1>3, <2>1 DEF SkipRow, TypeOK, store, world, history
<1>4. CASE ClaimRow(w)
  <2>1. PICK e \in snap[w] :
          /\ slot' = [slot EXCEPT ![w] = SlotOf(e.id, e.row)]
          /\ snap' = [snap EXCEPT ![w] = @ \ {e}]
          /\ cur' = [cur EXCEPT ![w] = [@ EXCEPT !.id = e.id, !.row = e.row,
                                                 !.todo = Outstanding(e.row)]]
          /\ \E l \in {"smtp", "mark", "retire"} : Goto(w, l)
    BY <1>4 DEF ClaimRow
  <2> DEFINE c == [cur[w] EXCEPT !.id = e.id, !.row = e.row, !.todo = Outstanding(e.row)]
  <2>2. c \in Cur
    BY <1>0, CurTyped, SnapTyped, WorkTyped
  <2>3. cur' = [cur EXCEPT ![w] = c]
    BY <2>1
  <2> HIDE DEF c
  <2>4. cur' \in [Actors -> Cur] /\ slot' \in [Actors -> Keys \cup {None}]
    BY <1>0, <2>1, <2>2, <2>3, CurTyped, SnapTyped DEF TypeOK
  <2>5. pc' \in [Actors -> Labels]
    BY <2>1 DEF TypeOK, Goto, Labels
  <2>6. \A a \in Actors : snap'[a] \subseteq snap[a]
    BY <2>1 DEF TypeOK
  <2> QED
    BY <1>4, <2>4, <2>5, <2>6 DEF ClaimRow, TypeOK, store, world, history
<1>5. CASE RetireDraftOfRow(w)
  <2>1. file' \in [Drafts -> File]
    <3> DEFINE i == cur[w].id
    <3>1. CASE file' = file
      BY <3>1 DEF TypeOK
    <3>2. CASE file' # file
      <4>1. i \in Present
        BY <1>5, <3>2 DEF RetireDraftOfRow
      <4>2. PICK fully \in BOOLEAN : Retired(DraftOf[rows[i].msg], rows[i].msg, fully)
        BY <1>5, <3>2 DEF RetireDraftOfRow
      <4> DEFINE f == [status |-> IF fully THEN "retired" ELSE "sent", sentAs |-> rows[i].msg]
      <4>3. f \in File
        BY <4>1, RowTyped DEF File
      <4>4. file' = [file EXCEPT ![DraftOf[rows[i].msg]] = f]
        BY <3>2, <4>2 DEF Retired
      <4> HIDE DEF f
      <4> QED
        BY <4>3, <4>4 DEF TypeOK
    <3> QED
      BY <3>1, <3>2
  <2>2. [NoCur EXCEPT !.now = cur[w].now] \in Cur
    <3>1. cur[w].now \in BOOLEAN
      BY <1>0, CurTyped DEF Cur
    <3> QED
      BY <3>1, NoCurTyped, CurUpdates
  <2>3. cur' \in [Actors -> Cur]
    BY <1>5, <2>2 DEF RetireDraftOfRow, TypeOK
  <2> QED
    BY <1>5, <2>1, <2>3 DEF RetireDraftOfRow, TypeOK, store, world, history, Goto, Labels
<1>6. CASE EndResubmit(w)
  BY <1>6 DEF EndResubmit, TypeOK, store, world, history, Goto, Labels
<1> QED
  BY <1>1, <1>2, <1>3, <1>4, <1>5, <1>6 DEF ResumeStep

(* So does its start.                                                       *)
LEMMA StartTyping ==
    ASSUME TypeOK, NEW w \in Resumers, Tick(w) \/ SyncRun(w)
    PROVE  TypeOK'
<1>0. w \in Actors
  BY DEF Actors
<1>1. CASE Tick(w)
  BY <1>0, <1>1 DEF Tick, TypeOK, store, world, history, Goto, Labels
<1>2. CASE SyncRun(w)
  BY <1>2 DEF SyncRun, TypeOK, store, world, history, Goto, Labels
<1> QED
  BY <1>1, <1>2

(* So do the operator's retry and discard, ...                              *)
LEMMA OperatorTyping ==
    ASSUME TypeOK, NEW i \in Ids,
           Discard(i) \/ \E w \in Resumers : Retry(w, i)
    PROVE  TypeOK'
<1>1. CASE Discard(i)
  <2>1. i \in Present
    BY <1>1 DEF Discard, InState
  <2>2. DraftOf[rows[i].msg] \in Drafts \cup {None}
    BY <2>1, RowTyped
  <2>3. released' \subseteq Drafts
    BY <1>1, <2>2 DEF Discard, TypeOK
  <2>4. refs' \in [Sends -> Nat]
    BY <1>1, RefsTyped DEF Discard, TypeOK
  <2> QED
    BY <1>1, <2>3, <2>4 DEF Discard, TypeOK, world
<1>2. ASSUME NEW w \in Resumers, Retry(w, i) PROVE TypeOK'
  <2>0. w \in Actors
    BY DEF Actors
  <2>1. cur' \in [Actors -> Cur]
    <3>1. [cur[w] EXCEPT !.now = TRUE] \in Cur
      BY <2>0, CurTyped, CurUpdates
    <3> QED
      BY <1>2, <3>1 DEF Retry, TypeOK
  <2>2. rows' \in [Ids -> Row \cup {None}] /\ rearmed' \subseteq Sends
    <3>1. CASE i \in InState({"failed"})
      <4>1. /\ rows[i].msg \in Sends
            /\ [rows[i] EXCEPT !.state = "pending_send", !.marker = FALSE] \in Row
        BY <3>1, RowTyped, RowUpdates DEF InState, States
      <4> DEFINE r == [rows[i] EXCEPT !.state = "pending_send", !.marker = FALSE]
      <4>2. rows' = [rows EXCEPT ![i] = r] /\ rearmed' = rearmed \cup {rows[i].msg}
        <5>1. i \notin InState({"sent_pending_append"})
          BY <3>1 DEF InState
        <5>2. /\ rows' = [rows EXCEPT ![i].state = "pending_send", ![i].marker = FALSE]
              /\ rearmed' = rearmed \cup {rows[i].msg}
          BY <1>2, <5>1, Zenon DEF Retry
        <5> QED
          BY <5>2
      <4> HIDE DEF r
      <4>3. r \in Row
        BY <4>1 DEF r
      <4> QED
        BY <4>1, <4>2, <4>3 DEF TypeOK
    <3>2. CASE i \notin InState({"failed"})
      BY <1>2, <3>2 DEF Retry, TypeOK
    <3> QED
      BY <3>1, <3>2
  <2> QED
    BY <1>2, <2>1, <2>2 DEF Retry, TypeOK, world, Goto, Labels
<1> QED
  BY <1>1, <1>2

(* ... the user's edit of a draft, ...                                      *)
LEMMA ReapproveTyping ==
    ASSUME TypeOK, NEW d \in Drafts, Reapprove(d)
    PROVE  TypeOK'
<1>1. [file[d] EXCEPT !.status = "approved"] \in File
  BY DEF TypeOK, File
<1>2. file' = [file EXCEPT ![d] = [file[d] EXCEPT !.status = "approved"]]
  BY DEF Reapprove
<1>3. file' \in [Drafts -> File]
  BY <1>1, <1>2 DEF TypeOK
<1> QED
  BY <1>3 DEF Reapprove, TypeOK, store, world

(* ... and a crash.                                                         *)
LEMMA CrashTyping ==
    ASSUME TypeOK, Crash
    PROVE  TypeOK'
<1>1. cur' \in [Actors -> Cur]
  BY NoCurTyped DEF Crash
<1>2. pc' \in [Actors -> Labels]
  BY DEF Crash, Labels
<1>3. \A a \in Actors : snap'[a] = {}
  BY DEF Crash
<1> QED
  BY <1>1, <1>2, <1>3 DEF Crash, TypeOK, store, world

(* Typing: the tables, the files, the servers' mailboxes and what every     *)
(* task has in memory keep their types through every step, crashes included.*)
THEOREM Typing == Spec => []TypeOK
<1>1. Init => TypeOK
  <2> SUFFICES ASSUME Init PROVE TypeOK
    OBVIOUS
  <2>1. \A d \in Drafts : [status |-> "approved", sentAs |-> None] \in File
    BY DEF File
  <2> QED
    BY <2>1, NoCurTyped DEF Init, TypeOK, Labels
<1>2. TypeOK /\ [Next]_vars => TypeOK'
  <2> SUFFICES ASSUME TypeOK, [Next]_vars PROVE TypeOK'
    OBVIOUS
  <2>1. ASSUME NEW a \in Actors, Submit(a) \/ Drain(a) PROVE TypeOK'
    BY <2>1, SubmitTyping, DrainTyping
  <2>2. ASSUME NEW s \in Sends, SendStep(s) PROVE TypeOK'
    BY <2>2, SendTyping
  <2>3. ASSUME NEW w \in Resumers, ResumeStep(w) \/ Tick(w) \/ SyncRun(w) PROVE TypeOK'
    BY <2>3, ResumeTyping, StartTyping
  <2>4. ASSUME NEW i \in Ids, Discard(i) \/ \E w \in Resumers : Retry(w, i) PROVE TypeOK'
    BY <2>4, OperatorTyping
  <2>5. ASSUME NEW d \in Drafts, Reapprove(d) PROVE TypeOK'
    BY <2>5, ReapproveTyping
  <2>6. CASE Crash
    BY <2>6, CrashTyping
  <2>7. CASE UNCHANGED vars
    BY <2>7 DEF vars, TypeOK
  <2> QED
    BY <2>1, <2>2, <2>3, <2>4, <2>5, <2>6, <2>7 DEF Next
<1> QED
  BY <1>1, <1>2, PTL DEF Spec

-----------------------------------------------------------------------------
(* The invariant of the filing of Sent copies. *)

(* The actors in a drain hold the gate. *)
GateHeld == \A a \in Actors : pc[a] \in {"drain", "append", "filed"} => gate = a

(* A message not yet committed: its send has not enqueued it. *)
Fresh == {s \in Sends : pc[s] \in {"idle", "claim", "enqueue"}}

(* Nothing remembers a message before it is enqueued. *)
FreshUnknown ==
    \A s \in Fresh :
        /\ sentBox[s] = 0
        /\ \A i \in Present : rows[i].msg # s
        /\ \A a \in Actors : \A e \in snap[a] : e.row.msg # s
        /\ \A a \in Actors : pc[a] = "append" => cur[a].row.msg # s

(* A message has one row, and never another id. *)
OneRowPerMessage ==
    /\ \A i, j \in Present : rows[i].msg = rows[j].msg => i = j
    /\ \A a \in Actors : \A e \in snap[a] :
          /\ \A i \in Present : rows[i].msg = e.row.msg => i = e.id
          /\ \A f \in snap[a] : f.row.msg = e.row.msg => f = e

(* A row whose message is in Sent has an attempt counted, in the table and  *)
(* in what the drain that holds the gate read from it.                      *)
AttemptsCounted ==
    /\ \A i \in Present : sentBox[rows[i].msg] > 0 => rows[i].attempts > 0
    /\ \A a \in Actors : gate = a =>
          \A e \in snap[a] : sentBox[e.row.msg] > 0 => e.row.attempts > 0

(* An actor about to append has counted its attempt, and searches unless    *)
(* the message cannot be there.                                             *)
Appending ==
    \A a \in Actors : pc[a] = "append" =>
        /\ cur[a].row \in Row
        /\ sentBox[cur[a].row.msg] > 0 => cur[a].row.attempts > 0
        /\ \A i \in Present : rows[i].msg = cur[a].row.msg => rows[i].attempts > 0
        /\ \A e \in snap[a] : e.row.msg # cur[a].row.msg

Filing ==
    /\ TypeOK /\ GateHeld /\ FreshUnknown /\ OneRowPerMessage
    /\ AttemptsCounted /\ Appending /\ SentCopyOnce

-----------------------------------------------------------------------------
(* A step that appends nothing, begins no append and enqueues nothing: the  *)
(* rows left are the rows there were, with no attempt forgotten; an actor's *)
(* snapshot shrinks or is read afresh; only a drain holds the gate.         *)

FreshLabels == {"idle", "claim", "enqueue"}

Draining == {"drain", "append", "filed"}

RowsKept ==
    \A i \in Present' : /\ i \in Present
                        /\ rows'[i].msg = rows[i].msg
                        /\ rows'[i].attempts >= rows[i].attempts

ReadAfresh(a) == rows' = rows /\ snap'[a] \subseteq Snapshot(Present)

Quiet ==
    /\ sentBox' = sentBox
    /\ RowsKept
    /\ \A s \in Sends : pc'[s] \in FreshLabels => pc[s] \in FreshLabels
    /\ \A a \in Actors :
          /\ snap'[a] \subseteq snap[a] \/ ReadAfresh(a)
          /\ pc'[a] = "append" => /\ pc[a] = "append"
                                  /\ cur'[a].row = cur[a].row
                                  /\ snap'[a] \subseteq snap[a]
          /\ pc'[a] \in Draining => gate' = a
          /\ gate' = a => (gate = a /\ snap'[a] \subseteq snap[a]) \/ ReadAfresh(a)

(* QuietFiling: such a step keeps the invariant. *)
LEMMA QuietFiling ==
    ASSUME Filing, TypeOK', Quiet
    PROVE  Filing'
<1> USE DEF Filing
<1>1. GateHeld'
  BY DEF Quiet, GateHeld, Draining
<1>2. \A s \in Fresh' : s \in Fresh
  BY DEF Quiet, Fresh, FreshLabels
<1>3. ASSUME NEW a \in Actors, NEW e \in snap'[a]
      PROVE  \/ e \in snap[a]
             \/ /\ ReadAfresh(a)
                /\ e.id \in Present /\ e.row = rows[e.id]
  BY <1>3 DEF Quiet, ReadAfresh, Snapshot
<1>4. FreshUnknown'
  <2> SUFFICES ASSUME NEW s \in Fresh'
               PROVE  /\ sentBox'[s] = 0
                      /\ \A i \in Present' : rows'[i].msg # s
                      /\ \A a \in Actors : \A e \in snap'[a] : e.row.msg # s
                      /\ \A a \in Actors : pc'[a] = "append" => cur'[a].row.msg # s
    BY DEF FreshUnknown
  <2>1. s \in Fresh
    BY <1>2
  <2>2. sentBox'[s] = 0
    BY <2>1 DEF Quiet, FreshUnknown
  <2>3. \A i \in Present' : rows'[i].msg # s
    BY <2>1 DEF Quiet, RowsKept, FreshUnknown
  <2>4. \A a \in Actors : \A e \in snap'[a] : e.row.msg # s
    BY <1>3, <2>1 DEF FreshUnknown
  <2>5. \A a \in Actors : pc'[a] = "append" => cur'[a].row.msg # s
    BY <2>1 DEF Quiet, FreshUnknown
  <2> QED
    BY <2>2, <2>3, <2>4, <2>5
<1>5. OneRowPerMessage'
  <2>1. \A i, j \in Present' : rows'[i].msg = rows'[j].msg => i = j
    BY DEF Quiet, RowsKept, OneRowPerMessage
  <2>2. ASSUME NEW a \in Actors, NEW e \in snap'[a]
        PROVE  \A i \in Present' : rows'[i].msg = e.row.msg => i = e.id
    BY <1>3, <2>2 DEF Quiet, RowsKept, OneRowPerMessage
  <2>3. ASSUME NEW a \in Actors, NEW e \in snap'[a], NEW f \in snap'[a],
               f.row.msg = e.row.msg
        PROVE  f = e
    <3>1. CASE snap'[a] \subseteq snap[a]
      BY <2>3, <3>1 DEF OneRowPerMessage
    <3>2. CASE ReadAfresh(a)
      <4>1. PICK i \in Present : e = [id |-> i, row |-> rows[i]]
        BY <3>2 DEF ReadAfresh, Snapshot
      <4>2. PICK j \in Present : f = [id |-> j, row |-> rows[j]]
        BY <3>2 DEF ReadAfresh, Snapshot
      <4>3. i = j
        BY <2>3, <4>1, <4>2 DEF OneRowPerMessage
      <4> QED
        BY <4>1, <4>2, <4>3
    <3> QED
      BY <3>1, <3>2 DEF Quiet
  <2> QED
    BY <2>1, <2>2, <2>3 DEF OneRowPerMessage
<1>6. AttemptsCounted'
  <2>1. ASSUME NEW i \in Present', sentBox'[rows'[i].msg] > 0
        PROVE  rows'[i].attempts > 0
    <3>1. /\ i \in Present /\ rows[i].attempts > 0
          /\ rows'[i].attempts >= rows[i].attempts
      BY <2>1 DEF Quiet, RowsKept, AttemptsCounted
    <3>2. rows[i].attempts \in Nat /\ rows'[i].attempts \in Nat
      BY <2>1, <3>1 DEF TypeOK, Present, Row
    <3> QED
      BY <3>1, <3>2
  <2>2. ASSUME NEW a \in Actors, gate' = a, NEW e \in snap'[a], sentBox'[e.row.msg] > 0
        PROVE  e.row.attempts > 0
    <3>1. CASE gate = a /\ snap'[a] \subseteq snap[a]
      BY <2>2, <3>1 DEF Quiet, AttemptsCounted
    <3>2. CASE ReadAfresh(a)
      <4>1. e.id \in Present /\ e.row = rows[e.id]
        BY <2>2, <3>2 DEF ReadAfresh, Snapshot
      <4> QED
        BY <2>2, <4>1 DEF Quiet, AttemptsCounted
    <3> QED
      BY <2>2, <3>1, <3>2 DEF Quiet
  <2> QED
    BY <2>1, <2>2 DEF AttemptsCounted
<1>7. Appending'
  <2> SUFFICES ASSUME NEW a \in Actors, pc'[a] = "append"
               PROVE  /\ cur'[a].row \in Row
                      /\ sentBox'[cur'[a].row.msg] > 0 => cur'[a].row.attempts > 0
                      /\ \A i \in Present' : rows'[i].msg = cur'[a].row.msg => rows'[i].attempts > 0
                      /\ \A e \in snap'[a] : e.row.msg # cur'[a].row.msg
    BY DEF Appending
  <2>1. pc[a] = "append" /\ cur'[a].row = cur[a].row /\ snap'[a] \subseteq snap[a]
    BY DEF Quiet
  <2>2. ASSUME NEW i \in Present', rows'[i].msg = cur'[a].row.msg
        PROVE  rows'[i].attempts > 0
    <3>1. /\ i \in Present /\ rows[i].attempts > 0
          /\ rows'[i].attempts >= rows[i].attempts
      BY <2>1, <2>2 DEF Quiet, RowsKept, Appending
    <3>2. rows[i].attempts \in Nat /\ rows'[i].attempts \in Nat
      BY <2>2, <3>1 DEF TypeOK, Present, Row
    <3> QED
      BY <3>1, <3>2
  <2> QED
    BY <2>1, <2>2 DEF Quiet, Appending
<1>8. SentCopyOnce'
  BY DEF Quiet, SentCopyOnce
<1> QED
  BY <1>1, <1>4, <1>5, <1>6, <1>7, <1>8

(* OwnStep: the step of one actor that touches nobody else's memory. *)
LEMMA OwnStep ==
    ASSUME TypeOK, GateHeld, NEW a \in Actors, NEW l,
           pc' = [pc EXCEPT ![a] = l],
           l # "append",
           a \in Sends /\ l \in FreshLabels => pc[a] \in FreshLabels,
           l \in Draining => gate = a,
           \A b \in Actors \ {a} : cur'[b] = cur[b] /\ snap'[b] = snap[b],
           snap'[a] \subseteq snap[a],
           gate' = gate, sentBox' = sentBox, RowsKept
    PROVE  Quiet
<1>1. \A b \in Actors : b # a => pc'[b] = pc[b]
  BY DEF TypeOK
<1>2. pc'[a] = l
  BY DEF TypeOK
<1>3. \A b \in Actors : snap'[b] \subseteq snap[b]
  OBVIOUS
<1>4. \A s \in Sends : pc'[s] \in FreshLabels => pc[s] \in FreshLabels
  BY <1>1, <1>2, ActorKinds
<1>5. \A b \in Actors : pc'[b] = "append" => pc[b] = "append" /\ cur'[b].row = cur[b].row
  BY <1>1, <1>2
<1>6. \A b \in Actors : pc'[b] \in Draining => gate' = b
  BY <1>1, <1>2 DEF GateHeld, Draining
<1> QED
  BY <1>3, <1>4, <1>5, <1>6 DEF Quiet

(* A step that leaves the table alone forgets no row and no attempt.        *)
LEMMA SameRowsKept == TypeOK /\ rows' = rows => RowsKept
  BY DEF TypeOK, RowsKept, Present, Row

(* A row rewritten in place: its message stands, its attempts do not shrink.*)
LEMMA UpdateKept ==
    ASSUME TypeOK, NEW i \in Present, NEW r \in Row,
           r.msg = rows[i].msg, r.attempts >= rows[i].attempts,
           rows' = [rows EXCEPT ![i] = r]
    PROVE  RowsKept
<1>1. \A j \in Present : rows[j].attempts \in Nat
  BY DEF TypeOK, Present, Row
<1>2. i \in Ids /\ rows \in [Ids -> Row \cup {None}]
  BY DEF Present, TypeOK
<1>3. ASSUME NEW j \in Present', j # i
      PROVE  j \in Present /\ rows'[j] = rows[j]
  BY <1>2, <1>3 DEF Present
<1>4. rows'[i] = r
  BY <1>2
<1>5. ASSUME NEW j \in Present'
      PROVE  /\ j \in Present
             /\ rows'[j].msg = rows[j].msg
             /\ rows'[j].attempts >= rows[j].attempts
  BY <1>1, <1>3, <1>4
<1> QED
  BY <1>5 DEF RowsKept

(* record_per_recipient leaves a row its message and its attempts.          *)
LEMMA AfterPassKept ==
    ASSUME NEW row \in Row, NEW env, NEW a
    PROVE  /\ AfterPass(row, env, a).msg = row.msg
           /\ AfterPass(row, env, a).attempts >= row.attempts
<1>1. row.attempts \in Nat
  BY DEF Row
<1>2. /\ [row EXCEPT !.state = "failed"].msg = row.msg
      /\ [row EXCEPT !.attempts = @ + 1, !.marker = FALSE].msg = row.msg
      /\ [row EXCEPT !.state = "failed", !.marker = FALSE].msg = row.msg
      /\ [row EXCEPT !.state = "sent_pending_append"].msg = row.msg
  BY DEF Row
<1>3. /\ [row EXCEPT !.state = "failed"].attempts >= row.attempts
      /\ [row EXCEPT !.attempts = @ + 1, !.marker = FALSE].attempts >= row.attempts
      /\ [row EXCEPT !.state = "failed", !.marker = FALSE].attempts >= row.attempts
      /\ [row EXCEPT !.state = "sent_pending_append"].attempts >= row.attempts
  BY <1>1 DEF Row
<1> QED
  BY <1>2, <1>3, Zenon DEF AfterPass

(* A submission that ends in an error moves its actor only.                 *)
LEMMA SubmitFailedShape ==
    ASSUME TypeOK, NEW a \in Actors, SubmitFailed(a)
    PROVE  /\ \E l \in {"ended", "retire"} : pc' = [pc EXCEPT ![a] = l]
           /\ \A b \in Actors \ {a} : cur'[b] = cur[b]
  BY DEF SubmitFailed, Ended, Goto, TypeOK

(* A submission appends nothing, whichever of its steps it is at.           *)
LEMMA SubmitQuiet ==
    ASSUME TypeOK, GateHeld, NEW a \in Actors, Submit(a)
    PROVE  Quiet
<1> DEFINE i == cur[a].id
<1> USE DEF FreshLabels, Draining
<1>1. CASE Mark(a)
  <2>1. RowsKept
    <3>1. CASE i \in InState({"pending_send"})
      <4> DEFINE r == [rows[i] EXCEPT !.marker = TRUE]
      <4>1. i \in Present /\ rows[i] \in Row
        BY <3>1, RowTyped DEF InState
      <4>2. r \in Row /\ r.msg = rows[i].msg /\ r.attempts >= rows[i].attempts
        <5>1. rows[i].attempts \in Nat
          BY <4>1 DEF Row
        <5>2. r.msg = rows[i].msg /\ r.attempts = rows[i].attempts
          BY <4>1 DEF Row
        <5>3. r \in Row
          BY <4>1, RowUpdates
        <5> QED
          BY <5>1, <5>2, <5>3
      <4>3. rows' = [rows EXCEPT ![i] = r]
        BY <1>1, <3>1 DEF Mark, Marked
      <4> HIDE DEF r
      <4> QED
        BY <4>1, <4>2, <4>3, UpdateKept
    <3>2. CASE i \notin InState({"pending_send"})
      BY <1>1, <3>2, SameRowsKept DEF Mark
    <3> QED
      BY <3>1, <3>2
  <2>2. PICK l \in {"smtp", "ended", "retire"} :
          pc' = [pc EXCEPT ![a] = l] /\ \A b \in Actors \ {a} : cur'[b] = cur[b]
    <3>1. CASE SubmitFailed(a)
      BY <3>1, SubmitFailedShape
    <3>2. CASE ~SubmitFailed(a)
      BY <1>1, <3>2 DEF Mark, Goto
    <3> QED
      BY <3>1, <3>2
  <2>3. UNCHANGED <<gate, snap, sentBox>>
    BY <1>1 DEF Mark, world
  <2> QED
    BY <2>1, <2>2, <2>3, OwnStep
<1>2. CASE FailClean(a)
  <2>1. RowsKept
    <3>1. CASE i \in InState({"pending_send"})
      <4> DEFINE r == [rows[i] EXCEPT !.attempts = @ + 1, !.marker = FALSE]
      <4>1. i \in Present /\ rows[i] \in Row
        BY <3>1, RowTyped DEF InState
      <4>2. r \in Row /\ r.msg = rows[i].msg /\ r.attempts >= rows[i].attempts
        <5>1. rows[i].attempts \in Nat /\ rows[i].attempts + 1 \in Nat
          BY <4>1 DEF Row
        <5>2. r.msg = rows[i].msg /\ r.attempts = rows[i].attempts + 1
          BY <4>1 DEF Row
        <5>3. r \in Row
          BY <4>1, <5>1, RowUpdates
        <5> HIDE DEF r
        <5> QED
          BY <5>1, <5>2, <5>3
      <4>3. rows' = [rows EXCEPT ![i] = r]
        BY <1>2, <3>1 DEF FailClean
      <4> HIDE DEF r
      <4> QED
        BY <4>1, <4>2, <4>3, UpdateKept
    <3>2. CASE i \notin InState({"pending_send"})
      BY <1>2, <3>2, SameRowsKept DEF FailClean
    <3> QED
      BY <3>1, <3>2
  <2>2. UNCHANGED <<gate, snap, sentBox>> /\ SubmitFailed(a)
    BY <1>2 DEF FailClean, world
  <2> QED
    BY <2>1, <2>2, SubmitFailedShape, OwnStep
<1>3. CASE Record(a)
  <2>0. UNCHANGED <<gate, snap, sentBox>>
    BY <1>3 DEF Record, world
  <2>1. CASE i \notin Present
    <3>1. SubmitFailed(a) /\ UNCHANGED rows
      BY <1>3, <2>1 DEF Record, InState
    <3> QED
      BY <2>0, <3>1, SubmitFailedShape, SameRowsKept, OwnStep
  <2>2. CASE i \in Present /\ rows[i].state # "pending_send"
    <3>1. Submitted(a, rows[i].state) /\ UNCHANGED <<rows, cur>>
      BY <1>3, <2>2 DEF Record, InState
    <3>2. PICK l \in {"settle", "retire"} : pc' = [pc EXCEPT ![a] = l]
      BY <3>1 DEF Submitted, Goto
    <3> QED
      BY <2>0, <3>1, <3>2, SameRowsKept, OwnStep
  <2>3. CASE i \in InState({"pending_send"})
    <3>1. i \in Present /\ rows[i] \in Row
      BY <2>3, RowTyped DEF InState
    <3>2. Folded(rows[i], a).msg = rows[i].msg /\ Folded(rows[i], a).attempts >= rows[i].attempts
      <4>1. rows[i].attempts \in Nat
        BY <3>1 DEF Row
      <4> QED
        BY <3>1, <4>1 DEF Folded, Row
    <3>3. /\ rows' = [rows EXCEPT ![i] = Folded(rows[i], a)]
          /\ \A b \in Actors \ {a} : cur'[b] = cur[b]
          /\ pc' = [pc EXCEPT ![a] = "transition"]
      BY <1>3, <2>3 DEF Record, InState, Goto, TypeOK
    <3> QED
      BY <2>0, <3>1, <3>2, <3>3, FoldedTyped, UpdateKept, OwnStep
  <2> QED
    BY <2>1, <2>2, <2>3 DEF InState
<1>4. CASE Transition(a)
  <2>1. RowsKept
    <3>1. CASE rows' = rows
      BY <3>1, SameRowsKept
    <3>2. CASE rows' # rows
      <4>1. rows[i] # None /\ rows' = [rows EXCEPT ![i] = AfterPass(rows[i], cur[a].row, a)]
        BY <1>4, <3>2 DEF Transition, Updated
      <4>2. i \in Present
        BY <3>2, <4>1 DEF TypeOK, Present
      <4> QED
        BY <4>1, <4>2, RowTyped, AfterPassTyped, AfterPassKept, UpdateKept
    <3> QED
      BY <3>1, <3>2
  <2>2. PICK l \in {"ingest", "settle", "retire"} : pc' = [pc EXCEPT ![a] = l]
    BY <1>4 DEF Transition, Submitted, Goto
  <2> QED
    BY <1>4, <2>1, <2>2, OwnStep DEF Transition, world
<1>5. CASE Ingest(a)
  BY <1>5, SameRowsKept, OwnStep DEF Ingest, world, Goto
<1>6. CASE Complete(a)
  <2>1. RowsKept
    <3>1. CASE i \in Present
      <4> DEFINE r == [rows[i] EXCEPT !.state = "done"]
      <4>1. rows[i] \in Row /\ r \in Row
        BY <3>1, RowTyped, RowUpdates DEF States
      <4>2. r.msg = rows[i].msg /\ r.attempts >= rows[i].attempts
        BY <4>1 DEF Row
      <4>3. rows' = [rows EXCEPT ![i] = r]
        BY <1>6, <3>1 DEF Complete, Updated, Present
      <4> HIDE DEF r
      <4> QED
        BY <3>1, <4>1, <4>2, <4>3, UpdateKept
    <3>2. CASE i \notin Present
      <4>1. rows' = rows
        BY <1>6, <3>2 DEF Complete, Updated, Present, TypeOK
      <4> QED
        BY <4>1, SameRowsKept
    <3> QED
      BY <3>1, <3>2
  <2>2. \A b \in Actors \ {a} : cur'[b] = cur[b]
    BY <1>6 DEF Complete, TypeOK
  <2>3. UNCHANGED <<gate, snap, sentBox>>
    BY <1>6 DEF Complete, world
  <2>4. CASE gate = a
    <3>1. pc' = [pc EXCEPT ![a] = "drain"]
      BY <1>6, <2>4 DEF Complete, Goto
    <3> QED
      BY <2>1, <2>2, <2>3, <2>4, <3>1, OwnStep
  <2>5. CASE gate # a
    <3>1. \E l \in {"settle", "retire"} : pc' = [pc EXCEPT ![a] = l]
      BY <1>6, <2>5 DEF Complete, Submitted, Goto
    <3> QED
      BY <2>1, <2>2, <2>3, <2>5, <3>1, OwnStep
  <2> QED
    BY <2>4, <2>5
<1>7. ASSUME NEW r \in Recipients, NEW v \in Verdicts \ {"none"}, Speak(a, r, v)
      PROVE  Quiet
  <2>1. pc' = [pc EXCEPT ![a] = pc[a]] /\ pc[a] = "smtp"
    BY <1>7 DEF Speak, TypeOK
  <2>2. \A b \in Actors \ {a} : cur'[b] = cur[b]
    BY <1>7 DEF Speak, TypeOK
  <2>3. UNCHANGED <<rows, gate, snap, sentBox>>
    BY <1>7 DEF Speak, store
  <2> QED
    BY <2>1, <2>2, <2>3, SameRowsKept, OwnStep
<1> QED
  BY <1>1, <1>2, <1>3, <1>4, <1>5, <1>6, <1>7 DEF Submit

(* Every step of a drain but the attempt and the APPEND themselves. *)
LEMMA DrainQuiet ==
    ASSUME TypeOK, GateHeld, NEW a \in Actors,
           TakeGate(a) \/ SkipAppend(a) \/ RecordAppend(a) \/ EndPass(a)
    PROVE  Quiet
<1> USE DEF FreshLabels, Draining
<1>1. ASSUME Drained(a), gate = a, rows' = rows, sentBox' = sentBox
      PROVE  Quiet
  <2>1. PICK l \in {"retire", "idle"} :
          /\ pc' = [pc EXCEPT ![a] = l]
          /\ l = "idle" => a \notin Sends
          /\ \A b \in Actors \ {a} : cur'[b] = cur[b]
    BY <1>1 DEF Drained, Settled, Goto, TypeOK
  <2>2. gate' = None /\ snap' = [snap EXCEPT ![a] = {}]
    BY <1>1 DEF Drained
  <2>3. \A b \in Actors : snap'[b] \subseteq snap[b]
    <3>1. \A b \in Actors : snap'[b] = snap[b] \/ snap'[b] = {}
      BY <2>2
    <3> QED
      BY <3>1
  <2>4. \A b \in Actors : pc'[b] \notin Draining
    BY <1>1, <2>1 DEF GateHeld, TypeOK
  <2>5. \A s \in Sends : pc'[s] \in FreshLabels => pc[s] \in FreshLabels
    BY <2>1, ActorKinds DEF TypeOK
  <2>6. \A b \in Actors : gate' # b
    BY <2>2 DEF Actors
  <2> QED
    BY <1>1, <2>3, <2>4, <2>5, <2>6, SameRowsKept DEF Quiet
<1>2. ASSUME NEW S \in SUBSET Present, NEW l, l = "drain",
             snap' = [snap EXCEPT ![a] = Snapshot(S)], pc' = [pc EXCEPT ![a] = l],
             gate' = a, gate \in {a, None}, rows' = rows, sentBox' = sentBox,
             \A b \in Actors \ {a} : cur'[b] = cur[b]
      PROVE  Quiet
  <2>1. ReadAfresh(a)
    <3>1. snap'[a] = Snapshot(S)
      BY <1>2 DEF TypeOK
    <3> QED
      BY <1>2, <3>1 DEF ReadAfresh, Snapshot
  <2>2. \A b \in Actors \ {a} : snap'[b] = snap[b]
    BY <1>2
  <2>3. \A b \in Actors \ {a} : pc'[b] = pc[b] /\ gate # b
    BY <1>2 DEF TypeOK, Actors
  <2>4. pc'[a] = "drain"
    BY <1>2 DEF TypeOK
  <2>5. \A b \in Actors : pc'[b] \in Draining => gate' = b
    BY <1>2, <2>3, <2>4 DEF GateHeld
  <2>6. \A s \in Sends : pc'[s] \in FreshLabels => pc[s] \in FreshLabels
    BY <2>3, <2>4, ActorKinds
  <2>7. \A b \in Actors : snap'[b] \subseteq snap[b] \/ ReadAfresh(b)
    BY <2>1, <2>2
  <2>8. \A b \in Actors : pc'[b] = "append" => /\ pc[b] = "append" /\ cur'[b].row = cur[b].row
                                              /\ snap'[b] \subseteq snap[b]
    BY <1>2, <2>2, <2>3, <2>4
  <2>9. \A b \in Actors : gate' = b => ReadAfresh(b)
    BY <1>2, <2>1
  <2> QED
    BY <1>2, <2>5, <2>6, <2>7, <2>8, <2>9, SameRowsKept DEF Quiet
<1>3. InState({"sent_pending_append"}) \in SUBSET Present
  BY DEF InState
<1>4. CASE TakeGate(a)
  <2>1. CASE Settled(a) /\ UNCHANGED <<gate, snap>>
    <3>1. PICK l \in {"retire", "idle"} :
            /\ pc' = [pc EXCEPT ![a] = l]
            /\ l = "idle" => a \notin Sends
            /\ \A b \in Actors \ {a} : cur'[b] = cur[b]
      BY <2>1 DEF Settled, Goto, TypeOK
    <3>2. UNCHANGED <<rows, gate, snap, sentBox>>
      BY <1>4, <2>1 DEF TakeGate, store, world
    <3> QED
      BY <3>1, <3>2, SameRowsKept, OwnStep
  <2>2. CASE ~(Settled(a) /\ UNCHANGED <<gate, snap>>)
    <3>1. /\ GateFree /\ gate' = a
          /\ snap' = [snap EXCEPT ![a] = Snapshot(InState({"sent_pending_append"}))]
          /\ Goto(a, "drain")
          /\ UNCHANGED <<cur, turn>>
      BY <1>4, <2>2, Zenon DEF TakeGate
    <3>2. UNCHANGED <<rows, sentBox>>
      BY <1>4 DEF TakeGate, store, world
    <3> QED
      BY <1>2, <1>3, <3>1, <3>2 DEF GateFree, Goto
  <2> QED
    BY <2>1, <2>2
<1>5. CASE SkipAppend(a)
  <2>1. UNCHANGED <<rows, gate, pc, cur, sentBox>> /\ pc[a] = "drain"
    BY <1>5 DEF SkipAppend, store, world
  <2>2. snap'[a] \subseteq snap[a] /\ \A b \in Actors \ {a} : snap'[b] = snap[b]
    BY <1>5 DEF SkipAppend
  <2>3. pc' = [pc EXCEPT ![a] = pc[a]] /\ gate = a
    BY <2>1 DEF TypeOK, GateHeld
  <2> QED
    BY <2>1, <2>2, <2>3, SameRowsKept, OwnStep
<1>6. CASE RecordAppend(a)
  <2>0. UNCHANGED <<rows, sentBox>> /\ gate = a
    BY <1>6 DEF RecordAppend, store, world, GateHeld
  <2>1. CASE cur[a].id \notin Present
    <3>1. Drained(a)
      BY <1>6, <2>1, Zenon DEF RecordAppend
    <3> QED
      BY <1>1, <2>0, <3>1
  <2>2. CASE cur[a].id \in Present
    <3>1. PICK l \in {"ingest", "drain"} :
            pc' = [pc EXCEPT ![a] = l] /\ \A b \in Actors \ {a} : cur'[b] = cur[b]
      BY <1>6, <2>2 DEF RecordAppend, Goto, TypeOK
    <3>2. UNCHANGED <<gate, snap>>
      BY <1>6, <2>2 DEF RecordAppend
    <3> QED
      BY <2>0, <3>1, <3>2, SameRowsKept, OwnStep
  <2> QED
    BY <2>1, <2>2
<1>7. CASE EndPass(a)
  <2>0. UNCHANGED <<rows, sentBox>> /\ gate = a /\ pc[a] = "drain"
    BY <1>7 DEF EndPass, store, world, GateHeld
  <2>1. CASE Drained(a)
    BY <1>1, <2>0, <2>1
  <2>2. CASE ~Drained(a)
    <3>1. /\ snap' = [snap EXCEPT ![a] = Snapshot(InState({"sent_pending_append"}))]
          /\ cur' = [cur EXCEPT ![a] = [cur[a] EXCEPT !.progress = FALSE]]
          /\ UNCHANGED <<pc, gate, turn>>
      BY <1>7, <2>2 DEF EndPass
    <3>2. pc' = [pc EXCEPT ![a] = "drain"] /\ \A b \in Actors \ {a} : cur'[b] = cur[b]
      BY <2>0, <3>1 DEF TypeOK
    <3> QED
      BY <1>2, <1>3, <2>0, <3>1, <3>2
  <2> QED
    BY <2>1, <2>2
<1> QED
  BY <1>4, <1>5, <1>6, <1>7

(* A send enqueues its message with no attempt counted and no copy filed. *)
LEMMA EnqueueFiling ==
    ASSUME Filing, TypeOK', NEW s \in Sends, Enqueue(s)
    PROVE  Filing'
<1> USE DEF Filing, FreshLabels, Draining
<1>0. s \in Fresh /\ s \in Actors /\ UNCHANGED <<gate, snap, sentBox>> /\ pc[s] = "enqueue"
  BY ActorKinds DEF Enqueue, Fresh, world
<1>1. CASE Ended(s) /\ UNCHANGED store
  <2>1. pc' = [pc EXCEPT ![s] = "ended"] /\ rows' = rows
    BY <1>1 DEF Ended, Goto, store
  <2>2. \A b \in Actors \ {s} : cur'[b] = cur[b]
    BY <1>1 DEF Ended, TypeOK
  <2> QED
    BY <1>0, <2>1, <2>2, SameRowsKept, OwnStep, QuietFiling
<1>2. CASE ~(Ended(s) /\ UNCHANGED store)
  <2>1. PICK i \in Ids, row \in Row :
          /\ row.msg = s /\ row.attempts = 0
          /\ IsNextId(i)
          /\ rows' = [rows EXCEPT ![i] = row]
          /\ cur' = [cur EXCEPT ![s] = [@ EXCEPT !.id = i, !.row = row, !.todo = Recipients]]
    <3>1. PICK i \in Ids, target \in SaveSettings :
            LET row == [msg |-> s, state |-> "pending_send", target |-> target,
                        marker |-> FALSE, attempts |-> 0,
                        delivered |-> {}, rejected |-> {}]
            IN /\ IsNextId(i)
               /\ rows' = [rows EXCEPT ![i] = row]
               /\ cur' = [cur EXCEPT ![s] = [@ EXCEPT !.id = i, !.row = row,
                                                      !.todo = Recipients]]
      BY <1>2 DEF Enqueue
    <3> DEFINE row == [msg |-> s, state |-> "pending_send", target |-> target,
                       marker |-> FALSE, attempts |-> 0,
                       delivered |-> {}, rejected |-> {}]
    <3>2. row \in Row /\ row.msg = s /\ row.attempts = 0
      BY DEF Row, States
    <3> QED
      BY <3>1, <3>2
  <2>2. pc' = [pc EXCEPT ![s] = "mark"]
    BY <1>2 DEF Enqueue, Goto
  <2>3. /\ \A j \in Present : j \in Present' /\ j # i /\ rows'[j] = rows[j]
        /\ i \in Present' /\ rows'[i] = row
        /\ \A j \in Present' : j # i => j \in Present
    <3>1. i \notin Present
      BY <2>1 DEF IsNextId, Present, TypeOK
    <3>2. rows'[i] = row /\ \A j \in Ids \ {i} : rows'[j] = rows[j]
      BY <2>1 DEF TypeOK
    <3>3. row # None
      BY <2>1, NoneAssumption
    <3> QED
      BY <3>1, <3>2, <3>3 DEF Present
  <2>4. /\ \A a \in Actors : pc'[a] \in Draining =>
              pc[a] \in Draining /\ pc'[a] = pc[a] /\ cur'[a] = cur[a]
        /\ \A m \in Fresh' : m \in Fresh /\ m # s
    <3>1. pc'[s] = "mark" /\ \A a \in Actors \ {s} : pc'[a] = pc[a]
      BY <1>0, <2>2 DEF TypeOK
    <3>2. \A a \in Actors \ {s} : cur'[a] = cur[a]
      BY <2>1 DEF TypeOK
    <3> QED
      BY <3>1, <3>2, ActorKinds DEF Fresh
  <2>5. GateHeld'
    BY <1>0, <2>4 DEF GateHeld
  <2>6. FreshUnknown'
    BY <1>0, <2>1, <2>3, <2>4 DEF FreshUnknown
  <2>7. OneRowPerMessage'
    <3>1. \A j \in Present : rows[j].msg # s
      BY <1>0 DEF FreshUnknown
    <3>2. \A a \in Actors : \A e \in snap[a] : e.row.msg # s
      BY <1>0 DEF FreshUnknown
    <3>3. \A j, k \in Present' : rows'[j].msg = rows'[k].msg => j = k
      BY <2>1, <2>3, <3>1 DEF OneRowPerMessage
    <3>4. \A a \in Actors : \A e \in snap'[a] : \A j \in Present' :
            rows'[j].msg = e.row.msg => j = e.id
      BY <1>0, <2>1, <2>3, <3>2 DEF OneRowPerMessage
    <3> QED
      BY <1>0, <3>3, <3>4 DEF OneRowPerMessage
  <2>8. AttemptsCounted'
    BY <1>0, <2>1, <2>3 DEF AttemptsCounted, FreshUnknown
  <2>9. Appending'
    <3>1. ASSUME NEW a \in Actors, pc'[a] = "append"
          PROVE  pc[a] = "append" /\ cur'[a] = cur[a] /\ cur[a].row.msg # s
      BY <1>0, <2>4, <3>1 DEF FreshUnknown
    <3> QED
      BY <1>0, <2>1, <2>3, <3>1 DEF Appending
  <2> QED
    BY <1>0, <2>5, <2>6, <2>7, <2>8, <2>9 DEF SentCopyOnce
<1> QED
  BY <1>1, <1>2

(* An attempt is counted in the row before the APPEND goes out. *)
LEMMA BeginAppendFiling ==
    ASSUME Filing, TypeOK', NEW a \in Actors, BeginAppend(a)
    PROVE  Filing'
<1> USE DEF Filing, FreshLabels, Draining
<1>0. pc[a] = "drain" /\ gate = a /\ UNCHANGED <<gate, sentBox>>
  BY DEF BeginAppend, GateHeld, world
<1>1. PICK e \in snap[a] :
        /\ snap' = [snap EXCEPT ![a] = @ \ {e}]
        /\ IF e.id \in InState({"sent_pending_append"})
           THEN /\ rows' = Attempted(e.id)
                /\ cur' = [cur EXCEPT ![a] = [@ EXCEPT !.id = e.id, !.row = e.row]]
                /\ Goto(a, "append")
           ELSE UNCHANGED <<rows, cur, pc>>
  BY DEF BeginAppend
<1>2. /\ snap'[a] = snap[a] \ {e}
      /\ \A b \in Actors \ {a} : snap'[b] = snap[b]
  BY <1>1 DEF TypeOK
<1>3. CASE e.id \notin InState({"sent_pending_append"})
  <2>1. pc' = [pc EXCEPT ![a] = pc[a]] /\ rows' = rows /\ cur' = cur
    BY <1>1, <1>3 DEF TypeOK
  <2> QED
    BY <1>0, <1>2, <2>1, SameRowsKept, OwnStep, QuietFiling
<1>4. CASE e.id \in InState({"sent_pending_append"})
  <2> DEFINE r == [rows[e.id] EXCEPT !.attempts = @ + 1]
  <2>1. e.id \in Present /\ rows[e.id] \in Row /\ e.row \in Row
    BY <1>4, RowTyped, SnapTyped DEF InState
  <2>2. /\ r \in Row /\ r.msg = rows[e.id].msg
        /\ r.attempts >= rows[e.id].attempts /\ r.attempts > 0
    <3>1. rows[e.id].attempts \in Nat /\ rows[e.id].attempts + 1 \in Nat
      BY <2>1 DEF Row
    <3>2. r.msg = rows[e.id].msg /\ r.attempts = rows[e.id].attempts + 1
      BY <2>1 DEF Row
    <3>3. r \in Row
      BY <2>1, <3>1, RowUpdates
    <3> HIDE DEF r
    <3> QED
      BY <3>1, <3>2, <3>3
  <2>3. rows' = [rows EXCEPT ![e.id] = r]
    BY <1>1, <1>4 DEF Attempted
  <2> HIDE DEF r
  <2>4. RowsKept /\ rows'[e.id] = r
    BY <2>1, <2>2, <2>3, UpdateKept DEF TypeOK, Present
  <2>5. /\ cur'[a].row = e.row /\ pc'[a] = "append"
        /\ \A b \in Actors \ {a} : pc'[b] = pc[b] /\ cur'[b] = cur[b]
    <3>1. /\ cur' = [cur EXCEPT ![a] = [cur[a] EXCEPT !.id = e.id, !.row = e.row]]
          /\ pc' = [pc EXCEPT ![a] = "append"]
      BY <1>1, <1>4 DEF Goto
    <3>2. [cur[a] EXCEPT !.id = e.id, !.row = e.row].row = e.row
      BY CurTyped DEF Cur
    <3> QED
      BY <3>1, <3>2, CurTyped DEF TypeOK
  <2>6. \A b \in Actors : pc[b] \in Draining => b = a
    BY <1>0 DEF GateHeld
  <2>7. GateHeld'
    BY <1>0, <2>5 DEF GateHeld
  <2>8. \A s \in Fresh' : s \in Fresh
    BY <2>5, ActorKinds DEF Fresh
  <2>9. FreshUnknown'
    <3> SUFFICES ASSUME NEW s \in Fresh'
                 PROVE  /\ sentBox'[s] = 0
                        /\ \A i \in Present' : rows'[i].msg # s
                        /\ \A b \in Actors : \A f \in snap'[b] : f.row.msg # s
                        /\ \A b \in Actors : pc'[b] = "append" => cur'[b].row.msg # s
      BY DEF FreshUnknown
    <3>1. s \in Fresh
      BY <2>8
    <3>2. sentBox'[s] = 0
      BY <1>0, <3>1 DEF FreshUnknown
    <3>3. \A i \in Present' : rows'[i].msg # s
      BY <2>4, <3>1 DEF RowsKept, FreshUnknown
    <3>4. \A b \in Actors : \A f \in snap'[b] : f.row.msg # s
      BY <1>2, <3>1 DEF FreshUnknown
    <3>5. \A b \in Actors : pc'[b] = "append" => cur'[b].row.msg # s
      BY <2>5, <2>6, <3>1 DEF FreshUnknown
    <3> QED
      BY <3>2, <3>3, <3>4, <3>5
  <2>10. OneRowPerMessage'
    BY <1>2, <2>4 DEF RowsKept, OneRowPerMessage
  <2>11. AttemptsCounted'
    <3>1. \A i \in Present' : sentBox'[rows'[i].msg] > 0 => rows'[i].attempts > 0
      <4> TAKE i \in Present'
      <4> HAVE sentBox'[rows'[i].msg] > 0
      <4>1. i \in Present /\ rows[i].attempts > 0 /\ rows'[i].attempts >= rows[i].attempts
        BY <1>0, <2>4 DEF RowsKept, AttemptsCounted
      <4>2. rows[i].attempts \in Nat /\ rows'[i].attempts \in Nat
        BY <4>1 DEF TypeOK, Present, Row
      <4> QED
        BY <4>1, <4>2
    <3> QED
      BY <1>0, <1>2, <3>1 DEF AttemptsCounted
  <2>12. Appending'
    <3>1. \A i \in Present' : rows'[i].msg = e.row.msg => rows'[i].attempts > 0
      BY <2>2, <2>4 DEF RowsKept, OneRowPerMessage
    <3>2. sentBox'[e.row.msg] > 0 => e.row.attempts > 0
      BY <1>0 DEF AttemptsCounted
    <3>3. \A f \in snap'[a] : f.row.msg # e.row.msg
      BY <1>2 DEF OneRowPerMessage
    <3> QED
      BY <2>1, <2>5, <2>6, <3>1, <3>2, <3>3 DEF Appending
  <2>13. SentCopyOnce'
    BY <1>0 DEF SentCopyOnce
  <2> QED
    BY <2>7, <2>9, <2>10, <2>11, <2>12, <2>13
<1> QED
  BY <1>3, <1>4

(* The APPEND itself: a copy is added only if the search would not have     *)
(* found one, and a second attempt always searches.                         *)
LEMMA AppendFiling ==
    ASSUME Filing, TypeOK', NEW a \in Actors, NEW filed \in BOOLEAN, AppendOnce(a, filed)
    PROVE  Filing'
<1> USE DEF Filing, Draining
<1> DEFINE m == cur[a].row.msg
<1>1. UNCHANGED <<rows, gate, snap>> /\ pc[a] = "append" /\ gate = a
  BY DEF AppendOnce, store, GateHeld
<1>2. m \in Sends /\ sentBox[m] \in Nat
  <2>1. cur[a].row \in Row
    BY <1>1 DEF Appending
  <2> QED
    BY <2>1 DEF TypeOK, Row
<1>3. sentBox' = sentBox \/ (sentBox' = [sentBox EXCEPT ![m] = @ + 1] /\ sentBox[m] = 0)
  <2>1. sentBox[m] > 0 => cur[a].row.attempts > 0
    BY <1>1 DEF Appending
  <2> QED
    BY <1>2, <2>1 DEF AppendOnce
<1>4. \A n \in Sends : n # m => sentBox'[n] = sentBox[n]
  BY <1>2, <1>3 DEF TypeOK
<1>5. /\ pc'[a] = "filed"
      /\ \A b \in Actors \ {a} : pc'[b] = pc[b] /\ pc'[b] \notin Draining
  <2>1. pc' = [pc EXCEPT ![a] = "filed"]
    BY DEF AppendOnce, Goto
  <2> QED
    BY <1>1, <2>1 DEF TypeOK, GateHeld
<1> HIDE DEF m
<1>6. GateHeld'
  BY <1>1, <1>5 DEF GateHeld
<1>7. \A s \in Fresh' : s \in Fresh /\ s # m
  <2>1. \A s \in Fresh' : s \in Fresh
    BY <1>5, ActorKinds DEF Fresh
  <2>2. \A s \in Fresh : s # m
    BY <1>1 DEF FreshUnknown, m
  <2> QED
    BY <2>1, <2>2
<1>8. FreshUnknown'
  <2>1. \A s \in Fresh' : sentBox'[s] = 0
    BY <1>4, <1>7 DEF FreshUnknown, Fresh
  <2>2. \A b \in Actors : pc'[b] # "append"
    BY <1>5
  <2> QED
    BY <1>1, <1>7, <2>1, <2>2 DEF FreshUnknown, Present
<1>9. OneRowPerMessage'
  BY <1>1 DEF OneRowPerMessage, Present
<1>10. AttemptsCounted'
  <2>1. \A i \in Present : rows[i].msg = m => rows[i].attempts > 0
    BY <1>1 DEF Appending, m
  <2>2. \A e \in snap[a] : e.row.msg # m
    BY <1>1 DEF Appending, m
  <2>3. \A i \in Present : sentBox'[rows[i].msg] > 0 => rows[i].attempts > 0
    BY <1>4, <2>1, RowTyped DEF AttemptsCounted
  <2>4. \A e \in snap[a] : sentBox'[e.row.msg] > 0 => e.row.attempts > 0
    BY <1>1, <1>4, <2>2, SnapTyped DEF AttemptsCounted
  <2> QED
    BY <1>1, <2>3, <2>4 DEF AttemptsCounted, Present
<1>11. Appending'
  BY <1>5 DEF Appending
<1>12. SentCopyOnce'
  <2>1. sentBox'[m] <= 1
    BY <1>2, <1>3 DEF TypeOK, SentCopyOnce
  <2> QED
    BY <1>4, <2>1 DEF SentCopyOnce
<1> QED
  BY <1>6, <1>8, <1>9, <1>10, <1>11, <1>12

(* Every step of a drain keeps the invariant.                               *)
LEMMA DrainFiling ==
    ASSUME Filing, TypeOK', NEW a \in Actors, Drain(a)
    PROVE  Filing'
<1>1. CASE TakeGate(a) \/ SkipAppend(a) \/ RecordAppend(a) \/ EndPass(a)
  BY <1>1, DrainQuiet, QuietFiling DEF Filing
<1>2. CASE BeginAppend(a)
  BY <1>2, BeginAppendFiling
<1>3. ASSUME NEW filed \in BOOLEAN, AppendOnce(a, filed) PROVE Filing'
  BY <1>3, AppendFiling
<1> QED
  BY <1>1, <1>2, <1>3 DEF Drain

(* Every step of a live send of its own keeps the invariant.                *)
LEMMA SendFiling ==
    ASSUME Filing, TypeOK', NEW s \in Sends, SendStep(s)
    PROVE  Filing'
<1> USE DEF FreshLabels, Draining
<1>0. TypeOK /\ GateHeld /\ s \in Actors
  BY ActorKinds DEF Filing
<1>1. ASSUME NEW l \in {"claim", "enqueue", "ended"},
             pc' = [pc EXCEPT ![s] = l], l # "ended" => pc[s] \in FreshLabels,
             \A b \in Actors \ {s} : cur'[b] = cur[b],
             UNCHANGED <<rows, gate, snap, sentBox>>
      PROVE  Filing'
  BY <1>0, <1>1, SameRowsKept, OwnStep, QuietFiling
<1>2. CASE StartSend(s)
  <2>1. /\ pc[s] \in FreshLabels /\ \E l \in {"claim", "enqueue"} : pc' = [pc EXCEPT ![s] = l]
        /\ \A b \in Actors \ {s} : cur'[b] = cur[b]
    BY <1>0, <1>2 DEF StartSend, Goto, TypeOK
  <2> QED
    BY <1>1, <1>2, <2>1 DEF StartSend, store, world
<1>3. CASE ClaimDraft(s)
  <2>1. /\ pc[s] \in FreshLabels /\ \E l \in {"enqueue", "ended"} : pc' = [pc EXCEPT ![s] = l]
        /\ \A b \in Actors \ {s} : cur'[b] = cur[b]
    BY <1>0, <1>3 DEF ClaimDraft, Ended, Goto, TypeOK
  <2> QED
    BY <1>1, <1>3, <2>1 DEF ClaimDraft, store, world
<1>4. CASE SettleDraft(s)
  <2>1. pc' = [pc EXCEPT ![s] = "ended"] /\ \A b \in Actors \ {s} : cur'[b] = cur[b]
    BY <1>0, <1>4 DEF SettleDraft, Ended, Goto, TypeOK
  <2> QED
    BY <1>1, <1>4, <2>1 DEF SettleDraft, store, world
<1> QED
  BY <1>2, <1>3, <1>4, EnqueueFiling DEF SendStep

(* The sweep and the resubmission of a resume append nothing.               *)
LEMMA ResumeQuiet ==
    ASSUME TypeOK, GateHeld, NEW w \in Resumers,
           ResumeStep(w) \/ Tick(w) \/ SyncRun(w)
    PROVE  Quiet
<1> USE DEF FreshLabels, Draining
<1>0. w \in Actors /\ w \notin Sends
  BY DEF Actors
<1>1. ASSUME NEW l \in {"sweep", "park", "resubmit", "settle", "smtp", "mark", "retire"},
             pc' = [pc EXCEPT ![w] = l],
             \A b \in Actors \ {w} : cur'[b] = cur[b] /\ snap'[b] = snap[b],
             snap'[w] \subseteq snap[w],
             UNCHANGED <<gate, sentBox>>, RowsKept
      PROVE  Quiet
  BY <1>0, <1>1, OwnStep
<1>2. CASE Sweep(w)
  <2>1. /\ pc'[w] = "park" /\ pc[w] = "sweep" /\ \A b \in Actors \ {w} : pc'[b] = pc[b]
        /\ snap'[w] = Snapshot(InState({"pending_send"}))
        /\ \A b \in Actors \ {w} : snap'[b] = snap[b]
        /\ UNCHANGED <<rows, gate, cur, sentBox>>
    BY <1>0, <1>2 DEF Sweep, Goto, TypeOK, store, world
  <2>2. ReadAfresh(w)
    BY <2>1 DEF ReadAfresh, Snapshot, InState
  <2>3. \A b \in Actors : snap'[b] \subseteq snap[b] \/ ReadAfresh(b)
    BY <2>1, <2>2
  <2>4. \A b \in Actors : gate' = b => (gate = b /\ snap'[b] \subseteq snap[b]) \/ ReadAfresh(b)
    BY <2>1, <2>2
  <2>5. \A b \in Actors : pc'[b] \in Draining => gate' = b
    BY <2>1 DEF GateHeld
  <2>6. \A b \in Actors : pc'[b] = "append" => /\ pc[b] = "append" /\ cur'[b].row = cur[b].row
                                              /\ snap'[b] \subseteq snap[b]
    BY <2>1
  <2>7. \A s \in Sends : pc'[s] \in FreshLabels => pc[s] \in FreshLabels
    BY <1>0, <2>1, ActorKinds
  <2> QED
    BY <2>1, <2>3, <2>4, <2>5, <2>6, <2>7, SameRowsKept DEF Quiet
<1>3. CASE Park(w)
  <2>1. RowsKept
    <3> SUFFICES ASSUME NEW i \in Present'
                 PROVE  /\ i \in Present
                        /\ rows'[i].msg = rows[i].msg
                        /\ rows'[i].attempts >= rows[i].attempts
      BY DEF RowsKept
    <3>1. /\ i \in Ids
          /\ rows'[i] = IF i \in Stranded(w) THEN [rows[i] EXCEPT !.state = "failed"]
                       ELSE rows[i]
      BY <1>3 DEF Park, Present
    <3>2. i \in Present
      BY <3>1 DEF Present, Stranded, InState
    <3>3. rows[i] \in Row /\ rows[i].attempts \in Nat
      BY <3>2, RowTyped DEF Row
    <3>4. /\ [rows[i] EXCEPT !.state = "failed"].msg = rows[i].msg
          /\ [rows[i] EXCEPT !.state = "failed"].attempts = rows[i].attempts
      BY <3>3 DEF Row
    <3> QED
      BY <3>1, <3>2, <3>3, <3>4
  <2>2. snap'[w] \subseteq snap[w] /\ \A b \in Actors \ {w} : snap'[b] = snap[b]
    BY <1>0, <1>3 DEF Park, TypeOK
  <2>3. pc' = [pc EXCEPT ![w] = "resubmit"] /\ UNCHANGED <<gate, cur, sentBox>>
    BY <1>3 DEF Park, Goto, world
  <2> QED
    BY <1>1, <2>1, <2>2, <2>3
<1>4. CASE SkipRow(w)
  <2>1. snap'[w] \subseteq snap[w] /\ \A b \in Actors \ {w} : snap'[b] = snap[b]
    BY <1>0, <1>4 DEF SkipRow, TypeOK
  <2>2. pc' = [pc EXCEPT ![w] = "resubmit"] /\ UNCHANGED <<rows, gate, cur, sentBox>>
    BY <1>4 DEF SkipRow, TypeOK, store, world
  <2> QED
    BY <1>1, <2>1, <2>2, SameRowsKept
<1>5. CASE ClaimRow(w)
  <2>1. /\ snap'[w] \subseteq snap[w] /\ \A b \in Actors \ {w} : snap'[b] = snap[b]
        /\ \A b \in Actors \ {w} : cur'[b] = cur[b]
    BY <1>0, <1>5 DEF ClaimRow, TypeOK
  <2>2. PICK l \in {"smtp", "mark", "retire"} : pc' = [pc EXCEPT ![w] = l]
    BY <1>5 DEF ClaimRow, Goto
  <2>3. UNCHANGED <<rows, gate, sentBox>>
    BY <1>5 DEF ClaimRow, store, world
  <2> QED
    BY <1>1, <2>1, <2>2, <2>3, SameRowsKept
<1>6. CASE RetireDraftOfRow(w)
  <2>1. \A b \in Actors \ {w} : cur'[b] = cur[b]
    BY <1>6 DEF RetireDraftOfRow, TypeOK
  <2> QED
    BY <1>1, <1>6, <2>1, SameRowsKept DEF RetireDraftOfRow, Goto, store, world
<1>7. CASE EndResubmit(w)
  BY <1>1, <1>7, SameRowsKept DEF EndResubmit, Goto, store, world
<1>8. CASE Tick(w)
  BY <1>1, <1>8, SameRowsKept DEF Tick, Goto, store, world
<1>9. CASE SyncRun(w)
  BY <1>1, <1>9, SameRowsKept DEF SyncRun, Goto, store, world
<1> QED
  BY <1>2, <1>3, <1>4, <1>5, <1>6, <1>7, <1>8, <1>9 DEF ResumeStep

(* Neither do the operator's retry and discard, ...                         *)
LEMMA OperatorQuiet ==
    ASSUME TypeOK, GateHeld, NEW i \in Ids,
           Discard(i) \/ \E w \in Resumers : Retry(w, i)
    PROVE  Quiet
<1>1. CASE Discard(i)
  <2>1. RowsKept
    <3> SUFFICES ASSUME NEW j \in Present'
                 PROVE  /\ j \in Present
                        /\ rows'[j].msg = rows[j].msg
                        /\ rows'[j].attempts >= rows[j].attempts
      BY DEF RowsKept
    <3>1. j \in Present /\ rows'[j] = rows[j]
      BY <1>1 DEF Discard, Present, TypeOK
    <3>2. rows[j].attempts \in Nat
      BY <3>1, RowTyped DEF Row
    <3> QED
      BY <3>1, <3>2
  <2> QED
    BY <1>1, <2>1 DEF Discard, Quiet, world, GateHeld, Draining
<1>2. ASSUME NEW w \in Resumers, Retry(w, i) PROVE Quiet
  <2>0. w \in Actors /\ w \notin Sends
    BY DEF Actors
  <2>1. RowsKept
    <3>1. CASE rows' = rows
      BY <3>1, SameRowsKept
    <3>2. CASE rows' # rows
      <4> DEFINE r == [rows[i] EXCEPT !.state = "pending_send", !.marker = FALSE]
      <4>1. /\ i \in InState({"failed"})
            /\ rows' = [rows EXCEPT ![i].state = "pending_send", ![i].marker = FALSE]
        BY <1>2, <3>2, Zenon DEF Retry
      <4>2. i \in Present /\ rows[i] \in Row
        BY <4>1, RowTyped DEF InState
      <4>3. r \in Row
        BY <4>2, RowUpdates DEF States
      <4>4. r.msg = rows[i].msg /\ r.attempts = rows[i].attempts /\ rows[i].attempts \in Nat
        BY <4>2 DEF Row
      <4>5. rows' = [rows EXCEPT ![i] = r]
        BY <4>1
      <4> HIDE DEF r
      <4>6. r.attempts >= rows[i].attempts
        BY <4>4
      <4> QED
        BY <4>2, <4>3, <4>4, <4>5, <4>6, UpdateKept
    <3> QED
      BY <3>1, <3>2
  <2>2. pc' = [pc EXCEPT ![w] = "sweep"] /\ \A b \in Actors \ {w} : cur'[b] = cur[b]
    BY <1>2 DEF Retry, Goto, TypeOK
  <2>3. UNCHANGED <<gate, snap, sentBox>>
    BY <1>2 DEF Retry, world
  <2> QED
    BY <2>0, <2>1, <2>2, <2>3, OwnStep DEF FreshLabels, Draining
<1> QED
  BY <1>1, <1>2

(* ... nor a crash, which forgets the snapshots and the lock.               *)
LEMMA CrashQuiet ==
    ASSUME TypeOK, GateHeld, Crash
    PROVE  Quiet
<1>1. \A a \in Actors : snap'[a] = {} /\ pc'[a] \in {"idle", "ended"}
  BY DEF Crash
<1>2. \A s \in Sends : pc'[s] \in FreshLabels => pc[s] \in FreshLabels
  <2>1. \A s \in Sends : pc'[s] = IF pc[s] = "idle" THEN "idle" ELSE "ended"
    BY ActorKinds DEF Crash
  <2> QED
    BY <2>1 DEF FreshLabels
<1>3. \A a \in Actors : gate' # a
  BY DEF Crash, Actors
<1> QED
  BY <1>1, <1>2, <1>3, SameRowsKept DEF Crash, Quiet, Draining, store, world

(* FilingInvariant: the inductive invariant behind the next theorem: a      *)
(* message has one row, and whoever files it has counted an attempt before  *)
(* the copy can be in Sent.                                                 *)
THEOREM FilingInvariant == Spec => []Filing
<1>1. Init /\ TypeOK => Filing
  BY ActorKinds DEF Init, Filing, GateHeld, FreshUnknown, Fresh, Present, OneRowPerMessage,
                    AttemptsCounted, Appending, SentCopyOnce
<1>2. Filing /\ TypeOK' /\ [Next]_vars => Filing'
  <2> SUFFICES ASSUME Filing, TypeOK', [Next]_vars PROVE Filing'
    OBVIOUS
  <2>0. TypeOK /\ GateHeld
    BY DEF Filing
  <2>1. ASSUME NEW a \in Actors, Submit(a) PROVE Filing'
    BY <2>0, <2>1, SubmitQuiet, QuietFiling
  <2>2. ASSUME NEW a \in Actors, Drain(a) PROVE Filing'
    BY <2>2, DrainFiling
  <2>3. ASSUME NEW s \in Sends, SendStep(s) PROVE Filing'
    BY <2>3, SendFiling
  <2>4. ASSUME NEW w \in Resumers, ResumeStep(w) \/ Tick(w) \/ SyncRun(w) PROVE Filing'
    BY <2>0, <2>4, ResumeQuiet, QuietFiling
  <2>5. ASSUME NEW i \in Ids, Discard(i) \/ \E w \in Resumers : Retry(w, i) PROVE Filing'
    BY <2>0, <2>5, OperatorQuiet, QuietFiling
  <2>6. CASE Crash
    BY <2>0, <2>6, CrashQuiet, QuietFiling
  <2>7. ASSUME UNCHANGED <<rows, gate, pc, cur, snap, sentBox>> PROVE Filing'
    <3>1. Quiet
      BY <2>0, <2>7, SameRowsKept DEF Quiet, GateHeld, Draining
    <3> QED
      BY <3>1, QuietFiling
  <2>8. ASSUME NEW d \in Drafts, Reapprove(d) PROVE Filing'
    BY <2>7, <2>8 DEF Reapprove, store, world
  <2>9. CASE UNCHANGED vars
    BY <2>7, <2>9 DEF vars
  <2> QED
    BY <2>1, <2>2, <2>3, <2>4, <2>5, <2>6, <2>8, <2>9 DEF Next
<1> QED
  BY <1>1, <1>2, Typing, PTL DEF Spec

(* SentOnce: however many sends, resumes, crashes, retries and discards, in *)
(* whatever states and under whatever settings, the Sent mailbox never holds*)
(* a message twice.                                                         *)
THEOREM SentOnce == Spec => []SentCopyOnce
<1>1. Filing => SentCopyOnce
  BY DEF Filing
<1> QED
  BY <1>1, FilingInvariant, PTL

-----------------------------------------------------------------------------
(* The conditions: every send is of a mirrored draft, so it takes the turn    *)
(* (runtime.rs, send_draft); no sync.run drains beside the runtime; and the   *)
(* operator re-arms nothing and discards only what is parked.                *)
TurnHeld ==
    /\ HoldsTurn = Sends /\ TurnResumers = Resumers
    /\ DiscardStates \subseteq {"failed"} /\ MaxRetries = 0

Submitting == {"mark", "smtp", "transition"}
Finishing  == {"ingest", "complete"}

Resting(a) == pc[a] \in {"idle", "ended"}

(* Whoever is at work holds the turn.                                        *)
OneAtWork == \A a \in Actors : ~Resting(a) => turn = a

(* Whoever is not has nothing in memory and no gate.                         *)
Rests(a) == Resting(a) => cur[a] = NoCur /\ snap[a] = {} /\ gate # a

(* Outside a drain only a resume holds rows it read: the pending rows as     *)
(* they are, after Park the unmarked ones, and never the one it works on.    *)
Reads(a) ==
    gate # a => \A e \in snap[a] :
        /\ a \in Resumers
        /\ pc[a] \in {"park", "resubmit", "retire"} \cup Submitting \cup Finishing
        /\ e.id \in InState({"pending_send"}) /\ rows[e.id] = e.row
        /\ pc[a] # "park" => ~e.row.marker
        /\ pc[a] \notin {"park", "resubmit"} => e.id # cur[a].id

(* In a drain a row that is still there is of the message read.              *)
Lists(a) ==
    gate = a =>
        /\ pc[a] \in Draining \cup Finishing
        /\ \A e \in snap[a] : e.id \in Present => rows[e.id].msg = e.row.msg

(* No verdict is left over from another row, ...                             *)
Unspoken(a) ==
    pc[a] \in {"claim", "enqueue", "sweep", "park", "resubmit", "mark"} =>
        \A r \in Recipients : cur[a].said[r] = "none"

(* ... and those said to a send are of its own message.                      *)
Told(a) ==
    a \in Sends =>
        /\ pc[a] \in Submitting => cur[a].row.msg = a
        /\ \A r \in Said(a, "delivered") : copies[a][r] > 0

WorksOn(a, state) ==
    /\ cur[a].row # None
    /\ cur[a].id \in InState({state}) /\ rows[cur[a].id].msg = cur[a].row.msg

Recorded(i) == \A r \in Recipients : copies[rows[i].msg][r] > 0 => r \in rows[i].delivered

(* The row of a submission is pending as long as it lasts; it is marked      *)
(* while there is something to say or said; and whoever may have the message *)
(* is in its envelope or among the verdicts.                                 *)
Submits(a) ==
    gate # a =>
        /\ pc[a] \in Submitting \cup Finishing => WorksOn(a, "pending_send")
        /\ pc[a] = "mark" => ~rows[cur[a].id].marker
        /\ pc[a] \in {"mark", "smtp"} =>
              \A r \in cur[a].todo : cur[a].said[r] = "none" /\ r \notin rows[cur[a].id].delivered
        /\ pc[a] = "smtp" /\ cur[a].todo # {} => rows[cur[a].id].marker
        /\ pc[a] = "transition" => rows[cur[a].id] = cur[a].row
        /\ pc[a] \in {"smtp", "transition"} =>
              /\ (\E r \in Recipients : cur[a].said[r] # "none") => rows[cur[a].id].marker
              /\ \A r \in Said(a, "delivered") : copies[cur[a].row.msg][r] > 0
              /\ \A r \in Recipients : copies[cur[a].row.msg][r] > 0 =>
                    \/ r \in rows[cur[a].id].delivered \cup Said(a, "ambiguous")
                    \/ pc[a] = "smtp" /\ r \in Said(a, "delivered")
        /\ pc[a] \in Finishing => /\ rows[cur[a].id].delivered # {}
                                  /\ Outstanding(rows[cur[a].id]) = {}

(* The row of an APPEND waits for one as long as it lasts, and is completed  *)
(* when the message is in Sent.                                              *)
Files(a) ==
    gate = a /\ pc[a] # "drain" =>
        /\ WorksOn(a, "sent_pending_append")
        /\ pc[a] \in Finishing \/ (pc[a] = "filed" /\ cur[a].filed) => sentBox[cur[a].row.msg] > 0

Work(a) ==
    /\ Rests(a) /\ Reads(a) /\ Lists(a) /\ Unspoken(a) /\ Told(a) /\ Submits(a) /\ Files(a)

(* Envelopes tell the truth: who is in one has the message; who has one      *)
(* is in it, unless the row is marked; a row that says sent went to all.     *)
Envelopes ==
    /\ \A i \in Present : \A r \in rows[i].delivered : copies[rows[i].msg][r] > 0
    /\ \A i \in InState({"pending_send"}) : rows[i].marker \/ Recorded(i)
    /\ \A i \in InState({"sent_pending_append", "done"}) :
          rows[i].delivered # {} /\ Outstanding(rows[i]) = {}

Copies ==
    /\ \A s \in Fresh, r \in Recipients : copies[s][r] = 0
    /\ \A m \in Sends, r \in Recipients : copies[m][r] <= 1

NotDone(m) == \E i \in Present : rows[i].msg = m /\ rows[i].state # "done"

Accounted ==
    \A m \in Sends :
        refs[m] = (IF NotDone(m) THEN 1 ELSE 0) + (IF localCopy[m] THEN 1 ELSE 0)

Retirements ==
    \A d \in Drafts : file[d].status = "retired" =>
        /\ file[d].sentAs \in Sends
        /\ \A r \in Recipients : copies[file[d].sentAs][r] > 0

TurnInv ==
    /\ TurnHeld /\ OneAtWork /\ \A a \in Actors : Work(a)
    /\ Envelopes /\ Copies /\ Accounted /\ Retirements

-----------------------------------------------------------------------------
(* Who rests, rests.                                                         *)

LEMMA RestingWorks ==
    ASSUME NEW b \in Actors, Resting(b)', cur'[b] = NoCur, snap'[b] = {}, gate' # b
    PROVE  Work(b)'
  BY DEF Work, Rests, Reads, Lists, Unspoken, Told, Submits, Files, Resting, Submitting,
         Finishing, Said, NoCur

LEMMA OthersRest ==
    ASSUME TurnInv, NEW a \in Actors, turn \in {None, a}, NEW b \in Actors, b # a
    PROVE  Resting(b) /\ cur[b] = NoCur /\ snap[b] = {} /\ gate # b
  BY ActorsAssumption DEF TurnInv, OneAtWork, Work, Rests, Actors

(* A step of whoever holds the turn, on its own memory.                      *)
OwnMove(a) ==
    \A b \in Actors \ {a} :
        pc'[b] = pc[b] /\ cur'[b] = cur[b] /\ snap'[b] = snap[b] /\ gate' # b

LEMMA OwnMoveKeeps ==
    ASSUME TurnInv, NEW a \in Actors, turn \in {None, a}, OwnMove(a), turn' = a \/ Resting(a)',
           Work(a)'
    PROVE  OneAtWork' /\ \A b \in Actors : Work(b)'
<1>1. ASSUME NEW b \in Actors, b # a
      PROVE  Resting(b)' /\ Work(b)'
  <2>1. Resting(b) /\ cur[b] = NoCur /\ snap[b] = {}
    BY <1>1, OthersRest
  <2>2. Resting(b)' /\ cur'[b] = NoCur /\ snap'[b] = {} /\ gate' # b
    BY <1>1, <2>1 DEF OwnMove, Resting
  <2> QED
    BY <1>1, <2>2, RestingWorks
<1>2. OneAtWork'
  BY <1>1 DEF OneAtWork, Resting
<1> QED
  BY <1>1, <1>2

(* A step that leaves the table and the world alone keeps what they say.     *)
LEMMA TableKeeps ==
    ASSUME TurnInv, UNCHANGED <<rows, refs, localCopy, file, copies>>,
           \A s \in Sends : pc'[s] \in FreshLabels => pc[s] \in FreshLabels
    PROVE  TurnHeld' /\ Envelopes' /\ Copies' /\ Accounted' /\ Retirements'
  BY DEF TurnInv, TurnHeld, Envelopes, Copies, Accounted, Retirements, Fresh,
         FreshLabels, InState, Present, Recorded, Outstanding, NotDone


(* A row rewritten with a true envelope.                                     *)
LEMMA RowTrue ==
    ASSUME TurnInv, TypeOK, NEW i \in Present, NEW r \in Row, r.msg = rows[i].msg,
           rows' = [rows EXCEPT ![i] = r], copies' = copies,
           \A q \in r.delivered : copies[r.msg][q] > 0,
           r.state = "pending_send" =>
               r.marker \/ \A q \in Recipients : copies[r.msg][q] > 0 => q \in r.delivered,
           r.state \in {"sent_pending_append", "done"} =>
               r.delivered # {} /\ Outstanding(r) = {}
    PROVE  Envelopes'
<1>1. /\ i \in Ids /\ rows'[i] = r
      /\ \A j \in Present' : j # i => j \in Present /\ rows'[j] = rows[j]
  BY DEF Present, TypeOK
<1>2. Envelopes
  BY DEF TurnInv
<1>3. ASSUME NEW j \in Present'
      PROVE  /\ \A q \in rows'[j].delivered : copies[rows'[j].msg][q] > 0
             /\ rows'[j].state = "pending_send" =>
                   \/ rows'[j].marker
                   \/ \A q \in Recipients : copies[rows'[j].msg][q] > 0 => q \in rows'[j].delivered
             /\ rows'[j].state \in {"sent_pending_append", "done"} =>
                   rows'[j].delivered # {} /\ Outstanding(rows'[j]) = {}
  <2>1. CASE j = i
    BY <1>1, <2>1
  <2>2. CASE j # i
    BY <1>1, <1>2, <1>3, <2>2 DEF Envelopes, InState, Recorded
  <2> QED
    BY <2>1, <2>2
<1>4. \A row : Outstanding(row)' = Recipients \ (row.delivered \cup row.rejected)
  BY DEF Outstanding
<1> QED
  BY <1>3 DEF Envelopes, InState, Recorded, Outstanding

(* The reference of a row is released with the row, or when it is done.      *)
LEMMA RowCounted ==
    ASSUME TurnInv, Filing, NEW i \in Present, NEW r \in Row, r.msg = rows[i].msg,
           rows' = [rows EXCEPT ![i] = r], UNCHANGED <<refs, localCopy>>,
           r.state # "done", rows[i].state # "done"
    PROVE  Accounted'
<1>1. /\ i \in Ids /\ rows'[i] = r /\ r # None /\ rows[i] # None
      /\ \A j \in Ids : j # i => rows'[j] = rows[j]
  BY NoneAssumption DEF Present, TypeOK, Filing
<1>2. ASSUME NEW m \in Sends PROVE NotDone(m)' <=> NotDone(m)
  <2>1. NotDone(m)' = \E j \in Present' : rows'[j].msg = m /\ rows'[j].state # "done"
    BY DEF NotDone
  <2> QED
    BY <1>1, <2>1 DEF NotDone, Present
<1> QED
  BY <1>2 DEF TurnInv, Accounted

-----------------------------------------------------------------------------
(* The steps of a send before its submission, and its end.                   *)

LEMMA EndedKeeps ==
    ASSUME TurnInv, TypeOK, NEW s \in Sends, turn = s, gate # s, snap[s] = {}, Ended(s),
           UNCHANGED <<gate, snap>>
    PROVE  OneAtWork' /\ \A b \in Actors : Work(b)'
<1>1. s \in Actors
  BY ActorKinds
<1>2. pc' = [pc EXCEPT ![s] = "ended"] /\ cur' = [cur EXCEPT ![s] = NoCur] /\ turn' = None
  BY DEF Ended, Goto
<1>3. Resting(s)' /\ cur'[s] = NoCur /\ snap'[s] = {} /\ gate' # s
  BY <1>1, <1>2 DEF TypeOK, Resting
<1>4. Work(s)'
  BY <1>1, <1>3, RestingWorks
<1>5. OwnMove(s)
  BY <1>1, <1>2, OthersRest DEF OwnMove, TypeOK
<1> QED
  BY <1>1, <1>3, <1>4, <1>5, OwnMoveKeeps

LEMMA StartKeeps ==
    ASSUME TurnInv, TypeOK, NEW s \in Sends, StartSend(s)
    PROVE  TurnInv'
<1>1. s \in Actors /\ turn = None /\ turn' = s
  BY ActorKinds DEF StartSend, TurnInv, TurnHeld, TurnFree
<1>2. PICK l \in {"claim", "enqueue"} : pc' = [pc EXCEPT ![s] = l]
  BY DEF StartSend, Goto
<1>3. cur[s] = NoCur /\ snap[s] = {} /\ gate # s
  BY <1>1 DEF StartSend, TurnInv, Work, Rests, Resting
<1>4. /\ cur'[s].said = cur[s].said
      /\ \A b \in Actors \ {s} : pc'[b] = pc[b] /\ cur'[b] = cur[b]
      /\ UNCHANGED <<store, file, slot, gate, snap, world, history>>
  <2>1. cur[s] \in Cur
    BY <1>1 DEF TypeOK
  <2>2. \A m : [cur[s] EXCEPT !.sentAs = m].said = cur[s].said
    BY <2>1 DEF Cur
  <2>3. \/ cur' = cur
        \/ \E m : cur' = [cur EXCEPT ![s] = [cur[s] EXCEPT !.sentAs = m]]
    BY DEF StartSend
  <2>4. cur'[s].said = cur[s].said /\ \A b \in Actors \ {s} : cur'[b] = cur[b]
    <3>1. CASE cur' = cur
      BY <3>1
    <3>2. CASE cur' # cur
      <4>1. PICK m : cur' = [cur EXCEPT ![s] = [cur[s] EXCEPT !.sentAs = m]]
        BY <2>3, <3>2
      <4>2. cur'[s] = [cur[s] EXCEPT !.sentAs = m]
        BY <1>1, <4>1 DEF TypeOK
      <4> QED
        BY <1>1, <2>2, <4>1, <4>2 DEF TypeOK
    <3> QED
      BY <3>1, <3>2
  <2>5. \A b \in Actors \ {s} : pc'[b] = pc[b]
    BY <1>1, <1>2 DEF TypeOK
  <2> QED
    BY <2>4, <2>5 DEF StartSend
<1>5. OwnMove(s)
  BY <1>1, <1>4, OthersRest DEF OwnMove
<1>6. Work(s)'
  BY <1>1, <1>2, <1>3, <1>4 DEF Work, Rests, Reads, Lists, Unspoken, Told, Submits, Files,
     Resting, Submitting, Finishing, Said, NoCur, TypeOK
<1>7. OneAtWork' /\ \A b \in Actors : Work(b)'
  BY <1>1, <1>5, <1>6, OwnMoveKeeps
<1>8. TurnHeld' /\ Envelopes' /\ Copies' /\ Accounted' /\ Retirements'
  <2>1. \A m \in Sends : pc'[m] \in FreshLabels => pc[m] \in FreshLabels
    BY <1>2 DEF StartSend, TypeOK, FreshLabels
  <2> QED
    BY <1>4, <2>1, TableKeeps DEF store, world
<1> QED
  BY <1>7, <1>8 DEF TurnInv

LEMMA ClaimKeeps ==
    ASSUME TurnInv, TypeOK, NEW s \in Sends, ClaimDraft(s)
    PROVE  TurnInv'
<1>1. s \in Actors /\ pc[s] = "claim" /\ turn = s
  BY ActorKinds DEF ClaimDraft, TurnInv, OneAtWork, Resting
<1>2. snap[s] = {} /\ gate # s
  BY <1>1 DEF TurnInv, Work, Reads, Lists, Draining, Submitting, Finishing
<1>3. UNCHANGED <<store, file, gate, snap, world, history>>
  BY DEF ClaimDraft
<1>4. OneAtWork' /\ \A b \in Actors : Work(b)'
  <2>1. CASE Ended(s)
    BY <1>1, <1>2, <1>3, <2>1, EndedKeeps
  <2>2. CASE Goto(s, "enqueue") /\ UNCHANGED <<turn, cur>>
    <3>1. OwnMove(s) /\ pc'[s] = "enqueue"
      BY <1>1, <1>3, <2>2, OthersRest DEF OwnMove, TypeOK, Goto
    <3>2. Work(s)
      BY <1>1 DEF TurnInv
    <3>3. Work(s)'
      BY <1>1, <1>2, <1>3, <2>2, <3>1, <3>2 DEF Work, Rests, Reads, Lists, Unspoken, Told, Submits,
         Files, Resting, Submitting, Finishing, Said, world
    <3> QED
      BY <1>1, <2>2, <3>1, <3>3, OwnMoveKeeps
  <2> QED
    BY <2>1, <2>2 DEF ClaimDraft
<1>5. \A m \in Sends : pc'[m] \in FreshLabels => pc[m] \in FreshLabels
  <2>1. PICK l : pc' = [pc EXCEPT ![s] = l]
    BY DEF ClaimDraft, Ended, Goto
  <2>2. \A m \in Sends : m # s => pc'[m] = pc[m]
    BY <2>1, ActorKinds DEF TypeOK
  <2> QED
    BY <1>1, <2>2 DEF FreshLabels
<1> QED
  BY <1>3, <1>4, <1>5, TableKeeps DEF TurnInv, store, world


LEMMA EnqueueKeeps ==
    ASSUME TurnInv, Filing, Filing', NEW s \in Sends, Enqueue(s)
    PROVE  TurnInv'
<1>0. TypeOK /\ TypeOK'
  BY DEF Filing
<1>1. s \in Actors /\ pc[s] = "enqueue" /\ turn = s /\ s \in Fresh
  BY ActorKinds DEF Enqueue, TurnInv, OneAtWork, Resting, Fresh
<1>2. snap[s] = {} /\ gate # s
  BY <1>1 DEF TurnInv, Work, Reads, Lists, Draining, Submitting, Finishing
<1>3. UNCHANGED <<file, gate, snap, world, history>>
  BY DEF Enqueue
<1>4. PICK l \in {"mark", "ended"} : pc' = [pc EXCEPT ![s] = l]
  BY DEF Enqueue, Ended, Goto
<1>5. /\ pc'[s] = l /\ \A b \in Actors \ {s} : pc'[b] = pc[b]
      /\ Fresh' = Fresh \ {s}
  BY <1>0, <1>1, <1>4, ActorKinds DEF TypeOK, Fresh
<1>6. CASE Ended(s) /\ UNCHANGED store
  <2>1. OneAtWork' /\ \A b \in Actors : Work(b)'
    BY <1>0, <1>1, <1>2, <1>3, <1>6, EndedKeeps
  <2>2. \A m \in Sends : pc'[m] \in FreshLabels => pc[m] \in FreshLabels
    BY <1>1, <1>5, ActorKinds DEF FreshLabels
  <2> QED
    BY <1>3, <1>6, <2>1, <2>2, TableKeeps DEF TurnInv, store, world
<1>7. CASE /\ \E i \in Ids, target \in SaveSettings :
               LET row == [msg |-> s, state |-> "pending_send", target |-> target,
                           marker |-> FALSE, attempts |-> 0,
                           delivered |-> {}, rejected |-> {}]
               IN /\ IsNextId(i)
                  /\ rows' = [rows EXCEPT ![i] = row]
                  /\ cur' = [cur EXCEPT ![s] = [@ EXCEPT !.id = i, !.row = row,
                                                          !.todo = Recipients]]
           /\ refs' = [refs EXCEPT ![s] = @ + 1]
           /\ UNCHANGED <<localCopy, slot, turn>>
           /\ Goto(s, "mark")
  <2>1. PICK i \in Ids, target \in SaveSettings :
               LET row == [msg |-> s, state |-> "pending_send", target |-> target,
                           marker |-> FALSE, attempts |-> 0,
                           delivered |-> {}, rejected |-> {}]
               IN /\ IsNextId(i)
                  /\ rows' = [rows EXCEPT ![i] = row]
                  /\ cur' = [cur EXCEPT ![s] = [@ EXCEPT !.id = i, !.row = row,
                                                          !.todo = Recipients]]
    BY <1>7
  <2>2. PICK row : /\ row = [msg |-> s, state |-> "pending_send", target |-> target,
                             marker |-> FALSE, attempts |-> 0,
                             delivered |-> {}, rejected |-> {}]
                   /\ row \in Row /\ row # None
    <3>1. [msg |-> s, state |-> "pending_send", target |-> target, marker |-> FALSE,
           attempts |-> 0, delivered |-> {}, rejected |-> {}] \in Row
      BY FlagsAssumption DEF Row, States
    <3> QED
      BY <3>1, NoneAssumption
  <2>3. /\ IsNextId(i) /\ rows' = [rows EXCEPT ![i] = row]
        /\ cur' = [cur EXCEPT ![s] = [@ EXCEPT !.id = i, !.row = row, !.todo = Recipients]]
    BY <2>1, <2>2
  <2>4. i \notin Present
    BY IdsAssumption, <2>3 DEF IsNextId, Present
  <2>5. /\ rows'[i] = row /\ Present' = Present \cup {i}
        /\ \A j \in Present : j # i /\ rows'[j] = rows[j]
    BY <1>0, <2>2, <2>3, <2>4 DEF TypeOK, Present
  <2>6. /\ cur'[s].id = i /\ cur'[s].row = row /\ cur'[s].said = cur[s].said
        /\ \A b \in Actors \ {s} : cur'[b] = cur[b]
    <3>1. cur[s] \in Cur
      BY <1>0, <1>1 DEF TypeOK
    <3>2. PICK c : c = [cur[s] EXCEPT !.id = i, !.row = row, !.todo = Recipients]
      OBVIOUS
    <3>3. c.id = i /\ c.row = row /\ c.said = cur[s].said
      BY <3>1, <3>2 DEF Cur
    <3>4. cur' = [cur EXCEPT ![s] = c]
      BY <2>3, <3>2
    <3> QED
      BY <1>0, <1>1, <3>3, <3>4 DEF TypeOK
  <2>7. OwnMove(s)
    BY <1>1, <1>3, <1>5, <2>6, OthersRest DEF OwnMove
  <2>8. \A r \in Recipients : cur[s].said[r] = "none"
    BY <1>1 DEF TurnInv, Work, Unspoken
  <2>9. pc'[s] = "mark"
    BY <1>0, <1>1, <1>7 DEF Goto, TypeOK
  <2>10. Work(s)'
    <3>1. WorksOn(s, "pending_send")'
      BY <2>2, <2>5, <2>6 DEF WorksOn, InState
    <3>2. \A r \in Recipients : cur'[s].said[r] = "none"
      BY <2>6, <2>8
    <3>3. cur'[s] \in Cur
      BY <1>0, <1>1 DEF TypeOK
    <3>4. Said(s, "delivered")' = {}
      BY <3>2 DEF Said
    <3>5. Submits(s)'
      BY <2>2, <2>5, <2>6, <2>9, <3>1, <3>2, <3>3 DEF Submits, Submitting, Finishing, Cur
    <3>6. Told(s)'
      BY <2>2, <2>6, <3>4 DEF Told
    <3>7. Unspoken(s)'
      BY <3>2 DEF Unspoken
    <3>8. Rests(s)' /\ Reads(s)' /\ Lists(s)' /\ Files(s)'
      BY <1>2, <1>3, <2>9 DEF Rests, Reads, Lists, Files, Resting
    <3> QED
      BY <3>5, <3>6, <3>7, <3>8 DEF Work
  <2>11. OneAtWork' /\ \A b \in Actors : Work(b)'
    BY <1>1, <1>7, <2>7, <2>10, OwnMoveKeeps
  <2>12. copies' = copies
    BY <1>3 DEF world
  <2>13. Copies'
    BY <1>5, <2>12 DEF TurnInv, Copies
  <2>14. Envelopes'
    <3>1. Envelopes
      BY DEF TurnInv
    <3>2. \A r \in Recipients : copies[s][r] = 0
      BY <1>1 DEF TurnInv, Copies
    <3>3. \A q : Outstanding(q)' = Outstanding(q)
      BY DEF Outstanding
    <3>4. ASSUME NEW j \in Present'
          PROVE  /\ \A q \in rows'[j].delivered : copies'[rows'[j].msg][q] > 0
                 /\ rows'[j].state = "pending_send" => rows'[j].marker \/ Recorded(j)'
                 /\ rows'[j].state \in {"sent_pending_append", "done"} =>
                       rows'[j].delivered # {} /\ Outstanding(rows'[j]) = {}
      <4>1. CASE j = i
        BY <2>2, <2>5, <2>12, <3>2, <4>1 DEF Recorded
      <4>2. CASE j # i
        BY <2>5, <2>12, <3>1, <3>4, <4>2 DEF Envelopes, InState, Recorded
      <4> QED
        BY <4>1, <4>2
    <3> QED
      BY <3>3, <3>4 DEF Envelopes, InState
  <2>15. Accounted'
    <3>1. \A m \in Sends : m # s => (NotDone(m)' <=> NotDone(m))
      BY <2>2, <2>5 DEF NotDone
    <3>2. ~NotDone(s) /\ NotDone(s)'
      BY <1>1, <2>2, <2>5 DEF NotDone, Filing, FreshUnknown
    <3>3. refs[s] \in Nat /\ refs'[s] = refs[s] + 1 /\ \A m \in Sends : m # s => refs'[m] = refs[m]
      BY <1>0, <1>7 DEF TypeOK
    <3> QED
      BY <1>7, <3>1, <3>2, <3>3 DEF TurnInv, Accounted
  <2> QED
    BY <1>3, <2>11, <2>12, <2>13, <2>14, <2>15 DEF TurnInv, TurnHeld, Retirements
<1> QED
  BY <1>6, <1>7 DEF Enqueue

-----------------------------------------------------------------------------
(* The steps of a submission.                                                *)

LEMMA AtWork ==
    ASSUME TurnInv, NEW a \in Actors, ~Resting(a)
    PROVE  turn = a /\ Work(a)
  BY DEF TurnInv, OneAtWork

LEMMA ReadsKept ==
    ASSUME TurnInv, TypeOK, NEW a \in Actors, gate # a, gate' # a,
           pc[a] \in Submitting \cup Finishing,
           pc'[a] \in {"retire"} \cup Submitting \cup Finishing,
           snap'[a] = snap[a], cur'[a].id = cur[a].id,
           \A j \in Ids : j # cur[a].id => rows'[j] = rows[j]
    PROVE  Reads(a)'
<1>1. Work(a) /\ pc[a] \notin {"park", "resubmit"} /\ pc'[a] \notin {"park", "resubmit"}
  BY DEF TurnInv, Submitting, Finishing
<1>2. ASSUME NEW e \in snap[a]
      PROVE  /\ a \in Resumers
             /\ e.id \in InState({"pending_send"})' /\ rows'[e.id] = e.row
             /\ ~e.row.marker /\ e.id # cur'[a].id
  <2>1. /\ a \in Resumers /\ e.id \in InState({"pending_send"}) /\ rows[e.id] = e.row
        /\ ~e.row.marker /\ e.id # cur[a].id
    BY <1>1, <1>2 DEF Work, Reads, Submitting, Finishing
  <2>2. rows'[e.id] = rows[e.id] /\ e.id \in Ids
    BY <2>1 DEF InState, Present
  <2> QED
    BY <2>1, <2>2 DEF InState, Present
<1> QED
  BY <1>1, <1>2 DEF Reads

(* A submission that is over: the draft is next.                             *)
LEMMA ToRetire ==
    ASSUME TurnInv, TypeOK, NEW a \in Actors, gate # a, gate' # a,
           pc[a] \in Submitting \cup Finishing, pc'[a] = "retire",
           snap'[a] = snap[a], cur'[a] = cur[a], copies' = copies,
           \A j \in Ids : j # cur[a].id => rows'[j] = rows[j]
    PROVE  Work(a)'
<1>1. Reads(a)'
  BY ReadsKept
<1>2. Told(a)'
  BY DEF TurnInv, Work, Told, Submitting, Said
<1> QED
  BY <1>1, <1>2 DEF Work, Rests, Lists, Unspoken, Submits, Files, Resting, Submitting, Finishing

LEMMA SubmitFailedKeeps ==
    ASSUME TurnInv, TypeOK, NEW a \in Actors, gate # a,
           pc[a] \in Submitting, SubmitFailed(a), UNCHANGED <<gate, snap, copies>>,
           \A j \in Ids : j # cur[a].id => rows'[j] = rows[j]
    PROVE  OneAtWork' /\ \A b \in Actors : Work(b)'
<1>1. turn = a /\ Work(a)
  BY AtWork DEF Submitting, Resting
<1>2. CASE a \in Sends
  <2>1. snap[a] = {}
    BY <1>1, <1>2, ActorKinds DEF Work, Reads
  <2> QED
    BY <1>1, <1>2, <2>1, EndedKeeps DEF SubmitFailed
<1>3. CASE a \notin Sends
  <2>1. pc' = [pc EXCEPT ![a] = "retire"] /\ turn' = turn /\ cur' = cur
    BY <1>3 DEF SubmitFailed, Goto
  <2>2. pc'[a] = "retire" /\ \A b \in Actors \ {a} : pc'[b] = pc[b]
    BY <2>1 DEF TypeOK
  <2>3. Work(a)'
    BY <2>1, <2>2, ToRetire
  <2>4. OwnMove(a)
    BY <1>1, <2>1, <2>2, OthersRest DEF OwnMove
  <2> QED
    BY <1>1, <2>1, <2>3, <2>4, OwnMoveKeeps
<1> QED
  BY <1>2, <1>3

(* A submission that rewrites its row with a true envelope.                  *)
LEMMA RewriteKeeps ==
    ASSUME TurnInv, Filing, NEW a \in Actors, WorksOn(a, "pending_send"), NEW r \in Row,
           r.msg = rows[cur[a].id].msg, rows' = [rows EXCEPT ![cur[a].id] = r],
           UNCHANGED <<refs, localCopy, file, copies>>,
           \A s \in Sends : pc'[s] \in FreshLabels => pc[s] \in FreshLabels,
           OneAtWork', \A b \in Actors : Work(b)',
           \A q \in r.delivered : copies[r.msg][q] > 0,
           r.state = "pending_send" =>
               r.marker \/ \A q \in Recipients : copies[r.msg][q] > 0 => q \in r.delivered,
           r.state # "done",
           r.state = "sent_pending_append" => r.delivered # {} /\ Outstanding(r) = {}
    PROVE  TurnInv'
<1>1. PICK i \in Present : i = cur[a].id /\ rows[i].state = "pending_send"
  BY DEF WorksOn, InState
<1>2. TypeOK
  BY DEF Filing
<1>3. Envelopes'
  BY <1>1, <1>2, RowTrue
<1>4. Accounted'
  BY <1>1, RowCounted
<1>5. Copies' /\ TurnHeld' /\ Retirements'
  BY DEF TurnInv, Copies, TurnHeld, Retirements, Fresh, FreshLabels
<1> QED
  BY <1>3, <1>4, <1>5 DEF TurnInv

LEMMA MarkKeeps ==
    ASSUME TurnInv, Filing, NEW a \in Actors, Mark(a)
    PROVE  TurnInv'
<1>0. TypeOK
  BY DEF Filing
<1>1. pc[a] = "mark" /\ turn = a /\ Work(a)
  BY AtWork DEF Mark, Resting
<1>2. gate # a
  BY <1>1 DEF Work, Lists, Draining, Finishing
<1>3. WorksOn(a, "pending_send") /\ ~rows[cur[a].id].marker
  BY <1>1, <1>2 DEF Work, Submits, Submitting
<1>4. PICK i \in Present : i = cur[a].id
  BY <1>3 DEF WorksOn, InState
<1>5. rows[i] \in Row /\ rows[i].state = "pending_send" /\ i \in Ids
  BY <1>0, <1>3, <1>4, RowTyped DEF WorksOn, InState
<1>6. PICK r : r = [rows[i] EXCEPT !.marker = TRUE]
  OBVIOUS
<1>7. /\ r \in Row /\ r.msg = rows[i].msg /\ r.state = "pending_send" /\ r.marker
      /\ r.delivered = rows[i].delivered
  BY <1>5, <1>6 DEF Row
<1>8. /\ rows' = [rows EXCEPT ![i] = r] /\ pc' = [pc EXCEPT ![a] = "smtp"]
      /\ UNCHANGED <<slot, turn, cur, refs, localCopy, file, gate, snap, world, history>>
  BY <1>3, <1>4, <1>6 DEF Mark, WorksOn, Marked, Goto
<1>9. /\ pc'[a] = "smtp" /\ \A b \in Actors \ {a} : pc'[b] = pc[b]
      /\ rows'[i] = r /\ i \in Present' /\ \A j \in Ids : j # i => rows'[j] = rows[j]
      /\ copies' = copies /\ sentBox' = sentBox
  BY <1>0, <1>5, <1>7, <1>8, NoneAssumption DEF TypeOK, Present, world
<1>10. \A q \in Recipients : copies[rows[i].msg][q] > 0 => q \in rows[i].delivered
  BY <1>3, <1>4, <1>5 DEF TurnInv, Envelopes, InState, Recorded
<1>11. \A q \in r.delivered : copies[r.msg][q] > 0
  BY <1>4, <1>7 DEF TurnInv, Envelopes
<1>12. Work(a)'
  <2>1. Reads(a)'
    BY <1>0, <1>1, <1>2, <1>4, <1>8, <1>9, ReadsKept DEF Submitting
  <2>2. Told(a)'
    BY <1>1, <1>8, <1>9 DEF Work, Told, Submitting, Said
  <2>3. WorksOn(a, "pending_send")'
    BY <1>3, <1>4, <1>7, <1>8, <1>9 DEF WorksOn, InState
  <2>4. \A q \in Recipients : cur[a].said[q] = "none"
    BY <1>1 DEF Work, Unspoken
  <2>5. Submits(a)'
    <3>1. \A q \in cur[a].todo : cur[a].said[q] = "none" /\ q \notin rows[i].delivered
      BY <1>1, <1>2, <1>4 DEF Work, Submits
    <3>2. \A q \in Recipients : copies[cur[a].row.msg][q] > 0 => q \in r.delivered
      BY <1>3, <1>4, <1>7, <1>10 DEF WorksOn
    <3>3. Said(a, "delivered")' = {}
      BY <1>8, <2>4 DEF Said
    <3> QED
      BY <1>4, <1>7, <1>8, <1>9, <2>3, <2>4, <3>1, <3>2, <3>3 DEF Submits, Finishing
  <2> QED
    BY <1>2, <1>8, <1>9, <2>1, <2>2, <2>5
       DEF Work, Rests, Lists, Unspoken, Files, Resting
<1>13. OwnMove(a)
  BY <1>1, <1>8, <1>9, OthersRest DEF OwnMove
<1>14. OneAtWork' /\ \A b \in Actors : Work(b)'
  BY <1>1, <1>8, <1>12, <1>13, OwnMoveKeeps
<1>15. \A s \in Sends : pc'[s] \in FreshLabels => pc[s] \in FreshLabels
  BY <1>9, ActorKinds DEF FreshLabels
<1> QED
  BY <1>3, <1>4, <1>7, <1>8, <1>9, <1>11, <1>14, <1>15, RewriteKeeps

LEMMA SubjectRow ==
    ASSUME TypeOK, NEW a \in Actors, NEW state, WorksOn(a, state)
    PROVE  /\ cur[a].id \in Present /\ cur[a].id \in Ids
           /\ rows[cur[a].id] \in Row /\ rows[cur[a].id].state = state
           /\ rows[cur[a].id].msg = cur[a].row.msg
           /\ cur[a].row \in Row /\ cur[a].row.msg \in Sends
  BY RowTyped, CurTyped DEF WorksOn, InState

LEMMA SpeakShape ==
    ASSUME TypeOK, NEW a \in Actors, NEW r \in Recipients, NEW v, Speak(a, r, v)
    PROVE  /\ cur'[a].id = cur[a].id /\ cur'[a].row = cur[a].row
           /\ cur'[a].todo = cur[a].todo \ {r}
           /\ cur'[a].said[r] = v
           /\ \A q \in Recipients \ {r} : cur'[a].said[q] = cur[a].said[q]
           /\ \A b \in Actors \ {a} : cur'[b] = cur[b]
<1>1. cur[a] \in Cur
  BY DEF TypeOK
<1>2. cur[a].said \in [Recipients -> Verdicts]
  BY <1>1 DEF Cur
<1>3. PICK c : c = [cur[a] EXCEPT !.todo = cur[a].todo \ {r}, !.said = [cur[a].said EXCEPT ![r] = v]]
  OBVIOUS
<1>4. /\ c.id = cur[a].id /\ c.row = cur[a].row /\ c.todo = cur[a].todo \ {r}
      /\ c.said = [cur[a].said EXCEPT ![r] = v]
  BY <1>1, <1>3 DEF Cur
<1>5. cur' = [cur EXCEPT ![a] = c]
  BY <1>1, <1>3 DEF Speak, Cur, TypeOK
<1>6. cur'[a] = c /\ \A b \in Actors \ {a} : cur'[b] = cur[b]
  BY <1>5 DEF TypeOK
<1> QED
  BY <1>2, <1>4, <1>6

(* Who was not heard of as a taker has no copy yet.                          *)
LEMMA NotYetReached ==
    ASSUME TurnInv, TypeOK, NEW a \in Actors, gate # a, pc[a] = "smtp", NEW r \in cur[a].todo
    PROVE  /\ r \in Recipients /\ copies[cur[a].row.msg][r] = 0
           /\ r \notin rows[cur[a].id].delivered
           /\ cur[a].id \in InState({"pending_send"}) /\ rows[cur[a].id].marker
<1>1. Work(a)
  BY DEF TurnInv
<1>2. WorksOn(a, "pending_send") /\ rows[cur[a].id].marker
  BY <1>1 DEF Work, Submits, Submitting
<1>3. cur[a].row.msg \in Sends /\ cur[a] \in Cur
  BY <1>2, SubjectRow DEF TypeOK
<1>4. r \in Recipients
  BY <1>3 DEF Cur
<1>5. cur[a].said[r] = "none" /\ r \notin rows[cur[a].id].delivered
  BY <1>1 DEF Work, Submits
<1>6. ~(copies[cur[a].row.msg][r] > 0)
  BY <1>1, <1>4, <1>5 DEF Work, Submits, Said
<1>7. copies[cur[a].row.msg][r] \in Nat
  BY <1>3, <1>4 DEF TypeOK
<1> QED
  BY <1>2, <1>4, <1>5, <1>6, <1>7 DEF WorksOn

LEMMA SpeakKeeps ==
    ASSUME TurnInv, Filing, NEW a \in Actors, NEW r \in Recipients, NEW v \in Verdicts, Speak(a, r, v)
    PROVE  TurnInv'
<1>0. TypeOK
  BY DEF Filing
<1>1. pc[a] = "smtp" /\ turn = a /\ Work(a) /\ r \in cur[a].todo
  BY AtWork DEF Speak, Resting
<1>2. gate # a
  BY <1>1 DEF Work, Lists, Draining, Finishing
<1>3. PICK i \in Present, m \in Sends :
          /\ i = cur[a].id /\ m = cur[a].row.msg /\ rows[i].msg = m /\ i \in Ids
          /\ rows[i].state = "pending_send" /\ rows[i].marker
          /\ WorksOn(a, "pending_send")
  <2>1. WorksOn(a, "pending_send") /\ rows[cur[a].id].marker
    BY <1>1, <1>2 DEF Work, Submits, Submitting
  <2> QED
    BY <1>0, <2>1, SubjectRow
<1>4. UNCHANGED <<store, file, slot, turn, gate, pc, snap, sentBox, history>>
  BY DEF Speak
<1>5. /\ cur'[a].id = i /\ cur'[a].row = cur[a].row
      /\ cur'[a].todo = cur[a].todo \ {r}
      /\ cur'[a].said[r] = v
      /\ \A q \in Recipients \ {r} : cur'[a].said[q] = cur[a].said[q]
      /\ \A b \in Actors \ {a} : cur'[b] = cur[b]
  BY <1>0, <1>3, SpeakShape
<1>6. copies[m][r] = 0 /\ r \notin rows[i].delivered
  BY <1>0, <1>1, <1>2, <1>3, NotYetReached
<1>7. /\ \A n \in Sends, q \in Recipients : n # m \/ q # r => copies'[n][q] = copies[n][q]
      /\ copies'[m][r] \in {0, 1}
      /\ v = "delivered" => copies'[m][r] = 1
      /\ copies'[m][r] > 0 => v \in {"delivered", "ambiguous"}
  <2>1. CASE copies' = [copies EXCEPT ![m][r] = @ + 1] /\ v \in {"delivered", "ambiguous"}
    BY <1>0, <1>6, <2>1 DEF TypeOK
  <2>2. CASE copies' = copies /\ v \in {"rejected", "retryable", "ambiguous"}
    BY <1>6, <2>2
  <2> QED
    BY <1>3, <2>1, <2>2 DEF Speak
<1>8. /\ \A n \in Sends, q \in Recipients : copies[n][q] > 0 => copies'[n][q] > 0
      /\ \A n \in Sends, q \in Recipients : copies'[n][q] > 0 =>
            copies[n][q] > 0 \/ (n = m /\ q = r /\ v \in {"delivered", "ambiguous"})
      /\ \A n \in Sends, q \in Recipients : copies'[n][q] <= 1
  BY <1>6, <1>7 DEF TurnInv, Copies
<1>9. /\ \A q : q \in Said(a, "delivered")' => q \in Recipients /\ (q \in Said(a, "delivered") \/ (q = r /\ v = "delivered"))
      /\ \A q \in Recipients : q \in Said(a, "delivered") => q \in Said(a, "delivered")' \/ q = r
      /\ \A q \in Recipients : q \in Said(a, "ambiguous") => q \in Said(a, "ambiguous")' \/ q = r
      /\ v = "delivered" => r \in Said(a, "delivered")'
      /\ v = "ambiguous" => r \in Said(a, "ambiguous")'
  BY <1>5 DEF Said
<1>10. Work(a)'
  <2>1. Reads(a)'
    BY <1>0, <1>1, <1>2, <1>3, <1>4, <1>5, ReadsKept DEF Submitting, store
  <2>2. Told(a)'
    <3> SUFFICES ASSUME a \in Sends PROVE cur'[a].row.msg = a /\ \A q \in Said(a, "delivered")' : copies'[a][q] > 0
      BY DEF Told
    <3>1. m = a /\ \A q \in Said(a, "delivered") : copies[a][q] > 0
      BY <1>1, <1>3 DEF Work, Told, Submitting
    <3> QED
      BY <1>3, <1>5, <1>7, <1>8, <1>9, <3>1
  <2>3. Submits(a)'
    <3>1. WorksOn(a, "pending_send")'
      BY <1>3, <1>4, <1>5 DEF WorksOn, InState, Present, store
    <3>2. \A q \in cur'[a].todo : cur'[a].said[q] = "none" /\ q \notin rows[i].delivered
      <4>1. \A q \in cur[a].todo : q \in Recipients /\ cur[a].said[q] = "none" /\ q \notin rows[i].delivered
        BY <1>0, <1>1, <1>2, <1>3, NotYetReached DEF Work, Submits
      <4> QED
        BY <1>5, <4>1
    <3>3. \A q \in Said(a, "delivered")' : copies'[m][q] > 0
      <4>1. \A q \in Said(a, "delivered") : copies[m][q] > 0
        BY <1>1, <1>2, <1>3 DEF Work, Submits
      <4> QED
        BY <1>7, <1>8, <1>9, <4>1
    <3>4. \A q \in Recipients : copies'[m][q] > 0 =>
              q \in rows[i].delivered \cup Said(a, "ambiguous")' \cup Said(a, "delivered")'
      <4>1. \A q \in Recipients : copies[m][q] > 0 =>
                q \in rows[i].delivered \cup Said(a, "ambiguous") \cup Said(a, "delivered")
        BY <1>1, <1>2, <1>3 DEF Work, Submits
      <4> QED
        BY <1>6, <1>8, <1>9, <4>1
    <3>5. pc'[a] = "smtp" /\ rows'[i].marker /\ rows'[i] = rows[i]
      BY <1>1, <1>3, <1>4 DEF store
    <3> QED
      BY <1>3, <1>5, <3>1, <3>2, <3>3, <3>4, <3>5 DEF Submits, Finishing
  <2> QED
    BY <1>1, <1>2, <1>4, <2>1, <2>2, <2>3
       DEF Work, Rests, Lists, Unspoken, Files, Resting
<1>11. OneAtWork' /\ \A b \in Actors : Work(b)'
  <2>1. OwnMove(a)
    BY <1>1, <1>4, <1>5, OthersRest DEF OwnMove
  <2> QED
    BY <1>1, <1>4, <1>10, <2>1, OwnMoveKeeps
<1>12. Envelopes'
  <2>1. ASSUME NEW j \in Present
        PROVE  /\ \A q \in rows[j].delivered : copies'[rows[j].msg][q] > 0
               /\ rows[j].state = "pending_send" => rows[j].marker \/ Recorded(j)'
    <3>1. Envelopes /\ rows[j] \in Row /\ rows[j].msg \in Sends /\ rows[j].delivered \subseteq Recipients
      BY <1>0, RowTyped DEF TurnInv, Row
    <3>2. \A q \in rows[j].delivered : copies'[rows[j].msg][q] > 0
      BY <1>8, <3>1 DEF Envelopes
    <3>3. CASE j = i
      BY <1>3, <3>2, <3>3
    <3>4. CASE j # i
      <4>1. rows[j].msg # m
        <5>1. OneRowPerMessage
          BY DEF Filing
        <5>2. rows[j].msg = rows[i].msg => i = j
          BY <1>3, <5>1 DEF OneRowPerMessage
        <5> QED
          BY <1>3, <3>4, <5>2
      <4>2. \A q \in Recipients : copies'[rows[j].msg][q] = copies[rows[j].msg][q]
        BY <1>7, <3>1, <4>1
      <4> QED
        BY <1>4, <3>1, <3>2, <4>2 DEF Envelopes, InState, Recorded, store
    <3> QED
      BY <3>3, <3>4
  <2> QED
    BY <1>4, <2>1 DEF TurnInv, Envelopes, InState, Present, Outstanding, store
<1>13. Copies'
  <2>1. m \notin Fresh
    BY <1>3 DEF Filing, FreshUnknown
  <2> QED
    BY <1>4, <1>7, <1>8, <2>1 DEF TurnInv, Copies, Fresh
<1>14. Retirements'
  BY <1>0, <1>4, <1>8 DEF TurnInv, Retirements, TypeOK, File
<1> QED
  BY <1>4, <1>11, <1>12, <1>13, <1>14
     DEF TurnInv, TurnHeld, Accounted, NotDone, Present, store

LEMMA FailCleanKeeps ==
    ASSUME TurnInv, Filing, NEW a \in Actors, FailClean(a)
    PROVE  TurnInv'
<1>0. TypeOK
  BY DEF Filing
<1>1. pc[a] = "smtp" /\ turn = a /\ Work(a) /\ \A q \in Recipients : cur[a].said[q] = "none"
  BY AtWork DEF FailClean, Resting
<1>2. gate # a
  BY <1>1 DEF Work, Lists, Draining, Finishing
<1>3. WorksOn(a, "pending_send")
  BY <1>1, <1>2 DEF Work, Submits, Submitting
<1>4. PICK i \in Present : i = cur[a].id /\ i \in Ids /\ rows[i] \in Row /\ rows[i].msg = cur[a].row.msg
  BY <1>0, <1>3, SubjectRow
<1>5. PICK r : r = [rows[i] EXCEPT !.attempts = @ + 1, !.marker = FALSE]
  OBVIOUS
<1>6. /\ r \in Row /\ r.msg = rows[i].msg /\ r.state = rows[i].state
      /\ r.delivered = rows[i].delivered
  <2>1. rows[i].attempts + 1 \in Nat
    BY <1>0, RowTyped
  <2>2. r \in Row
    BY <1>4, <1>5, <2>1, RowUpdates
  <2> QED
    BY <1>4, <1>5, <2>2 DEF Row
<1>7. rows[i].state = "pending_send"
  BY <1>3, <1>4 DEF WorksOn, InState
<1>8. /\ rows' = [rows EXCEPT ![i] = r] /\ SubmitFailed(a)
      /\ UNCHANGED <<refs, localCopy, file, gate, snap, world, history>>
  BY <1>3, <1>4, <1>5 DEF FailClean, WorksOn
<1>9. OneAtWork' /\ \A b \in Actors : Work(b)'
  <2>1. \A j \in Ids : j # cur[a].id => rows'[j] = rows[j]
    BY <1>0, <1>4, <1>8 DEF TypeOK
  <2> QED
    BY <1>0, <1>1, <1>2, <1>8, <2>1, SubmitFailedKeeps DEF Submitting, world
<1>10. \A q \in Recipients : copies[r.msg][q] > 0 => q \in r.delivered
  BY <1>1, <1>2, <1>4, <1>6 DEF Work, Submits, Said
<1>11. \A q \in r.delivered : copies[r.msg][q] > 0
  BY <1>4, <1>6 DEF TurnInv, Envelopes
<1>12. \A s \in Sends : pc'[s] \in FreshLabels => pc[s] \in FreshLabels
  <2>1. PICK l \in {"ended", "retire"} : pc' = [pc EXCEPT ![a] = l]
    BY <1>0, <1>8, SubmitFailedShape
  <2> QED
    BY <1>0, <2>1, ActorKinds DEF FreshLabels, TypeOK
<1> QED
  BY <1>3, <1>4, <1>6, <1>7, <1>8, <1>9, <1>10, <1>11, <1>12, RewriteKeeps DEF world

LEMMA FoldedShape ==
    ASSUME NEW row \in Row, NEW a
    PROVE  /\ Folded(row, a) \in Row /\ Folded(row, a).msg = row.msg
           /\ Folded(row, a).state = row.state /\ Folded(row, a).marker = row.marker
           /\ Folded(row, a).attempts = row.attempts /\ Folded(row, a).target = row.target
           /\ Folded(row, a).delivered = row.delivered \cup Said(a, "delivered")
  BY FoldedTyped DEF Folded, Row

LEMMA RecordKeeps ==
    ASSUME TurnInv, Filing, NEW a \in Actors, Record(a)
    PROVE  TurnInv'
<1>0. TypeOK
  BY DEF Filing
<1>1. pc[a] = "smtp" /\ turn = a /\ Work(a)
  BY AtWork DEF Record, Resting
<1>2. gate # a
  BY <1>1 DEF Work, Lists, Draining, Finishing
<1>3. WorksOn(a, "pending_send")
  BY <1>1, <1>2 DEF Work, Submits, Submitting
<1>4. PICK i \in Present : /\ i = cur[a].id /\ i \in Ids /\ rows[i] \in Row
                           /\ rows[i].msg = cur[a].row.msg /\ rows[i].state = "pending_send"
  BY <1>0, <1>3, SubjectRow
<1>5. PICK r : r = Folded(rows[i], a)
  OBVIOUS
<1>6. /\ r \in Row /\ r.msg = rows[i].msg /\ r.state = "pending_send" /\ r.marker = rows[i].marker
      /\ r.delivered = rows[i].delivered \cup Said(a, "delivered") /\ r # None
  BY <1>4, <1>5, FoldedShape, NoneAssumption
<1>7. /\ rows' = [rows EXCEPT ![i] = r] /\ cur' = [cur EXCEPT ![a].row = r]
      /\ pc' = [pc EXCEPT ![a] = "transition"]
      /\ UNCHANGED <<slot, turn, refs, localCopy, file, gate, snap, world, history>>
  BY <1>3, <1>4, <1>5 DEF Record, WorksOn, InState, Goto
<1>8. /\ pc'[a] = "transition" /\ \A b \in Actors \ {a} : pc'[b] = pc[b] /\ cur'[b] = cur[b]
      /\ rows'[i] = r /\ i \in Present' /\ \A j \in Ids : j # i => rows'[j] = rows[j]
      /\ copies' = copies
  BY <1>0, <1>4, <1>6, <1>7 DEF TypeOK, Present, world
<1>9. cur'[a].id = i /\ cur'[a].row = r /\ cur'[a].said = cur[a].said
  <2>1. cur[a] \in Cur /\ cur'[a] = [cur[a] EXCEPT !.row = r]
    BY <1>0, <1>7 DEF TypeOK
  <2> QED
    BY <1>4, <2>1 DEF Cur
<1>10. \A v : Said(a, v)' = Said(a, v)
  BY <1>9 DEF Said
<1>11. /\ \A q \in r.delivered : copies[r.msg][q] > 0
       /\ \A q \in Recipients : copies[r.msg][q] > 0 => q \in r.delivered \cup Said(a, "ambiguous")
       /\ (\E q \in Recipients : cur[a].said[q] # "none") => rows[i].marker
  <2>1. /\ (\E q \in Recipients : cur[a].said[q] # "none") => rows[i].marker
        /\ \A q \in Said(a, "delivered") : copies[rows[i].msg][q] > 0
        /\ \A q \in Recipients : copies[rows[i].msg][q] > 0 =>
              q \in rows[i].delivered \cup Said(a, "ambiguous") \cup Said(a, "delivered")
    <3>1. Submits(a)
      BY <1>1 DEF Work
    <3> QED
      BY <1>1, <1>2, <1>4, <3>1 DEF Submits
  <2>2. \A q \in rows[i].delivered : copies[rows[i].msg][q] > 0
    BY <1>4 DEF TurnInv, Envelopes
  <2>3. /\ \A q \in r.delivered : copies[r.msg][q] > 0
        /\ \A q \in Recipients : copies[r.msg][q] > 0 => q \in r.delivered \cup Said(a, "ambiguous")
    BY <1>6, <2>1, <2>2
  <2> QED
    BY <2>1, <2>3
<1>12. Work(a)'
  <2>1. Reads(a)'
    BY <1>0, <1>1, <1>2, <1>4, <1>7, <1>8, <1>9, ReadsKept DEF Submitting
  <2>2. Told(a)'
    BY <1>1, <1>4, <1>6, <1>8, <1>9, <1>10 DEF Work, Told, Submitting
  <2>3. WorksOn(a, "pending_send")'
    BY <1>6, <1>8, <1>9 DEF WorksOn, InState
  <2>4. Submits(a)'
    BY <1>1, <1>2, <1>6, <1>8, <1>9, <1>10, <1>11, <2>3 DEF Submits, Work, Finishing
  <2> QED
    BY <1>2, <1>7, <1>8, <2>1, <2>2, <2>4 DEF Work, Rests, Lists, Unspoken, Files, Resting
<1>13. OneAtWork' /\ \A b \in Actors : Work(b)'
  <2>1. OwnMove(a)
    BY <1>1, <1>7, <1>8, OthersRest DEF OwnMove
  <2> QED
    BY <1>1, <1>7, <1>12, <2>1, OwnMoveKeeps
<1>14. r.marker \/ \A q \in Recipients : copies[r.msg][q] > 0 => q \in r.delivered
  BY <1>6, <1>11 DEF Said
<1>15. \A s \in Sends : pc'[s] \in FreshLabels => pc[s] \in FreshLabels
  BY <1>8, ActorKinds DEF FreshLabels
<1> QED
  BY <1>3, <1>4, <1>6, <1>7, <1>8, <1>11, <1>13, <1>14, <1>15, RewriteKeeps

(* What a pass makes of a row whose envelope is its own.                     *)
LEMMA AfterPassShape ==
    ASSUME NEW row \in Row, row.state = "pending_send", NEW a
    PROVE  LET r == AfterPass(row, row, a) IN
           /\ r \in Row /\ r.msg = row.msg /\ r.delivered = row.delivered
           /\ r.rejected = row.rejected
           /\ r.state \in {"failed", "sent_pending_append", "pending_send"}
           /\ r.state = "sent_pending_append" => Outstanding(row) = {} /\ row.delivered # {}
           /\ r.state = "pending_send" => Said(a, "ambiguous") = {}
           /\ r.state = "failed" =>
                 \/ Said(a, "ambiguous") # {} /\ r.marker = row.marker
                 \/ Said(a, "ambiguous") = {} /\ row.delivered = {}
<1> DEFINE r == AfterPass(row, row, a)
<1>1. r \in Row
  BY AfterPassTyped
<1>2. row.attempts + 1 \in Nat
  BY DEF Row
<1>3. CASE Said(a, "ambiguous") # {}
  <2>1. r = [row EXCEPT !.state = "failed"]
    BY <1>3 DEF AfterPass
  <2> QED
    BY <1>1, <1>3, <2>1 DEF Row
<1>4. CASE Said(a, "ambiguous") = {} /\ Outstanding(row) # {}
  <2>1. r = [row EXCEPT !.attempts = @ + 1, !.marker = FALSE]
    BY <1>4 DEF AfterPass
  <2> QED
    BY <1>1, <1>4, <2>1 DEF Row
<1>5. CASE Said(a, "ambiguous") = {} /\ Outstanding(row) = {} /\ row.delivered = {}
  <2>1. r = [row EXCEPT !.state = "failed", !.marker = FALSE]
    BY <1>5 DEF AfterPass
  <2> QED
    BY <1>1, <1>5, <2>1 DEF Row
<1>6. CASE Said(a, "ambiguous") = {} /\ Outstanding(row) = {} /\ row.delivered # {}
  <2>1. r = [row EXCEPT !.state = "sent_pending_append"]
    BY <1>6 DEF AfterPass
  <2> QED
    BY <1>1, <1>6, <2>1 DEF Row
<1> QED
  BY <1>3, <1>4, <1>5, <1>6

LEMMA TransitionKeeps ==
    ASSUME TurnInv, Filing, NEW a \in Actors, Transition(a)
    PROVE  TurnInv'
<1>0. TypeOK
  BY DEF Filing
<1>1. pc[a] = "transition" /\ turn = a /\ Work(a)
  BY AtWork DEF Transition, Resting
<1>2. gate # a
  BY <1>1 DEF Work, Lists, Draining, Finishing
<1>3. WorksOn(a, "pending_send") /\ rows[cur[a].id] = cur[a].row
  BY <1>1, <1>2 DEF Work, Submits, Submitting
<1>4. PICK i \in Present : /\ i = cur[a].id /\ i \in Ids /\ rows[i] \in Row
                           /\ rows[i] = cur[a].row /\ rows[i].state = "pending_send"
  BY <1>0, <1>3, SubjectRow
<1>5. PICK r : r = AfterPass(rows[i], rows[i], a)
  OBVIOUS
<1>6. /\ r \in Row /\ r.msg = rows[i].msg /\ r.delivered = rows[i].delivered
      /\ r.rejected = rows[i].rejected
      /\ r.state \in {"failed", "sent_pending_append", "pending_send"}
      /\ r.state = "sent_pending_append" => Outstanding(rows[i]) = {} /\ rows[i].delivered # {}
      /\ r.state = "pending_send" => Said(a, "ambiguous") = {}
  BY <1>4, <1>5, AfterPassShape
<1>7. UNCHANGED <<refs, localCopy, file, slot, turn, gate, cur, snap, world, history>>
  BY DEF Transition
<1>8. PICK l \in {"ingest", "settle", "retire"} : pc' = [pc EXCEPT ![a] = l]
  BY DEF Transition, Submitted, Goto
<1>9. /\ pc'[a] = l /\ \A b \in Actors \ {a} : pc'[b] = pc[b]
      /\ \A s \in Sends : pc'[s] \in FreshLabels => pc[s] \in FreshLabels
  BY <1>0, <1>8, ActorKinds DEF TypeOK, FreshLabels
<1>10. OwnMove(a)
  BY <1>1, <1>7, <1>9, OthersRest DEF OwnMove
<1>11. CASE r.state = "sent_pending_append" /\ ~cur[a].row.target
  <2>1. pc'[a] = "ingest" /\ rows' = rows
    BY <1>0, <1>4, <1>5, <1>11 DEF Transition, Goto, TypeOK
  <2>2. Reads(a)'
    BY <1>0, <1>1, <1>2, <1>7, <2>1, ReadsKept DEF Submitting, Finishing
  <2>3. Told(a)'
    BY <1>1, <1>7, <2>1 DEF Work, Told, Submitting, Said, world
  <2>4. Submits(a)'
    <3>1. WorksOn(a, "pending_send")'
      BY <1>3, <1>7, <2>1 DEF WorksOn, InState, Present
    <3> QED
      BY <1>4, <1>6, <1>7, <1>11, <2>1, <3>1 DEF Submits, Outstanding
  <2>5. Work(a)'
    BY <1>2, <1>7, <2>1, <2>2, <2>3, <2>4
       DEF Work, Rests, Lists, Unspoken, Files, Resting
  <2>6. OneAtWork' /\ \A b \in Actors : Work(b)'
    BY <1>1, <1>7, <1>10, <2>5, OwnMoveKeeps
  <2> QED
    BY <1>7, <1>9, <2>1, <2>6, TableKeeps DEF TurnInv, world
<1>12. CASE ~(r.state = "sent_pending_append" /\ ~cur[a].row.target)
  <2>1. rows' = [rows EXCEPT ![i] = r] /\ Submitted(a, r.state)
    BY <1>4, <1>5, <1>12, NoneAssumption DEF Transition, Updated
  <2>2. \A j \in Ids : j # cur[a].id => rows'[j] = rows[j]
    BY <1>0, <1>4, <2>1 DEF TypeOK
  <2>3. Work(a)'
    <3>1. CASE a \in Sends /\ r.state = "sent_pending_append"
      <4>1. pc'[a] = "settle" /\ snap[a] = {}
        BY <1>0, <1>1, <1>2, <2>1, <3>1, ActorKinds DEF Submitted, Goto, TypeOK, Work, Reads
      <4>2. Told(a)'
        BY <1>1, <1>7, <4>1 DEF Work, Told, Submitting, Said, world
      <4> QED
        BY <1>2, <1>7, <4>1, <4>2
           DEF Work, Rests, Reads, Lists, Unspoken, Submits, Files, Resting, Submitting, Finishing
    <3>2. CASE ~(a \in Sends /\ r.state = "sent_pending_append")
      <4>1. pc'[a] = "retire"
        BY <1>0, <2>1, <3>2 DEF Submitted, Goto, TypeOK
      <4> QED
        BY <1>0, <1>1, <1>2, <1>7, <2>2, <4>1, ToRetire DEF Submitting, world
    <3> QED
      BY <3>1, <3>2
  <2>4. OneAtWork' /\ \A b \in Actors : Work(b)'
    BY <1>1, <1>7, <1>10, <2>3, OwnMoveKeeps
  <2>5. \A q \in r.delivered : copies[r.msg][q] > 0
    BY <1>4, <1>6 DEF TurnInv, Envelopes
  <2>6. r.state = "pending_send" => \A q \in Recipients : copies[r.msg][q] > 0 => q \in r.delivered
    BY <1>1, <1>2, <1>4, <1>6 DEF Work, Submits
  <2>7. r.state = "sent_pending_append" => r.delivered # {} /\ Outstanding(r) = {}
    BY <1>6 DEF Outstanding
  <2> QED
    BY <1>3, <1>4, <1>6, <1>7, <1>9, <2>1, <2>4, <2>5, <2>6, <2>7, RewriteKeeps DEF world
<1> QED
  BY <1>11, <1>12

LEMMA IngestKeeps ==
    ASSUME TurnInv, Filing, NEW a \in Actors, Ingest(a)
    PROVE  TurnInv'
<1>0. TypeOK
  BY DEF Filing
<1>1. pc[a] = "ingest" /\ turn = a /\ Work(a)
  BY AtWork DEF Ingest, Resting
<1>2. /\ UNCHANGED <<rows, file, slot, turn, gate, cur, snap, world, history>>
      /\ pc' = [pc EXCEPT ![a] = "complete"]
  BY DEF Ingest, Goto
<1>3. /\ pc'[a] = "complete" /\ \A b \in Actors \ {a} : pc'[b] = pc[b]
      /\ \A s \in Sends : pc'[s] \in FreshLabels => pc[s] \in FreshLabels
  BY <1>0, <1>2, ActorKinds DEF TypeOK, FreshLabels
<1>4. PICK m \in Sends : m = cur[a].row.msg
  <2>1. CASE gate = a
    BY <1>0, <1>1, <2>1, SubjectRow DEF Work, Files
  <2>2. CASE gate # a
    BY <1>0, <1>1, <2>2, SubjectRow DEF Work, Submits, Finishing
  <2> QED
    BY <2>1, <2>2
<1>5. \A state : WorksOn(a, state)' <=> WorksOn(a, state)
  BY <1>2 DEF WorksOn, InState, Present
<1>6. Work(a)'
  <2>1. Reads(a)'
    <3>1. CASE gate # a
      BY <1>0, <1>1, <1>2, <1>3, <3>1, ReadsKept DEF Finishing
    <3>2. CASE gate = a
      BY <1>2, <3>2 DEF Reads
    <3> QED
      BY <3>1, <3>2
  <2>2. Told(a)'
    BY <1>1, <1>2, <1>3 DEF Work, Told, Submitting, Said, world
  <2>3. Submits(a)'
    BY <1>1, <1>2, <1>3, <1>5 DEF Work, Submits, Submitting, Finishing, Outstanding
  <2>4. Files(a)' /\ Lists(a)'
    BY <1>1, <1>2, <1>3, <1>5 DEF Work, Files, Lists, Present, Finishing, Draining, world
  <2> QED
    BY <1>3, <2>1, <2>2, <2>3, <2>4 DEF Work, Rests, Unspoken, Resting
<1>7. OneAtWork' /\ \A b \in Actors : Work(b)'
  <2>1. OwnMove(a)
    BY <1>1, <1>2, <1>3, OthersRest DEF OwnMove
  <2> QED
    BY <1>1, <1>2, <1>6, <2>1, OwnMoveKeeps
<1>8. Accounted'
  <2>1. \A n \in Sends : NotDone(n)' <=> NotDone(n)
    BY <1>2 DEF NotDone, Present
  <2>2. CASE NewLocalCopy(m)
    <3>1. /\ localCopy' = [localCopy EXCEPT ![m] = TRUE] /\ refs' = [refs EXCEPT ![m] = @ + 1]
          /\ ~localCopy[m]
      BY <1>4, <2>2 DEF Ingest, NewLocalCopy
    <3> QED
      BY <1>0, <2>1, <3>1 DEF TypeOK, TurnInv, Accounted
  <2>3. CASE ~NewLocalCopy(m)
    BY <1>4, <2>1, <2>3 DEF Ingest, TurnInv, Accounted
  <2> QED
    BY <2>2, <2>3
<1>9. TurnHeld' /\ Envelopes' /\ Copies' /\ Retirements'
  BY <1>2, <1>3 DEF TurnInv, TurnHeld, Envelopes, Copies, Retirements, Fresh, FreshLabels,
     InState, Present, Recorded, Outstanding, world
<1> QED
  BY <1>7, <1>8, <1>9 DEF TurnInv

LEMMA CompleteShape ==
    ASSUME TurnInv, Filing, NEW a \in Actors, Complete(a)
    PROVE  \E i \in Present, r \in Row :
              /\ i = cur[a].id /\ i \in Ids /\ rows[i] \in Row /\ rows[i].msg = cur[a].row.msg
              /\ rows[i].state = IF gate = a THEN "sent_pending_append" ELSE "pending_send"
              /\ gate = a => sentBox[rows[i].msg] > 0
              /\ r.msg = rows[i].msg /\ r.state = "done" /\ r.delivered = rows[i].delivered
              /\ r.delivered # {} /\ Outstanding(r) = {}
              /\ rows' = [rows EXCEPT ![i] = r]
<1>0. TypeOK
  BY DEF Filing
<1>1. pc[a] = "complete" /\ turn = a /\ Work(a)
  BY AtWork DEF Complete, Resting
<1>2. PICK i : /\ i \in Present /\ i = cur[a].id /\ i \in Ids /\ rows[i] \in Row
               /\ rows[i].msg = cur[a].row.msg
               /\ rows[i].state = IF gate = a THEN "sent_pending_append" ELSE "pending_send"
               /\ gate = a => sentBox[rows[i].msg] > 0
               /\ rows[i].delivered # {} /\ Outstanding(rows[i]) = {}
  <2>1. CASE gate = a
    <3>1. WorksOn(a, "sent_pending_append") /\ sentBox[cur[a].row.msg] > 0
      BY <1>1, <2>1 DEF Work, Files, Finishing
    <3>2. rows[cur[a].id].delivered # {} /\ Outstanding(rows[cur[a].id]) = {}
      BY <3>1 DEF WorksOn, InState, TurnInv, Envelopes
    <3> QED
      BY <1>0, <2>1, <3>1, <3>2, SubjectRow
  <2>2. CASE gate # a
    <3>1. /\ WorksOn(a, "pending_send") /\ rows[cur[a].id].delivered # {}
          /\ Outstanding(rows[cur[a].id]) = {}
      BY <1>1, <2>2 DEF Work, Submits, Finishing
    <3> QED
      BY <1>0, <2>2, <3>1, SubjectRow
  <2> QED
    BY <2>1, <2>2
<1>3. PICK r : r = [rows[i] EXCEPT !.state = "done"]
  OBVIOUS
<1>4. /\ r \in Row /\ r.msg = rows[i].msg /\ r.state = "done" /\ r.delivered = rows[i].delivered
      /\ r.rejected = rows[i].rejected
  BY <1>2, <1>3 DEF Row, States
<1>5. rows' = [rows EXCEPT ![i] = r]
  BY <1>2, <1>3, NoneAssumption DEF Complete, Updated
<1>6. Outstanding(r) = {}
  BY <1>2, <1>4 DEF Outstanding
<1> QED
  BY <1>2, <1>4, <1>5, <1>6

LEMMA CompleteKeeps ==
    ASSUME TurnInv, Filing, NEW a \in Actors, Complete(a)
    PROVE  TurnInv'
<1>0. TypeOK
  BY DEF Filing
<1>1. pc[a] = "complete" /\ turn = a /\ Work(a)
  BY AtWork DEF Complete, Resting
<1>2. PICK i \in Present, r \in Row :
          /\ i = cur[a].id /\ i \in Ids /\ rows[i] \in Row /\ rows[i].msg = cur[a].row.msg
          /\ rows[i].state = IF gate = a THEN "sent_pending_append" ELSE "pending_send"
          /\ gate = a => sentBox[rows[i].msg] > 0
          /\ r.msg = rows[i].msg /\ r.state = "done" /\ r.delivered = rows[i].delivered
          /\ r.delivered # {} /\ Outstanding(r) = {}
          /\ rows' = [rows EXCEPT ![i] = r]
  BY CompleteShape
<1>3. /\ UNCHANGED <<localCopy, file, slot, turn, gate, snap, world, history>>
      /\ refs' = Released(cur[a].row.msg)
  BY DEF Complete
<1>4. /\ rows'[i] = r /\ r # None /\ i \in Present'
      /\ \A j \in Ids : j # i => rows'[j] = rows[j]
  BY <1>0, <1>2, NoneAssumption DEF TypeOK, Present
<1>5. Envelopes'
  <2>1. \A q \in r.delivered : copies[r.msg][q] > 0
    BY <1>2 DEF TurnInv, Envelopes
  <2> QED
    BY <1>0, <1>2, <1>3, <2>1, RowTrue DEF world
<1>6. PICK m \in Sends : m = rows[i].msg
  BY <1>0, RowTyped
<1>7. Accounted'
  <2>1. \A n \in Sends \ {m} : NotDone(n)' <=> NotDone(n)
    BY <1>2, <1>4, <1>6 DEF NotDone, Present
  <2>2. NotDone(m)
    BY <1>2, <1>6 DEF NotDone
  <2>3. ~NotDone(m)'
    <3>1. ASSUME NEW j \in Present', rows'[j].msg = m PROVE j = i
      BY <1>2, <1>4, <1>6, <3>1 DEF Present, Filing, OneRowPerMessage
    <3> QED
      BY <1>2, <1>4, <3>1 DEF NotDone
  <2>4. refs[m] = 1 + (IF localCopy[m] THEN 1 ELSE 0) /\ localCopy' = localCopy
    BY <1>3, <2>2 DEF TurnInv, Accounted
  <2>5. /\ refs'[m] = (IF localCopy[m] THEN 1 ELSE 0)
        /\ \A n \in Sends \ {m} : refs'[n] = refs[n]
    BY <1>0, <1>2, <1>3, <1>6, <2>4 DEF Released, TypeOK
  <2> QED
    BY <2>1, <2>3, <2>4, <2>5 DEF TurnInv, Accounted
<1>8. PICK l \in {"drain", "retire"} : pc' = [pc EXCEPT ![a] = l] /\ (l = "drain" <=> gate = a)
  BY DEF Complete, Submitted, Goto
<1>9. /\ pc'[a] = l /\ \A b \in Actors \ {a} : pc'[b] = pc[b]
      /\ \A s \in Sends : pc'[s] \in FreshLabels => pc[s] \in FreshLabels
  BY <1>0, <1>8, ActorKinds DEF TypeOK, FreshLabels
<1>10. /\ cur'[a].said = cur[a].said
       /\ gate # a => cur'[a] = cur[a]
       /\ \A b \in Actors \ {a} : cur'[b] = cur[b]
  <2>1. CASE gate = a
    <3>1. cur' = [cur EXCEPT ![a] = [cur[a] EXCEPT !.progress = TRUE]] /\ cur[a] \in Cur
      BY <1>0, <2>1 DEF Complete, TypeOK
    <3>2. [cur[a] EXCEPT !.progress = TRUE].said = cur[a].said
      BY <3>1 DEF Cur
    <3> QED
      BY <1>0, <2>1, <3>1, <3>2 DEF TypeOK
  <2>2. CASE gate # a
    BY <2>2 DEF Complete
  <2> QED
    BY <2>1, <2>2
<1>11. Work(a)'
  <2>1. CASE gate # a
    BY <1>0, <1>1, <1>2, <1>3, <1>4, <1>8, <1>9, <1>10, <2>1, ToRetire DEF Finishing, world
  <2>2. CASE gate = a
    <3>1. Told(a)'
      BY <1>1, <1>3, <1>8, <1>9, <1>10, <2>2 DEF Work, Told, Submitting, Said, world
    <3>2. Lists(a)'
      BY <1>1, <1>2, <1>3, <1>4, <1>8, <1>9, <2>2 DEF Work, Lists, Draining, Present
    <3> QED
      BY <1>3, <1>8, <1>9, <2>2, <3>1, <3>2
         DEF Work, Rests, Reads, Unspoken, Submits, Files, Resting
  <2> QED
    BY <2>1, <2>2
<1>12. OneAtWork' /\ \A b \in Actors : Work(b)'
  <2>1. OwnMove(a)
    BY <1>1, <1>3, <1>9, <1>10, OthersRest DEF OwnMove
  <2> QED
    BY <1>1, <1>3, <1>11, <2>1, OwnMoveKeeps
<1>13. TurnHeld' /\ Copies' /\ Retirements'
  BY <1>3, <1>9 DEF TurnInv, TurnHeld, Copies, Retirements, Fresh, FreshLabels, world
<1> QED
  BY <1>5, <1>7, <1>12, <1>13 DEF TurnInv

-----------------------------------------------------------------------------
(* The end of a send, and of a row of a resume: the draft file.              *)

LEMMA RetiredTruly ==
    ASSUME TurnInv, TypeOK, NEW d \in Drafts, NEW m \in Sends, NEW fully \in BOOLEAN,
           Retired(d, m, fully), copies' = copies,
           fully => \A r \in Recipients : copies[m][r] > 0
    PROVE  Retirements'
<1>1. CASE file' = file
  BY <1>1 DEF TurnInv, Retirements
<1>2. CASE file' # file
  <2>1. file' = [file EXCEPT ![d] = [status |-> IF fully THEN "retired" ELSE "sent", sentAs |-> m]]
    BY <1>2 DEF Retired
  <2>2. /\ file'[d].status = (IF fully THEN "retired" ELSE "sent") /\ file'[d].sentAs = m
        /\ \A e \in Drafts : e # d => file'[e] = file[e]
    BY <2>1 DEF TypeOK
  <2> QED
    BY <2>2 DEF TurnInv, Retirements
<1> QED
  BY <1>1, <1>2

LEMMA SettleDraftKeeps ==
    ASSUME TurnInv, Filing, NEW s \in Sends, SettleDraft(s)
    PROVE  TurnInv'
<1>0. TypeOK
  BY DEF Filing
<1>1. s \in Actors /\ pc[s] = "retire" /\ turn = s /\ Work(s)
  BY AtWork, ActorKinds DEF SettleDraft, Resting
<1>2. gate # s /\ snap[s] = {}
  BY <1>1, ActorKinds DEF Work, Lists, Reads, Draining, Finishing
<1>3. UNCHANGED <<store, gate, snap, world, history>> /\ Ended(s)
  BY DEF SettleDraft
<1>4. OneAtWork' /\ \A b \in Actors : Work(b)'
  BY <1>0, <1>1, <1>2, <1>3, EndedKeeps
<1>5. Retirements'
  <2>1. CASE DraftOf[s] # None /\ Said(s, "delivered") # {}
    <3>1. Retired(DraftOf[s], s, Said(s, "delivered") = Recipients) /\ DraftOf[s] \in Drafts
      BY <2>1, DraftOfAssumption DEF SettleDraft
    <3>2. Said(s, "delivered") = Recipients => \A r \in Recipients : copies[s][r] > 0
      BY <1>1 DEF Work, Told
    <3> QED
      BY <1>0, <1>3, <3>1, <3>2, RetiredTruly DEF world
  <2>2. CASE ~(DraftOf[s] # None /\ Said(s, "delivered") # {})
    BY <1>3, <2>2 DEF SettleDraft, TurnInv, Retirements, world
  <2> QED
    BY <2>1, <2>2
<1>6. \A m \in Sends : pc'[m] \in FreshLabels => pc[m] \in FreshLabels
  BY <1>0, <1>1, <1>3 DEF Ended, Goto, TypeOK, FreshLabels
<1> QED
  BY <1>3, <1>4, <1>5, <1>6
     DEF TurnInv, TurnHeld, Envelopes, Copies, Accounted, Fresh, FreshLabels, InState, Present,
         Recorded, Outstanding, NotDone, store, world

LEMMA RetireRowKeeps ==
    ASSUME TurnInv, Filing, NEW w \in Resumers, RetireDraftOfRow(w)
    PROVE  TurnInv'
<1>0. TypeOK
  BY DEF Filing
<1>1. w \in Actors /\ pc[w] = "retire" /\ turn = w /\ Work(w) /\ w \notin Sends
  BY AtWork, ActorsAssumption DEF RetireDraftOfRow, Resting, Actors
<1>2. gate # w
  BY <1>1 DEF Work, Lists, Draining, Finishing
<1>3. /\ UNCHANGED <<store, turn, gate, snap, world, history>>
      /\ pc' = [pc EXCEPT ![w] = "resubmit"]
      /\ cur' = [cur EXCEPT ![w] = [NoCur EXCEPT !.now = cur[w].now]]
  BY DEF RetireDraftOfRow, Goto
<1>4. /\ pc'[w] = "resubmit" /\ \A b \in Actors \ {w} : pc'[b] = pc[b] /\ cur'[b] = cur[b]
      /\ \A s \in Sends : pc'[s] \in FreshLabels => pc[s] \in FreshLabels
      /\ \A r \in Recipients : cur'[w].said[r] = "none"
  <2>1. [NoCur EXCEPT !.now = cur[w].now].said = NoCur.said
    BY DEF NoCur
  <2>2. cur'[w] = [NoCur EXCEPT !.now = cur[w].now]
    BY <1>0, <1>1, <1>3 DEF TypeOK
  <2>3. \A r \in Recipients : cur'[w].said[r] = "none"
    BY <2>1, <2>2 DEF NoCur
  <2>4. pc'[w] = "resubmit" /\ \A b \in Actors \ {w} : pc'[b] = pc[b] /\ cur'[b] = cur[b]
    BY <1>0, <1>1, <1>3 DEF TypeOK
  <2> QED
    BY <1>1, <2>3, <2>4, ActorKinds DEF FreshLabels
<1>5. Work(w)'
  <2>1. Reads(w)'
    BY <1>1, <1>2, <1>3, <1>4 DEF Work, Reads, InState, Present, store
  <2> QED
    BY <1>1, <1>2, <1>3, <1>4, <2>1
       DEF Work, Rests, Lists, Unspoken, Told, Submits, Files, Resting, Submitting, Finishing
<1>6. OneAtWork' /\ \A b \in Actors : Work(b)'
  <2>1. OwnMove(w)
    BY <1>1, <1>3, <1>4, OthersRest DEF OwnMove
  <2> QED
    BY <1>1, <1>3, <1>5, <2>1, OwnMoveKeeps
<1>7. Retirements'
  <2>1. PICK i : i = cur[w].id
    OBVIOUS
  <2>2. CASE file' = file
    BY <1>3, <2>2 DEF TurnInv, Retirements, world
  <2>3. CASE file' # file
    <3>1. /\ i \in Present /\ DraftOf[rows[i].msg] # None
          /\ Retired(DraftOf[rows[i].msg], rows[i].msg,
                     /\ rows[i].state \in {"done", "sent_pending_append"}
                     /\ rows[i].rejected = {})
      BY <2>1, <2>3 DEF RetireDraftOfRow
    <3>2. rows[i].msg \in Sends /\ rows[i] \in Row /\ DraftOf[rows[i].msg] \in Drafts
      BY <1>0, <3>1, RowTyped, DraftOfAssumption
    <3>3. ASSUME rows[i].state \in {"done", "sent_pending_append"}, rows[i].rejected = {},
                 NEW r \in Recipients
          PROVE  copies[rows[i].msg][r] > 0
      <4>1. r \in rows[i].delivered
        BY <3>1, <3>3 DEF TurnInv, Envelopes, InState, Outstanding
      <4> QED
        BY <3>1, <4>1 DEF TurnInv, Envelopes
    <3> QED
      BY <1>0, <1>3, <3>1, <3>2, <3>3, RetiredTruly DEF world
  <2> QED
    BY <2>2, <2>3
<1> QED
  BY <1>3, <1>4, <1>6, <1>7
     DEF TurnInv, TurnHeld, Envelopes, Copies, Accounted, Fresh, FreshLabels, InState, Present,
         Recorded, Outstanding, NotDone, store, world

-----------------------------------------------------------------------------
(* The steps of a drain.                                                     *)

(* A drain that ends, or never starts: back to the send, or the end of a     *)
(* resume.                                                                   *)
LEMMA SettledKeeps ==
    ASSUME TurnInv, TypeOK, NEW a \in Actors, turn = a, Settled(a), Told(a), copies' = copies,
           snap'[a] = {}, gate' # a,
           \A b \in Actors \ {a} : snap'[b] = snap[b] /\ gate' # b
    PROVE  /\ OneAtWork' /\ \A b \in Actors : Work(b)'
           /\ \A s \in Sends : pc'[s] \in FreshLabels => pc[s] \in FreshLabels
<1>1. CASE a \in Sends
  <2>1. pc' = [pc EXCEPT ![a] = "retire"] /\ cur' = cur /\ turn' = turn
    BY <1>1 DEF Settled, Goto
  <2>2. pc'[a] = "retire" /\ \A b \in Actors \ {a} : pc'[b] = pc[b]
    BY <2>1 DEF TypeOK
  <2>3. Told(a)'
    BY <2>1, <2>2 DEF Told, Said, Submitting
  <2>4. Work(a)'
    BY <2>2, <2>3 DEF Work, Rests, Reads, Lists, Unspoken, Submits, Files, Resting, Submitting,
       Finishing
  <2>5. OwnMove(a)
    BY <2>1, <2>2 DEF OwnMove
  <2> QED
    BY <2>1, <2>2, <2>4, <2>5, OwnMoveKeeps, ActorKinds DEF FreshLabels
<1>2. CASE a \notin Sends
  <2>1. pc' = [pc EXCEPT ![a] = "idle"] /\ cur' = [cur EXCEPT ![a] = NoCur]
    BY <1>2 DEF Settled, Goto
  <2>2. /\ pc'[a] = "idle" /\ cur'[a] = NoCur
        /\ \A b \in Actors \ {a} : pc'[b] = pc[b] /\ cur'[b] = cur[b]
    BY <2>1 DEF TypeOK
  <2>3. Work(a)' /\ Resting(a)'
    BY <2>2, RestingWorks DEF Resting
  <2>4. OwnMove(a)
    BY <2>2 DEF OwnMove
  <2> QED
    BY <1>2, <2>2, <2>3, <2>4, OwnMoveKeeps, ActorKinds DEF FreshLabels
<1> QED
  BY <1>1, <1>2

LEMMA TakeGateKeeps ==
    ASSUME TurnInv, Filing, NEW a \in Actors, TakeGate(a)
    PROVE  TurnInv'
<1>0. TypeOK
  BY DEF Filing
<1>1. pc[a] = "settle" /\ turn = a /\ Work(a)
  BY AtWork DEF TakeGate, Resting
<1>2. gate # a /\ snap[a] = {} /\ Told(a)
  BY <1>1 DEF Work, Lists, Reads, Draining, Finishing, Submitting
<1>3. UNCHANGED <<store, file, slot, world, history>>
  BY DEF TakeGate
<1>4. /\ OneAtWork' /\ \A b \in Actors : Work(b)'
      /\ \A s \in Sends : pc'[s] \in FreshLabels => pc[s] \in FreshLabels
  <2>1. CASE Settled(a) /\ UNCHANGED <<gate, snap>>
    <3>1. \A b \in Actors \ {a} : gate' # b
      BY <1>1, <2>1, OthersRest
    <3> QED
      BY <1>0, <1>1, <1>2, <1>3, <2>1, <3>1, SettledKeeps DEF world
  <2>2. CASE /\ gate' = a
             /\ snap' = [snap EXCEPT ![a] = Snapshot(InState({"sent_pending_append"}))]
             /\ pc' = [pc EXCEPT ![a] = "drain"]
             /\ UNCHANGED <<cur, turn>>
    <3>1. /\ pc'[a] = "drain" /\ snap'[a] = Snapshot(InState({"sent_pending_append"}))
          /\ \A b \in Actors \ {a} : pc'[b] = pc[b] /\ snap'[b] = snap[b]
      BY <1>0, <2>2 DEF TypeOK
    <3>2. Lists(a)'
      BY <1>3, <3>1 DEF Lists, Draining, Snapshot, Present, store
    <3>3. Told(a)'
      BY <1>2, <1>3, <2>2, <3>1 DEF Told, Submitting, Said, world
    <3>4. Work(a)'
      BY <2>2, <3>1, <3>2, <3>3 DEF Work, Rests, Reads, Unspoken, Submits, Files, Resting
    <3>5. OwnMove(a)
      BY <2>2, <3>1 DEF OwnMove
    <3> QED
      BY <1>1, <2>2, <3>1, <3>4, <3>5, OwnMoveKeeps, ActorKinds DEF FreshLabels
  <2> QED
    BY <2>1, <2>2 DEF TakeGate, Goto
<1> QED
  BY <1>3, <1>4, TableKeeps DEF TurnInv, store, world

LEMMA BeginAppendKeeps ==
    ASSUME TurnInv, Filing, NEW a \in Actors, BeginAppend(a)
    PROVE  TurnInv'
<1>0. TypeOK
  BY DEF Filing
<1>1. pc[a] = "drain" /\ turn = a /\ Work(a) /\ gate = a
  BY AtWork DEF BeginAppend, Resting, Filing, GateHeld
<1>2. PICK e \in snap[a] :
          /\ snap' = [snap EXCEPT ![a] = @ \ {e}]
          /\ IF e.id \in InState({"sent_pending_append"})
             THEN /\ rows' = Attempted(e.id)
                  /\ cur' = [cur EXCEPT ![a] = [@ EXCEPT !.id = e.id, !.row = e.row]]
                  /\ Goto(a, "append")
             ELSE UNCHANGED <<rows, cur, pc>>
  BY DEF BeginAppend
<1>3. UNCHANGED <<refs, localCopy, file, slot, turn, gate, world, history>>
  BY DEF BeginAppend
<1>4. /\ snap'[a] \subseteq snap[a] /\ \A b \in Actors \ {a} : snap'[b] = snap[b]
  BY <1>0, <1>2 DEF TypeOK
<1>5. CASE e.id \notin InState({"sent_pending_append"})
  <2>1. UNCHANGED <<rows, cur, pc>>
    BY <1>2, <1>5
  <2>2. Lists(a)'
    BY <1>1, <1>3, <1>4, <2>1 DEF Work, Lists, Present
  <2>3. Told(a)'
    BY <1>1, <1>3, <2>1 DEF Work, Told, Said, world
  <2>4. Work(a)'
    BY <1>1, <1>3, <2>1, <2>2, <2>3 DEF Work, Rests, Reads, Unspoken, Submits, Files, Resting
  <2>5. OwnMove(a)
    BY <1>1, <1>3, <1>4, <2>1, OthersRest DEF OwnMove
  <2>6. OneAtWork' /\ \A b \in Actors : Work(b)'
    BY <1>1, <1>3, <2>4, <2>5, OwnMoveKeeps
  <2> QED
    BY <1>3, <2>1, <2>6, TableKeeps DEF TurnInv, world
<1>6. CASE e.id \in InState({"sent_pending_append"})
  <2>1. PICK i \in Present : /\ i = e.id /\ i \in Ids /\ rows[i] \in Row /\ rows[i].msg = e.row.msg
                             /\ rows[i].state = "sent_pending_append" /\ e.row \in Row
    BY <1>0, <1>1, <1>6, RowTyped, SnapTyped DEF InState, Work, Lists
  <2>2. PICK r : r = [rows[i] EXCEPT !.attempts = @ + 1]
    OBVIOUS
  <2>3. r \in Row
    <3>1. rows[i].attempts + 1 \in Nat
      BY <1>0, RowTyped
    <3> QED
      BY <2>1, <2>2, <3>1, RowUpdates
  <2>4. /\ r.msg = rows[i].msg /\ r.state = rows[i].state /\ r.delivered = rows[i].delivered
        /\ r.rejected = rows[i].rejected /\ r # None
    BY <2>1, <2>2, <2>3, NoneAssumption DEF Row
  <2>5. /\ rows' = [rows EXCEPT ![i] = r] /\ pc' = [pc EXCEPT ![a] = "append"]
        /\ cur' = [cur EXCEPT ![a] = [@ EXCEPT !.id = e.id, !.row = e.row]]
    BY <1>2, <1>6, <2>1, <2>2 DEF Attempted, Goto
  <2>6. /\ pc'[a] = "append" /\ \A b \in Actors \ {a} : pc'[b] = pc[b] /\ cur'[b] = cur[b]
        /\ rows'[i] = r /\ i \in Present' /\ \A j \in Ids : j # i => rows'[j] = rows[j]
    BY <1>0, <2>1, <2>4, <2>5 DEF TypeOK, Present
  <2>7. cur'[a].id = i /\ cur'[a].row = e.row /\ cur'[a].said = cur[a].said
    <3>1. cur[a] \in Cur /\ cur'[a] = [cur[a] EXCEPT !.id = e.id, !.row = e.row]
      BY <1>0, <2>5 DEF TypeOK
    <3> QED
      BY <2>1, <3>1 DEF Cur
  <2>8. Lists(a)'
    BY <1>1, <1>3, <1>4, <2>4, <2>6 DEF Work, Lists, Draining, Present
  <2>9. Told(a)'
    BY <1>1, <1>3, <2>6, <2>7 DEF Work, Told, Submitting, Said, world
  <2>10. Files(a)'
    <3>1. WorksOn(a, "sent_pending_append")'
      BY <2>1, <2>4, <2>6, <2>7, NoneAssumption DEF WorksOn, InState
    <3> QED
      BY <2>6, <3>1 DEF Files, Finishing
  <2>11. Work(a)'
    BY <1>1, <1>3, <2>6, <2>8, <2>9, <2>10 DEF Work, Rests, Reads, Unspoken, Submits, Resting
  <2>12. OwnMove(a)
    BY <1>1, <1>3, <1>4, <2>6, OthersRest DEF OwnMove
  <2>13. OneAtWork' /\ \A b \in Actors : Work(b)'
    BY <1>1, <1>3, <2>11, <2>12, OwnMoveKeeps
  <2>14. Envelopes'
    <3>1. Outstanding(r) = {} /\ r.delivered # {} /\ \A q \in r.delivered : copies[r.msg][q] > 0
      BY <2>1, <2>4 DEF TurnInv, Envelopes, InState, Outstanding
    <3> QED
      BY <1>0, <1>3, <2>1, <2>3, <2>4, <2>5, <3>1, RowTrue DEF world
  <2>15. Accounted'
    BY <1>3, <2>1, <2>3, <2>4, <2>5, RowCounted
  <2>16. \A s \in Sends : pc'[s] \in FreshLabels => pc[s] \in FreshLabels
    BY <2>6, ActorKinds DEF FreshLabels
  <2> QED
    BY <1>3, <2>13, <2>14, <2>15, <2>16
       DEF TurnInv, TurnHeld, Copies, Retirements, Fresh, FreshLabels, world
<1> QED
  BY <1>5, <1>6

LEMMA SkipAppendKeeps ==
    ASSUME TurnInv, Filing, NEW a \in Actors, SkipAppend(a)
    PROVE  TurnInv'
<1>0. TypeOK
  BY DEF Filing
<1>1. pc[a] = "drain" /\ turn = a /\ Work(a) /\ gate = a
  BY AtWork DEF SkipAppend, Resting, Filing, GateHeld
<1>2. UNCHANGED <<store, file, slot, turn, gate, pc, cur, world, history>>
  BY DEF SkipAppend
<1>3. PICK e : snap' = [snap EXCEPT ![a] = @ \ {e}]
  BY DEF SkipAppend
<1>4. /\ snap'[a] \subseteq snap[a] /\ \A b \in Actors \ {a} : snap'[b] = snap[b]
  BY <1>0, <1>3 DEF TypeOK
<1>5. Work(a)'
  <2>1. Lists(a)'
    BY <1>1, <1>2, <1>4 DEF Work, Lists, Present, store
  <2>2. Told(a)'
    BY <1>1, <1>2 DEF Work, Told, Said, world
  <2> QED
    BY <1>1, <1>2, <2>1, <2>2 DEF Work, Rests, Reads, Unspoken, Submits, Files, Resting
<1>6. OneAtWork' /\ \A b \in Actors : Work(b)'
  <2>1. OwnMove(a)
    BY <1>1, <1>2, <1>4, OthersRest DEF OwnMove
  <2> QED
    BY <1>1, <1>2, <1>5, <2>1, OwnMoveKeeps
<1> QED
  BY <1>2, <1>6, TableKeeps DEF TurnInv, store, world

LEMMA AppendKeeps ==
    ASSUME TurnInv, Filing, NEW a \in Actors, NEW filed \in BOOLEAN, AppendOnce(a, filed)
    PROVE  TurnInv'
<1>0. TypeOK
  BY DEF Filing
<1>1. pc[a] = "append" /\ turn = a /\ Work(a) /\ gate = a
  BY AtWork DEF AppendOnce, Resting, Filing, GateHeld
<1>2. UNCHANGED <<store, file, slot, turn, gate, snap, copies, history>>
  BY DEF AppendOnce
<1>3. WorksOn(a, "sent_pending_append") /\ cur[a].row.msg \in Sends
  BY <1>0, <1>1, SubjectRow DEF Work, Files
<1>4. /\ pc'[a] = "filed" /\ \A b \in Actors \ {a} : pc'[b] = pc[b] /\ cur'[b] = cur[b]
      /\ cur'[a] = [cur[a] EXCEPT !.filed = filed]
  BY <1>0 DEF AppendOnce, Goto, TypeOK
<1>5. /\ cur'[a].id = cur[a].id /\ cur'[a].row = cur[a].row /\ cur'[a].said = cur[a].said
      /\ cur'[a].filed = filed
  <2>1. cur[a] \in Cur
    BY <1>0 DEF TypeOK
  <2> QED
    BY <1>4, <2>1 DEF Cur
<1>6. filed => sentBox'[cur[a].row.msg] > 0
  BY <1>0, <1>3 DEF AppendOnce, TypeOK
<1>7. Work(a)'
  <2>1. Lists(a)'
    BY <1>1, <1>2, <1>4 DEF Work, Lists, Draining, Present, store
  <2>2. Told(a)'
    BY <1>1, <1>2, <1>4, <1>5 DEF Work, Told, Submitting, Said
  <2>3. WorksOn(a, "sent_pending_append")'
    BY <1>2, <1>3, <1>5 DEF WorksOn, InState, Present, store
  <2>4. Files(a)'
    BY <1>4, <1>5, <1>6, <2>3 DEF Files, Finishing
  <2> QED
    BY <1>1, <1>2, <1>4, <2>1, <2>2, <2>4 DEF Work, Rests, Reads, Unspoken, Submits, Resting
<1>8. OneAtWork' /\ \A b \in Actors : Work(b)'
  <2>1. OwnMove(a)
    BY <1>1, <1>2, <1>4, OthersRest DEF OwnMove
  <2> QED
    BY <1>1, <1>2, <1>7, <2>1, OwnMoveKeeps
<1>9. \A s \in Sends : pc'[s] \in FreshLabels => pc[s] \in FreshLabels
  BY <1>4, ActorKinds DEF FreshLabels
<1> QED
  BY <1>2, <1>8, <1>9, TableKeeps DEF TurnInv, store

LEMMA RecordAppendKeeps ==
    ASSUME TurnInv, Filing, NEW a \in Actors, RecordAppend(a)
    PROVE  TurnInv'
<1>0. TypeOK
  BY DEF Filing
<1>1. pc[a] = "filed" /\ turn = a /\ Work(a) /\ gate = a
  BY AtWork DEF RecordAppend, Resting, Filing, GateHeld
<1>2. UNCHANGED <<store, file, slot, world, history>>
  BY DEF RecordAppend
<1>3. WorksOn(a, "sent_pending_append")
  BY <1>1 DEF Work, Files
<1>4. PICK i \in Present : /\ i = cur[a].id /\ rows[i].msg = cur[a].row.msg /\ rows[i] # None
                           /\ rows[i].state = "sent_pending_append" /\ rows[i] \in Row
  BY <1>0, <1>3, SubjectRow DEF Present
<1>5. UNCHANGED <<gate, snap, turn>>
  BY <1>4 DEF RecordAppend
<1>6. PICK l \in {"ingest", "drain"} :
          /\ pc' = [pc EXCEPT ![a] = l]
          /\ l = "ingest" => cur[a].filed /\ cur' = [cur EXCEPT ![a].row = rows[i]]
          /\ l = "drain" => \E p : cur' = [cur EXCEPT ![a].progress = p]
  BY <1>4 DEF RecordAppend, Goto, Filed
<1>7. /\ pc'[a] = l /\ \A b \in Actors \ {a} : pc'[b] = pc[b]
  BY <1>0, <1>6 DEF TypeOK
<1>8. /\ \A b \in Actors \ {a} : cur'[b] = cur[b]
      /\ cur'[a].said = cur[a].said /\ cur'[a].id = i
      /\ l = "ingest" => cur'[a].row = rows[i]
  <2>1. cur[a] \in Cur
    BY <1>0 DEF TypeOK
  <2>2. /\ \A p : [cur[a] EXCEPT !.progress = p].said = cur[a].said
        /\ \A p : [cur[a] EXCEPT !.progress = p].id = cur[a].id
        /\ \A p : [cur[a] EXCEPT !.row = p].said = cur[a].said
        /\ \A p : [cur[a] EXCEPT !.row = p].id = cur[a].id
        /\ \A p : [cur[a] EXCEPT !.row = p].row = p
    BY <2>1 DEF Cur
  <2>3. CASE l = "ingest"
    <3>1. cur' = [cur EXCEPT ![a] = [cur[a] EXCEPT !.row = rows[i]]]
      BY <1>6, <2>3
    <3>2. cur'[a] = [cur[a] EXCEPT !.row = rows[i]] /\ \A b \in Actors \ {a} : cur'[b] = cur[b]
      BY <1>0, <3>1 DEF TypeOK
    <3> QED
      BY <1>4, <2>2, <3>2
  <2>4. CASE l = "drain"
    <3>1. PICK p : cur' = [cur EXCEPT ![a] = [cur[a] EXCEPT !.progress = p]]
      BY <1>6, <2>4
    <3>2. cur'[a] = [cur[a] EXCEPT !.progress = p] /\ \A b \in Actors \ {a} : cur'[b] = cur[b]
      BY <1>0, <3>1 DEF TypeOK
    <3> QED
      BY <1>4, <2>2, <2>4, <3>2
  <2> QED
    BY <2>3, <2>4
<1>9. Work(a)'
  <2>1. Lists(a)'
    BY <1>1, <1>2, <1>5, <1>7 DEF Work, Lists, Draining, Finishing, Present, store
  <2>2. Told(a)'
    BY <1>1, <1>2, <1>7, <1>8 DEF Work, Told, Submitting, Said, world
  <2>3. Files(a)'
    <3>1. l = "ingest" => sentBox'[rows[i].msg] > 0
      BY <1>1, <1>2, <1>4, <1>6 DEF Work, Files, world
    <3>2. rows'[i] = rows[i] /\ i \in Present'
      BY <1>2 DEF store, Present
    <3>3. l = "ingest" => WorksOn(a, "sent_pending_append")'
      BY <1>4, <1>8, <3>2 DEF WorksOn, InState
    <3> QED
      BY <1>5, <1>7, <1>8, <3>1, <3>3 DEF Files
  <2> QED
    BY <1>1, <1>5, <1>7, <2>1, <2>2, <2>3 DEF Work, Rests, Reads, Unspoken, Submits, Resting
<1>10. OneAtWork' /\ \A b \in Actors : Work(b)'
  <2>1. OwnMove(a)
    BY <1>1, <1>5, <1>7, <1>8, OthersRest DEF OwnMove
  <2> QED
    BY <1>1, <1>5, <1>9, <2>1, OwnMoveKeeps
<1>11. \A s \in Sends : pc'[s] \in FreshLabels => pc[s] \in FreshLabels
  BY <1>7, ActorKinds DEF FreshLabels
<1> QED
  BY <1>2, <1>10, <1>11, TableKeeps DEF TurnInv, store, world

LEMMA EndPassKeeps ==
    ASSUME TurnInv, Filing, NEW a \in Actors, EndPass(a)
    PROVE  TurnInv'
<1>0. TypeOK
  BY DEF Filing
<1>1. pc[a] = "drain" /\ turn = a /\ Work(a) /\ gate = a /\ Told(a)
  BY AtWork DEF EndPass, Resting, Filing, GateHeld, Work
<1>2. UNCHANGED <<store, file, slot, world, history>>
  BY DEF EndPass
<1>3. /\ OneAtWork' /\ \A b \in Actors : Work(b)'
      /\ \A s \in Sends : pc'[s] \in FreshLabels => pc[s] \in FreshLabels
  <2>1. CASE Drained(a)
    <3>1. gate' = None /\ snap' = [snap EXCEPT ![a] = {}] /\ Settled(a)
      BY <2>1 DEF Drained
    <3>2. snap'[a] = {} /\ \A b \in Actors \ {a} : snap'[b] = snap[b]
      BY <1>0, <3>1 DEF TypeOK
    <3>3. \A b \in Actors : gate' # b
      BY <3>1, ActorsAssumption DEF Actors
    <3> QED
      BY <1>0, <1>1, <1>2, <3>1, <3>2, <3>3, SettledKeeps DEF world
  <2>2. CASE /\ snap' = [snap EXCEPT ![a] = Snapshot(InState({"sent_pending_append"}))]
             /\ cur' = [cur EXCEPT ![a].progress = FALSE]
             /\ UNCHANGED <<pc, gate, turn>>
    <3>1. /\ snap'[a] = Snapshot(InState({"sent_pending_append"}))
          /\ \A b \in Actors \ {a} : snap'[b] = snap[b] /\ cur'[b] = cur[b]
          /\ cur'[a] = [cur[a] EXCEPT !.progress = FALSE]
      BY <1>0, <2>2 DEF TypeOK
    <3>2. cur'[a].said = cur[a].said
      <4>1. cur[a] \in Cur
        BY <1>0 DEF TypeOK
      <4> QED
        BY <3>1, <4>1 DEF Cur
    <3>3. Lists(a)'
      BY <1>1, <1>2, <2>2, <3>1 DEF Lists, Draining, Snapshot, Present, store
    <3>4. Told(a)'
      BY <1>1, <1>2, <2>2, <3>2 DEF Told, Submitting, Said, world
    <3>5. Work(a)'
      BY <1>1, <2>2, <3>3, <3>4 DEF Work, Rests, Reads, Unspoken, Submits, Files, Resting
    <3>6. OwnMove(a)
      BY <1>1, <2>2, <3>1 DEF OwnMove
    <3> QED
      BY <1>1, <2>2, <3>5, <3>6, OwnMoveKeeps
  <2> QED
    BY <2>1, <2>2 DEF EndPass
<1> QED
  BY <1>2, <1>3, TableKeeps DEF TurnInv, store, world

-----------------------------------------------------------------------------
(* The steps of a resume before its drain.                                   *)

LEMMA TickKeeps ==
    ASSUME TurnInv, Filing, NEW w \in Resumers, Tick(w)
    PROVE  TurnInv'
<1>0. TypeOK
  BY DEF Filing
<1>1. w \in Actors /\ w \notin Sends /\ turn = None /\ turn' = w
  BY ActorsAssumption DEF Tick, TurnFree, Actors
<1>2. UNCHANGED <<store, file, slot, gate, cur, snap, world, history>>
  BY DEF Tick
<1>3. cur[w] = NoCur /\ snap[w] = {} /\ gate # w
  BY <1>1 DEF Tick, TurnInv, Work, Rests, Resting
<1>4. pc'[w] = "sweep" /\ \A b \in Actors \ {w} : pc'[b] = pc[b]
  BY <1>0, <1>1 DEF Tick, Goto, TypeOK
<1>5. Work(w)'
  BY <1>1, <1>2, <1>3, <1>4 DEF Work, Rests, Reads, Lists, Unspoken, Told, Submits, Files,
     Resting, Submitting, Finishing, NoCur
<1>6. OneAtWork' /\ \A b \in Actors : Work(b)'
  <2>1. OwnMove(w)
    BY <1>1, <1>2, <1>4, OthersRest DEF OwnMove
  <2> QED
    BY <1>1, <1>5, <2>1, OwnMoveKeeps
<1>7. \A s \in Sends : pc'[s] \in FreshLabels => pc[s] \in FreshLabels
  BY <1>1, <1>4, ActorKinds
<1> QED
  BY <1>2, <1>6, <1>7, TableKeeps DEF TurnInv, store, world

LEMMA SweepKeeps ==
    ASSUME TurnInv, Filing, NEW w \in Resumers, Sweep(w)
    PROVE  TurnInv'
<1>0. TypeOK
  BY DEF Filing
<1>1. w \in Actors /\ w \notin Sends /\ pc[w] = "sweep" /\ turn = w /\ Work(w)
  BY AtWork, ActorsAssumption DEF Sweep, Actors, Resting
<1>2. gate # w
  BY <1>1 DEF Work, Lists, Draining, Finishing
<1>3. UNCHANGED <<store, file, slot, turn, gate, cur, world, history>>
  BY DEF Sweep
<1>4. /\ pc'[w] = "park" /\ snap'[w] = Snapshot(InState({"pending_send"}))
      /\ \A b \in Actors \ {w} : pc'[b] = pc[b] /\ snap'[b] = snap[b]
  BY <1>0, <1>1 DEF Sweep, Goto, TypeOK
<1>5. Work(w)'
  <2>1. Reads(w)'
    BY <1>2, <1>3, <1>4 DEF Reads, Snapshot, InState, Present, store
  <2>2. Unspoken(w)'
    BY <1>1, <1>3 DEF Work, Unspoken
  <2> QED
    BY <1>1, <1>2, <1>3, <1>4, <2>1, <2>2 DEF Work, Rests, Lists, Told, Submits, Files,
       Resting, Submitting, Finishing
<1>6. OneAtWork' /\ \A b \in Actors : Work(b)'
  <2>1. OwnMove(w)
    BY <1>1, <1>3, <1>4, OthersRest DEF OwnMove
  <2> QED
    BY <1>1, <1>3, <1>5, <2>1, OwnMoveKeeps
<1>7. \A s \in Sends : pc'[s] \in FreshLabels => pc[s] \in FreshLabels
  BY <1>1, <1>4, ActorKinds
<1> QED
  BY <1>3, <1>6, <1>7, TableKeeps DEF TurnInv, store, world

(* What Park parks was pending with its marker, as the resume read it.       *)
LEMMA ParkShape ==
    ASSUME TurnInv, Filing, NEW w \in Resumers, Park(w)
    PROVE  /\ \A i \in Stranded(w) : /\ i \in Present /\ rows[i].state = "pending_send"
                                     /\ rows[i].marker /\ rows'[i] \in Row
                                     /\ rows'[i].msg = rows[i].msg /\ rows'[i].state = "failed"
                                     /\ rows'[i].delivered = rows[i].delivered
                                     /\ rows'[i].marker
           /\ \A i \in Ids \ Stranded(w) : rows'[i] = rows[i]
           /\ Present' = Present
           /\ \A e \in snap[w] : ~e.row.marker => e.id \notin Stranded(w)
<1>0. TypeOK
  BY DEF Filing
<1>1. w \in Actors /\ pc[w] = "park" /\ turn = w /\ Work(w)
  BY AtWork DEF Park, Actors, Resting
<1>2. \A e \in snap[w] : rows[e.id] = e.row /\ e.id \in InState({"pending_send"})
  BY <1>1 DEF Work, Lists, Reads, Draining, Finishing
<1>3. ASSUME NEW i \in Stranded(w)
      PROVE  i \in Present /\ rows[i].state = "pending_send" /\ rows[i].marker
  BY <1>2, <1>3 DEF Stranded, InState
<1>4. ASSUME NEW i \in Stranded(w)
      PROVE  /\ rows'[i] \in Row
             /\ rows'[i].msg = rows[i].msg /\ rows'[i].state = "failed"
             /\ rows'[i].delivered = rows[i].delivered /\ rows'[i].marker
  <2>1. rows[i] \in Row /\ i \in Ids
    BY <1>0, <1>3, <1>4, RowTyped
  <2>2. rows'[i] = [rows[i] EXCEPT !.state = "failed"]
    BY <1>4, <2>1 DEF Park
  <2> QED
    BY <1>3, <1>4, <2>1, <2>2 DEF Row, States
<1>5. \A i \in Ids \ Stranded(w) : rows'[i] = rows[i]
  BY DEF Park
<1>6. Present' = Present
  <2>1. ASSUME NEW i \in Ids PROVE rows'[i] = None <=> rows[i] = None
    <3>1. CASE i \in Stranded(w)
      BY <1>3, <1>4, <3>1, NoneAssumption DEF Present
    <3>2. CASE i \notin Stranded(w)
      BY <1>5, <3>2
    <3> QED
      BY <3>1, <3>2
  <2> QED
    BY <2>1 DEF Present
<1> QED
  BY <1>2, <1>3, <1>4, <1>5, <1>6 DEF Stranded

LEMMA ParkKeeps ==
    ASSUME TurnInv, Filing, NEW w \in Resumers, Park(w)
    PROVE  TurnInv'
<1>0. TypeOK
  BY DEF Filing
<1>1. w \in Actors /\ w \notin Sends /\ pc[w] = "park" /\ turn = w /\ Work(w)
  BY AtWork, ActorsAssumption DEF Park, Actors, Resting
<1>2. gate # w
  BY <1>1 DEF Work, Lists, Draining, Finishing
<1>3. UNCHANGED <<refs, localCopy, file, slot, turn, gate, cur, world, history>>
  BY DEF Park
<1>4. /\ pc'[w] = "resubmit" /\ snap'[w] = {e \in snap[w] : ~e.row.marker}
      /\ \A b \in Actors \ {w} : pc'[b] = pc[b] /\ snap'[b] = snap[b]
  BY <1>0, <1>1 DEF Park, Goto, TypeOK
<1>5. \A i \in Present :
          /\ rows'[i].msg = rows[i].msg /\ rows'[i].delivered = rows[i].delivered
          /\ rows'[i] = rows[i] \/ (rows[i].state = "pending_send" /\ rows'[i].state = "failed")
  BY ParkShape DEF Present
<1>6. Work(w)'
  <2>1. ASSUME NEW e \in snap'[w]
        PROVE  /\ e.id \in InState({"pending_send"})' /\ rows'[e.id] = e.row /\ ~e.row.marker
    <3>1. e \in snap[w] /\ ~e.row.marker
      BY <1>4, <2>1
    <3>2. e.id \in InState({"pending_send"}) /\ rows[e.id] = e.row
      BY <1>1, <1>2, <3>1 DEF Work, Reads
    <3> QED
      BY <3>1, <3>2, ParkShape DEF InState, Present
  <2>2. Reads(w)'
    BY <1>4, <2>1 DEF Reads
  <2>3. Unspoken(w)'
    BY <1>1, <1>3 DEF Work, Unspoken
  <2> QED
    BY <1>1, <1>2, <1>3, <1>4, <2>2, <2>3 DEF Work, Rests, Lists, Told, Submits, Files,
       Resting, Submitting, Finishing
<1>7. OneAtWork' /\ \A b \in Actors : Work(b)'
  <2>1. OwnMove(w)
    BY <1>1, <1>3, <1>4, OthersRest DEF OwnMove
  <2> QED
    BY <1>1, <1>3, <1>6, <2>1, OwnMoveKeeps
<1>8. \A s \in Sends : pc'[s] = pc[s]
  BY <1>1, <1>4, ActorKinds
<1>9. Envelopes'
  BY <1>3, <1>5, ParkShape DEF TurnInv, Envelopes, InState, Recorded, Outstanding, world
<1>10. Accounted'
  <2>1. \A m \in Sends : NotDone(m)' <=> NotDone(m)
    BY <1>5, ParkShape DEF NotDone
  <2> QED
    BY <1>3, <2>1 DEF TurnInv, Accounted
<1> QED
  BY <1>3, <1>7, <1>8, <1>9, <1>10 DEF TurnInv, TurnHeld, Copies, Retirements, Fresh, world

LEMMA SkipRowKeeps ==
    ASSUME TurnInv, Filing, NEW w \in Resumers, SkipRow(w)
    PROVE  TurnInv'
<1>0. TypeOK
  BY DEF Filing
<1>1. w \in Actors /\ w \notin Sends /\ pc[w] = "resubmit" /\ turn = w /\ Work(w)
  BY AtWork, ActorsAssumption DEF SkipRow, Actors, Resting
<1>2. gate # w
  BY <1>1 DEF Work, Lists, Draining, Finishing
<1>3. UNCHANGED <<store, file, slot, turn, gate, pc, cur, world, history>>
  BY DEF SkipRow
<1>4. PICK e : snap' = [snap EXCEPT ![w] = @ \ {e}]
  BY DEF SkipRow
<1>5. snap'[w] \subseteq snap[w] /\ \A b \in Actors \ {w} : snap'[b] = snap[b]
  BY <1>0, <1>4 DEF TypeOK
<1>6. Work(w)'
  <2>1. Reads(w)'
    BY <1>1, <1>2, <1>3, <1>5 DEF Work, Reads, InState, Present, store
  <2> QED
    BY <1>1, <1>2, <1>3, <2>1 DEF Work, Rests, Lists, Unspoken, Told, Submits, Files,
       Resting, Submitting, Finishing
<1>7. OneAtWork' /\ \A b \in Actors : Work(b)'
  <2>1. OwnMove(w)
    BY <1>1, <1>3, <1>5, OthersRest DEF OwnMove
  <2> QED
    BY <1>1, <1>3, <1>6, <2>1, OwnMoveKeeps
<1> QED
  BY <1>3, <1>7, TableKeeps DEF TurnInv, store, world

LEMMA ClaimRowKeeps ==
    ASSUME TurnInv, Filing, NEW w \in Resumers, ClaimRow(w)
    PROVE  TurnInv'
<1>0. TypeOK
  BY DEF Filing
<1>1. w \in Actors /\ w \notin Sends /\ pc[w] = "resubmit" /\ turn = w /\ Work(w)
  BY AtWork, ActorsAssumption DEF ClaimRow, Actors, Resting
<1>2. gate # w
  BY <1>1 DEF Work, Lists, Draining, Finishing
<1>3. UNCHANGED <<store, file, turn, gate, world, history>>
  BY DEF ClaimRow
<1>4. PICK e \in snap[w] :
          /\ snap' = [snap EXCEPT ![w] = @ \ {e}]
          /\ cur' = [cur EXCEPT ![w] = [@ EXCEPT !.id = e.id, !.row = e.row,
                                                 !.todo = Outstanding(e.row)]]
          /\ Goto(w, IF Outstanding(e.row) = {} THEN "smtp"
                     ELSE IF refs[e.row.msg] > 0 THEN "mark" ELSE "retire")
  BY DEF ClaimRow
<1>5. PICK l \in {"smtp", "mark", "retire"} :
          /\ pc' = [pc EXCEPT ![w] = l]
          /\ l = "smtp" => Outstanding(e.row) = {}
  BY <1>4 DEF Goto
<1>6. /\ pc'[w] = l /\ snap'[w] = snap[w] \ {e}
      /\ \A b \in Actors \ {w} : pc'[b] = pc[b] /\ snap'[b] = snap[b] /\ cur'[b] = cur[b]
  <2>1. pc'[w] = l /\ \A b \in Actors \ {w} : pc'[b] = pc[b]
    BY <1>0, <1>1, <1>5 DEF TypeOK
  <2>2. snap'[w] = snap[w] \ {e} /\ \A b \in Actors \ {w} : snap'[b] = snap[b]
    BY <1>0, <1>1, <1>4 DEF TypeOK
  <2>3. \A b \in Actors \ {w} : cur'[b] = cur[b]
    BY <1>0, <1>4 DEF TypeOK
  <2> QED
    BY <2>1, <2>2, <2>3
<1>7. /\ cur'[w].id = e.id /\ cur'[w].row = e.row /\ cur'[w].said = cur[w].said
      /\ cur'[w].todo = Outstanding(e.row)
  <2>1. cur[w] \in Cur /\ cur'[w] = [cur[w] EXCEPT !.id = e.id, !.row = e.row, !.todo = Outstanding(e.row)]
    BY <1>0, <1>1, <1>4 DEF TypeOK
  <2> QED
    BY <2>1 DEF Cur
<1>8. /\ e.id \in Present /\ rows[e.id] = e.row /\ e.row.state = "pending_send" /\ ~e.row.marker
      /\ e.row \in Row
  <2>1. e.id \in InState({"pending_send"}) /\ rows[e.id] = e.row /\ ~e.row.marker
    BY <1>1, <1>2 DEF Work, Reads
  <2> QED
    BY <1>0, <1>1, <2>1, SnapTyped DEF InState
<1>9. \A q \in Recipients : cur'[w].said[q] = "none"
  BY <1>1, <1>7 DEF Work, Unspoken
<1>10. Work(w)'
  <2>1. Reads(w)'
    <3>1. ASSUME NEW f \in snap'[w]
          PROVE  /\ f.id \in InState({"pending_send"})' /\ rows'[f.id] = f.row
                 /\ ~f.row.marker /\ f.id # cur'[w].id
      <4>1. f \in snap[w] /\ f # e
        BY <1>6, <3>1
      <4>2. f.id \in InState({"pending_send"}) /\ rows[f.id] = f.row /\ ~f.row.marker
        BY <1>1, <1>2, <4>1 DEF Work, Reads
      <4>3. e \in [id : Ids, row : Row] /\ f \in [id : Ids, row : Row]
        BY <1>0, <1>1, <4>1 DEF TypeOK
      <4>4. f.id # e.id
        BY <1>8, <4>1, <4>2, <4>3
      <4> QED
        BY <1>3, <1>7, <4>2, <4>4 DEF InState, Present, store
    <3> QED
      BY <1>6, <3>1 DEF Reads, Submitting
  <2>2. WorksOn(w, "pending_send")'
    BY <1>3, <1>7, <1>8, NoneAssumption DEF WorksOn, InState, Present, store
  <2>3. \A q \in Recipients : copies[e.row.msg][q] > 0 => q \in e.row.delivered
    BY <1>8 DEF TurnInv, Envelopes, InState, Recorded
  <2>4. Submits(w)'
    <3>1. \A q \in Outstanding(e.row) : q \in Recipients /\ q \notin e.row.delivered
      BY DEF Outstanding
    <3>2. rows'[e.id] = e.row /\ copies' = copies
      BY <1>3, <1>8 DEF store, world
    <3>3. Said(w, "delivered")' = {}
      BY <1>9 DEF Said
    <3> QED
      BY <1>5, <1>6, <1>7, <1>8, <1>9, <2>2, <2>3, <3>1, <3>2, <3>3 DEF Submits, Finishing
  <2>5. Unspoken(w)'
    BY <1>9 DEF Unspoken
  <2> QED
    BY <1>1, <1>2, <1>3, <1>6, <2>1, <2>4, <2>5 DEF Work, Rests, Lists, Told, Files, Resting
<1>11. OneAtWork' /\ \A b \in Actors : Work(b)'
  <2>1. OwnMove(w)
    BY <1>1, <1>3, <1>6, OthersRest DEF OwnMove
  <2> QED
    BY <1>1, <1>3, <1>10, <2>1, OwnMoveKeeps
<1>12. \A s \in Sends : pc'[s] \in FreshLabels => pc[s] \in FreshLabels
  BY <1>1, <1>6, ActorKinds
<1> QED
  BY <1>3, <1>11, <1>12, TableKeeps DEF TurnInv, store, world

LEMMA EndResubmitKeeps ==
    ASSUME TurnInv, Filing, NEW w \in Resumers, EndResubmit(w)
    PROVE  TurnInv'
<1>0. TypeOK
  BY DEF Filing
<1>1. w \in Actors /\ w \notin Sends /\ pc[w] = "resubmit" /\ turn = w /\ Work(w) /\ snap[w] = {}
  BY AtWork, ActorsAssumption DEF EndResubmit, Actors, Resting
<1>2. gate # w
  BY <1>1 DEF Work, Lists, Draining, Finishing
<1>3. UNCHANGED <<store, file, slot, turn, gate, cur, snap, world, history>>
  BY DEF EndResubmit
<1>4. pc'[w] = "settle" /\ \A b \in Actors \ {w} : pc'[b] = pc[b]
  BY <1>0, <1>1 DEF EndResubmit, Goto, TypeOK
<1>5. Work(w)'
  BY <1>1, <1>2, <1>3, <1>4 DEF Work, Rests, Reads, Lists, Unspoken, Told, Submits, Files,
     Resting, Submitting, Finishing
<1>6. OneAtWork' /\ \A b \in Actors : Work(b)'
  <2>1. OwnMove(w)
    BY <1>1, <1>3, <1>4, OthersRest DEF OwnMove
  <2> QED
    BY <1>1, <1>3, <1>5, <2>1, OwnMoveKeeps
<1>7. \A s \in Sends : pc'[s] \in FreshLabels => pc[s] \in FreshLabels
  BY <1>1, <1>4, ActorKinds
<1> QED
  BY <1>3, <1>6, <1>7, TableKeeps DEF TurnInv, store, world

-----------------------------------------------------------------------------
(* The operator, the user, and a crash.                                      *)

LEMMA DiscardKeeps ==
    ASSUME TurnInv, Filing, NEW i \in Ids, Discard(i)
    PROVE  TurnInv'
<1>0. TypeOK
  BY DEF Filing
<1>1. i \in Present /\ rows[i].state = "failed" /\ rows[i] \in Row /\ rows[i].msg \in Sends
  BY <1>0, RowTyped DEF Discard, InState, TurnInv, TurnHeld
<1>2. /\ rows' = [rows EXCEPT ![i] = None] /\ refs' = Released(rows[i].msg)
      /\ UNCHANGED <<localCopy, file, slot, turn, gate, pc, cur, snap, world, crashes, retries, rearmed>>
  BY <1>1 DEF Discard
<1>3. /\ rows'[i] = None /\ Present' = Present \ {i}
      /\ \A j \in Present' : rows'[j] = rows[j]
  BY <1>0, <1>1, <1>2 DEF TypeOK, Present
<1>4. \A j \in Present : rows[j].state # "failed" => j \in Present' /\ rows'[j] = rows[j]
  BY <1>1, <1>3
<1>5. ASSUME NEW a \in Actors PROVE Work(a)'
  <2>1. Work(a)
    BY DEF TurnInv
  <2>2. \A state \in States \ {"failed"} : WorksOn(a, state) => WorksOn(a, state)'
    BY <1>2, <1>4 DEF WorksOn, InState
  <2>3. Reads(a)'
    BY <1>2, <1>4, <2>1 DEF Work, Reads, InState
  <2>4. Lists(a)'
    BY <1>2, <1>3, <2>1 DEF Work, Lists
  <2>5. Submits(a)'
    <3>1. ASSUME WorksOn(a, "pending_send")
          PROVE  WorksOn(a, "pending_send")' /\ rows'[cur[a].id] = rows[cur[a].id]
      BY <1>4, <2>2, <3>1 DEF States, WorksOn, InState
    <3>2. CASE pc[a] \in Submitting \cup Finishing
      BY <1>2, <2>1, <3>1, <3>2 DEF Work, Submits, Said, Outstanding, world
    <3>3. CASE pc[a] \notin Submitting \cup Finishing
      BY <1>2, <3>3 DEF Submits, Submitting, Finishing
    <3> QED
      BY <3>2, <3>3
  <2>6. Files(a)'
    BY <1>2, <2>1, <2>2 DEF Work, Files, States, world
  <2>7. Rests(a)' /\ Unspoken(a)' /\ Told(a)'
    BY <1>2, <2>1 DEF Work, Rests, Resting, Unspoken, Told, Said, world
  <2> QED
    BY <2>3, <2>4, <2>5, <2>6, <2>7 DEF Work
<1>6. Envelopes'
  BY <1>2, <1>3 DEF TurnInv, Envelopes, InState, Recorded, Outstanding, world
<1>7. Accounted'
  <2>1. PICK m \in Sends : m = rows[i].msg
    BY <1>1
  <2>2. \A n \in Sends \ {m} : NotDone(n)' <=> NotDone(n)
    BY <1>3, <2>1 DEF NotDone
  <2>3. NotDone(m)
    BY <1>1, <2>1 DEF NotDone
  <2>4. ~NotDone(m)'
    <3>1. \A j \in Present : rows[j].msg = m => j = i
      BY <1>1, <2>1 DEF Filing, OneRowPerMessage
    <3> QED
      BY <1>3, <3>1 DEF NotDone
  <2>5. refs[m] = 1 + (IF localCopy[m] THEN 1 ELSE 0) /\ localCopy' = localCopy
    BY <1>2, <2>3 DEF TurnInv, Accounted
  <2>6. /\ refs'[m] = (IF localCopy[m] THEN 1 ELSE 0)
        /\ \A n \in Sends \ {m} : refs'[n] = refs[n]
    BY <1>0, <1>2, <2>1, <2>5 DEF Released, TypeOK
  <2> QED
    BY <2>2, <2>4, <2>5, <2>6 DEF TurnInv, Accounted
<1> QED
  BY <1>2, <1>5, <1>6, <1>7
     DEF TurnInv, TurnHeld, OneAtWork, Resting, Copies, Retirements, Fresh, world

(* What an actor is at does not hang on the drafts' files or the history.    *)
LEMMA WorkStays ==
    ASSUME NEW a, Work(a), UNCHANGED <<rows, gate, pc, cur, snap, copies, sentBox>>
    PROVE  Work(a)'
<1>1. Rests(a)' /\ Unspoken(a)'
  BY DEF Work, Rests, Resting, Unspoken
<1>2. Reads(a)' /\ Lists(a)'
  BY DEF Work, Reads, Lists, InState, Present
<1>3. Told(a)'
  BY DEF Work, Told, Said
<1>4. \A state : WorksOn(a, state)' = WorksOn(a, state)
  BY DEF WorksOn, InState, Present
<1>5. Submits(a)'
  <2>1. Submits(a)' = Submits(a)
    BY <1>4 DEF Submits, Said, Outstanding
  <2> QED
    BY <2>1 DEF Work
<1>6. Files(a)'
  BY <1>4 DEF Work, Files
<1> QED
  BY <1>1, <1>2, <1>3, <1>5, <1>6 DEF Work

LEMMA ReapproveKeeps ==
    ASSUME TurnInv, Filing, NEW d \in Drafts, Reapprove(d)
    PROVE  TurnInv'
<1>0. TypeOK
  BY DEF Filing
<1>1. UNCHANGED <<store, slot, turn, gate, pc, cur, snap, world, crashes, retries, rearmed>>
  BY DEF Reapprove
<1>2. Retirements'
  <2>1. file' = [file EXCEPT ![d] = [file[d] EXCEPT !.status = "approved"]] /\ file[d] \in File
    BY <1>0 DEF Reapprove, TypeOK
  <2>2. \A e \in Drafts : file'[e].status = "retired" => file'[e] = file[e]
    BY <1>0, <2>1 DEF TypeOK, File
  <2> QED
    BY <1>1, <2>2 DEF TurnInv, Retirements, world
<1>3. ASSUME NEW a \in Actors PROVE Work(a)'
  BY <1>1, WorkStays DEF TurnInv, store, world
<1> QED
  BY <1>1, <1>2, <1>3 DEF TurnInv, TurnHeld, OneAtWork, Resting, Envelopes, Copies, Accounted,
     Fresh, InState, Present, Recorded, Outstanding, NotDone, store, world

LEMMA CrashKeeps ==
    ASSUME TurnInv, Filing, Crash
    PROVE  TurnInv'
<1>1. ASSUME NEW a \in Actors
      PROVE  Resting(a)' /\ Work(a)' /\ pc'[a] \in {pc[a], "idle", "ended"}
             /\ (a \in Sends /\ pc'[a] = "idle" => pc[a] = "idle")
  <2>1. /\ pc'[a] = (IF a \in Resumers \/ pc[a] = "idle" THEN "idle" ELSE "ended")
        /\ cur'[a] = NoCur /\ snap'[a] = {} /\ gate' # a
    BY ActorsAssumption DEF Crash, Actors
  <2>2. Resting(a)'
    BY <2>1 DEF Resting
  <2> QED
    BY <2>1, <2>2, RestingWorks, ActorKinds
<1>2. \A s \in Sends : pc'[s] \in FreshLabels => pc[s] \in FreshLabels
  BY <1>1, ActorKinds DEF FreshLabels, Resting
<1>3. TurnHeld' /\ Envelopes' /\ Copies' /\ Accounted' /\ Retirements'
  BY <1>2, TableKeeps DEF Crash, store, world
<1> QED
  BY <1>1, <1>3 DEF TurnInv, OneAtWork

-----------------------------------------------------------------------------
LEMMA TurnStep ==
    ASSUME TurnInv, Filing, Filing', [Next]_vars
    PROVE  TurnInv'
<1>1. ASSUME NEW a \in Actors, Submit(a) PROVE TurnInv'
  BY <1>1, MarkKeeps, FailCleanKeeps, RecordKeeps, TransitionKeeps, IngestKeeps, CompleteKeeps,
     SpeakKeeps DEF Submit
<1>2. ASSUME NEW a \in Actors, Drain(a) PROVE TurnInv'
  BY <1>2, TakeGateKeeps, BeginAppendKeeps, SkipAppendKeeps, RecordAppendKeeps, EndPassKeeps,
     AppendKeeps DEF Drain
<1>3. ASSUME NEW s \in Sends, SendStep(s) PROVE TurnInv'
  BY <1>3, StartKeeps, ClaimKeeps, EnqueueKeeps, SettleDraftKeeps DEF SendStep, Filing
<1>4. ASSUME NEW w \in Resumers, ResumeStep(w) PROVE TurnInv'
  BY <1>4, SweepKeeps, ParkKeeps, SkipRowKeeps, ClaimRowKeeps, RetireRowKeeps, EndResubmitKeeps
     DEF ResumeStep
<1>5. ASSUME NEW w \in Resumers, Tick(w) PROVE TurnInv'
  BY <1>5, TickKeeps
<1>6. ASSUME NEW w \in Resumers, NEW i \in Ids, SyncRun(w) \/ Retry(w, i) PROVE TurnInv'
  BY <1>6 DEF SyncRun, Retry, TurnInv, TurnHeld
<1>7. ASSUME NEW w \in Resumers, SyncRun(w) PROVE TurnInv'
  BY <1>7 DEF SyncRun, TurnInv, TurnHeld
<1>8. CASE UNCHANGED vars
  <2>1. ASSUME NEW a \in Actors PROVE Work(a)'
    BY <1>8, WorkStays DEF TurnInv, vars
  <2> QED
    BY <1>8, <2>1 DEF TurnInv, TurnHeld, OneAtWork, Resting, Envelopes, Copies, Accounted,
       Retirements, Fresh, InState, Present, Recorded, Outstanding, NotDone, vars
<1> QED
  BY <1>1, <1>2, <1>3, <1>4, <1>5, <1>6, <1>7, <1>8, DiscardKeeps, ReapproveKeeps, CrashKeeps DEF Next

(* TurnInvariant: the steps of submit_durably, resume_outbox_at and the drain *)
(* keep the invariant, and so do a crash and the operator.                   *)
THEOREM TurnInvariant == TurnHeld /\ Spec => []TurnInv
<1>1. TurnHeld /\ Init => TurnInv
  <2> SUFFICES ASSUME TurnHeld, Init PROVE TurnInv
    OBVIOUS
  <2>1. ASSUME NEW a \in Actors PROVE Work(a) /\ Resting(a)
    BY <2>1, ActorsAssumption
       DEF Init, Work, Rests, Reads, Lists, Unspoken, Told, Submits, Files, Resting, Submitting,
           Finishing, Said, NoCur, Actors
  <2>2. Present = {}
    BY DEF Init, Present
  <2>3. Envelopes /\ Copies /\ Accounted /\ Retirements
    BY <2>2 DEF Init, Envelopes, Copies, Accounted, Retirements, NotDone, InState, Fresh
  <2> QED
    BY <2>1, <2>3 DEF TurnInv, OneAtWork
<1>2. TurnInv /\ Filing /\ Filing' /\ [Next]_vars => TurnInv'
  BY TurnStep
<1> QED
  BY <1>1, <1>2, FilingInvariant, PTL DEF Spec

-----------------------------------------------------------------------------
(* What follows of the copies, the bytes and the files.                      *)

(* OnceUnderTurn: every recipient gets a message at most once; DeliveredOnce *)
(* is lost with a drain beside the runtime.                                  *)
THEOREM OnceUnderTurn == TurnHeld /\ Spec => []DeliveredOnce
<1>1. TurnInv /\ TypeOK => DeliveredOnce
  BY DEF TurnInv, Copies, DeliveredOnce, TypeOK
<1> QED
  BY <1>1, TurnInvariant, Typing, PTL

(* RetiredUnderTurn: a draft file that was moved away was delivered to       *)
(* everybody (settle_sent_draft, retire_draft_of_row).                       *)
THEOREM RetiredUnderTurn == TurnHeld /\ Spec => []RetiredIsDelivered
<1>1. TurnInv => RetiredIsDelivered
  BY DEF TurnInv, Retirements, RetiredIsDelivered
<1> QED
  BY <1>1, TurnInvariant, PTL

(* AccountedUnderTurn: the raw bytes of a message carry the references of    *)
(* its row and of its local copy, no more and no less.                       *)
THEOREM AccountedUnderTurn == TurnHeld /\ Spec => []BlobsAccounted
<1>1. ASSUME Filing, NEW m \in Sends
      PROVE  OutboxRefs(m) = IF NotDone(m) THEN 1 ELSE 0
  <2> DEFINE S == {i \in Present : rows[i].msg = m /\ rows[i].state # "done"}
  <2>1. CASE NotDone(m)
    <3>1. PICK i \in Present : rows[i].msg = m /\ rows[i].state # "done"
      BY <2>1 DEF NotDone
    <3>2. S = {i}
      BY <1>1, <3>1 DEF Filing, OneRowPerMessage
    <3> QED
      BY <2>1, <3>2, FS_Singleton DEF OutboxRefs
  <2>2. CASE ~NotDone(m)
    <3>1. S = {}
      BY <2>2 DEF NotDone
    <3> QED
      BY <2>2, <3>1, FS_EmptySet DEF OutboxRefs
  <2> QED
    BY <2>1, <2>2
<1>2. TurnInv /\ Filing => BlobsAccounted
  BY <1>1 DEF TurnInv, Accounted, BlobsAccounted
<1> QED
  BY <1>2, TurnInvariant, FilingInvariant, PTL

(* SpokenUnderTurn: a recipient whose 250 is recorded gets no further copy.  *)
THEOREM SpokenUnderTurn == TurnHeld /\ Spec => NeverSpokenToTwice
<1> DEFINE Unspoke == \A i \in Present : \A r \in rows[i].delivered :
                          copies'[rows[i].msg][r] = copies[rows[i].msg][r]
<1>1. ASSUME TurnInv, Filing, [Next]_vars PROVE Unspoke
  <2>1. CASE copies' = copies
    BY <2>1
  <2>2. CASE copies' # copies
    <3>1. PICK a \in Actors, q \in Recipients, v \in Verdicts : Speak(a, q, v)
      <4>1. ASSUME NEW a \in Actors, Submit(a)
            PROVE  \E q \in Recipients, v \in Verdicts : Speak(a, q, v)
        <5>1. ~ (Mark(a) \/ FailClean(a) \/ Record(a) \/ Transition(a) \/ Ingest(a) \/ Complete(a))
          BY <2>2 DEF Mark, FailClean, Record, Transition, Ingest, Complete, world
        <5> QED
          BY <4>1, <5>1 DEF Submit
      <4>2. ASSUME NEW a \in Actors PROVE ~ Drain(a)
        BY <2>2 DEF Drain, TakeGate, BeginAppend, SkipAppend, RecordAppend, EndPass, AppendOnce, world
      <4>3. ASSUME NEW s \in Sends PROVE ~ SendStep(s)
        BY <2>2 DEF SendStep, StartSend, ClaimDraft, Enqueue, SettleDraft, world
      <4>4. ASSUME NEW w \in Resumers PROVE ~ (ResumeStep(w) \/ Tick(w) \/ SyncRun(w))
        <5>1. ~ (Sweep(w) \/ Park(w) \/ SkipRow(w) \/ ClaimRow(w))
          BY <2>2 DEF Sweep, Park, SkipRow, ClaimRow, world
        <5>2. ~ (RetireDraftOfRow(w) \/ EndResubmit(w) \/ Tick(w) \/ SyncRun(w))
          BY <2>2 DEF RetireDraftOfRow, EndResubmit, Tick, SyncRun, world
        <5> QED
          BY <5>1, <5>2 DEF ResumeStep
      <4>5. ~ (\/ \E w \in Resumers, i \in Ids : Retry(w, i)
               \/ \E i \in Ids : Discard(i)
               \/ \E d \in Drafts : Reapprove(d)
               \/ Crash)
        BY <2>2 DEF Retry, Discard, Reapprove, Crash, world
      <4>6. Next
        BY <1>1, <2>2 DEF vars
      <4> QED
        BY <4>1, <4>2, <4>3, <4>4, <4>5, <4>6 DEF Next
    <3>2. TypeOK
      BY <1>1 DEF Filing
    <3>3. pc[a] = "smtp" /\ q \in cur[a].todo /\ turn = a /\ Work(a)
      BY <1>1, <3>1, AtWork DEF Speak, Resting
    <3>4. gate # a
      BY <3>3 DEF Work, Lists, Draining, Finishing
    <3>5. WorksOn(a, "pending_send") /\ q \notin rows[cur[a].id].delivered
      BY <1>1, <3>2, <3>3, <3>4, NotYetReached DEF Work, Submits, Submitting
    <3>6. \A m \in Sends, r \in Recipients : m # cur[a].row.msg \/ r # q => copies'[m][r] = copies[m][r]
      BY <3>1, <3>2 DEF Speak, TypeOK
    <3>7. ASSUME NEW i \in Present, NEW r \in rows[i].delivered
          PROVE  copies'[rows[i].msg][r] = copies[rows[i].msg][r]
      <4>1. rows[i].msg \in Sends /\ r \in Recipients
        BY <3>2, <3>7, RowTyped DEF Row
      <4>2. rows[i].msg = cur[a].row.msg => i = cur[a].id
        BY <1>1, <3>2, <3>5, SubjectRow DEF Filing, OneRowPerMessage
      <4> QED
        BY <3>5, <3>6, <3>7, <4>1, <4>2
    <3> QED
      BY <3>7
  <2> QED
    BY <2>1, <2>2
<1>2. TurnInv /\ Filing /\ [Next]_vars => [Unspoke]_vars
  BY <1>1
<1> QED
  BY <1>2, TurnInvariant, FilingInvariant, PTL DEF Spec, NeverSpokenToTwice

-----------------------------------------------------------------------------
(* What the steps do to the row they work on.                                *)

(* A marker set, an attempt that never began, and a record of the verdicts   *)
(* leave it pending.                                                         *)
LEMMA PendingRow ==
    ASSUME TurnInv, Filing, NEW a \in Actors, Mark(a) \/ FailClean(a) \/ Record(a)
    PROVE  \E i \in Present, r \in Row :
              /\ rows' = [rows EXCEPT ![i] = r] /\ r.msg = rows[i].msg
              /\ rows[i].state = "pending_send" /\ r.state = "pending_send"
<1>0. TypeOK
  BY DEF Filing
<1>1. pc[a] \in {"mark", "smtp"} /\ turn = a /\ Work(a)
  BY AtWork DEF Mark, FailClean, Record, Resting
<1>2. WorksOn(a, "pending_send")
  BY <1>1 DEF Work, Lists, Submits, Submitting, Draining, Finishing
<1>3. PICK i \in Present : i = cur[a].id /\ rows[i] \in Row /\ rows[i].state = "pending_send"
  BY <1>0, <1>2, SubjectRow
<1>4. CASE Mark(a)
  <2>1. PICK r : r = [rows[i] EXCEPT !.marker = TRUE]
    OBVIOUS
  <2>2. r \in Row /\ r.msg = rows[i].msg /\ r.state = "pending_send"
    BY <1>3, <2>1 DEF Row
  <2>3. rows' = [rows EXCEPT ![i] = r]
    BY <1>3, <1>4, <2>1 DEF Mark, Marked, InState
  <2> QED
    BY <1>3, <2>2, <2>3
<1>5. CASE FailClean(a)
  <2>1. PICK r : r = [rows[i] EXCEPT !.attempts = @ + 1, !.marker = FALSE]
    OBVIOUS
  <2>2. r \in Row
    <3>1. rows[i].attempts + 1 \in Nat
      BY <1>0, RowTyped
    <3> QED
      BY <1>3, <2>1, <3>1, RowUpdates
  <2>3. r.msg = rows[i].msg /\ r.state = "pending_send"
    BY <1>3, <2>1 DEF Row
  <2>4. rows' = [rows EXCEPT ![i] = r]
    BY <1>3, <1>5, <2>1 DEF FailClean, InState
  <2> QED
    BY <1>3, <2>2, <2>3, <2>4
<1>6. CASE Record(a)
  <2>1. PICK r : r = Folded(rows[i], a)
    OBVIOUS
  <2>2. r \in Row /\ r.msg = rows[i].msg /\ r.state = "pending_send"
    BY <1>3, <2>1, FoldedShape
  <2>3. rows' = [rows EXCEPT ![i] = r]
    BY <1>3, <1>6, <2>1 DEF Record, InState
  <2> QED
    BY <1>3, <2>2, <2>3
<1> QED
  BY <1>4, <1>5, <1>6

(* The end of a pass: the row is kept, sent to somebody, or parked, with its *)
(* marker if anybody may have the message.                                   *)
LEMMA TransitionRow ==
    ASSUME TurnInv, Filing, NEW a \in Actors, Transition(a)
    PROVE  \/ rows' = rows
           \/ \E i \in Present, r \in Row :
                 /\ rows' = [rows EXCEPT ![i] = r] /\ r.msg = rows[i].msg
                 /\ rows[i].state = "pending_send"
                 /\ r.state \in {"pending_send", "sent_pending_append", "failed"}
                 /\ r.state = "sent_pending_append" =>
                       \E q \in Recipients : copies[r.msg][q] > 0
                 /\ r.state = "failed" =>
                       r.marker \/ \A q \in Recipients : ~(copies[r.msg][q] > 0)
<1>0. TypeOK
  BY DEF Filing
<1>1. pc[a] = "transition" /\ turn = a /\ Work(a)
  BY AtWork DEF Transition, Resting
<1>2. gate # a
  BY <1>1 DEF Work, Lists, Draining, Finishing
<1>3. WorksOn(a, "pending_send") /\ rows[cur[a].id] = cur[a].row
  BY <1>1, <1>2 DEF Work, Submits, Submitting
<1>4. PICK i \in Present : /\ i = cur[a].id /\ rows[i] \in Row
                           /\ rows[i] = cur[a].row /\ rows[i].state = "pending_send"
  BY <1>0, <1>3, SubjectRow
<1>5. PICK r : r = AfterPass(rows[i], rows[i], a)
  OBVIOUS
<1>6. /\ r \in Row /\ r.msg = rows[i].msg /\ r.delivered = rows[i].delivered
      /\ r.state \in {"failed", "sent_pending_append", "pending_send"}
      /\ r.state = "sent_pending_append" => rows[i].delivered # {}
      /\ r.state = "failed" =>
            \/ Said(a, "ambiguous") # {} /\ r.marker = rows[i].marker
            \/ Said(a, "ambiguous") = {} /\ rows[i].delivered = {}
  BY <1>4, <1>5, AfterPassShape
<1>7. rows' = rows \/ rows' = [rows EXCEPT ![i] = r]
  BY <1>4, <1>5, NoneAssumption DEF Transition, Updated
<1>8. r.state = "sent_pending_append" => \E q \in Recipients : copies[r.msg][q] > 0
  BY <1>4, <1>6 DEF TurnInv, Envelopes, Row
<1>9. r.state = "failed" => r.marker \/ \A q \in Recipients : ~(copies[r.msg][q] > 0)
  <2>1. Said(a, "ambiguous") # {} => rows[i].marker
    BY <1>1, <1>2, <1>4 DEF Work, Submits, Said
  <2>2. \A q \in Recipients : copies[r.msg][q] > 0 => q \in rows[i].delivered \cup Said(a, "ambiguous")
    BY <1>1, <1>2, <1>4, <1>6 DEF Work, Submits
  <2> QED
    BY <1>6, <2>1, <2>2
<1> QED
  BY <1>4, <1>6, <1>7, <1>8, <1>9

(* An append that begins changes nothing but the count of attempts.          *)
LEMMA BeginRow ==
    ASSUME TurnInv, Filing, NEW a \in Actors, BeginAppend(a)
    PROVE  \/ rows' = rows
           \/ \E i \in Present, r \in Row :
                 /\ rows' = [rows EXCEPT ![i] = r] /\ r.msg = rows[i].msg
                 /\ rows[i].state = "sent_pending_append" /\ r.state = "sent_pending_append"
<1>0. TypeOK
  BY DEF Filing
<1>1. PICK i : \/ rows' = rows
               \/ i \in InState({"sent_pending_append"}) /\ rows' = Attempted(i)
  BY DEF BeginAppend
<1>2. CASE i \in InState({"sent_pending_append"}) /\ rows' = Attempted(i)
  <2>1. PICK r : r = [rows[i] EXCEPT !.attempts = @ + 1]
    OBVIOUS
  <2>2. i \in Present /\ rows[i] \in Row /\ rows[i].attempts + 1 \in Nat /\ rows[i].state = "sent_pending_append"
    BY <1>0, <1>2, RowTyped DEF InState
  <2>3. r \in Row
    BY <2>1, <2>2, RowUpdates
  <2>4. r.msg = rows[i].msg /\ r.state = "sent_pending_append"
    BY <2>1, <2>2 DEF Row
  <2> QED
    BY <1>2, <2>1, <2>2, <2>3, <2>4 DEF Attempted
<1> QED
  BY <1>1, <1>2

=============================================================================

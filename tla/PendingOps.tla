----------------------------- MODULE PendingOps -----------------------------
(***************************************************************************)
(* The durable mutation queue of one account (src/pending_ops.rs): the      *)
(* commands that change a message locally and owe the server an op          *)
(* (src/daemon/methods/message.rs, src/mutations.rs), the drain that runs    *)
(* queued ops, the callers that settle their own op, and the rollback of an  *)
(* op refused for good.                                                      *)
(*                                                                          *)
(* A row of the messages table is named by its id, which SQLite hands out    *)
(* again once the row is deleted; a mail is the message itself.  One step is *)
(* one committed transaction, one read of the store, or one server answer.   *)
(***************************************************************************)
EXTENDS Naturals, FiniteSets

CONSTANTS
    Clients,     \* the commands clients send, each run at most once
    Rows,        \* the ids of the messages table
    Mails,       \* the messages
    Home,        \* the mail each row holds at first; the others arrive later
    Boxes,       \* the mailboxes
    Inbox,       \* the mailbox mail arrives in
    Kinds,       \* the kinds of command clients send
    Settles,     \* whether a client waits for the server's answer
    Ids,         \* the ids of the pending_ops table, 1..n
    MaxAttempts, \* how often the drain tries an op before it is refused for good
    MaxReplies,  \* bound on the replies whose \Answered mark is queued
    MaxCrashes,  \* bound on the crashes of the daemon
    Overlaps,    \* whether a row may change between a command's read and its commit
    None

Toggles  == {"set_read", "set_flagged"}
AllKinds == Toggles \cup {"move", "delete", "set_answered"}

(* Two rows never hold one mail: a mailbox's mail has one row, by its UID     *)
(* (UNIQUE (account, mailbox, uid), src/store/schema.rs:249).                *)
ASSUME HomeAssumption ==
    /\ Home \in [Rows -> Mails] /\ Inbox \in Boxes
    /\ \A t, u \in Rows : Home[t] = Home[u] => t = u
ASSUME KindsAssumption == Kinds \subseteq AllKinds \ {"set_answered"}
ASSUME OpIdsAssumption == Ids \subseteq Nat /\ None \notin Ids
ASSUME SwitchAssumption == Settles \subseteq BOOLEAN /\ Overlaps \in BOOLEAN
ASSUME LimitsAssumption == MaxAttempts \in Nat \ {0} /\ {MaxReplies, MaxCrashes} \subseteq Nat

VARIABLES
    rows,    \* the messages table
    ops,     \* the pending_ops table
    server,  \* where the server holds each mail, and its flags; None before it arrives
    pc,      \* where a command is
    cur,     \* what a command has in memory
    drain,   \* the drain pass: where it is and what it has in memory
    crashes, replies, \* counters of the bounds
    misled,  \* history: mails of an op that had landed and was refused for good
    heirs    \* history: mails that took the row of a mail with an op still owed

history == <<crashes, replies, misled, heirs>>
vars == <<rows, ops, server, pc, cur, drain, crashes, replies, misled, heirs>>

Flags == {"seen", "flagged", "answered"}

Message == [mail : Mails, box : Boxes, flags : SUBSET Flags]

(* An owed op: the folder it names on the server, and what undoes it (the   *)
(* row's mailbox and whole flag string before it).  "landed" is history.     *)
Op == [kind : AllKinds, row : Rows, mail : Mails, from : Boxes, to : Boxes, on : BOOLEAN,
       prev : Boxes, old : SUBSET Flags, state : {"queued", "settling", "failed"},
       attempts : Nat, landed : BOOLEAN]

(* A command in memory: what it asks of which row, the folder the row was   *)
(* in when it was read, its op, and what it last learnt of the older ops.    *)
Ask == [row : Rows, kind : Kinds, to : Boxes, on : BOOLEAN, settle : BOOLEAN, from : Boxes,
        id : Ids \cup {None}, ahead : {"none", "waiting", "refused"},
        answer : {"ok", "gone", "error"}]

(* None is none of the records it stands in for.                             *)
ASSUME NoneAssumption ==
    /\ None \notin Message \cup Op \cup Ask
    /\ None \notin [box : Boxes \cup {None}, flags : SUBSET Flags]

Idle == [at |-> "idle", list |-> {}, owed |-> [t \in Rows |-> None],
         id |-> None, op |-> None, answer |-> "ok"]

Goto(c, l) == pc' = [pc EXCEPT ![c] = l]

-----------------------------------------------------------------------------
(* The queue. *)

Present == {i \in Ids : ops[i] # None}

InState(S) == {i \in Present : ops[i].state \in S}

(* unsettled_ops. *)
Owed == InState({"queued", "settling"})

Oldest(S) == CHOOSE i \in S : \A j \in S : i <= j
Newest(S) == CHOOSE i \in S : \A j \in S : j <= i

(* The id SQLite gives an inserted row: one more than the largest in use. *)
IsNextId(i) ==
    /\ \A j \in Present : j < i
    /\ \A k \in Ids : k < i => \E j \in Present : k <= j

OrdersLaterOps(op) == op.kind # "delete"

(* older_owed: the ops committed before op i on its message. *)
OlderOwed(i) ==
    {j \in Owed : j < i /\ ops[j].row = ops[i].row /\ OrdersLaterOps(ops[j])}

(* later_on_message: the owed ops committed after op i on its row, up to    *)
(* and with the first delete.                                                *)
LaterOnMessage(i) ==
    LET later == {j \in Owed : j > i /\ ops[j].row = ops[i].row}
    IN  {j \in later : \A k \in later : k < j => OrdersLaterOps(ops[k])}

BitOf(kind) == IF kind = "set_read" THEN "seen" ELSE "flagged"

WithBit(flags, bit, on) == IF on THEN flags \cup {bit} ELSE flags \ {bit}

-----------------------------------------------------------------------------
(* The settle scopes open in this process, and the ops nobody settles. *)

LeakedScope == TRUE  \* a scope that outlives its caller
Live ==
    \E c \in Clients : cur[c] # None /\ cur[c].settle
                       /\ pc[c] \in {"commit", "poll", "own", "execute", "settle"}

(* recover_orphaned_settles. *)
Recovered ==
    IF Live THEN ops
    ELSE [i \in Ids |-> IF i \in InState({"settling"})
                        THEN [ops[i] EXCEPT !.state = "queued"] ELSE ops[i]]

-----------------------------------------------------------------------------
(* The server: one copy of each mail, found by the folder an op names.  A   *)
(* move or a delete whose folder holds no copy is NotFoundOnServer, a flag   *)
(* op passes it over, and an error says nothing of what was done.            *)

Found(op) == server[op.mail].box = op.from

Landed(op) ==
    LET s == server[op.mail] IN
    [server EXCEPT ![op.mail] =
        CASE op.kind = "move"         -> [s EXCEPT !.box = op.to]
          [] op.kind = "delete"       -> [s EXCEPT !.box = None]
          [] op.kind \in Toggles      -> [s EXCEPT !.flags = WithBit(@, BitOf(op.kind), op.on)]
          [] op.kind = "set_answered" -> [s EXCEPT !.flags = @ \cup {"answered"}]]

(* One run of op, under the id i: it lands and its answer may be lost, it   *)
(* is refused, or it finds nothing to act on.                                *)
Run(i, op, answer) ==
    \/ /\ Found(op) /\ answer \in {"ok", "error"}
       /\ server' = Landed(op)
       /\ ops' = IF i \in Present THEN [ops EXCEPT ![i].landed = TRUE] ELSE ops
    \/ /\ answer = "error"
       /\ UNCHANGED <<server, ops>>
    \/ /\ ~Found(op)
       /\ answer = IF op.kind \in {"move", "delete"} THEN "gone" ELSE "ok"
       /\ UNCHANGED <<server, ops>>

-----------------------------------------------------------------------------
(* refuse: the ops S, of which Oldest(S) was refused, are undone in one     *)
(* transaction, newest first.                                                *)

(* Only a move takes the later ops on its message with it. *)
RefusedWith(i) ==
    {i} \cup (IF ops[i].kind = "move" THEN LaterOnMessage(i) ELSE {})

WholeString(S, flags, T) == ops[Oldest(S)].old  \* the whole string put back
(* roll_flag_back: the bits of the toggles T alone, as they stood before     *)
(* the oldest of each.                                                       *)
FlagsBefore(S, flags, T) ==
    {f \in Flags :
        LET of == {i \in T : BitOf(ops[i].kind) = f} IN
        IF of # {} THEN f \in ops[Oldest(of)].old ELSE f \in flags}

TogglesIn(S) == {i \in S : ops[i].kind \in Toggles}

(* The owed toggle of f that a rollback of S leaves the bit to. *)
NextToggle(S, f) ==
    LET behind == {j \in LaterOnMessage(Newest(S)) \ S :
                      ops[j].kind \in Toggles /\ BitOf(ops[j].kind) = f}
    IN  IF behind = {} THEN None ELSE Oldest(behind)

RowUndone(S) ==
    LET i == Oldest(S)
        t == ops[i].row
        T == {j \in TogglesIn(S) : NextToggle(S, BitOf(ops[j].kind)) = None}
        row == rows[t]
    IN  IF row = None THEN rows
        ELSE [rows EXCEPT ![t] =
                [row EXCEPT !.box = IF ops[i].kind = "move" THEN ops[i].prev ELSE row.box,
                            !.flags = FlagsBefore(S, row.flags, T)]]

Forgotten(S, j) == ops[j].old  \* a later toggle keeps the value it was committed over
(* The rollback of a later toggle is pointed past the undone ones. *)
OldRewritten(S, j) ==
    LET of == {i \in TogglesIn(S) : NextToggle(S, BitOf(ops[i].kind)) = j} IN
    IF of = {} THEN ops[j].old
    ELSE LET f == BitOf(ops[j].kind)
         IN  WithBit(ops[j].old, f, f \in ops[Oldest(of)].old)

(* The later ops are parked unrun; the refused one is parked with its       *)
(* attempt counted, or discarded.                                            *)
OpsRefused(S, how) ==
    [j \in Ids |->
        CASE j \notin Present -> None
          [] j \in S /\ j # Oldest(S) -> [ops[j] EXCEPT !.state = "failed"]
          [] j \in S /\ j = Oldest(S) ->
                IF how = "discard" THEN None
                ELSE [ops[j] EXCEPT !.state = "failed", !.attempts = @ + 1]
          [] OTHER -> [ops[j] EXCEPT !.old = OldRewritten(S, j)]]

Refuse(i, how) ==
    \/ /\ i \in InState(IF how = "park" THEN {"queued"} ELSE {"queued", "settling"})
       /\ LET S == RefusedWith(i) IN
          /\ rows' = RowUndone(S)
          /\ ops' = OpsRefused(S, how)
       /\ misled' = IF ops[i].landed THEN misled \cup {ops[i].mail} ELSE misled
    \/ /\ how = "discard" /\ i \in InState({"failed"})
       /\ ops' = [ops EXCEPT ![i] = None]
       /\ UNCHANGED <<rows, misled>>
    \/ /\ i \notin InState(IF how = "park" THEN {"queued"} ELSE {"queued", "settling", "failed"})
       /\ UNCHANGED <<rows, ops, misled>>

(* retire: the row is deleted, whatever its state. *)
Retired(i) == [ops EXCEPT ![i] = None]

(* A run in which nothing comes between a command's read and its commit. *)
RowsFree == Overlaps \/ \A c \in Clients : pc[c] \notin {"recover", "commit"}

-----------------------------------------------------------------------------
Init ==
    /\ rows = [t \in Rows |-> [mail |-> Home[t], box |-> Inbox, flags |-> {}]]
    /\ ops = [i \in Ids |-> None]
    /\ server = [m \in Mails |-> IF \E t \in Rows : Home[t] = m
                                THEN [box |-> Inbox, flags |-> {}] ELSE None]
    /\ pc = [c \in Clients |-> "idle"]
    /\ cur = [c \in Clients |-> None]
    /\ drain = Idle
    /\ crashes = 0 /\ replies = 0
    /\ misled = {} /\ heirs = {}

-----------------------------------------------------------------------------
(* A command: message.move, message.delete, message.set_read,               *)
(* message.set_flag (mutate_with).                                           *)

(* address: the row is read, and with it the folder its op will name.       *)
Address(c, ask) ==
    /\ pc[c] = "idle"
    /\ RowsFree
    /\ rows[ask.row] # None
    /\ ask.from = rows[ask.row].box
    /\ IF ask.kind = "move" THEN ask.to # ask.from ELSE ask.to = ask.from
    /\ ask.kind \notin Toggles => ask.on
    /\ cur' = [cur EXCEPT ![c] = ask]
    /\ Goto(c, IF ask.settle THEN "recover" ELSE "commit")
    /\ UNCHANGED <<rows, ops, server, drain, history>>

(* The orphans go back to the drain, then the scope is opened. *)
Recover(c) ==
    /\ pc[c] = "recover"
    /\ ops' = Recovered
    /\ Goto(c, "commit")
    /\ UNCHANGED <<rows, server, cur, drain, history>>

(* The local half of an op. *)
Applied(row, ask) ==
    CASE ask.kind = "move"   -> [row EXCEPT !.box = ask.to]
      [] ask.kind = "delete" -> None
      [] OTHER -> [row EXCEPT !.flags = WithBit(@, BitOf(ask.kind), ask.on)]

OpOf(ask, row) ==
    [kind |-> ask.kind, row |-> ask.row, mail |-> row.mail, from |-> ask.from, to |-> ask.to,
     on |-> ask.on, prev |-> row.box, old |-> row.flags,
     state |-> IF ask.settle THEN "settling" ELSE "queued", attempts |-> 0, landed |-> FALSE]

(* apply_move, apply_delete, apply_set_read, apply_set_flagged: the local    *)
(* change and the owed op in one transaction.  A row that is gone by then    *)
(* is an error.                                                              *)
Commit(c) ==
    /\ pc[c] = "commit"
    /\ LET ask == cur[c] IN
       \/ /\ rows[ask.row] = None
          /\ Goto(c, "ended") /\ cur' = [cur EXCEPT ![c] = None]
          /\ UNCHANGED <<rows, ops>>
       \/ /\ rows[ask.row] # None
          /\ \E i \in Ids :
               /\ IsNextId(i)
               /\ ops' = [ops EXCEPT ![i] = OpOf(ask, rows[ask.row])]
               /\ rows' = [rows EXCEPT ![ask.row] = Applied(rows[ask.row], ask)]
               /\ IF ask.settle
                  THEN Goto(c, "poll") /\ cur' = [cur EXCEPT ![c] = [ask EXCEPT !.id = i]]
                  ELSE Goto(c, "ended") /\ cur' = [cur EXCEPT ![c] = None]
    /\ UNCHANGED <<server, drain, history>>

(* wait_for_older reads the older ops, ... *)
Poll(c) ==
    /\ pc[c] = "poll"
    /\ LET older == OlderOwed(cur[c].id) IN
       cur' = [cur EXCEPT ![c].ahead =
                  IF older = {} THEN "none"
                  ELSE IF \E j \in older : ops[j].attempts > 0 THEN "refused" ELSE "waiting"]
    /\ Goto(c, "own")
    /\ UNCHANGED <<rows, ops, server, drain, history>>

AnyState(i) == TRUE  \* a caller that does not read its own op again
StillSettling(i) == i \in InState({"settling"})

(* ... then its own op, which an older refusal may have parked. *)
Own(c) ==
    /\ pc[c] = "own"
    /\ LET i == cur[c].id IN
       \/ /\ StillSettling(i) /\ cur[c].ahead = "none"
          /\ Goto(c, "execute") /\ UNCHANGED cur
       \/ /\ StillSettling(i) /\ cur[c].ahead = "waiting"
          /\ Goto(c, "poll") /\ UNCHANGED cur
       \/ /\ ~StillSettling(i) \/ cur[c].ahead = "refused"
          /\ Goto(c, "settle") /\ cur' = [cur EXCEPT ![c].answer = "error"]
    /\ UNCHANGED <<rows, ops, server, drain, history>>

(* The patience, or the ceiling of the wait, is spent. *)
GiveUp(c) ==
    /\ pc[c] = "own"
    /\ StillSettling(cur[c].id) /\ cur[c].ahead = "waiting"
    /\ Goto(c, "settle") /\ cur' = [cur EXCEPT ![c].answer = "error"]
    /\ UNCHANGED <<rows, ops, server, drain, history>>

(* run_and_settle runs the op as it read it before the wait. *)
Execute(c, answer) ==
    /\ pc[c] = "execute"
    /\ Run(cur[c].id, ops[cur[c].id], answer)
    /\ cur' = [cur EXCEPT ![c].answer = answer]
    /\ Goto(c, "settle")
    /\ UNCHANGED <<rows, drain, history>>

(* settle: a delete whose message is gone is done; a move's went elsewhere. *)
Settle(c) ==
    /\ pc[c] = "settle"
    /\ LET done == \/ cur[c].answer = "ok"
                   \/ cur[c].answer = "gone" /\ cur[c].kind = "delete"
       IN IF done
          THEN ops' = Retired(cur[c].id) /\ UNCHANGED <<rows, misled>>
          ELSE RowsFree /\ Refuse(cur[c].id, "discard")
    /\ Goto(c, "ended") /\ cur' = [cur EXCEPT ![c] = None]
    /\ UNCHANGED <<server, drain, crashes, replies, heirs>>

-----------------------------------------------------------------------------
(* The drain, one pass at a time under the engine lock (resume_account,     *)
(* drain).                                                                   *)

(* owed_ops and the head of drain: the orphans are handed back, and a pass  *)
(* runs only when something is queued.                                       *)
StartDrain ==
    /\ drain.at = "idle"
    /\ ops' = Recovered
    /\ \E i \in Ids : ops'[i] # None /\ ops'[i].state = "queued"
    /\ drain' = [drain EXCEPT !.at = "list"]
    /\ UNCHANGED <<rows, server, pc, cur, history>>

ListQueued ==
    /\ drain.at = "list"
    /\ drain' = [drain EXCEPT !.at = "targets", !.list = InState({"queued"})]
    /\ UNCHANGED <<rows, ops, server, pc, cur, history>>

NobodySettles(t) == {}  \* a drain that holds nothing back for a caller
(* settling_targets: the ops callers are settling on row t. *)
Settling(t) == {i \in InState({"settling"}) : ops[i].row = t /\ OrdersLaterOps(ops[i])}

ReadTargets ==
    /\ drain.at = "targets"
    /\ drain' = [drain EXCEPT
                    !.at = "next",
                    !.owed = [t \in Rows |-> IF Settling(t) = {} THEN None
                                             ELSE Oldest(Settling(t))]]
    /\ UNCHANGED <<rows, ops, server, pc, cur, history>>

NextRow(i) == drain.at = "next" /\ drain.list # {} /\ i = Oldest(drain.list)

(* the two ids of the pair swapped *)
SwappedPair(i, op) == [drain.owed EXCEPT ![op.row] = op.row]
(* still_owed. *)
StillOwed(i, op) ==
    IF OrdersLaterOps(op) /\ (drain.owed[op.row] = None \/ i < drain.owed[op.row])
    THEN [drain.owed EXCEPT ![op.row] = i]
    ELSE drain.owed

Waits(i) == drain.owed[ops[i].row] # None /\ drain.owed[ops[i].row] < i

(* The row is read again: settled since, or behind an older op still owed. *)
SkipRow(i) ==
    /\ NextRow(i)
    /\ i \in InState({"queued"}) => Waits(i)
    /\ drain' = [drain EXCEPT !.list = @ \ {i}]
    /\ UNCHANGED <<rows, ops, server, pc, cur, history>>

(* A row whose backoff has not elapsed. *)
DeferRow(i) ==
    /\ NextRow(i)
    /\ i \in InState({"queued"}) /\ ~Waits(i)
    /\ ops[i].attempts > 0
    /\ drain' = [drain EXCEPT !.list = @ \ {i}, !.owed = StillOwed(i, ops[i])]
    /\ UNCHANGED <<rows, ops, server, pc, cur, history>>

TakeRow(i) ==
    /\ NextRow(i)
    /\ i \in InState({"queued"}) /\ ~Waits(i)
    /\ drain' = [drain EXCEPT !.at = "execute", !.list = @ \ {i}, !.id = i, !.op = ops[i]]
    /\ UNCHANGED <<rows, ops, server, pc, cur, history>>

DrainExecute(answer) ==
    /\ drain.at = "execute"
    /\ Run(drain.id, drain.op, answer)
    /\ drain' = [drain EXCEPT !.at = "settle", !.answer = answer]
    /\ UNCHANGED <<rows, pc, cur, history>>

(* A success or a converged replay retires the row; a failure is counted,   *)
(* and past the budget it is refused for good.                               *)
DrainSettle ==
    /\ drain.at = "settle"
    /\ LET i == drain.id
           op == drain.op
           next == [drain EXCEPT !.at = "next", !.id = None, !.op = None]
       IN \/ /\ drain.answer # "error"
             /\ ops' = Retired(i)
             /\ drain' = next
             /\ UNCHANGED <<rows, misled>>
          \/ /\ drain.answer = "error" /\ op.attempts + 1 >= MaxAttempts
             /\ RowsFree
             /\ Refuse(i, "park")
             /\ drain' = next
          \/ /\ drain.answer = "error" /\ op.attempts + 1 < MaxAttempts
             /\ ops' = IF i \in Present THEN [ops EXCEPT ![i].attempts = @ + 1] ELSE ops
             /\ drain' = [next EXCEPT !.owed = StillOwed(i, op)]
             /\ UNCHANGED <<rows, misled>>
    /\ UNCHANGED <<server, pc, cur, crashes, replies, heirs>>

EndDrain ==
    /\ drain.at = "next" /\ drain.list = {}
    /\ drain' = Idle
    /\ UNCHANGED <<rows, ops, server, pc, cur, history>>

-----------------------------------------------------------------------------
(* apply_post_send_flag: the \Answered mark of a reply, on the source's row, *)
(* and the op for the server; nothing undoes it.                             *)
Reply(t) ==
    /\ replies < MaxReplies /\ replies' = replies + 1
    /\ RowsFree
    /\ rows[t] # None
    /\ \E i \in Ids :
         /\ IsNextId(i)
         /\ ops' = [ops EXCEPT ![i] =
                       [kind |-> "set_answered", row |-> t, mail |-> rows[t].mail,
                        from |-> rows[t].box, to |-> rows[t].box, on |-> TRUE,
                        prev |-> rows[t].box, old |-> rows[t].flags,
                        state |-> "queued", attempts |-> 0, landed |-> FALSE]]
    /\ rows' = [rows EXCEPT ![t].flags = @ \cup {"answered"}]
    /\ UNCHANGED <<server, pc, cur, drain, crashes, misled, heirs>>

(* A sync ingests a new mail, and its row takes an id that is free.         *)
Arrive(t, m) ==
    /\ RowsFree
    /\ rows[t] = None
    /\ server[m] = None
    /\ rows' = [rows EXCEPT ![t] = [mail |-> m, box |-> Inbox, flags |-> {}]]
    /\ server' = [server EXCEPT ![m] = [box |-> Inbox, flags |-> {}]]
    /\ heirs' = IF \E i \in Owed : ops[i].row = t THEN heirs \cup {m} ELSE heirs
    /\ UNCHANGED <<ops, pc, cur, drain, crashes, replies, misled>>

(* The daemon dies: its commands, its scopes and its drain with it. *)
Crash ==
    /\ crashes < MaxCrashes /\ crashes' = crashes + 1
    /\ pc' = [c \in Clients |-> IF pc[c] = "idle" THEN "idle" ELSE "ended"]
    /\ cur' = [c \in Clients |-> None]
    /\ drain' = Idle
    /\ UNCHANGED <<rows, ops, server, replies, misled, heirs>>

-----------------------------------------------------------------------------
Answers == {"ok", "gone", "error"}

CommandStep(c) ==
    \/ Recover(c) \/ Commit(c) \/ Poll(c) \/ Own(c) \/ GiveUp(c) \/ Settle(c)
    \/ \E answer \in Answers : Execute(c, answer)

DrainRow == \E i \in Ids : SkipRow(i) \/ DeferRow(i) \/ TakeRow(i)

DrainStep ==
    \/ StartDrain \/ ListQueued \/ ReadTargets \/ DrainRow \/ DrainSettle \/ EndDrain
    \/ \E answer \in Answers : DrainExecute(answer)

Asks == {[row |-> t, kind |-> k, to |-> b, on |-> on, settle |-> s, from |-> a, id |-> None,
          ahead |-> "none", answer |-> "ok"] :
            t \in Rows, k \in Kinds, b \in Boxes, on \in BOOLEAN, s \in Settles, a \in Boxes}

Next ==
    \/ \E c \in Clients : CommandStep(c) \/ \E ask \in Asks : Address(c, ask)
    \/ DrainStep
    \/ \E t \in Rows : Reply(t) \/ \E m \in Mails : Arrive(t, m)
    \/ Crash

Spec == Init /\ [][Next]_vars

(* A command that was addressed runs on, and its wait for older ops ends;   *)
(* the account is drained again and again while something is queued, and a   *)
(* backoff is at most BACKOFF_MAX_SECS, so a deferred row is due in the end. *)
Fairness ==
    /\ \A c \in Clients : WF_vars(CommandStep(c))
    /\ SF_vars(\E c \in Clients : GiveUp(c))
    /\ WF_vars(DrainStep)
    /\ SF_vars(\E i \in Ids : TakeRow(i))

FairSpec == Spec /\ Fairness

-----------------------------------------------------------------------------
(* TypeOK: the type invariant. *)
TypeOK ==
    /\ rows \in [Rows -> Message \cup {None}]
    /\ ops \in [Ids -> Op \cup {None}]
    /\ server \in [Mails -> [box : Boxes \cup {None}, flags : SUBSET Flags] \cup {None}]
    /\ pc \in [Clients -> {"idle", "recover", "commit", "poll", "own", "execute", "settle",
                           "ended"}]
    /\ cur \in [Clients -> Ask \cup {None}]
    /\ drain \in [at : {"idle", "list", "targets", "next", "execute", "settle"},
                  list : SUBSET Ids, owed : [Rows -> Ids \cup {None}],
                  id : Ids \cup {None}, op : Op \cup {None}, answer : Answers]
    /\ crashes \in Nat /\ replies \in Nat
    /\ misled \subseteq Mails /\ heirs \subseteq Mails

Quiet(m) == \A i \in Owed : ops[i].mail # m

SameAsServer(t) ==
    /\ rows[t].box = server[rows[t].mail].box
    /\ rows[t].flags \ {"answered"} = server[rows[t].mail].flags \ {"answered"}

(* Converged: a message nothing is owed for is shown as the server has it,  *)
(* whatever landed, was refused, was undone or was replayed on the way,      *)
(* unless an op that had landed was refused for good.  The mark of a reply   *)
(* is not the server's to take back.                                         *)
Converged ==
    \A t \in Rows :
        rows[t] # None /\ Quiet(rows[t].mail) /\ rows[t].mail \notin misled \cup heirs
            => SameAsServer(t)

Running(i) ==
    \/ drain.at = "execute" /\ drain.id = i
    \/ \E c \in Clients : pc[c] = "execute" /\ cur[c].id = i

(* RunsInOrder: the ops on one mail reach the server in the order they were *)
(* committed, whether the drain runs them or the callers that settle them:   *)
(* an op goes out only when none committed before it is still owed.          *)
RunsInOrder ==
    \A i \in Present : Running(i) => \A j \in Owed : j < i => ops[j].mail # ops[i].mail

(* ParkedUnrun: an op rolled back with an older one has not reached the     *)
(* server (refuse: "None of them has run").                                  *)
ParkedUnrun ==
    \A i \in InState({"failed"}) : ops[i].attempts < MaxAttempts => ~ops[i].landed

(* AnsweredKept: no rollback takes back the mark of a reply that was sent.  *)
AnsweredKept ==
    [][\A t \in Rows :
          /\ rows[t] # None /\ rows'[t] # None /\ rows[t].mail = rows'[t].mail
          /\ "answered" \in rows[t].flags
          => "answered" \in rows'[t].flags]_vars

(* OwedSettles: an owed op reaches the server or is refused for good.       *)
OwedSettles == \A i \in Ids : i \in Owed ~> i \notin Owed

=============================================================================

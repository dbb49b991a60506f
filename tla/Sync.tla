--------------------------------- MODULE Sync ---------------------------------
(***************************************************************************)
(* A sync pass over one IMAP account and what moves under it.  The pass      *)
(* (src/sync/engine.rs) opens a departures watch, reads what the store        *)
(* holds, lists and downloads every mailbox (src/imap_client/fetch.rs), then  *)
(* ingests mailbox by mailbox (src/ingest.rs) and prunes last.  Meanwhile the *)
(* user moves and deletes messages locally, the server halves of those ops    *)
(* run (src/imap_client/ops.rs), other clients move and delete, and the       *)
(* server renumbers a mailbox.                                                *)
(*                                                                          *)
(* A message is its Message-ID.  A row parked on the "-id" sentinel of a      *)
(* local move is written Unbound: it holds no server UID.  Flags, bodies,     *)
(* threads and the age guard of the prune are left out.                       *)
(***************************************************************************)
EXTENDS Naturals, Sequences, FiniteSetsExt, SequencesExt

CONSTANTS
    Targets,        \* the mailboxes a pass syncs, in target order
    Msgs,           \* the messages
    Limits,         \* the download limits passes run at
    Home,           \* the mailbox every message starts in
    MaxAttempts,    \* MAX_INGEST_ATTEMPTS
    Budgets,        \* what the environment may do in one behaviour (see Budget)
    StaleRollbacks, \* whether a move is refused after its mailbox was renumbered
    None, Failed

Boxes == ToSet(Targets)

Unbound == 0

ASSUME TargetsAssumption ==
    /\ Home \in Boxes /\ Targets \in Seq(Boxes)
    /\ \A i, j \in DOMAIN Targets : Targets[i] = Targets[j] => i = j
ASSUME LimitAssumption == Limits \subseteq Nat \ {0} /\ MaxAttempts \in Nat \ {0}
ASSUME SwitchAssumption == StaleRollbacks \in BOOLEAN
ASSUME MsgsAssumption == IsFiniteSet(Msgs)

VARIABLES
    server,   \* each mailbox on the server: its copies, UIDNEXT and UIDVALIDITY
    rows,     \* the messages table
    cursor,   \* the sync_cursors table
    attempts, \* the ingest_failures table
    ops,      \* the moves and deletes the server is owed, numbered as queued
    pass,     \* the running pass and what it has in memory
    budget,   \* what the environment may still do
    touched,  \* history: messages another client moved, or that a lost answer left twice
    excused,  \* history: messages first contact passed over or the store gave up on
    torn,     \* history: messages a pass may have listed in no mailbox (see NeverLost)
    hidden,   \* history: messages a short listing left out
    blurred   \* history: messages whose departure a pass cannot tell (see NoTwin)

noted == <<touched, excused, torn, hidden, blurred>>
vars == <<server, rows, cursor, attempts, ops, pass, budget, noted>>

Budget == [local : Nat, foreign : Nat, faults : Nat, resets : Nat]
ASSUME BudgetAssumption == Budgets \subseteq Budget

Copy == [uid : Nat \ {0}, msg : Msgs]
Row  == [id : Nat \ {0}, box : Boxes, uid : Nat, msg : Msgs]
(* A sync_cursors row, and the copy an op names. *)
Cursor == [validity : Nat, last : Nat, mark : Nat \cup {None}]
Name   == [uid : Nat \ {0}, validity : Nat \cup {None}, siblings : SUBSET Nat]

ASSUME NoneAssumption == None \notin Boxes \cup Nat \cup Cursor \cup Name /\ Failed # None

UidsOf(copies) == {c.uid : c \in copies}
RowsIn(b) == {r \in rows : r.box = b}
HasRow(S, m) == \E r \in S : r.msg = m
OnServer(m) == \E b \in Boxes : \E c \in server[b].copies : c.msg = m

(* SQLite's next rowid of a table. *)
NextId(table) == Max({0} \cup {r.id : r \in table}) + 1

Idle == [at |-> "idle", limit |-> 0, next |-> 0, watch |-> {},
         known |-> [b \in Boxes |-> None], got |-> [b \in Boxes |-> None],
         todo |-> {}, uids |-> {}, unmet |-> {}, gate |-> TRUE, prunes |-> {}]

Spend(what) == /\ budget[what] > 0
               /\ budget' = [budget EXCEPT ![what] = @ - 1]

-----------------------------------------------------------------------------
(* Local moves and deletes: the row changes and the op is queued in one       *)
(* transaction, journaled for the open watch.                                 *)

(* The copy an op acts on, when its row knew its UID, with its twins' UIDs.   *)
ServerCopy(r) ==
    IF r.uid = Unbound THEN None
    ELSE [uid |-> r.uid,
          validity |-> IF cursor[r.box] = None THEN None ELSE cursor[r.box].validity,
          siblings |-> {t.uid : t \in {t \in RowsIn(r.box) : t.msg = r.msg}} \ {r.uid, Unbound}]

Leaving(op) == [msg |-> op.msg, from |-> op.from, copy |-> op.copy]

Unrecorded(op) == pass  \* a departure no open watch hears of
Record(op) ==
    IF pass.at = "idle" THEN pass ELSE [pass EXCEPT !.watch = @ \cup {Leaving(op)}]

Owe(r, dest) ==
    LET op == [id |-> NextId(ops), row |-> r.id, msg |-> r.msg, from |-> r.box, to |-> dest,
               copy |-> ServerCopy(r), uid |-> r.uid]
    IN  /\ ops' = ops \cup {op}
        /\ pass' = Record(op)
        /\ blurred' = IF r.uid # Unbound /\ cursor[r.box] = None
                      THEN blurred \cup {r.msg} ELSE blurred

ApplyMove(r, dest) ==
    /\ Spend("local") /\ dest # r.box
    /\ rows' = (rows \ {r}) \cup {[r EXCEPT !.box = dest, !.uid = Unbound]}
    /\ Owe(r, dest)
    /\ torn' = IF r.uid = Unbound \/ r.msg \in touched \cup {o.msg : o \in ops}
               THEN torn \cup {r.msg} ELSE torn
    /\ UNCHANGED <<server, cursor, attempts, touched, excused, hidden>>

ApplyDelete(r) ==
    /\ Spend("local")
    /\ rows' = rows \ {r}
    /\ Owe(r, None)
    /\ torn' = IF r.msg \in touched THEN torn \cup {r.msg} ELSE torn
    /\ UNCHANGED <<server, cursor, attempts, touched, excused, hidden>>

-----------------------------------------------------------------------------
(* The server half of an op: the copy it acts on, and what it does to it.     *)

Found(op) == {c.uid : c \in {c \in server[op.from].copies : c.msg = op.msg}}

SameValidity(op) ==
    /\ op.copy # None
    /\ op.copy.validity \in {None, server[op.from].validity}

(* resolve_copy: at most one UID, none when the copy is gone or missed.       *)
Resolve(op) ==
    IF SameValidity(op)
    THEN IF op.copy.uid \in Found(op) THEN {op.copy.uid}
         ELSE IF Cardinality(Found(op)) = 1 THEN Found(op) \ op.copy.siblings ELSE {}
    ELSE IF Found(op) = {} THEN {} ELSE {Max(Found(op))}

(* A miss that is a replay of an op that landed converges as not found; with  *)
(* a copy no row stands for it is an error, which changes nothing.            *)
Converged(op) ==
    /\ Resolve(op) = {}
    /\ \/ Found(op) = {}
       \/ /\ SameValidity(op) /\ Found(op) \subseteq op.copy.siblings
          /\ op.to # None => \E c \in server[op.to].copies : c.msg = op.msg

WithCopy(s, m) == [s EXCEPT !.copies = @ \cup {[uid |-> s.next, msg |-> m]}, !.next = @ + 1]
Without(s, u)  == [s EXCEPT !.copies = {c \in @ : c.uid # u}]

Copied(op) ==
    IF op.to = None THEN server ELSE [server EXCEPT ![op.to] = WithCopy(@, op.msg)]

ExpungedFirst(op, u) == [server EXCEPT ![op.from] = Without(@, u)]  \* EXPUNGE, then COPY
(* COPY, then STORE and EXPUNGE: what a connection lost between them leaves.   *)
CutOff(op, u) == Copied(op)

Landed(op, u) == [Copied(op) EXCEPT ![op.from] = Without(@, u)]

(* The oldest owed op of a row runs first.                                    *)
Runnable(op) == \A o \in ops : o.row = op.row => op.id <= o.id

(* A pass has listed some mailboxes, and not all. *)
Midway == pass.at = "fetch" /\ \E b \in Boxes : pass.got[b] # None

RunOp(op) ==
    /\ Runnable(op)
    /\ \/ \E u \in Resolve(op) : server' = Landed(op, u)
       \/ Converged(op) /\ UNCHANGED server
    /\ ops' = ops \ {op}
    /\ torn' = IF Midway /\ op.msg \in touched THEN torn \cup {op.msg} ELSE torn
    /\ UNCHANGED <<rows, cursor, attempts, pass, budget, touched, excused, hidden, blurred>>

(* The connection is lost halfway: the op stays owed.                         *)
LoseAnswer(op) ==
    /\ Runnable(op) /\ op.to # None
    /\ \E u \in Resolve(op) : server' = CutOff(op, u)
    /\ Spend("faults")
    /\ touched' = touched \cup {op.msg}
    /\ UNCHANGED <<rows, cursor, attempts, ops, pass, excused, torn, hidden, blurred>>

(* A move refused for good is rolled back, with the later ops of its row:     *)
(* the row goes back on its old UID, or goes when another row is there.       *)
Restored(op) ==
    LET taken == \E h \in RowsIn(op.from) : h.uid = op.uid /\ h.uid # Unbound /\ h.id # op.row
        back  == [r \in rows |-> [r EXCEPT !.box = op.from, !.uid = op.uid]]
    IN  {r \in rows : r.id # op.row}
            \cup (IF taken THEN {} ELSE {back[r] : r \in {r \in rows : r.id = op.row}})

Refuse(op) ==
    /\ Runnable(op) /\ Spend("faults")
    /\ op.to # None
    /\ IF StaleRollbacks THEN TRUE ELSE op.copy = None \/ SameValidity(op)
    /\ rows' = Restored(op)
    /\ ops' = {o \in ops : o.row # op.row}
    /\ blurred' = blurred \cup {r.msg : r \in {r \in rows : r.id = op.row /\ r.msg # op.msg}}
                          \cup {o.msg : o \in {o \in ops : o.row = op.row /\ o.msg # op.msg}}
    /\ UNCHANGED <<server, cursor, attempts, pass, touched, excused, torn, hidden>>

-----------------------------------------------------------------------------
(* Other clients, and the server itself.                                      *)

OtherMoves(b, c, dest) ==
    /\ Spend("foreign") /\ dest # b
    /\ server' = [server EXCEPT ![b] = Without(@, c.uid), ![dest] = WithCopy(@, c.msg)]
    /\ touched' = touched \cup {c.msg}
    /\ torn' = IF Midway THEN torn \cup {c.msg} ELSE torn
    /\ UNCHANGED <<rows, cursor, attempts, ops, pass, excused, hidden, blurred>>

OtherDeletes(b, c) ==
    /\ Spend("foreign")
    /\ server' = [server EXCEPT ![b] = Without(@, c.uid)]
    /\ UNCHANGED <<rows, cursor, attempts, ops, pass, noted>>

(* The server renumbers a mailbox under a new UIDVALIDITY.                    *)
Renumber(b) ==
    LET s == server[b]
        n == Cardinality(s.copies)
    IN  /\ Spend("resets") /\ n > 0
        /\ \E f \in [s.copies -> 1..n] :
              /\ \A c, d \in s.copies : f[c] = f[d] => c = d
              /\ server' = [server EXCEPT ![b] =
                    [copies |-> {[c EXCEPT !.uid = f[c]] : c \in s.copies},
                     next |-> n + 1, validity |-> s.validity + 1]]
        /\ UNCHANGED <<rows, cursor, attempts, ops, pass, noted>>

-----------------------------------------------------------------------------
(* Phase 1: the watch joins the journal, then reads the owed ops; the skip    *)
(* list of every target is read after it.                                     *)

Open ==
    /\ pass.at = "idle"
    /\ \E n \in Limits : pass' = [Idle EXCEPT !.at = "open", !.limit = n]
    /\ UNCHANGED <<server, rows, cursor, attempts, ops, budget, noted>>

KnownUids(b) == {r.uid : r \in RowsIn(b)} \ {Unbound}

ReadStore ==
    /\ pass.at = "open"
    /\ pass' = [pass EXCEPT
          !.at = "fetch",
          !.watch = @ \cup {Leaving(op) : op \in ops},
          !.known = [b \in Boxes |-> [uids |-> KnownUids(b), cursor |-> cursor[b]]]]
    /\ UNCHANGED <<server, rows, cursor, attempts, ops, budget, noted>>

-----------------------------------------------------------------------------
(* Phase 2: every target is listed and its new messages downloaded, in any    *)
(* order (fetch_new_raw_on_session).                                          *)

HighWater(uids, ceiling) == Max({0} \cup {u \in uids : u <= ceiling})

(* arrival_mark: the line above which every listed UID must be stored.        *)
ArrivalMark(uids, ceiling, carried, prior) ==
    LET floor == Max({HighWater(uids, ceiling),
                      IF prior = None THEN 0 ELSE Min({prior, ceiling})})
    IN  IF carried # None THEN Min({carried, floor})
        ELSE IF prior = None /\ floor = 0 THEN None
        ELSE floor

Newest(S, n) == {u \in S : Cardinality({v \in S : v > u}) < n}

(* What a pass learnt of mailbox b, having listed "listed" (the whole mailbox *)
(* or not) and downloaded the newest k of the new messages of its window.     *)
Fetched(b, listed, k) ==
    LET s        == server[b]
        stored   == pass.known[b]
        c        == stored.cursor
        ceiling  == s.next - 1
        complete == Cardinality(listed) >= Cardinality(s.copies)
        reset    == c # None /\ c.validity # s.validity
        uids     == IF reset THEN {} ELSE stored.uids
        history  == c # None /\ ~reset
        mark     == ArrivalMark(uids, ceiling, IF history THEN c.mark ELSE None,
                                IF history THEN c.last ELSE None)
        wanted   == Newest(listed, pass.limit) \ uids
        got      == Newest(wanted, k)
        missing  == {u \in listed \ (uids \cup got) : mark = None \/ u > mark}
    IN  [listed |-> listed, complete |-> complete, reset |-> reset, validity |-> s.validity,
         top |-> ceiling,
         msgs |-> {x \in s.copies : x.uid \in got},
         vanished |-> IF complete THEN {u \in uids : u <= ceiling} \ listed ELSE {},
         short |-> missing # {} \/ got # wanted,
         mark |-> IF missing = {} THEN None ELSE mark,
         \* history: what first contact passes over, to be brought in by a full pass
         backlog |-> IF mark = None THEN {x.msg : x \in {x \in s.copies : x.uid \in missing}}
                     ELSE {}]

Answered(b, g) ==
    /\ pass' = [pass EXCEPT !.got[b] = g]
    /\ excused' = IF g = Failed THEN excused ELSE excused \cup g.backlog
    /\ blurred' = IF g = Failed \/ g.complete THEN blurred
                  ELSE blurred \cup {c.msg : c \in g.msgs}
    /\ UNCHANGED <<server, rows, cursor, attempts, ops, touched, torn>>

Fetch(b) ==
    /\ pass.at = "fetch" /\ pass.got[b] = None
    /\ LET all == UidsOf(server[b].copies) IN
       \/ Answered(b, Fetched(b, all, Cardinality(all))) /\ UNCHANGED <<budget, hidden>>
       \* the body pass stops at its deadline, after its first chunk at the earliest
       \/ /\ \E k \in 1..(Cardinality(all) - 1) :
                LET g == Fetched(b, all, k) IN
                g # Fetched(b, all, Cardinality(all)) /\ Answered(b, g)
          /\ Spend("faults") /\ UNCHANGED hidden
       \* UID SEARCH answers with fewer UIDs than EXISTS announced
       \/ /\ \E c \in server[b].copies :
                /\ Answered(b, Fetched(b, all \ {c.uid}, Cardinality(all)))
                /\ hidden' = hidden \cup {c.msg}
          /\ Spend("faults")
       \/ Answered(b, Failed) /\ Spend("faults") /\ UNCHANGED hidden

AllFetched ==
    /\ pass.at = "fetch" /\ \A b \in Boxes : pass.got[b] # None
    /\ pass' = [pass EXCEPT !.at = "target", !.next = 1]
    /\ UNCHANGED <<server, rows, cursor, attempts, ops, budget, noted>>

-----------------------------------------------------------------------------
(* Phase 3: ingest, in target order.                                          *)

(* The pass is told to stop, before the fetch or before a mailbox.            *)
Stop ==
    /\ pass.at = "target" \/ pass = [pass EXCEPT !.at = "fetch", !.got = Idle.got]
    /\ Spend("faults")
    /\ pass' = Idle
    /\ UNCHANGED <<server, rows, cursor, attempts, ops, noted>>

Here == Targets[pass.next]
Got == pass.got[Here]

(* A target that did not sync at all suspends the prune.                      *)
SkipTarget ==
    /\ pass.at = "target" /\ pass.next <= Len(Targets) /\ Got = Failed
    /\ pass' = [pass EXCEPT !.next = @ + 1, !.gate = FALSE]
    /\ UNCHANGED <<server, rows, cursor, attempts, ops, budget, noted>>

StartTarget ==
    /\ pass.at = "target" /\ pass.next <= Len(Targets) /\ Got # Failed
    /\ pass' = [pass EXCEPT !.at = "ingest", !.todo = Got.msgs, !.unmet = {},
                            !.uids = IF Got.reset \/ ~Got.complete THEN {} ELSE Got.listed]
    /\ attempts' = IF Got.reset THEN [attempts EXCEPT ![Here] = <<>>] ELSE attempts
    /\ UNCHANGED <<server, rows, cursor, ops, budget, noted>>

(* Whether an op naming "copy" may be what took the copy listed on uid.       *)
Departs(copy, uid) ==
    \/ copy = None
    \/ copy # None /\ copy.uid = uid
    \/ copy # None /\ copy.validity # None /\ copy.validity # Got.validity
    \/ /\ copy # None /\ ~Got.reset /\ Got.complete
       /\ ({copy.uid} \cup copy.siblings) \cap Got.listed = {}

Departed(c) ==
    \E l \in pass.watch : l.msg = c.msg /\ l.from = Here /\ Departs(l.copy, c.uid)

(* The row on the UID, when it is this message's; a row of another message is *)
(* parked; else a row of the message the server cannot be holding elsewhere.  *)
Own(c) == {r \in RowsIn(Here) : r.uid = c.uid /\ r.msg = c.msg}

Squatting(c) == rows  \* the other message's row keeps the UID
Parked(c) ==
    {IF r.box = Here /\ r.uid = c.uid /\ r.msg # c.msg
     THEN [r EXCEPT !.uid = Unbound] ELSE r : r \in rows}

Rebindable(c) ==
    {r \in Parked(c) : r.box = Here /\ r.msg = c.msg /\ r.uid \notin pass.uids}

Preferred(S) ==
    CHOOSE r \in S : \A t \in S :
        \/ r.uid = Unbound /\ t.uid # Unbound
        \/ (r.uid = Unbound <=> t.uid = Unbound) /\ r.id <= t.id

Cleared(u) == [attempts EXCEPT ![Here] = [v \in DOMAIN @ \ {u} |-> @[v]]]

Written(c, S) ==
    /\ rows' = S
    /\ attempts' = Cleared(c.uid)
    /\ pass' = [pass EXCEPT !.todo = @ \ {c}, !.uids = @ \cup {c.uid}]

IngestInTx(c) ==
    \/ Own(c) # {} /\ Written(c, rows)
    \/ /\ Own(c) = {} /\ Rebindable(c) # {}
       /\ LET r == Preferred(Rebindable(c)) IN
          Written(c, (Parked(c) \ {r}) \cup {[r EXCEPT !.uid = c.uid]})
    \/ /\ Own(c) = {} /\ Rebindable(c) = {} /\ ~Departed(c)
       /\ Written(c, Parked(c) \cup {[id |-> NextId(rows), box |-> Here, uid |-> c.uid, msg |-> c.msg]})
    \* a departed copy is withheld: nothing is written and nothing is owed
    \/ /\ Own(c) = {} /\ Rebindable(c) = {} /\ Departed(c)
       /\ pass' = [pass EXCEPT !.todo = @ \ {c}]
       /\ UNCHANGED <<rows, attempts>>

Lowest(S) == CHOOSE c \in S : \A d \in S : c.uid <= d.uid

Ingest ==
    /\ pass.at = "ingest" /\ pass.todo # {}
    /\ IngestInTx(Lowest(pass.todo))
    /\ UNCHANGED <<server, cursor, ops, budget, noted>>

Tries(u) == IF u \in DOMAIN attempts[Here] THEN attempts[Here][u] ELSE 0

(* note_ingest_failure: the message is still owed until the last attempt.     *)
FailIngest ==
    /\ pass.at = "ingest" /\ pass.todo # {}
    /\ Spend("faults")
    /\ LET c == Lowest(pass.todo)
           n == Tries(c.uid) + 1
       IN  /\ attempts' = [attempts EXCEPT ![Here] =
                  [u \in DOMAIN @ \cup {c.uid} |-> IF u = c.uid THEN n ELSE @[u]]]
           /\ pass' = [pass EXCEPT !.todo = @ \ {c},
                          !.unmet = IF n < MaxAttempts THEN @ \cup {c.uid} ELSE @]
           /\ excused' = IF n < MaxAttempts THEN excused ELSE excused \cup {c.msg}
    /\ UNCHANGED <<server, rows, cursor, ops, touched, torn, hidden, blurred>>

MarkAtUnmet(pending, unmet) ==  \* the mark on the lowest unwritten UID, not below it
    IF unmet = {} THEN pending
    ELSE IF pending = None THEN Min(unmet) ELSE Min({pending, Min(unmet)})
(* mark_below_unmet: the next pass owes what this one failed to write.        *)
MarkBelowUnmet(pending, unmet) ==
    IF unmet = {} THEN pending
    ELSE LET owed == Min(unmet) - 1 IN IF pending = None THEN owed ELSE Min({pending, owed})

(* unbind_rows_on_uids: after a reset, the listed UIDs this pass did not      *)
(* verify are taken off the rows that sit on them.                            *)
UnboundRows ==
    {IF Got.reset /\ r.box = Here /\ r.uid \in Got.listed \ pass.uids
     THEN [r EXCEPT !.uid = Unbound] ELSE r : r \in rows}

(* What it leaves bound: rows on UIDs of the old numbering nobody lists.      *)
LeftBound == {r \in RowsIn(Here) : Got.reset /\ r.uid \notin {Unbound} \cup pass.uids \cup Got.listed}

FinishTarget ==
    /\ pass.at = "ingest" /\ pass.todo = {}
    /\ rows' = UnboundRows
    /\ blurred' = blurred \cup {r.msg : r \in LeftBound}
    /\ cursor' = [cursor EXCEPT ![Here] =
          [validity |-> Got.validity,
           last |-> IF Got.msgs = {} THEN Got.top ELSE Max(UidsOf(Got.msgs)),
           mark |-> MarkBelowUnmet(Got.mark, pass.unmet)]]
    /\ pass' = [pass EXCEPT
          !.at = "target", !.next = @ + 1, !.uids = {}, !.unmet = {},
          !.gate = @ /\ Got.complete /\ pass.unmet = {} /\ ~Got.short,
          !.prunes = @ \cup {<<Here, u>> : u \in Got.vanished}]
    /\ UNCHANGED <<server, attempts, ops, budget, touched, excused, torn, hidden>>

(* Phase 4: the prunes, once every target is ingested, if the gate is open.   *)
Unpruned(S) == S  \* what vanished is never deleted
Pruned(S) == {r \in S : <<r.box, r.uid>> \notin pass.prunes}

Prune ==
    /\ pass.at = "target" /\ pass.next > Len(Targets)
    /\ rows' = IF pass.gate THEN Pruned(rows) ELSE rows
    /\ pass' = Idle
    /\ UNCHANGED <<server, cursor, attempts, ops, budget, noted>>

-----------------------------------------------------------------------------
(* The store is in step with the server at first; the mailboxes no message   *)
(* lives in have been synced, or never were.  The messages are alike, so it   *)
(* does not matter which of them has which UID.                               *)
Numbered ==
    CHOOSE f \in [Msgs -> 1..Cardinality(Msgs)] : \A m, k \in Msgs : f[m] = f[k] => m = k

Init ==
    LET n == Cardinality(Msgs)
        at(b) == IF b = Home THEN {[uid |-> Numbered[m], msg |-> m] : m \in Msgs} ELSE {}
        top(b) == IF b = Home THEN n ELSE 0
    IN  /\ server = [b \in Boxes |-> [copies |-> at(b), next |-> top(b) + 1, validity |-> 0]]
        /\ rows = {[id |-> c.uid, box |-> Home, uid |-> c.uid, msg |-> c.msg] : c \in at(Home)}
        /\ \E synced \in {Boxes, {Home}} :
              cursor = [b \in Boxes |-> IF b \in synced
                                        THEN [validity |-> 0, last |-> top(b), mark |-> None]
                                        ELSE None]
        /\ attempts = [b \in Boxes |-> <<>>]
        /\ ops = {}
        /\ pass = Idle
        /\ budget \in Budgets
        /\ touched = {} /\ excused = {} /\ torn = {} /\ hidden = {} /\ blurred = {}

User == \E r \in rows : ApplyDelete(r) \/ \E b \in Boxes : ApplyMove(r, b)

Drain == \E op \in ops : RunOp(op)

DrainFaults == \E op \in ops : LoseAnswer(op) \/ Refuse(op)

Others ==
    \E b \in Boxes :
        \/ Renumber(b)
        \/ \E c \in server[b].copies : OtherDeletes(b, c) \/ \E d \in Boxes : OtherMoves(b, c, d)

PassStep ==
    \/ ReadStore \/ AllFetched \/ SkipTarget \/ StartTarget \/ Ingest \/ FinishTarget \/ Prune
    \/ \E b \in Boxes : Fetch(b)

Next == User \/ Drain \/ DrainFaults \/ Others \/ Open \/ Stop \/ FailIngest \/ PassStep

Spec == Init /\ [][Next]_vars

(* Passes run to their end, a pass over every UID is started again and again, *)
(* and an owed op that can run is run.                                         *)
FullPass == Open /\ pass'.limit = Max(Limits)

FairSpec == Spec /\ WF_vars(PassStep) /\ WF_vars(Drain) /\ SF_vars(FullPass)

-----------------------------------------------------------------------------
TypeOK ==
    /\ \A b \in Boxes :
          /\ server[b].copies \subseteq Copy /\ server[b].next \in Nat
          /\ \A c, d \in server[b].copies : c.uid = d.uid => c = d
          /\ \A c \in server[b].copies : c.uid < server[b].next
          /\ cursor[b] # None =>
                /\ cursor[b].validity <= server[b].validity
                /\ cursor[b].mark # None => cursor[b].mark <= cursor[b].last
          /\ \A u \in DOMAIN attempts[b] : attempts[b][u] \in Nat \ {0}
    /\ rows \subseteq Row
    /\ \A r, t \in rows : r.id = t.id \/ (r.box = t.box /\ r.uid = t.uid /\ r.uid # Unbound) => r = t
    /\ \A o, p \in ops : o.id = p.id => o = p
    /\ pass.at \in {"idle", "open", "fetch", "target", "ingest"}
    /\ budget \in Budget

(* A message no other client moved has at most one row, whatever the order    *)
(* of local moves, their server halves, and a pass's listing and ingest: a    *)
(* listing older than a departure never brings the departed message back      *)
(* (sync/departures.rs).  Blurred are the messages whose departure the watch   *)
(* cannot tell: a short listing brought them, which leaves the op's UID as     *)
(* the only one that departs; a reset left their row on a UID of the old       *)
(* numbering; their op names a UID and no UIDVALIDITY; or the refusal of an    *)
(* op on a row id SQLite gave out again moved their row.                       *)
NoTwin ==
    \A m \in Msgs \ (touched \cup blurred) : Cardinality({r \in rows : r.msg = m}) <= 1

(* A delete of m is owed. *)
Deleted(m) == \E op \in ops : op.to = None /\ op.msg = m

(* The server loses a message only to a delete the user asked for or to       *)
(* another client: a move keeps a copy wherever its connection breaks.        *)
MoveKeepsACopy ==
    [][\A m \in Msgs :
          OnServer(m) /\ ~OnServer(m)'
          => Deleted(m) \/ budget'.foreign < budget.foreign]_vars

LosesItsRow(m) == HasRow(rows, m) /\ ~HasRow(rows', m) /\ OnServer(m)

(* m wears a UID the store believes is another message's: no pass asks for it. *)
Blocked(m) ==
    \E b \in Boxes : \E c \in server[b].copies, r \in RowsIn(b) :
        c.msg = m /\ r.uid = c.uid /\ r.msg # m

(* A message the server holds in a synced mailbox keeps a row until the user  *)
(* deletes it: a prune never takes a message's last row while its copy is     *)
(* still to be ingested, for the mark of an earlier pass keeps the gate shut   *)
(* (sync/engine.rs, arrival_mark, pass_may_prune).                            *)
(* Excused are the backlog first contact passes over, the messages the store  *)
(* gave up on, those a short listing left out, and those a pass may list in    *)
(* no mailbox: moved by another client between two of its listings, or moved  *)
(* by the user while an earlier move of theirs was owed, had not bound its     *)
(* row, or had left two copies, one of which may have been deleted or moved    *)
(* since; and those whose UID another's row holds. With larger budgets than    *)
(* the run's there are further ways to be listed in no mailbox for a pass, so  *)
(* this is checked and no theorem (README, sections 5 and 11).                 *)
NeverLost ==
    [][\A m \in Msgs : LosesItsRow(m) => Deleted(m)' \/ Blocked(m) \/ m \in excused \cup torn \cup hidden]_vars

(* Once nobody changes anything, full passes bring a row to every copy and    *)
(* take every row off a UID the server issued and does not list.              *)
InStep ==
    \A b \in Boxes :
        /\ \A c \in server[b].copies :
              \/ \E r \in RowsIn(b) : r.uid = c.uid /\ r.msg = c.msg
              \/ c.uid \in DOMAIN attempts[b]
        /\ {u \in KnownUids(b) : u < server[b].next} \subseteq UidsOf(server[b].copies)

Converges == <>[]InStep
=============================================================================

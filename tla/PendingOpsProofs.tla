--------------------------- MODULE PendingOpsProofs ---------------------------
(***************************************************************************)
(* What holds of the queue of mutations for any number of commands, rows,   *)
(* mails, ops and crashes: the types, that the ops on a mail go out in the  *)
(* order they were committed whoever runs them, that an op parked with an   *)
(* older one never reached the server, that no rollback takes back the mark *)
(* of a reply, and that a message nothing is owed for is shown as the       *)
(* server has it.                                                           *)
(***************************************************************************)
EXTENDS PendingOps, WellFoundedInduction, TLAPS

(* The steps of a command that has an op of its own to settle.               *)
Settlings == {"poll", "own", "execute", "settle"}
Owns(c, i) == pc[c] \in Settlings /\ cur[c].id = i

-----------------------------------------------------------------------------
(* The invariant.                                                            *)

(* A mail has one row in its life: an op on it names that row, and none      *)
(* follows the op that deletes it.                                           *)
RowsApart ==
    \A t, u \in Rows :
        rows[t] # None /\ rows[u] # None /\ rows[t].mail = rows[u].mail => t = u
Arrived ==
    \A m \in Mails : server[m] = None =>
        /\ \A t \in Rows : rows[t] # None => rows[t].mail # m
        /\ \A i \in Present : ops[i].mail # m
OneRow ==
    \A i \in Present, t \in Rows :
        rows[t] # None /\ rows[t].mail = ops[i].mail =>
            t = ops[i].row /\ ops[i].kind # "delete"
SameRow ==
    \A i, j \in Present :
        j < i /\ ops[j].mail = ops[i].mail =>
            ops[j].row = ops[i].row /\ ops[j].kind # "delete"

(* A command settles an op of its own, which nobody else takes away.         *)
Commands ==
    \A c \in Clients :
        /\ pc[c] \in {"idle", "ended"} <=> cur[c] = None
        /\ pc[c] \in {"recover", "commit"} => cur[c].id = None
        /\ pc[c] \in Settlings =>
              /\ cur[c].settle
              /\ cur[c].id \in InState({"settling", "failed"})
OneOwner == \A c, d \in Clients, i \in Ids : Owns(c, i) /\ Owns(d, i) => c = d

(* An op left settling by a crash goes back to the queue before anybody      *)
(* drains or settles.                                                        *)
NoOrphans ==
    Live \/ drain.at # "idle" =>
        \A i \in InState({"settling"}) : \E c \in Clients : Owns(c, i)

(* A caller runs its op when nothing older is owed, and nobody parks it then. *)
CallersWait ==
    \A c \in Clients :
        /\ pc[c] = "execute" \/ (pc[c] = "own" /\ cur[c].ahead = "none") =>
              OlderOwed(cur[c].id) = {}
        /\ pc[c] = "execute" => cur[c].id \in InState({"settling"})

(* The ops a drain goes through stay in the table until it has, ...          *)
Listed ==
    /\ drain.at \in {"idle", "list"} => drain.list = {}
    /\ drain.list \subseteq InState({"queued", "failed"})
    /\ \A i \in drain.list, c \in Clients : ~Owns(c, i)

(* ... an older one still owed is before it, or marked, ...                  *)
Marked(i, j) ==
    \/ j \in drain.list
    \/ drain.at = "targets" /\ j \in InState({"settling"})
    \/ /\ drain.at \in {"next", "execute", "settle"}
       /\ drain.owed[ops[i].row] # None /\ drain.owed[ops[i].row] <= j
    \/ drain.at \in {"execute", "settle"} /\ j = drain.id
DrainOrder == \A i \in drain.list : \A j \in OlderOwed(i) : Marked(i, j)

(* ... and the one it runs has nothing older owed.                           *)
DrainRuns ==
    drain.at \in {"execute", "settle"} =>
        /\ drain.id \in InState({"queued"}) /\ drain.id \notin drain.list
        /\ drain.op # None /\ drain.op.attempts = ops[drain.id].attempts
        /\ drain.op.row = ops[drain.id].row /\ drain.op.mail = ops[drain.id].mail
        /\ drain.op.kind = ops[drain.id].kind
        /\ OlderOwed(drain.id) = {}
        /\ \A c \in Clients : ~Owns(c, drain.id)

(* An op that may have reached the server was run when nothing older was     *)
(* owed.                                                                     *)
LandedInOrder == \A i \in Owed : ops[i].landed => OlderOwed(i) = {}

Queue ==
    /\ Commands /\ OneOwner /\ NoOrphans /\ CallersWait
    /\ Listed /\ DrainOrder /\ DrainRuns
    /\ LandedInOrder /\ ParkedUnrun
Identity == RowsApart /\ Arrived /\ OneRow /\ SameRow

Inv == TypeOK /\ Identity /\ Queue

-----------------------------------------------------------------------------
(* Ids, and what each of the queue's rewrites does to an op.                 *)

LEMMA Least ==
    ASSUME NEW S, S \subseteq Nat, S # {}
    PROVE  \E i \in S : \A j \in S : i <= j
<1>1. PICK i \in S : \A j \in S : <<j, i>> \notin OpToRel(<, Nat)
  BY NatLessThanWellFounded, WFMin
<1>2. \A j \in S : ~ (j < i)
  BY <1>1 DEF OpToRel
<1> QED
  BY <1>2

(* Oldest is the least of a set of ids.                                      *)
LEMMA OldestOf ==
    ASSUME NEW S, S \subseteq Ids, S # {}
    PROVE  Oldest(S) \in S /\ \A j \in S : Oldest(S) <= j
<1>1. \E i \in S : \A j \in S : i <= j
  BY OpIdsAssumption, Least
<1> QED
  BY <1>1 DEF Oldest

LEMMA OldestIs ==
    ASSUME NEW S, S \subseteq Ids, NEW i \in S, \A j \in S : i <= j
    PROVE  Oldest(S) = i
<1>1. Oldest(S) \in S /\ \A j \in S : Oldest(S) <= j
  BY OldestOf
<1>2. Oldest(S) \in Nat /\ i \in Nat
  BY <1>1, OpIdsAssumption
<1> QED
  BY <1>1, <1>2

LEMMA RefusedOldest ==
    ASSUME NEW i \in Ids
    PROVE  Oldest(RefusedWith(i)) = i
<1> DEFINE S == RefusedWith(i)
<1>1. S \subseteq Ids /\ i \in S
  BY DEF RefusedWith, LaterOnMessage, Owed, InState, Present
<1>2. \A j \in S : i <= j
  BY OpIdsAssumption DEF RefusedWith, LaterOnMessage, Owed, InState, Present
<1> HIDE DEF S
<1>3. Oldest(S) = i
  BY <1>1, <1>2, OldestIs
<1> QED
  BY <1>3 DEF S

(* An op that is the same op after a step.                                   *)
Stays(i) ==
    /\ ops[i] # None /\ ops'[i] # None
    /\ ops'[i].row = ops[i].row /\ ops'[i].mail = ops[i].mail /\ ops'[i].kind = ops[i].kind

(* An op or a row of the store with one of its fields rewritten.             *)
LEMMA OpParked ==
    ASSUME NEW op \in Op
    PROVE  LET new == [op EXCEPT !.state = "failed"] IN
           /\ new \in Op /\ new.row = op.row /\ new.mail = op.mail /\ new.kind = op.kind
           /\ new.landed = op.landed /\ new.attempts = op.attempts /\ new.state = "failed"
BY DEF Op

LEMMA OpRefused ==
    ASSUME NEW op \in Op
    PROVE  LET new == [op EXCEPT !.state = "failed", !.attempts = @ + 1] IN
           /\ new \in Op /\ new.row = op.row /\ new.mail = op.mail /\ new.kind = op.kind
           /\ new.landed = op.landed /\ new.attempts = op.attempts + 1
           /\ new.state = "failed"
<1> DEFINE parked == [op EXCEPT !.state = "failed"]
           new == [parked EXCEPT !.attempts = @ + 1]
<1>1. parked \in Op /\ parked.attempts = op.attempts
  BY DEF Op
<1>2. new = [op EXCEPT !.state = "failed", !.attempts = @ + 1]
  BY DEF Op
<1>3. /\ parked.row = op.row /\ parked.mail = op.mail /\ parked.kind = op.kind
      /\ parked.landed = op.landed /\ parked.state = "failed" /\ parked.attempts \in Nat
  BY DEF Op
<1> HIDE DEF parked
<1>4. /\ new \in Op /\ new.row = parked.row /\ new.mail = parked.mail
      /\ new.kind = parked.kind /\ new.landed = parked.landed
      /\ new.attempts = parked.attempts + 1 /\ new.state = parked.state
  BY <1>1, <1>3 DEF Op
<1> QED
  BY <1>1, <1>2, <1>3, <1>4

LEMMA OpRewritten ==
    ASSUME NEW op \in Op, NEW flags \in SUBSET Flags
    PROVE  LET new == [op EXCEPT !.old = flags] IN
           /\ new \in Op /\ new.row = op.row /\ new.mail = op.mail /\ new.kind = op.kind
           /\ new.landed = op.landed /\ new.attempts = op.attempts /\ new.state = op.state
BY DEF Op

LEMMA RecoveredIs ==
    ASSUME TypeOK, ops' = Recovered
    PROVE  /\ ops' \in [Ids -> Op \cup {None}]
           /\ \A i \in Ids : ops'[i] = None <=> ops[i] = None
           /\ \A i \in Present :
                 /\ Stays(i) /\ ops'[i].landed = ops[i].landed
                 /\ ops'[i].attempts = ops[i].attempts
                 /\ ops'[i].state = IF ~Live /\ ops[i].state = "settling" THEN "queued"
                                    ELSE ops[i].state
BY NoneAssumption DEF TypeOK, Recovered, InState, Present, Op, Stays

LEMMA RefusedRows ==
    ASSUME TypeOK, NEW i \in Ids, ops[i] # None, rows' = RowUndone(RefusedWith(i))
    PROVE  /\ rows' \in [Rows -> Message \cup {None}]
           /\ \A t \in Rows : rows'[t] = None <=> rows[t] = None
           /\ \A t \in Rows : rows[t] # None =>
                 /\ rows'[t].mail = rows[t].mail
                 /\ "answered" \in rows[t].flags => "answered" \in rows'[t].flags
<1> DEFINE S == RefusedWith(i)
           T == {j \in TogglesIn(S) : NextToggle(S, BitOf(ops[j].kind)) = None}
           t == ops[i].row
<1>1. Oldest(S) = i
  BY RefusedOldest
<1>2. t \in Rows /\ ops[i].prev \in Boxes
  BY DEF TypeOK, Op
<1>3. CASE rows[t] = None
  BY <1>1, <1>3 DEF RowUndone, TypeOK
<1>4. CASE rows[t] # None
  <2>1. rows[t] \in Message
    BY <1>2, <1>4 DEF TypeOK
  <2>2. /\ FlagsBefore(S, rows[t].flags, T) \subseteq Flags
        /\ "answered" \in rows[t].flags => "answered" \in FlagsBefore(S, rows[t].flags, T)
    BY DEF FlagsBefore, Flags, BitOf
  <2>3. rows' = [rows EXCEPT ![t] =
                    [rows[t] EXCEPT
                        !.box = IF ops[i].kind = "move" THEN ops[i].prev ELSE rows[t].box,
                        !.flags = FlagsBefore(S, rows[t].flags, T)]]
    BY <1>1, <1>4 DEF RowUndone
  <2> HIDE DEF T, S
  <2>4. [rows[t] EXCEPT !.box = IF ops[i].kind = "move" THEN ops[i].prev ELSE rows[t].box,
                        !.flags = FlagsBefore(S, rows[t].flags, T)] \in Message
    BY <1>2, <2>1, <2>2 DEF Message
  <2>5. /\ rows'[t] \in Message /\ rows'[t].mail = rows[t].mail
        /\ rows'[t].flags = FlagsBefore(S, rows[t].flags, T)
    <3> DEFINE r == [rows[t] EXCEPT
                        !.box = IF ops[i].kind = "move" THEN ops[i].prev ELSE rows[t].box,
                        !.flags = FlagsBefore(S, rows[t].flags, T)]
    <3>1. rows'[t] = r
      BY <1>2, <2>3 DEF TypeOK
    <3>2. r.mail = rows[t].mail /\ r.flags = FlagsBefore(S, rows[t].flags, T)
      BY <2>1 DEF Message
    <3> QED
      BY <2>4, <3>1, <3>2
  <2>6. \A u \in Rows : u # t => rows'[u] = rows[u]
    BY <2>3 DEF TypeOK
  <2>7. rows' \in [Rows -> Message \cup {None}]
    BY <2>3, <2>5, <2>6 DEF TypeOK
  <2> QED
    BY <1>2, <1>4, <2>2, <2>5, <2>6, <2>7, NoneAssumption
<1> QED
  BY <1>3, <1>4

LEMMA RefusedOps ==
    ASSUME TypeOK, NEW i \in Ids, ops[i] # None, NEW how \in {"park", "discard"},
           ops' = OpsRefused(RefusedWith(i), how)
    PROVE  /\ ops' \in [Ids -> Op \cup {None}]
           /\ \A j \in Ids \ {i} : ops'[j] = None <=> ops[j] = None
           /\ \A j \in Present \ {i} :
                 /\ Stays(j) /\ ops'[j].landed = ops[j].landed
                 /\ ops'[j].attempts = ops[j].attempts
                 /\ \/ ops'[j].state = ops[j].state
                    \/ ops'[j].state = "failed" /\ ops[i].kind = "move" /\ j \in LaterOnMessage(i)
           /\ how = "discard" => ops'[i] = None
           /\ how = "park" =>
                 /\ Stays(i) /\ ops'[i].landed = ops[i].landed
                 /\ ops'[i].state = "failed" /\ ops'[i].attempts = ops[i].attempts + 1
<1> DEFINE S == RefusedWith(i)
<1>1. Oldest(S) = i /\ i \in S /\ S \subseteq Present
  BY RefusedOldest DEF RefusedWith, LaterOnMessage, Owed, InState, Present
<1>2. \A j \in Ids : ops[j] # None => OldRewritten(S, j) \subseteq Flags
  <2> SUFFICES ASSUME NEW j \in Ids, ops[j] # None
               PROVE  OldRewritten(S, j) \subseteq Flags
    OBVIOUS
  <2>1. ops[j].old \subseteq Flags
    BY DEF TypeOK, Op
  <2> QED
    BY <2>1 DEF OldRewritten, WithBit, BitOf, Flags
<1>3. \A j \in S : j # i => ops[i].kind = "move" /\ j \in LaterOnMessage(i)
  BY DEF RefusedWith
<1> HIDE DEF S
<1>4. \A j \in Ids :
          ops'[j] = CASE j \notin Present -> None
                      [] j \in S /\ j # i -> [ops[j] EXCEPT !.state = "failed"]
                      [] j \in S /\ j = i ->
                            IF how = "discard" THEN None
                            ELSE [ops[j] EXCEPT !.state = "failed", !.attempts = @ + 1]
                      [] OTHER -> [ops[j] EXCEPT !.old = OldRewritten(S, j)]
  BY <1>1 DEF OpsRefused, S
<1>5. /\ how = "discard" => ops'[i] = None
      /\ how = "park" => ops'[i] = [ops[i] EXCEPT !.state = "failed", !.attempts = @ + 1]
  BY <1>1, <1>4 DEF Present
<1>6. ASSUME NEW j \in Ids, j # i
      PROVE  /\ ops[j] = None => ops'[j] = None
             /\ ops[j] # None /\ j \in S => ops'[j] = [ops[j] EXCEPT !.state = "failed"]
             /\ ops[j] # None /\ j \notin S =>
                   ops'[j] = [ops[j] EXCEPT !.old = OldRewritten(S, j)]
  <2>1. CASE ops[j] = None
    BY <1>1, <1>4, <2>1 DEF Present
  <2>2. CASE ops[j] # None /\ j \in S
    BY <1>4, <1>6, <2>2 DEF Present
  <2>3. CASE ops[j] # None /\ j \notin S
    BY <1>4, <1>6, <2>3 DEF Present
  <2> QED
    BY <2>1, <2>2, <2>3
<1>7. how = "park" =>
          /\ ops'[i] \in Op /\ Stays(i) /\ ops'[i].landed = ops[i].landed
          /\ ops'[i].state = "failed" /\ ops'[i].attempts = ops[i].attempts + 1
  <2>1. ops[i] \in Op
    BY DEF TypeOK
  <2> QED
    <3> DEFINE new == [ops[i] EXCEPT !.state = "failed", !.attempts = @ + 1]
    <3>1. /\ new \in Op /\ new.row = ops[i].row /\ new.mail = ops[i].mail
          /\ new.kind = ops[i].kind /\ new.landed = ops[i].landed
          /\ new.attempts = ops[i].attempts + 1 /\ new.state = "failed"
      BY <2>1, OpRefused
    <3>2. how = "park" => ops'[i] = new
      BY <1>5
    <3> HIDE DEF new
    <3>3. new # None /\ ops[i] # None
      BY <1>1, <3>1, NoneAssumption DEF Present
    <3> QED
      BY <3>1, <3>2, <3>3 DEF Stays
<1>8. ASSUME NEW j \in Ids, j # i, ops[j] # None
      PROVE  /\ ops'[j] \in Op
             /\ Stays(j) /\ ops'[j].landed = ops[j].landed
             /\ ops'[j].attempts = ops[j].attempts
             /\ \/ ops'[j].state = ops[j].state
                \/ ops'[j].state = "failed" /\ ops[i].kind = "move" /\ j \in LaterOnMessage(i)
  <2>1. ops[j] \in Op
    BY <1>8 DEF TypeOK
  <2>2. CASE j \in S
    <3>1. ops'[j] = [ops[j] EXCEPT !.state = "failed"]
      BY <1>6, <1>8, <2>2
    <3>2. ops[i].kind = "move" /\ j \in LaterOnMessage(i)
      BY <1>3, <1>8, <2>2
    <3>3. ops'[j] # None
      BY <2>1, <3>1, OpParked, NoneAssumption
    <3> QED
      BY <1>8, <2>1, <3>1, <3>2, <3>3, OpParked DEF Stays
  <2>3. CASE j \notin S
    <3>1. ops'[j] = [ops[j] EXCEPT !.old = OldRewritten(S, j)]
      BY <1>6, <1>8, <2>3
    <3>2. OldRewritten(S, j) \in SUBSET Flags
      BY <1>2, <1>8
    <3>3. ops'[j] # None
      BY <2>1, <3>1, <3>2, OpRewritten, NoneAssumption
    <3> QED
      BY <1>8, <2>1, <3>1, <3>2, <3>3, OpRewritten DEF Stays
  <2> QED
    BY <2>2, <2>3
<1>9. \A j \in Ids : ops'[j] \in Op \cup {None}
  BY <1>5, <1>6, <1>7, <1>8
<1>10. ops' \in [Ids -> Op \cup {None}]
  BY <1>9 DEF OpsRefused
<1> QED
  BY <1>5, <1>6, <1>7, <1>8, <1>10 DEF Stays, Present

-----------------------------------------------------------------------------
(* Which mail a row and an op are of.                                        *)

LEMMA IdentityKept ==
    ASSUME Identity,
           \A i \in Ids : ops'[i] # None => Stays(i),
           \A t \in Rows : rows'[t] # None => rows[t] # None /\ rows'[t].mail = rows[t].mail,
           \A m \in Mails : server'[m] = None => server[m] = None
    PROVE  Identity'
<1>1. RowsApart'
  BY DEF Identity, RowsApart
<1>2. Arrived'
  BY DEF Identity, Arrived, Present, Stays
<1>3. OneRow'
  BY DEF Identity, OneRow, Present, Stays
<1>4. SameRow'
  BY DEF Identity, SameRow, Present, Stays
<1> QED
  BY <1>1, <1>2, <1>3, <1>4 DEF Identity

(* A new op is the latest, of the mail its row holds.                        *)
LEMMA IdentityAdds ==
    ASSUME TypeOK, Identity, NEW n \in Ids, IsNextId(n), NEW op \in Op,
           rows[op.row] # None, op.mail = rows[op.row].mail,
           op.kind = "delete" => rows'[op.row] = None,
           ops' = [ops EXCEPT ![n] = op], UNCHANGED server,
           \A t \in Rows : rows'[t] # None => rows[t] # None /\ rows'[t].mail = rows[t].mail
    PROVE  Identity'
<1>1. /\ ops'[n] = op
      /\ \A i \in Ids : i # n => ops'[i] = ops[i]
      /\ \A i \in Present : i < n
      /\ op.row \in Rows /\ op.mail \in Mails
  BY DEF TypeOK, IsNextId, Op
<1>2. RowsApart'
  BY DEF Identity, RowsApart
<1>3. Arrived'
  BY <1>1 DEF Identity, Arrived, Present
<1>4. OneRow'
  BY <1>1 DEF Identity, OneRow, RowsApart, Present
<1>5. ASSUME NEW i \in Ids, NEW j \in Ids, ops'[i] # None, ops'[j] # None, j < i,
             ops'[j].mail = ops'[i].mail
      PROVE  ops'[j].row = ops'[i].row /\ ops'[j].kind # "delete"
  <2>1. j # n
    BY <1>1, <1>5, OpIdsAssumption DEF Present
  <2>2. CASE i = n
    BY <1>1, <1>5, <2>1, <2>2 DEF Identity, OneRow, Present
  <2>3. CASE i # n
    BY <1>1, <1>5, <2>1, <2>3 DEF Identity, SameRow, Present
  <2> QED
    BY <2>2, <2>3
<1>6. SameRow'
  BY <1>5 DEF SameRow, Present
<1> QED
  BY <1>2, <1>3, <1>4, <1>6 DEF Identity

-----------------------------------------------------------------------------
(* What is owed before an op.                                                *)

(* No step puts an op in the place of another, hands a parked one back, or   *)
(* adds one that is not the latest.                                          *)
Proceeds ==
    \A i \in Ids : ops'[i] # None =>
        \/ Stays(i) /\ ops'[i].state \in {ops[i].state, "failed"}
        \/ ops[i] = None /\ \A j \in Present : j < i

LEMMA OlderShrinks ==
    ASSUME Proceeds, NEW i \in Ids, Stays(i)
    PROVE  OlderOwed(i)' \subseteq OlderOwed(i)
<1> SUFFICES ASSUME NEW j \in Ids, ops'[j] # None, ops'[j].state \in {"queued", "settling"},
                    j < i, ops'[j].row = ops'[i].row, ops'[j].kind # "delete"
             PROVE  j \in OlderOwed(i)
  BY DEF OlderOwed, Owed, InState, Present, OrdersLaterOps
<1>1. ops[i] # None /\ ops'[i].row = ops[i].row
  BY DEF Stays
<1>2. ~ (i < j)
  BY OpIdsAssumption
<1>3. Stays(j) /\ ops'[j].state \in {ops[j].state, "failed"}
  BY <1>1, <1>2 DEF Proceeds, Present
<1> QED
  BY <1>1, <1>3 DEF OlderOwed, Owed, InState, Present, OrdersLaterOps, Stays

LEMMA OlderSame ==
    ASSUME ops' = ops
    PROVE  /\ Proceeds /\ Present' = Present
           /\ \A i \in Ids : OlderOwed(i)' = OlderOwed(i)
           /\ \A i \in Present : Stays(i)
BY DEF Proceeds, Stays, OlderOwed, Owed, InState, Present, OrdersLaterOps

(* What landed landed with nothing older owed.                               *)
LEMMA LandedKept ==
    ASSUME LandedInOrder, Proceeds,
           \A i \in Ids : ops'[i] # None /\ ops'[i].landed =>
               ops[i] # None /\ ops[i].landed
    PROVE  LandedInOrder'
<1> SUFFICES ASSUME NEW i \in Ids, ops'[i] # None, ops'[i].landed,
                    ops'[i].state \in {"queued", "settling"}
             PROVE  OlderOwed(i)' = {}
  BY DEF LandedInOrder, Owed, InState, Present
<1>1. Stays(i) /\ ops'[i].state = ops[i].state /\ ops[i].landed
  BY DEF Proceeds
<1>2. OlderOwed(i) = {}
  BY <1>1 DEF LandedInOrder, Owed, InState, Present, Stays
<1> QED
  BY <1>1, <1>2, OlderShrinks

(* The drain, when it is not its turn.                                       *)
LEMMA DrainUnmoved ==
    ASSUME Queue, Proceeds, drain' = drain,
           \A i \in drain.list : ops'[i] # None,
           drain.at \in {"execute", "settle"} =>
               /\ ops'[drain.id] # None /\ ops'[drain.id].state = "queued"
               /\ ops'[drain.id].attempts = ops[drain.id].attempts,
           \A d \in Clients, i \in Ids : Owns(d, i)' => Owns(d, i) \/ ops[i] = None
    PROVE  Listed' /\ DrainOrder' /\ DrainRuns'
<1>1. \A i \in drain.list : i \in Ids /\ ops[i] # None /\ ops[i].state \in {"queued", "failed"}
  BY DEF Queue, Listed, InState, Present
<1>2. \A i \in drain.list : Stays(i) /\ ops'[i].state \in {ops[i].state, "failed"}
  BY <1>1 DEF Proceeds
<1>3. Listed'
  BY <1>1, <1>2 DEF Queue, Listed, InState, Present
<1>4. ASSUME NEW i \in drain.list, NEW j \in OlderOwed(i)'
      PROVE  Marked(i, j)'
  <2>1. j \in OlderOwed(i) /\ Marked(i, j)
    BY <1>1, <1>2, OlderShrinks DEF Queue, DrainOrder
  <2>2. j \in Ids /\ j < i /\ ops[j] # None /\ ops'[j] # None
        /\ ops'[j].state \in {"queued", "settling"}
    BY <2>1 DEF OlderOwed, Owed, InState, Present
  <2>3. ops'[j].state = ops[j].state
    BY <2>2 DEF Proceeds
  <2> QED
    BY <1>2, <2>1, <2>2, <2>3 DEF Marked, InState, Present, Stays
<1>5. DrainOrder'
  BY <1>4 DEF DrainOrder
<1>6. DrainRuns'
  <2> SUFFICES ASSUME drain.at \in {"execute", "settle"}
               PROVE  DrainRuns'
    BY DEF DrainRuns
  <2>1. drain.id \in Ids /\ ops[drain.id] # None /\ Stays(drain.id)
    BY DEF Queue, DrainRuns, InState, Present, Proceeds
  <2>2. OlderOwed(drain.id)' = {}
    BY <2>1, OlderShrinks DEF Queue, DrainRuns
  <2> QED
    BY <2>1, <2>2 DEF Queue, DrainRuns, InState, Present, Stays
<1> QED
  BY <1>3, <1>5, <1>6

(* The commands, when it is not their turn.                                  *)
LEMMA CommandsUnmoved ==
    ASSUME Queue, TypeOK, Proceeds, pc' = pc, cur' = cur,
           \A d \in Clients, i \in Ids : Owns(d, i) =>
               ops'[i] # None /\ (pc[d] = "execute" => ops'[i].state = ops[i].state)
    PROVE  Commands' /\ OneOwner' /\ CallersWait'
<1>1. OneOwner'
  BY DEF Queue, OneOwner, Owns
<1>2. ASSUME NEW d \in Clients, pc[d] \in Settlings
      PROVE  Stays(cur[d].id) /\ cur[d].id \in InState({"settling", "failed"})'
  <2>1. cur[d].id \in Ids /\ ops[cur[d].id] # None /\ ops'[cur[d].id] # None
        /\ ops[cur[d].id].state \in {"settling", "failed"}
    BY <1>2 DEF Queue, Commands, InState, Present, Owns
  <2> QED
    BY <2>1 DEF Proceeds, InState, Present
<1>3. Commands'
  BY <1>2 DEF Queue, Commands
<1>4. ASSUME NEW d \in Clients,
             pc[d] = "execute" \/ (pc[d] = "own" /\ cur[d].ahead = "none")
      PROVE  OlderOwed(cur[d].id)' = {}
  <2>1. Stays(cur[d].id) /\ cur[d].id \in Ids
    BY <1>2, <1>4 DEF Settlings, Queue, Commands, InState, Present
  <2> QED
    BY <1>4, <2>1, OlderShrinks DEF Queue, CallersWait
<1>5. ASSUME NEW d \in Clients, pc[d] = "execute"
      PROVE  cur[d].id \in InState({"settling"})'
  <2>1. cur[d].id \in Ids /\ Owns(d, cur[d].id) /\ ops[cur[d].id].state = "settling"
    BY <1>5 DEF Settlings, Queue, CallersWait, InState, Present, Owns
  <2> QED
    BY <1>5, <2>1 DEF InState, Present
<1>6. CallersWait'
  BY <1>4, <1>5 DEF CallersWait
<1> QED
  BY <1>1, <1>3, <1>6

(* Handing orphans back changes nothing while somebody drains or settles.    *)
LEMMA RecoverQuiet ==
    ASSUME TypeOK, Queue, ops' = Recovered, Live \/ drain.at # "idle"
    PROVE  ops' = ops
<1>1. CASE Live
  BY <1>1 DEF Recovered
<1>2. CASE ~Live
  <2>1. InState({"settling"}) = {}
    BY <1>2 DEF Queue, NoOrphans, Owns, Commands, Live, Settlings
  <2>2. Recovered = [i \in Ids |-> ops[i]]
    BY <1>2, <2>1 DEF Recovered
  <2> QED
    BY <2>2 DEF TypeOK
<1> QED
  BY <1>1, <1>2

-----------------------------------------------------------------------------
(* A command.                                                                *)

LEMMA AddressKeeps ==
    ASSUME Inv, NEW c \in Clients, NEW ask \in Asks, Address(c, ask)
    PROVE  Inv'
<1>1. /\ UNCHANGED <<rows, ops, server, drain>>
      /\ cur' = [cur EXCEPT ![c] = ask]
      /\ pc' = [pc EXCEPT ![c] = IF ask.settle THEN "recover" ELSE "commit"]
      /\ pc[c] = "idle"
  BY DEF Address, Goto
<1>2. ask \in Ask /\ ask.id = None /\ ask # None
  BY KindsAssumption, SwitchAssumption, NoneAssumption DEF Asks, Ask
<1>3. TypeOK'
  BY <1>1, <1>2 DEF Inv, TypeOK, Address, history
<1>4. /\ pc'[c] \in {"recover", "commit"} /\ cur'[c] = ask
      /\ pc'[c] = "commit" => ~ask.settle
      /\ \A d \in Clients : d # c => pc'[d] = pc[d] /\ cur'[d] = cur[d]
  BY <1>1, SwitchAssumption DEF Inv, TypeOK, Asks
<1>5. \A d \in Clients, i \in Ids : Owns(d, i)' <=> Owns(d, i)
  BY <1>1, <1>4 DEF Owns, Settlings
<1>6. Live' <=> Live
  BY <1>1, <1>2, <1>4 DEF Live
<1>7. Proceeds /\ \A i \in Ids : OlderOwed(i)' = OlderOwed(i)
  BY <1>1, OlderSame
<1>8. Identity'
  BY <1>1 DEF Inv, Identity, RowsApart, Arrived, OneRow, SameRow, Present
<1>9. Commands'
  BY <1>1, <1>2, <1>4 DEF Inv, Queue, Commands, Settlings, InState, Present
<1>10. OneOwner' /\ NoOrphans'
  BY <1>1, <1>5, <1>6 DEF Inv, Queue, OneOwner, NoOrphans, InState, Present
<1>11. CallersWait'
  <2>1. \A d \in Clients : pc'[d] \in {"execute", "own"} => d # c
    BY <1>4
  <2>2. \A d \in Clients : pc[d] \in Settlings => cur[d].id \in Ids
    BY DEF Inv, Queue, Commands, InState, Present
  <2> QED
    BY <1>1, <1>4, <1>7, <2>1, <2>2
       DEF Inv, Queue, CallersWait, Settlings, InState, Present
<1>12. Listed' /\ DrainOrder' /\ DrainRuns'
  BY <1>1, <1>5, <1>7, DrainUnmoved DEF Inv, Queue, Listed, DrainRuns, InState, Present
<1>13. LandedInOrder' /\ ParkedUnrun'
  BY <1>1, <1>7 DEF Inv, Queue, LandedInOrder, ParkedUnrun, Owed, InState, Present
<1> QED
  BY <1>3, <1>8, <1>9, <1>10, <1>11, <1>12, <1>13 DEF Inv, Queue

LEMMA RecoverKeeps ==
    ASSUME Inv, NEW c \in Clients, Recover(c)
    PROVE  Inv'
<1>1. /\ UNCHANGED <<rows, server, cur, drain>> /\ ops' = Recovered
      /\ pc' = [pc EXCEPT ![c] = "commit"]
      /\ pc[c] = "recover"
  BY DEF Recover, Goto
<1>2. /\ ops' \in [Ids -> Op \cup {None}]
      /\ \A i \in Ids : ops'[i] # None => Stays(i) /\ ops'[i].landed = ops[i].landed
      /\ \A i \in Ids : ops'[i] = None <=> ops[i] = None
      /\ \A i \in Present : ops'[i].attempts = ops[i].attempts
      /\ \A i \in Present :
            \/ ops'[i].state = ops[i].state
            \/ ~Live /\ ops[i].state = "settling" /\ ops'[i].state = "queued"
      /\ ~Live => \A i \in Present : ops'[i].state # "settling"
  BY <1>1, RecoveredIs DEF Inv, Present
<1>3. TypeOK'
  BY <1>1, <1>2 DEF Inv, TypeOK, Recover, history
<1>4. /\ pc'[c] = "commit"
      /\ \A d \in Clients : d # c => pc'[d] = pc[d]
  BY <1>1 DEF Inv, TypeOK
<1>5. \A d \in Clients, i \in Ids : Owns(d, i)' <=> Owns(d, i)
  BY <1>1, <1>4 DEF Owns, Settlings
<1>6. Identity'
  BY <1>1, <1>2, IdentityKept DEF Inv
<1>7. CASE Live \/ drain.at # "idle"
  <2>1. ops' = ops
    BY <1>1, <1>7, RecoverQuiet DEF Inv
  <2>2. Proceeds /\ \A i \in Ids : OlderOwed(i)' = OlderOwed(i)
    BY <2>1, OlderSame
  <2>3. Commands' /\ OneOwner' /\ CallersWait'
    BY <1>1, <1>4, <1>5, <2>1, <2>2
       DEF Inv, Queue, Commands, OneOwner, CallersWait, Settlings, InState, Present
  <2>4. NoOrphans'
    BY <1>5, <1>7, <2>1 DEF Inv, Queue, NoOrphans, InState, Present
  <2>5. Listed' /\ DrainOrder' /\ DrainRuns'
    BY <1>1, <1>5, <2>1, <2>2, DrainUnmoved DEF Inv, Queue, Listed, DrainRuns, InState, Present
  <2>6. LandedInOrder' /\ ParkedUnrun'
    BY <2>1, <2>2 DEF Inv, Queue, LandedInOrder, ParkedUnrun, Owed, InState, Present
  <2> QED
    BY <1>3, <1>6, <2>3, <2>4, <2>5, <2>6 DEF Inv, Queue
<1>8. CASE ~Live /\ drain.at = "idle"
  (* Nobody settles anything: every orphan is in the queue again.            *)
  <2>1. \A d \in Clients : pc[d] \notin Settlings
    BY <1>8 DEF Inv, Queue, Commands, Live, Settlings
  <2>2. \A d \in Clients : pc'[d] \notin Settlings
    BY <1>4, <2>1 DEF Settlings
  <2>3. Commands' /\ OneOwner' /\ CallersWait'
    BY <1>1, <1>4, <2>2 DEF Inv, Queue, Commands, OneOwner, CallersWait, Owns, Settlings
  <2>4. NoOrphans'
    BY <1>2, <1>8 DEF NoOrphans, InState, Present
  <2>5. Listed' /\ DrainOrder' /\ DrainRuns'
    BY <1>1, <1>8 DEF Inv, Queue, Listed, DrainOrder, DrainRuns
  <2>6. \A i \in Ids : OlderOwed(i)' \subseteq OlderOwed(i)
    BY <1>2 DEF OlderOwed, Owed, InState, Present, Stays, OrdersLaterOps
  <2>7. LandedInOrder' /\ ParkedUnrun'
    BY <1>2, <2>6 DEF Inv, Queue, LandedInOrder, ParkedUnrun, Owed, InState, Present, Stays
  <2> QED
    BY <1>3, <1>6, <2>3, <2>4, <2>5, <2>7 DEF Inv, Queue
<1> QED
  BY <1>7, <1>8

LEMMA CommitKeeps ==
    ASSUME Inv, NEW c \in Clients, Commit(c)
    PROVE  Inv'
<1> DEFINE ask == cur[c]
<1>1. /\ UNCHANGED <<server, drain>> /\ pc[c] = "commit"
      /\ ask \in Ask /\ ask.id = None /\ ask.row \in Rows
  BY DEF Inv, Queue, Commands, TypeOK, Commit, Ask
<1>2. CASE rows[ask.row] = None
  <2>1. /\ UNCHANGED <<rows, ops>> /\ pc' = [pc EXCEPT ![c] = "ended"]
        /\ cur' = [cur EXCEPT ![c] = None]
    BY <1>2 DEF Commit, Goto
  <2>2. TypeOK'
    BY <1>1, <2>1 DEF Inv, TypeOK, Commit, history
  <2>3. /\ pc'[c] = "ended" /\ cur'[c] = None
        /\ \A d \in Clients : d # c => pc'[d] = pc[d] /\ cur'[d] = cur[d]
    BY <2>1 DEF Inv, TypeOK
  <2>4. \A d \in Clients, i \in Ids : Owns(d, i)' <=> Owns(d, i)
    BY <1>1, <2>3 DEF Owns, Settlings
  <2>5. Live' => Live
    BY <2>3 DEF Live
  <2>6. Proceeds /\ \A i \in Ids : OlderOwed(i)' = OlderOwed(i)
    BY <2>1, OlderSame
  <2>7. Identity'
    BY <1>1, <2>1 DEF Inv, Identity, RowsApart, Arrived, OneRow, SameRow, Present
  <2>8. Commands' /\ OneOwner' /\ CallersWait'
    BY <2>1, <2>3, <2>4, <2>6
       DEF Inv, Queue, Commands, OneOwner, CallersWait, Settlings, InState, Present
  <2>9. NoOrphans'
    BY <1>1, <2>1, <2>4, <2>5 DEF Inv, Queue, NoOrphans, InState, Present
  <2>10. Listed' /\ DrainOrder' /\ DrainRuns'
    BY <1>1, <2>1, <2>4, <2>6, DrainUnmoved
       DEF Inv, Queue, Listed, DrainRuns, InState, Present
  <2>11. LandedInOrder' /\ ParkedUnrun'
    BY <2>1, <2>6 DEF Inv, Queue, LandedInOrder, ParkedUnrun, Owed, InState, Present
  <2> QED
    BY <2>2, <2>7, <2>8, <2>9, <2>10, <2>11 DEF Inv, Queue
<1>3. CASE rows[ask.row] # None
  <2> DEFINE op == OpOf(ask, rows[ask.row])
  <2>1. PICK n \in Ids :
            /\ IsNextId(n)
            /\ ops' = [ops EXCEPT ![n] = op]
            /\ rows' = [rows EXCEPT ![ask.row] = Applied(rows[ask.row], ask)]
            /\ IF ask.settle
               THEN Goto(c, "poll") /\ cur' = [cur EXCEPT ![c] = [ask EXCEPT !.id = n]]
               ELSE Goto(c, "ended") /\ cur' = [cur EXCEPT ![c] = None]
    BY <1>3 DEF Commit
  <2>2. /\ op \in Op /\ op.row = ask.row /\ op.mail = rows[ask.row].mail
        /\ op.kind = ask.kind /\ ~op.landed
        /\ op.state = IF ask.settle THEN "settling" ELSE "queued"
    BY <1>1, <1>3, KindsAssumption DEF Inv, TypeOK, OpOf, Op, Ask, Message
  <2>3. /\ Applied(rows[ask.row], ask) \in Message \cup {None}
        /\ ask.kind = "delete" => Applied(rows[ask.row], ask) = None
        /\ Applied(rows[ask.row], ask) # None =>
              Applied(rows[ask.row], ask).mail = rows[ask.row].mail
    <3>1. rows[ask.row] \in Message
      BY <1>1, <1>3 DEF Inv, TypeOK
    <3>2. ask.to \in Boxes /\ BitOf(ask.kind) \in Flags
      BY <1>1 DEF Ask, BitOf, Flags
    <3>3. WithBit(rows[ask.row].flags, BitOf(ask.kind), ask.on) \subseteq Flags
      BY <3>1, <3>2 DEF WithBit, Message
    <3>4. CASE ask.kind = "move"
      BY <3>1, <3>2, <3>4 DEF Applied, Message
    <3>5. CASE ask.kind = "delete"
      BY <3>5 DEF Applied
    <3>6. CASE ask.kind \notin {"move", "delete"}
      <4>1. Applied(rows[ask.row], ask) =
               [rows[ask.row] EXCEPT !.flags = WithBit(@, BitOf(ask.kind), ask.on)]
        BY <3>6 DEF Applied
      <4> QED
        BY <3>1, <3>3, <3>6, <4>1 DEF Message
    <3> QED
      BY <3>4, <3>5, <3>6
  <2>4. /\ op # None /\ ops'[n] = op /\ ops[n] = None
        /\ \A i \in Ids : i # n => ops'[i] = ops[i]
        /\ \A i \in Present : i < n
    <3>1. \A i \in Present : i < n
      BY <2>1 DEF IsNextId
    <3>2. n \notin Present
      BY <3>1, OpIdsAssumption
    <3> QED
      BY <2>1, <2>2, <3>1, <3>2, NoneAssumption DEF Inv, TypeOK, Present
  <2> HIDE DEF op
  <2>5. /\ pc'[c] = IF ask.settle THEN "poll" ELSE "ended"
        /\ ask.settle =>
              /\ cur'[c] \in Ask /\ cur'[c] # None /\ cur'[c].id = n /\ cur'[c].settle
        /\ ~ask.settle => cur'[c] = None
        /\ \A d \in Clients : d # c => pc'[d] = pc[d] /\ cur'[d] = cur[d]
    BY <1>1, <2>1, NoneAssumption DEF Inv, TypeOK, Goto, Ask
  <2>6. TypeOK'
    <3>1. rows' \in [Rows -> Message \cup {None}]
      BY <2>1, <2>3 DEF Inv, TypeOK
    <3>2. ops' \in [Ids -> Op \cup {None}]
      BY <2>1, <2>2 DEF Inv, TypeOK
    <3>3. pc' \in [Clients -> {"idle", "recover", "commit", "poll", "own", "execute",
                               "settle", "ended"}]
      BY <2>1 DEF Inv, TypeOK, Goto
    <3>4. cur' \in [Clients -> Ask \cup {None}]
      BY <2>1, <2>5 DEF Inv, TypeOK
    <3> QED
      BY <1>1, <3>1, <3>2, <3>3, <3>4 DEF Inv, TypeOK, Commit, history
  <2>7. \A t \in Rows : rows'[t] # None => rows[t] # None /\ rows'[t].mail = rows[t].mail
    BY <1>3, <2>1, <2>3 DEF Inv, TypeOK
  <2>8. Identity'
    <3>1. op.kind = "delete" => rows'[op.row] = None
      BY <1>1, <2>1, <2>2, <2>3 DEF Inv, TypeOK
    <3> QED
      BY <1>1, <1>3, <2>1, <2>2, <2>7, <3>1, IdentityAdds DEF Inv
  <2>9. Proceeds
    BY <2>4 DEF Proceeds, Stays
  <2>10. \A d \in Clients, i \in Ids :
            Owns(d, i)' <=> Owns(d, i) \/ (ask.settle /\ d = c /\ i = n)
    BY <1>1, <2>5 DEF Owns, Settlings
  <2>11. \A i \in Present : Stays(i) /\ ops'[i] = ops[i] /\ OlderOwed(i)' \subseteq OlderOwed(i)
    BY <2>4, <2>9, OlderShrinks DEF Present, Stays
  <2>12. \A d \in Clients, i \in Ids : Owns(d, i) => i \in Present /\ i # n
    BY <2>4 DEF Inv, Queue, Commands, Owns, InState, Present
  <2>13. Commands'
    BY <2>2, <2>4, <2>5, <2>11
       DEF Inv, Queue, Commands, Settlings, InState, Present
  <2>14. OneOwner'
    BY <2>10, <2>12 DEF Inv, Queue, OneOwner
  <2>15. NoOrphans'
    <3>1. Live' \/ drain'.at # "idle" => Live \/ drain.at # "idle"
      BY <1>1, <2>5, NoneAssumption DEF Live
    <3> QED
      BY <2>2, <2>4, <2>10, <3>1 DEF Inv, Queue, NoOrphans, InState, Present
  <2>16. CallersWait'
    BY <2>5, <2>11 DEF Inv, Queue, CallersWait, Commands, Settlings, InState, Present
  <2>17. Listed' /\ DrainOrder' /\ DrainRuns'
    BY <1>1, <2>4, <2>9, <2>10, <2>11, DrainUnmoved
       DEF Inv, Queue, Listed, DrainRuns, InState, Present
  <2>18. LandedInOrder'
    BY <2>2, <2>4, <2>9, LandedKept DEF Inv, Queue
  <2>19. ParkedUnrun'
    BY <2>2, <2>4 DEF Inv, Queue, ParkedUnrun, InState, Present
  <2> QED
    BY <2>6, <2>8, <2>13, <2>14, <2>15, <2>16, <2>17, <2>18, <2>19 DEF Inv, Queue
<1> QED
  BY <1>2, <1>3

(* A step of a command that leaves the queue as it is.                       *)
LEMMA WaitKeeps ==
    ASSUME Inv, NEW c \in Clients, UNCHANGED <<rows, ops, server, drain, history>>,
           pc[c] \in {"poll", "own"}, pc'[c] \in Settlings,
           pc' = [pc EXCEPT ![c] = pc'[c]],
           cur' = [cur EXCEPT ![c] = cur'[c]],
           cur'[c] \in Ask, cur'[c].id = cur[c].id, cur'[c].settle = cur[c].settle,
           pc'[c] = "execute" \/ (pc'[c] = "own" /\ cur'[c].ahead = "none") =>
               OlderOwed(cur[c].id) = {},
           pc'[c] = "execute" => cur[c].id \in InState({"settling"})
    PROVE  Inv'
<1>1. /\ cur'[c] # None
      /\ \A d \in Clients : d # c => pc'[d] = pc[d] /\ cur'[d] = cur[d]
  BY NoneAssumption DEF Inv, TypeOK
<1>2. TypeOK'
  BY DEF Inv, TypeOK, Settlings, history
<1>3. \A d \in Clients, i \in Ids : Owns(d, i)' <=> Owns(d, i)
  BY <1>1 DEF Owns, Settlings
<1>4. Live' <=> Live
  BY <1>1 DEF Inv, Queue, Commands, Live, Settlings
<1>5. Proceeds /\ \A i \in Ids : OlderOwed(i)' = OlderOwed(i)
  BY OlderSame
<1>6. Identity'
  BY DEF Inv, Identity, RowsApart, Arrived, OneRow, SameRow, Present
<1>7. Commands' /\ OneOwner'
  BY <1>1, <1>3 DEF Inv, Queue, Commands, OneOwner, Settlings, InState, Present
<1>8. CallersWait'
  BY <1>1, <1>5, <1>7 DEF Inv, Queue, CallersWait, Commands, Settlings, InState, Present
<1>9. NoOrphans'
  BY <1>3, <1>4 DEF Inv, Queue, NoOrphans, InState, Present
<1>10. Listed' /\ DrainOrder' /\ DrainRuns'
  BY <1>3, <1>5, DrainUnmoved DEF Inv, Queue, Listed, DrainRuns, InState, Present
<1>11. LandedInOrder' /\ ParkedUnrun'
  BY <1>5 DEF Inv, Queue, LandedInOrder, ParkedUnrun, Owed, InState, Present
<1> QED
  BY <1>2, <1>6, <1>7, <1>8, <1>9, <1>10, <1>11 DEF Inv, Queue

LEMMA PollKeeps ==
    ASSUME Inv, NEW c \in Clients, Poll(c)
    PROVE  Inv'
<1> DEFINE ahead == IF OlderOwed(cur[c].id) = {} THEN "none"
                    ELSE IF \E j \in OlderOwed(cur[c].id) : ops[j].attempts > 0
                         THEN "refused" ELSE "waiting"
<1>1. /\ pc[c] = "poll" /\ pc' = [pc EXCEPT ![c] = "own"]
      /\ cur' = [cur EXCEPT ![c].ahead = ahead]
      /\ UNCHANGED <<rows, ops, server, drain, history>>
  BY DEF Poll, Goto
<1>2. cur[c] \in Ask
  BY <1>1 DEF Inv, TypeOK, Queue, Commands
<1>3. /\ ahead \in {"none", "waiting", "refused"}
      /\ ahead = "none" => OlderOwed(cur[c].id) = {}
  OBVIOUS
<1> HIDE DEF ahead
<1>4. /\ cur'[c] = [cur[c] EXCEPT !.ahead = ahead] /\ pc'[c] = "own"
      /\ cur' = [cur EXCEPT ![c] = cur'[c]] /\ pc' = [pc EXCEPT ![c] = pc'[c]]
  BY <1>1 DEF Inv, TypeOK
<1>5. /\ cur'[c] \in Ask /\ cur'[c].id = cur[c].id /\ cur'[c].settle = cur[c].settle
      /\ cur'[c].ahead = ahead
  BY <1>2, <1>3, <1>4 DEF Ask
<1> QED
  BY <1>1, <1>3, <1>4, <1>5, WaitKeeps DEF Settlings

LEMMA OwnKeeps ==
    ASSUME Inv, NEW c \in Clients, Own(c)
    PROVE  Inv'
<1>1. /\ pc[c] = "own" /\ UNCHANGED <<rows, ops, server, drain, history>>
  BY DEF Own
<1>2. cur[c] \in Ask
  BY <1>1 DEF Inv, TypeOK, Queue, Commands
<1>3. cur = [cur EXCEPT ![c] = cur[c]]
  BY DEF Inv, TypeOK
<1>4. CASE StillSettling(cur[c].id) /\ cur[c].ahead = "none" /\ Goto(c, "execute") /\ cur' = cur
  <2>1. /\ pc'[c] = "execute" /\ pc' = [pc EXCEPT ![c] = pc'[c]]
        /\ OlderOwed(cur[c].id) = {} /\ cur[c].id \in InState({"settling"})
    BY <1>1, <1>4 DEF Goto, Inv, TypeOK, Queue, CallersWait, StillSettling
  <2> QED
    BY <1>1, <1>2, <1>3, <1>4, <2>1, WaitKeeps DEF Settlings
<1>5. CASE StillSettling(cur[c].id) /\ cur[c].ahead = "waiting" /\ Goto(c, "poll") /\ cur' = cur
  <2>1. pc'[c] = "poll" /\ pc' = [pc EXCEPT ![c] = pc'[c]]
    BY <1>5 DEF Goto, Inv, TypeOK
  <2> QED
    BY <1>1, <1>2, <1>3, <1>5, <2>1, WaitKeeps DEF Settlings
<1>6. CASE Goto(c, "settle") /\ cur' = [cur EXCEPT ![c].answer = "error"]
  <2>1. /\ pc'[c] = "settle" /\ pc' = [pc EXCEPT ![c] = pc'[c]]
        /\ cur'[c] = [cur[c] EXCEPT !.answer = "error"] /\ cur' = [cur EXCEPT ![c] = cur'[c]]
    BY <1>6 DEF Goto, Inv, TypeOK
  <2>2. cur'[c] \in Ask /\ cur'[c].id = cur[c].id /\ cur'[c].settle = cur[c].settle
    BY <1>2, <2>1 DEF Ask
  <2> QED
    BY <1>1, <2>1, <2>2, WaitKeeps DEF Settlings
<1> QED
  BY <1>4, <1>5, <1>6 DEF Own

LEMMA GiveUpKeeps ==
    ASSUME Inv, NEW c \in Clients, GiveUp(c)
    PROVE  Inv'
<1>1. /\ pc[c] = "own" /\ UNCHANGED <<rows, ops, server, drain, history>>
      /\ cur[c] \in Ask
  BY DEF GiveUp, Inv, TypeOK, Queue, Commands
<1>2. /\ pc'[c] = "settle" /\ pc' = [pc EXCEPT ![c] = pc'[c]]
      /\ cur'[c] = [cur[c] EXCEPT !.answer = "error"] /\ cur' = [cur EXCEPT ![c] = cur'[c]]
  BY DEF GiveUp, Goto, Inv, TypeOK
<1>3. cur'[c] \in Ask /\ cur'[c].id = cur[c].id /\ cur'[c].settle = cur[c].settle
  BY <1>1, <1>2 DEF Ask
<1> QED
  BY <1>1, <1>2, <1>3, WaitKeeps DEF Settlings

(* A run of an op: the server may have it done, and history records that.    *)
LEMMA RunIs ==
    ASSUME TypeOK, NEW i \in Ids, NEW op \in Op, NEW answer \in Answers, Run(i, op, answer),
           server[op.mail] # None
    PROVE  /\ ops' \in [Ids -> Op \cup {None}]
           /\ server' \in [Mails -> [box : Boxes \cup {None}, flags : SUBSET Flags] \cup {None}]
           /\ \A m \in Mails : server'[m] = None => server[m] = None
           /\ \A j \in Ids : ops'[j] = None <=> ops[j] = None
           /\ \A j \in Present :
                 /\ Stays(j) /\ ops'[j].state = ops[j].state
                 /\ ops'[j].attempts = ops[j].attempts
                 /\ j # i => ops'[j].landed = ops[j].landed
<1>1. CASE UNCHANGED <<server, ops>>
  BY <1>1 DEF TypeOK, Stays, Present
<1>2. CASE /\ Found(op) /\ server' = Landed(op)
           /\ ops' = IF i \in Present THEN [ops EXCEPT ![i].landed = TRUE] ELSE ops
  <2>1. op.mail \in Mails /\ op.to \in Boxes /\ op.kind \in AllKinds
    BY DEF Op
  <2>2. CASE server[op.mail] \in [box : Boxes \cup {None}, flags : SUBSET Flags]
    <3> DEFINE s == server[op.mail]
               new == CASE op.kind = "move"    -> [s EXCEPT !.box = op.to]
                        [] op.kind = "delete"  -> [s EXCEPT !.box = None]
                        [] op.kind \in Toggles ->
                              [s EXCEPT !.flags = WithBit(@, BitOf(op.kind), op.on)]
                        [] op.kind = "set_answered" ->
                              [s EXCEPT !.flags = @ \cup {"answered"}]
    <3>1. new \in [box : Boxes \cup {None}, flags : SUBSET Flags]
      <4>1. /\ WithBit(s.flags, BitOf(op.kind), op.on) \subseteq Flags
            /\ s.flags \cup {"answered"} \subseteq Flags
        BY <2>2 DEF WithBit, BitOf, Flags
      <4>2. CASE op.kind = "move"
        BY <2>1, <2>2, <4>2 DEF Toggles
      <4>3. CASE op.kind = "delete"
        BY <2>2, <4>3 DEF Toggles
      <4>4. CASE op.kind \in Toggles
        <5>1. new = [s EXCEPT !.flags = WithBit(s.flags, BitOf(op.kind), op.on)]
          BY <4>4 DEF Toggles
        <5> QED
          BY <2>2, <4>1, <5>1
      <4>5. CASE op.kind = "set_answered"
        BY <2>2, <4>1, <4>5 DEF Toggles
      <4> QED
        BY <2>1, <4>2, <4>3, <4>4, <4>5 DEF AllKinds
    <3>2. server' = [server EXCEPT ![op.mail] = new]
      BY <1>2 DEF Landed
    <3> HIDE DEF new
    <3>3. /\ server' \in [Mails -> [box : Boxes \cup {None}, flags : SUBSET Flags] \cup {None}]
          /\ \A m \in Mails : server'[m] = None => server[m] = None
      BY <2>1, <3>1, <3>2, NoneAssumption DEF TypeOK
    <3>4. CASE i \in Present
      <4>1. ops[i] \in Op
        BY <3>4 DEF TypeOK, Present
      <4>2. /\ [ops[i] EXCEPT !.landed = TRUE] \in Op
            /\ [ops[i] EXCEPT !.landed = TRUE].row = ops[i].row
            /\ [ops[i] EXCEPT !.landed = TRUE].mail = ops[i].mail
            /\ [ops[i] EXCEPT !.landed = TRUE].kind = ops[i].kind
            /\ [ops[i] EXCEPT !.landed = TRUE].state = ops[i].state
            /\ [ops[i] EXCEPT !.landed = TRUE].attempts = ops[i].attempts
        BY <4>1 DEF Op
      <4>3. /\ ops'[i] = [ops[i] EXCEPT !.landed = TRUE]
            /\ \A j \in Ids : j # i => ops'[j] = ops[j]
            /\ ops' = [ops EXCEPT ![i] = [ops[i] EXCEPT !.landed = TRUE]]
        BY <1>2, <3>4 DEF TypeOK
      <4>4. ops'[i] # None /\ ops[i] # None
        BY <3>4, <4>2, <4>3, NoneAssumption DEF Present
      <4>5. ops' \in [Ids -> Op \cup {None}]
        BY <4>2, <4>3 DEF TypeOK
      <4> QED
        BY <3>3, <4>2, <4>3, <4>4, <4>5 DEF Stays, Present
    <3>5. CASE i \notin Present
      BY <1>2, <3>3, <3>5 DEF TypeOK, Stays, Present
    <3> QED
      BY <3>4, <3>5
  <2> QED
    BY <2>1, <2>2 DEF TypeOK
<1> QED
  BY <1>1, <1>2 DEF Run

LEMMA ExecuteKeeps ==
    ASSUME Inv, NEW c \in Clients, NEW answer \in Answers, Execute(c, answer)
    PROVE  Inv'
<1> DEFINE i == cur[c].id
<1>1. /\ UNCHANGED <<rows, drain, history>> /\ pc[c] = "execute"
      /\ cur' = [cur EXCEPT ![c].answer = answer] /\ pc' = [pc EXCEPT ![c] = "settle"]
      /\ Run(i, ops[i], answer)
  BY DEF Execute, Goto
<1>2. /\ cur[c] \in Ask /\ i \in Present /\ ops[i] \in Op /\ OlderOwed(i) = {}
      /\ cur[c].settle /\ ops[i].state = "settling"
  BY <1>1 DEF Inv, TypeOK, Queue, Commands, CallersWait, Settlings, InState, Present
<1>3. server[ops[i].mail] # None
  BY <1>2 DEF Inv, Identity, Arrived, TypeOK, Op
<1>4. PICK k \in Ids : k = i
  BY <1>2 DEF Present
<1> HIDE DEF i
<1>5. /\ ops' \in [Ids -> Op \cup {None}]
      /\ server' \in [Mails -> [box : Boxes \cup {None}, flags : SUBSET Flags] \cup {None}]
      /\ \A m \in Mails : server'[m] = None => server[m] = None
      /\ \A j \in Ids : ops'[j] = None <=> ops[j] = None
      /\ \A j \in Present :
            /\ Stays(j) /\ ops'[j].state = ops[j].state
            /\ ops'[j].attempts = ops[j].attempts
            /\ j # i => ops'[j].landed = ops[j].landed
  BY <1>1, <1>2, <1>3, <1>4, RunIs DEF Inv
<1>6. /\ pc'[c] = "settle" /\ cur'[c] \in Ask /\ cur'[c] # None /\ cur'[c].id = i
      /\ cur'[c].settle
      /\ \A d \in Clients : d # c => pc'[d] = pc[d] /\ cur'[d] = cur[d]
      /\ cur' \in [Clients -> Ask \cup {None}]
  <2>1. [cur[c] EXCEPT !.answer = answer] \in Ask
    BY <1>2 DEF Ask, Answers
  <2>2. /\ [cur[c] EXCEPT !.answer = answer].id = cur[c].id
        /\ [cur[c] EXCEPT !.answer = answer].settle = cur[c].settle
    BY <1>2 DEF Ask
  <2>3. cur' = [cur EXCEPT ![c] = [cur[c] EXCEPT !.answer = answer]]
    BY <1>1
  <2> QED
    BY <1>1, <1>2, <2>1, <2>2, <2>3, NoneAssumption DEF Inv, TypeOK, i
<1>7. TypeOK'
  BY <1>1, <1>5, <1>6 DEF Inv, TypeOK, history
<1>8. Identity'
  BY <1>1, <1>5, IdentityKept DEF Inv, Present
<1>9. Proceeds
  BY <1>5 DEF Proceeds, Present
<1>10. \A j \in Present : OlderOwed(j)' \subseteq OlderOwed(j)
  BY <1>5, <1>9, OlderShrinks DEF Present
<1>11. \A d \in Clients, j \in Ids : Owns(d, j)' <=> Owns(d, j)
  BY <1>1, <1>6 DEF Owns, Settlings, i
<1>12. Live' <=> Live
  BY <1>1, <1>2, <1>6, NoneAssumption DEF Live
<1>13. Commands' /\ OneOwner'
  <2>1. ASSUME NEW d \in Clients
        PROVE  /\ pc'[d] \in {"idle", "ended"} <=> cur'[d] = None
               /\ pc'[d] \in {"recover", "commit"} => cur'[d].id = None
               /\ pc'[d] \in Settlings =>
                     cur'[d].settle /\ cur'[d].id \in InState({"settling", "failed"})'
    <3>1. CASE d = c
      BY <1>2, <1>5, <1>6, <3>1 DEF InState, Present
    <3>2. CASE d # c
      BY <1>5, <1>6, <3>2 DEF Inv, Queue, Commands, InState, Present
    <3> QED
      BY <3>1, <3>2
  <2> QED
    BY <1>11, <2>1 DEF Inv, Queue, Commands, OneOwner
<1>14. CallersWait'
  <2>1. ASSUME NEW d \in Clients, pc'[d] \in {"execute", "own"}
        PROVE  /\ pc'[d] = pc[d] /\ cur'[d] = cur[d] /\ d # c /\ cur[d].id \in Present
    BY <1>6, <2>1 DEF Inv, Queue, Commands, Settlings, InState
  <2>2. ASSUME NEW d \in Clients, NEW j \in Present, pc'[d] \in {"execute", "own"},
               cur[d].id = j, pc[d] = "execute" \/ (pc[d] = "own" /\ cur[d].ahead = "none")
        PROVE  OlderOwed(j)' = {}
    <3>1. OlderOwed(j) = {}
      BY <2>2 DEF Inv, Queue, CallersWait
    <3> QED
      BY <1>10, <3>1
  <2>3. ASSUME NEW d \in Clients, pc'[d] = "execute"
        PROVE  cur'[d].id \in InState({"settling"})'
    BY <1>5, <2>1, <2>3 DEF Inv, Queue, CallersWait, InState, Present
  <2> QED
    BY <2>1, <2>2, <2>3 DEF CallersWait
<1>15. NoOrphans'
  BY <1>1, <1>5, <1>11, <1>12 DEF Inv, Queue, NoOrphans, InState, Present
<1>16. Listed' /\ DrainOrder' /\ DrainRuns'
  BY <1>1, <1>5, <1>9, <1>11, DrainUnmoved DEF Inv, Queue, Listed, DrainRuns, InState, Present
<1>17. LandedInOrder'
  <2> SUFFICES ASSUME NEW j \in Ids, ops'[j] # None, ops'[j].landed,
                      ops'[j].state \in {"queued", "settling"}
               PROVE  OlderOwed(j)' = {}
    BY DEF LandedInOrder, Owed, InState, Present
  <2>1. j \in Present
    BY <1>5 DEF Present
  <2>2. OlderOwed(j) = {}
    BY <1>2, <1>5, <2>1 DEF Inv, Queue, LandedInOrder, Owed, InState, Present
  <2> QED
    BY <1>10, <2>1, <2>2
<1>18. ParkedUnrun'
  <2> SUFFICES ASSUME NEW j \in Ids, ops'[j] # None, ops'[j].state = "failed",
                      ops'[j].attempts < MaxAttempts, ops'[j].landed
               PROVE  FALSE
    BY DEF ParkedUnrun, InState, Present
  <2>1. j \in Present
    BY <1>5 DEF Present
  <2> QED
    BY <1>2, <1>5, <2>1 DEF Inv, Queue, ParkedUnrun, InState, Present
<1> QED
  BY <1>7, <1>8, <1>13, <1>14, <1>15, <1>16, <1>17, <1>18 DEF Inv, Queue

-----------------------------------------------------------------------------
(* The op i is settled: retired, refused, or tried once more.                *)

(* What becomes of the other ops: only a move takes later ones with it.      *)
OthersStay(i) ==
    \A j \in Ids \ {i} :
        /\ ops'[j] = None <=> ops[j] = None
        /\ ops[j] # None =>
              /\ Stays(j) /\ ops'[j].landed = ops[j].landed
              /\ ops'[j].attempts = ops[j].attempts
              /\ \/ ops'[j].state = ops[j].state
                 \/ ops'[j].state = "failed" /\ j \in Owed /\ i \in OlderOwed(j)

(* What becomes of the rows.                                                 *)
RowsStay ==
    /\ rows' \in [Rows -> Message \cup {None}]
    /\ \A t \in Rows : rows'[t] = None <=> rows[t] = None
    /\ \A t \in Rows : rows[t] # None =>
          /\ rows'[t].mail = rows[t].mail
          /\ "answered" \in rows[t].flags => "answered" \in rows'[t].flags

LEMMA RetiredIs ==
    ASSUME TypeOK, NEW i \in Ids, ops' = Retired(i)
    PROVE  ops' \in [Ids -> Op \cup {None}] /\ ops'[i] = None /\ OthersStay(i)
BY DEF TypeOK, Retired, OthersStay, Stays

(* The first disjunct of refuse.                                             *)
LEMMA UndoneIs ==
    ASSUME TypeOK, NEW i \in Ids, i \in Owed, NEW how \in {"park", "discard"},
           rows' = RowUndone(RefusedWith(i)), ops' = OpsRefused(RefusedWith(i), how)
    PROVE  /\ ops' \in [Ids -> Op \cup {None}] /\ OthersStay(i) /\ RowsStay
           /\ how = "discard" => ops'[i] = None
           /\ how = "park" =>
                 /\ Stays(i) /\ ops'[i].landed = ops[i].landed
                 /\ ops'[i].state = "failed" /\ ops'[i].attempts = ops[i].attempts + 1
<1>1. ops[i] # None
  BY DEF Owed, InState, Present
<1>2. RowsStay
  BY <1>1, RefusedRows DEF RowsStay
<1>3. \A j \in LaterOnMessage(i) : ops[i].kind = "move" => j \in Owed /\ i \in OlderOwed(j)
  BY DEF LaterOnMessage, OlderOwed, OrdersLaterOps
<1>4. OthersStay(i)
  <2> SUFFICES ASSUME NEW j \in Ids \ {i}
               PROVE  /\ ops'[j] = None <=> ops[j] = None
                      /\ ops[j] # None =>
                            /\ Stays(j) /\ ops'[j].landed = ops[j].landed
                            /\ ops'[j].attempts = ops[j].attempts
                            /\ \/ ops'[j].state = ops[j].state
                               \/ ops'[j].state = "failed" /\ j \in Owed /\ i \in OlderOwed(j)
    BY DEF OthersStay
  <2>1. ops'[j] = None <=> ops[j] = None
    BY <1>1, RefusedOps
  <2>2. ASSUME ops[j] # None
        PROVE  /\ Stays(j) /\ ops'[j].landed = ops[j].landed
               /\ ops'[j].attempts = ops[j].attempts
               /\ \/ ops'[j].state = ops[j].state
                  \/ ops'[j].state = "failed" /\ ops[i].kind = "move" /\ j \in LaterOnMessage(i)
    <3>1. j \in Present \ {i}
      BY <2>2 DEF Present
    <3> QED
      BY <1>1, <3>1, RefusedOps
  <2> QED
    BY <1>3, <2>1, <2>2
<1> QED
  BY <1>1, <1>2, <1>4, RefusedOps

(* What follows of the other ops, for whoever settles i.                     *)
LEMMA OthersProceed ==
    ASSUME TypeOK, LandedInOrder, NEW i \in Ids, OthersStay(i),
           ops'[i] # None => /\ Stays(i) /\ ops'[i].landed = ops[i].landed
                             /\ ops'[i].state \in {ops[i].state, "failed"}
    PROVE  /\ Proceeds /\ LandedInOrder'
           /\ \A j \in Present \ {i} : Stays(j) /\ OlderOwed(j)' \subseteq OlderOwed(j)
           /\ \A j \in Present \ {i} : OlderOwed(j) = {} => ops'[j].state = ops[j].state
           /\ \A j \in Ids \ {i} :
                 ops'[j] # None /\ ops'[j].state = "failed" /\ ops'[j].landed =>
                     /\ ops[j] # None /\ ops[j].state = "failed" /\ ops[j].landed
                     /\ ops'[j].attempts = ops[j].attempts
<1>1. Proceeds
  BY DEF Proceeds, OthersStay
<1>2. \A j \in Ids : ops'[j] # None /\ ops'[j].landed => ops[j] # None /\ ops[j].landed
  BY DEF OthersStay, Stays
<1>3. LandedInOrder'
  BY <1>1, <1>2, LandedKept
<1>4. \A j \in Present \ {i} : Stays(j) /\ OlderOwed(j)' \subseteq OlderOwed(j)
  BY <1>1, OlderShrinks DEF OthersStay, Present
<1>5. \A j \in Present \ {i} : OlderOwed(j) = {} => ops'[j].state = ops[j].state
  BY DEF OthersStay, Present
<1>6. ASSUME NEW j \in Ids \ {i}, ops'[j] # None, ops'[j].state = "failed", ops'[j].landed
      PROVE  /\ ops[j] # None /\ ops[j].state = "failed" /\ ops[j].landed
             /\ ops'[j].attempts = ops[j].attempts
  BY <1>6 DEF OthersStay, LandedInOrder
<1> QED
  BY <1>1, <1>3, <1>4, <1>5, <1>6

LEMMA SettleKeeps ==
    ASSUME Inv, NEW c \in Clients, Settle(c)
    PROVE  Inv'
<1>1. PICK i \in Ids : i = cur[c].id /\ i \in Present
  BY DEF Settle, Inv, Queue, Commands, Settlings, InState, Present
<1>2. /\ UNCHANGED <<server, drain, crashes, replies, heirs>>
      /\ pc[c] = "settle" /\ Owns(c, i) /\ ops[i].state \in {"settling", "failed"}
      /\ pc' = [pc EXCEPT ![c] = "ended"] /\ cur' = [cur EXCEPT ![c] = None]
  BY <1>1 DEF Settle, Goto, Owns, Settlings, Inv, Queue, Commands, InState, Present
<1>3. /\ ops' \in [Ids -> Op \cup {None}] /\ ops'[i] = None /\ OthersStay(i)
      /\ RowsStay /\ misled' \subseteq Mails
  <2>1. CASE ops' = Retired(i) /\ UNCHANGED <<rows, misled>>
    BY <2>1, RetiredIs DEF Inv, TypeOK, RowsStay
  <2>2. CASE Refuse(i, "discard")
    <3>1. CASE /\ i \in InState({"queued", "settling"})
               /\ rows' = RowUndone(RefusedWith(i)) /\ ops' = OpsRefused(RefusedWith(i), "discard")
               /\ misled' = IF ops[i].landed THEN misled \cup {ops[i].mail} ELSE misled
      <4>1. i \in Owed
        BY <3>1 DEF Owed
      <4>2. ops[i].mail \in Mails
        BY <1>1 DEF Inv, TypeOK, Present, Op
      <4> QED
        BY <3>1, <4>1, <4>2, UndoneIs DEF Inv, TypeOK
    <3>2. CASE ops' = [ops EXCEPT ![i] = None] /\ UNCHANGED <<rows, misled>>
      BY <3>2, RetiredIs DEF Inv, TypeOK, RowsStay, Retired
    <3>3. i \in InState({"queued", "settling", "failed"})
      BY <1>1, <1>2 DEF InState
    <3> QED
      BY <2>2, <3>1, <3>2, <3>3 DEF Refuse
  <2> QED
    BY <1>1, <2>1, <2>2 DEF Settle
<1>4. TypeOK'
  BY <1>2, <1>3 DEF Inv, TypeOK, RowsStay
<1>5. /\ Proceeds /\ LandedInOrder'
      /\ \A j \in Present \ {i} : Stays(j) /\ OlderOwed(j)' \subseteq OlderOwed(j)
      /\ \A j \in Present \ {i} : OlderOwed(j) = {} => ops'[j].state = ops[j].state
      /\ \A j \in Ids \ {i} :
            ops'[j] # None /\ ops'[j].state = "failed" /\ ops'[j].landed =>
                /\ ops[j] # None /\ ops[j].state = "failed" /\ ops[j].landed
                /\ ops'[j].attempts = ops[j].attempts
  BY <1>3, OthersProceed DEF Inv, Queue
<1>6. Identity'
  BY <1>2, <1>3, IdentityKept DEF Inv, OthersStay, RowsStay
<1>7. /\ pc'[c] = "ended" /\ cur'[c] = None
      /\ \A d \in Clients : d # c => pc'[d] = pc[d] /\ cur'[d] = cur[d]
  BY <1>2 DEF Inv, TypeOK
<1>8. \A d \in Clients, j \in Ids : Owns(d, j)' <=> Owns(d, j) /\ d # c
  BY <1>7 DEF Owns, Settlings
<1>9. ASSUME NEW d \in Clients, d # c, pc[d] \in Settlings
      PROVE  /\ cur[d].id \in Present \ {i} /\ ops'[cur[d].id] # None
             /\ ops'[cur[d].id].state \in {"settling", "failed"}
  <2>1. cur[d].id \in Present /\ ops[cur[d].id].state \in {"settling", "failed"}
    BY <1>9 DEF Inv, Queue, Commands, InState
  <2>2. cur[d].id # i
    BY <1>2, <1>9 DEF Inv, Queue, OneOwner, Owns
  <2>3. /\ ops'[cur[d].id] # None
        /\ ops'[cur[d].id].state \in {ops[cur[d].id].state, "failed"}
    BY <1>3, <2>1, <2>2 DEF OthersStay, Present
  <2> QED
    BY <2>1, <2>2, <2>3
<1>10. Commands'
  <2>1. ASSUME NEW d \in Clients
        PROVE  /\ pc'[d] \in {"idle", "ended"} <=> cur'[d] = None
               /\ pc'[d] \in {"recover", "commit"} => cur'[d].id = None
               /\ pc'[d] \in Settlings =>
                     cur'[d].settle /\ cur'[d].id \in InState({"settling", "failed"})'
    <3>1. CASE d = c
      BY <1>7, <3>1 DEF Settlings
    <3>2. CASE d # c
      BY <1>7, <1>9, <3>2 DEF Inv, Queue, Commands, InState, Present
    <3> QED
      BY <3>1, <3>2
  <2> QED
    BY <2>1 DEF Commands
<1>11. OneOwner'
  BY <1>8 DEF Inv, Queue, OneOwner
<1>12. NoOrphans'
  <2>1. Live' => Live
    BY <1>7 DEF Live
  <2>2. \A j \in Ids : ops'[j] # None /\ ops'[j].state = "settling" =>
            j # i /\ j \in InState({"settling"})
    BY <1>3 DEF OthersStay, InState, Present
  <2>3. \A d \in Clients, j \in Ids : Owns(d, j) /\ j # i => d # c
    BY <1>2 DEF Owns
  <2> QED
    BY <1>2, <1>8, <2>1, <2>2, <2>3 DEF Inv, Queue, NoOrphans, InState, Present
<1>13. CallersWait'
  <2>1. ASSUME NEW d \in Clients, pc'[d] \in {"execute", "own"}
        PROVE  /\ pc'[d] = pc[d] /\ cur'[d] = cur[d] /\ cur[d].id \in Present \ {i}
               /\ ops'[cur[d].id] # None
    BY <1>7, <1>9, <2>1 DEF Settlings
  <2>2. ASSUME NEW d \in Clients, NEW k \in Present \ {i}, cur[d].id = k,
               pc[d] = "execute" \/ (pc[d] = "own" /\ cur[d].ahead = "none")
        PROVE  OlderOwed(k) = {} /\ OlderOwed(k)' = {}
    <3>1. OlderOwed(k) = {}
      BY <2>2 DEF Inv, Queue, CallersWait
    <3> QED
      BY <1>5, <3>1
  <2>3. ASSUME NEW d \in Clients, pc'[d] = "execute"
        PROVE  cur'[d].id \in InState({"settling"})'
    <3>1. cur[d].id \in InState({"settling"}) /\ ops'[cur[d].id].state = ops[cur[d].id].state
      BY <1>5, <2>1, <2>2, <2>3 DEF Inv, Queue, CallersWait
    <3> QED
      BY <2>1, <2>3, <3>1 DEF InState, Present
  <2> QED
    BY <2>1, <2>2, <2>3 DEF CallersWait
<1>14. Listed' /\ DrainOrder' /\ DrainRuns'
  <2>1. \A k \in drain.list : k \in Ids \ {i} /\ ops[k] # None /\ ops'[k] # None
    BY <1>2, <1>3 DEF Inv, Queue, Listed, InState, Present, OthersStay
  <2>2. ASSUME drain.at \in {"execute", "settle"}
        PROVE  /\ ops'[drain.id] # None /\ ops'[drain.id].state = "queued"
               /\ ops'[drain.id].attempts = ops[drain.id].attempts
    <3>1. /\ drain.id \in Present \ {i} /\ OlderOwed(drain.id) = {}
          /\ ops[drain.id].state = "queued"
      BY <1>2, <2>2 DEF Inv, Queue, DrainRuns, InState
    <3> QED
      BY <1>3, <1>5, <3>1 DEF OthersStay, Present
  <2> QED
    BY <1>2, <1>5, <1>8, <2>1, <2>2, DrainUnmoved DEF Inv
<1>15. ParkedUnrun'
  <2> SUFFICES ASSUME NEW j \in Ids, ops'[j] # None, ops'[j].state = "failed",
                      ops'[j].attempts < MaxAttempts, ops'[j].landed
               PROVE  FALSE
    BY DEF ParkedUnrun, InState, Present
  <2>1. j # i
    BY <1>3
  <2>2. ops[j] # None /\ ops[j].state = "failed" /\ ops[j].landed
        /\ ops'[j].attempts = ops[j].attempts
    BY <1>5, <2>1
  <2> QED
    BY <2>2 DEF Inv, Queue, ParkedUnrun, InState, Present
<1> QED
  BY <1>4, <1>5, <1>6, <1>10, <1>11, <1>12, <1>13, <1>14, <1>15 DEF Inv, Queue

-----------------------------------------------------------------------------
(* The drain.                                                                *)

(* A step of the drain that leaves everything else as it is.                 *)
LEMMA DrainMoves ==
    ASSUME Inv, UNCHANGED <<rows, ops, server, pc, cur, history>>, TypeOK',
           drain'.at # "idle" => drain.at # "idle",
           Listed', DrainOrder', DrainRuns'
    PROVE  Inv'
<1>1. Identity'
  BY DEF Inv, Identity, RowsApart, Arrived, OneRow, SameRow, Present
<1>2. Proceeds /\ \A i \in Ids : OlderOwed(i)' = OlderOwed(i)
  BY OlderSame
<1>3. Commands' /\ OneOwner' /\ CallersWait'
  BY <1>2, CommandsUnmoved DEF Inv, Queue, Commands, Owns, InState, Present
<1>4. NoOrphans'
  BY DEF Inv, Queue, NoOrphans, Live, InState, Present, Owns
<1>5. LandedInOrder' /\ ParkedUnrun'
  BY <1>2 DEF Inv, Queue, LandedInOrder, ParkedUnrun, Owed, InState, Present
<1> QED
  BY <1>1, <1>3, <1>4, <1>5 DEF Inv, Queue

LEMMA ListQueuedKeeps ==
    ASSUME Inv, ListQueued
    PROVE  Inv'
<1>1. /\ drain.at = "list" /\ UNCHANGED <<rows, ops, server, pc, cur, history>>
      /\ drain' = [drain EXCEPT !.at = "targets", !.list = InState({"queued"})]
  BY DEF ListQueued
<1>2. drain'.at = "targets" /\ drain'.list = InState({"queued"})
  BY <1>1 DEF Inv, TypeOK
<1>3. TypeOK'
  <2>1. InState({"queued"}) \subseteq Ids
    BY DEF InState, Present
  <2> QED
    BY <1>1, <2>1 DEF Inv, TypeOK, history
<1>4. Listed'
  BY <1>1, <1>2 DEF Inv, Queue, Listed, Commands, Owns, InState, Present
<1>5. DrainOrder'
  BY <1>1, <1>2 DEF DrainOrder, Marked, OlderOwed, Owed, InState, Present, OrdersLaterOps
<1>6. DrainRuns'
  BY <1>2 DEF DrainRuns
<1> QED
  BY <1>1, <1>2, <1>3, <1>4, <1>5, <1>6, DrainMoves

LEMMA ReadTargetsKeeps ==
    ASSUME Inv, ReadTargets
    PROVE  Inv'
<1> DEFINE owed == [t \in Rows |-> IF Settling(t) = {} THEN None ELSE Oldest(Settling(t))]
<1>1. /\ drain.at = "targets" /\ UNCHANGED <<rows, ops, server, pc, cur, history>>
      /\ drain' = [drain EXCEPT !.at = "next", !.owed = owed]
  BY DEF ReadTargets
<1>2. \A t \in Rows : Settling(t) # {} =>
          owed[t] \in Settling(t) /\ \A j \in Settling(t) : owed[t] <= j
  <2> SUFFICES ASSUME NEW t \in Rows, Settling(t) # {}
               PROVE  owed[t] \in Settling(t) /\ \A j \in Settling(t) : owed[t] <= j
    OBVIOUS
  <2>1. Settling(t) \subseteq Ids
    BY DEF Settling, InState, Present
  <2>2. Oldest(Settling(t)) \in Settling(t) /\ \A j \in Settling(t) : Oldest(Settling(t)) <= j
    BY <2>1, OldestOf
  <2> QED
    BY <2>2
<1>3. owed \in [Rows -> Ids \cup {None}]
  <2>1. \A t \in Rows : Settling(t) \subseteq Ids
    BY DEF Settling, InState, Present
  <2>2. \A t \in Rows : owed[t] \in Ids \cup {None}
    BY <1>2, <2>1
  <2> QED
    BY <2>2
<1> HIDE DEF owed
<1>4. drain'.at = "next" /\ drain'.list = drain.list /\ drain'.owed = owed
  BY <1>1 DEF Inv, TypeOK
<1>5. TypeOK'
  BY <1>1, <1>3 DEF Inv, TypeOK, history
<1>6. Listed'
  BY <1>1, <1>4 DEF Inv, Queue, Listed, Owns, InState, Present
<1>7. ASSUME NEW i \in drain.list, NEW j \in OlderOwed(i)
      PROVE  j \in drain.list \/ (owed[ops[i].row] # None /\ owed[ops[i].row] <= j)
  <2>1. i \in Ids /\ ops[i].row \in Rows
    BY DEF Inv, Queue, Listed, TypeOK, InState, Present, Op
  <2>2. j \in drain.list \/ j \in InState({"settling"})
    BY <1>1, <1>7 DEF Inv, Queue, DrainOrder, Marked
  <2>3. CASE j \in InState({"settling"})
    <3>1. j \in Settling(ops[i].row)
      BY <1>7, <2>3 DEF OlderOwed, Settling
    <3>2. owed[ops[i].row] \in Settling(ops[i].row) /\ owed[ops[i].row] <= j
      BY <1>2, <2>1, <3>1
    <3>3. owed[ops[i].row] # None
      BY <3>2, OpIdsAssumption DEF Settling, InState, Present
    <3> QED
      BY <3>2, <3>3
  <2> QED
    BY <2>2, <2>3
<1>8. DrainOrder'
  <2>1. \A i \in Ids : OlderOwed(i)' = OlderOwed(i)
    BY <1>1, OlderSame
  <2>2. drain.list \subseteq Ids
    BY DEF Inv, TypeOK
  <2> QED
    BY <1>1, <1>4, <1>7, <2>1, <2>2 DEF DrainOrder, Marked
<1>9. DrainRuns'
  BY <1>4 DEF DrainRuns
<1> QED
  BY <1>1, <1>4, <1>5, <1>6, <1>8, <1>9, DrainMoves

(* The next row of the list is passed over, or left owed.                    *)
LEMMA PassedKeeps ==
    ASSUME Inv, NEW i \in Ids, NextRow(i), UNCHANGED <<rows, ops, server, pc, cur, history>>,
           NEW owed \in [Rows -> Ids \cup {None}],
           drain' = [drain EXCEPT !.list = drain.list \ {i}, !.owed = owed],
           \A t \in Rows : drain.owed[t] # None => owed[t] # None /\ owed[t] <= drain.owed[t],
           i \in Owed /\ OrdersLaterOps(ops[i]) =>
               owed[ops[i].row] # None /\ owed[ops[i].row] <= i
    PROVE  Inv'
<1>1. drain'.at = "next" /\ drain'.list = drain.list \ {i} /\ drain'.owed = owed
  BY DEF Inv, TypeOK, NextRow
<1>2. TypeOK'
  BY DEF Inv, TypeOK, history
<1>3. Listed'
  BY <1>1 DEF Inv, Queue, Listed, Owns, InState, Present
<1>4. ASSUME NEW k \in drain.list, NEW j \in OlderOwed(k), j \notin drain.list \ {i}
      PROVE  owed[ops[k].row] # None /\ owed[ops[k].row] <= j
  <2>1. k \in Ids /\ ops[k].row \in Rows
    BY DEF Inv, Queue, Listed, TypeOK, InState, Present, Op
  <2>2. j \in Owed /\ ops[j].row = ops[k].row /\ OrdersLaterOps(ops[j]) /\ j \in Ids
    BY <1>4 DEF OlderOwed, Owed, InState, Present
  <2>3. CASE j = i
    BY <2>2, <2>3
  <2>4. CASE j # i
    <3>1. drain.owed[ops[k].row] # None /\ drain.owed[ops[k].row] <= j
      BY <1>4, <2>4 DEF Inv, Queue, DrainOrder, Marked, NextRow
    <3>2. drain.owed[ops[k].row] \in Nat /\ owed[ops[k].row] \in Nat /\ j \in Nat
      BY <2>1, <2>2, <3>1, OpIdsAssumption DEF Inv, TypeOK
    <3> QED
      BY <2>1, <3>1, <3>2
  <2> QED
    BY <2>3, <2>4
<1>5. DrainOrder'
  <2>1. \A k \in Ids : OlderOwed(k)' = OlderOwed(k)
    BY OlderSame
  <2>2. drain.list \subseteq Ids
    BY DEF Inv, TypeOK
  <2> QED
    BY <1>1, <1>4, <2>1, <2>2 DEF DrainOrder, Marked
<1>6. DrainRuns'
  BY <1>1 DEF DrainRuns
<1> QED
  BY <1>1, <1>2, <1>3, <1>5, <1>6, DrainMoves DEF NextRow

LEMMA SkipRowKeeps ==
    ASSUME Inv, NEW i \in Ids, SkipRow(i)
    PROVE  Inv'
<1>1. NextRow(i) /\ UNCHANGED <<rows, ops, server, pc, cur, history>>
  BY DEF SkipRow
<1>2. drain.owed \in [Rows -> Ids \cup {None}]
  BY DEF Inv, TypeOK
<1>3. drain' = [drain EXCEPT !.list = drain.list \ {i}, !.owed = drain.owed]
  BY DEF SkipRow, Inv, TypeOK
<1>4. \A t \in Rows : drain.owed[t] # None => drain.owed[t] <= drain.owed[t]
  BY <1>2, OpIdsAssumption
<1>5. i \in Owed => drain.owed[ops[i].row] # None /\ drain.owed[ops[i].row] <= i
  <2>1. i \in InState({"queued", "failed"})
    <3>1. drain.list \subseteq Ids /\ drain.list # {}
      BY <1>1 DEF Inv, TypeOK, NextRow
    <3>2. i \in drain.list
      BY <1>1, <3>1, OldestOf DEF NextRow
    <3> QED
      BY <3>2 DEF Inv, Queue, Listed
  <2>2. ASSUME i \in Owed
        PROVE  Waits(i) /\ ops[i].row \in Rows
    BY <2>1, <2>2 DEF SkipRow, Owed, InState, Present, Inv, TypeOK, Op
  <2>3. ASSUME i \in Owed
        PROVE  drain.owed[ops[i].row] # None /\ drain.owed[ops[i].row] <= i
    <3>1. drain.owed[ops[i].row] # None /\ drain.owed[ops[i].row] < i
      BY <2>2, <2>3 DEF Waits
    <3>2. drain.owed[ops[i].row] \in Nat /\ i \in Nat
      BY <1>2, <2>2, <2>3, <3>1, OpIdsAssumption
    <3> QED
      BY <3>1, <3>2
  <2> QED
    BY <2>3
<1> QED
  BY <1>1, <1>2, <1>3, <1>4, <1>5, PassedKeeps

(* still_owed marks the row as owed from i on, or from before.               *)
LEMMA StillOwedIs ==
    ASSUME TypeOK, NEW i \in Ids, NEW op, op.row \in Rows
    PROVE  LET owed == StillOwed(i, op) IN
           /\ owed \in [Rows -> Ids \cup {None}]
           /\ \A t \in Rows : drain.owed[t] # None => owed[t] # None /\ owed[t] <= drain.owed[t]
           /\ OrdersLaterOps(op) => owed[op.row] # None /\ owed[op.row] <= i
<1>1. drain.owed \in [Rows -> Ids \cup {None}]
  BY DEF TypeOK
<1>2. CASE OrdersLaterOps(op) /\ (drain.owed[op.row] = None \/ i < drain.owed[op.row])
  <2>1. StillOwed(i, op) = [drain.owed EXCEPT ![op.row] = i]
    BY <1>2 DEF StillOwed
  <2>2. i \in Nat
    BY OpIdsAssumption
  <2>3. StillOwed(i, op) \in [Rows -> Ids \cup {None}]
    BY <1>1, <2>1
  <2>4. StillOwed(i, op)[op.row] = i
    BY <1>1, <2>1
  <2>5. \A t \in Rows \ {op.row} : StillOwed(i, op)[t] = drain.owed[t]
    BY <1>1, <2>1
  <2>6. \A t \in Rows : drain.owed[t] # None => drain.owed[t] \in Nat
    BY <1>1, OpIdsAssumption
  <2>7. i # None
    BY OpIdsAssumption
  <2>8. ASSUME NEW t \in Rows, drain.owed[t] # None
        PROVE  StillOwed(i, op)[t] # None /\ StillOwed(i, op)[t] <= drain.owed[t]
    <3>1. CASE t = op.row
      <4>1. i < drain.owed[t]
        BY <1>2, <2>8, <3>1
      <4> QED
        BY <2>2, <2>4, <2>6, <2>7, <2>8, <3>1, <4>1
    <3>2. CASE t # op.row
      <4>1. drain.owed[t] \in Nat /\ StillOwed(i, op)[t] = drain.owed[t]
        BY <2>5, <2>6, <2>8, <3>2
      <4> QED
        BY <2>8, <4>1
    <3> QED
      BY <3>1, <3>2
  <2>9. StillOwed(i, op)[op.row] # None /\ StillOwed(i, op)[op.row] <= i
    BY <2>2, <2>4, <2>7
  <2> QED
    BY <2>3, <2>8, <2>9
<1>3. CASE ~ (OrdersLaterOps(op) /\ (drain.owed[op.row] = None \/ i < drain.owed[op.row]))
  <2>1. StillOwed(i, op) = drain.owed
    BY <1>3 DEF StillOwed
  <2>2. \A t \in Rows : drain.owed[t] # None => drain.owed[t] \in Nat
    BY <1>1, OpIdsAssumption
  <2> QED
    BY <1>1, <1>3, <2>1, <2>2, OpIdsAssumption
<1> QED
  BY <1>2, <1>3

LEMMA DeferRowKeeps ==
    ASSUME Inv, NEW i \in Ids, DeferRow(i)
    PROVE  Inv'
<1> DEFINE owed == StillOwed(i, ops[i])
<1>1. /\ NextRow(i) /\ UNCHANGED <<rows, ops, server, pc, cur, history>>
      /\ drain' = [drain EXCEPT !.list = drain.list \ {i}, !.owed = owed]
  BY DEF DeferRow
<1>2. ops[i].row \in Rows
  BY DEF DeferRow, InState, Present, Inv, TypeOK, Op
<1>3. /\ owed \in [Rows -> Ids \cup {None}]
      /\ \A t \in Rows : drain.owed[t] # None => owed[t] # None /\ owed[t] <= drain.owed[t]
      /\ OrdersLaterOps(ops[i]) => owed[ops[i].row] # None /\ owed[ops[i].row] <= i
  BY <1>2, StillOwedIs DEF Inv
<1> HIDE DEF owed
<1> QED
  BY <1>1, <1>3, PassedKeeps

LEMMA TakeRowKeeps ==
    ASSUME Inv, NEW i \in Ids, TakeRow(i)
    PROVE  Inv'
<1>1. /\ NextRow(i) /\ UNCHANGED <<rows, ops, server, pc, cur, history>>
      /\ i \in InState({"queued"}) /\ ~Waits(i)
      /\ drain' = [drain EXCEPT !.at = "execute", !.list = drain.list \ {i},
                                !.id = i, !.op = ops[i]]
  BY DEF TakeRow
<1>2. /\ drain'.at = "execute" /\ drain'.list = drain.list \ {i} /\ drain'.owed = drain.owed
      /\ drain'.id = i /\ drain'.op = ops[i]
  BY <1>1 DEF Inv, TypeOK
<1>3. ops[i] \in Op /\ ops[i] # None /\ ops[i].row \in Rows
  BY <1>1 DEF Inv, TypeOK, InState, Present, Op
<1>4. TypeOK'
  BY <1>1, <1>3 DEF Inv, TypeOK, history
<1>5. Listed'
  BY <1>1, <1>2 DEF Inv, Queue, Listed, Owns, InState, Present
<1>6. i \in drain.list /\ \A j \in drain.list : i <= j
  <2>1. drain.list \subseteq Ids /\ drain.list # {}
    BY <1>1 DEF Inv, TypeOK, NextRow
  <2> QED
    BY <1>1, <2>1, OldestOf DEF NextRow
<1>7. DrainOrder'
  <2>1. \A k \in Ids : OlderOwed(k)' = OlderOwed(k)
    BY <1>1, OlderSame
  <2>2. drain.list \subseteq Ids
    BY DEF Inv, TypeOK
  <2> QED
    BY <1>1, <1>2, <2>1, <2>2 DEF Inv, Queue, DrainOrder, Marked, NextRow
<1>8. OlderOwed(i) = {}
  <2> SUFFICES ASSUME NEW j \in OlderOwed(i)
               PROVE  FALSE
    OBVIOUS
  <2>1. j \in Ids /\ j < i
    BY DEF OlderOwed, Owed, InState, Present
  <2>2. j \notin drain.list
    BY <1>6, <2>1, OpIdsAssumption
  <2>3. drain.owed[ops[i].row] # None /\ drain.owed[ops[i].row] <= j
    BY <1>1, <1>6, <2>2 DEF Inv, Queue, DrainOrder, Marked, NextRow
  <2>4. drain.owed[ops[i].row] \in Nat /\ i \in Nat /\ j \in Nat
    BY <1>3, <2>1, <2>3, OpIdsAssumption DEF Inv, TypeOK
  <2> QED
    BY <1>1, <2>1, <2>3, <2>4 DEF Waits
<1>9. DrainRuns'
  <2>1. OlderOwed(i)' = {}
    BY <1>1, <1>8, OlderSame
  <2>2. \A c \in Clients : ~Owns(c, i)'
    BY <1>1, <1>6 DEF Inv, Queue, Listed, Owns
  <2>3. i \in InState({"queued"})'
    BY <1>1 DEF InState, Present
  <2> QED
    BY <1>1, <1>2, <1>3, <2>1, <2>2, <2>3 DEF DrainRuns
<1> QED
  BY <1>1, <1>2, <1>4, <1>5, <1>7, <1>9, DrainMoves DEF NextRow

LEMMA EndDrainKeeps ==
    ASSUME Inv, EndDrain
    PROVE  Inv'
<1>1. UNCHANGED <<rows, ops, server, pc, cur, history>> /\ drain' = Idle
  BY DEF EndDrain
<1>2. TypeOK'
  BY <1>1 DEF Inv, TypeOK, history, Idle, Answers
<1>3. Listed' /\ DrainOrder' /\ DrainRuns' /\ drain'.at = "idle"
  BY <1>1 DEF Listed, DrainOrder, DrainRuns, Idle
<1> QED
  BY <1>1, <1>2, <1>3, DrainMoves

LEMMA StartDrainKeeps ==
    ASSUME Inv, StartDrain
    PROVE  Inv'
<1>1. /\ UNCHANGED <<rows, server, pc, cur, history>> /\ ops' = Recovered
      /\ drain.at = "idle" /\ drain' = [drain EXCEPT !.at = "list"]
  BY DEF StartDrain
<1>2. /\ ops' \in [Ids -> Op \cup {None}]
      /\ \A i \in Ids : ops'[i] # None => Stays(i) /\ ops'[i].landed = ops[i].landed
      /\ \A i \in Ids : ops'[i] = None <=> ops[i] = None
      /\ \A i \in Present : ops'[i].attempts = ops[i].attempts
      /\ \A i \in Present :
            \/ ops'[i].state = ops[i].state
            \/ ~Live /\ ops[i].state = "settling" /\ ops'[i].state = "queued"
      /\ ~Live => \A i \in Present : ops'[i].state # "settling"
  BY <1>1, RecoveredIs DEF Inv, Present
<1>3. drain'.at = "list" /\ drain'.list = {}
  BY <1>1 DEF Inv, TypeOK, Queue, Listed
<1>4. TypeOK'
  BY <1>1, <1>2 DEF Inv, TypeOK, history
<1>5. Listed' /\ DrainOrder' /\ DrainRuns'
  BY <1>3 DEF Listed, DrainOrder, DrainRuns
<1>6. Identity'
  BY <1>1, <1>2, IdentityKept DEF Inv
<1>7. CASE Live
  <2>1. ops' = ops
    BY <1>1, <1>7 DEF Recovered
  <2>2. Proceeds /\ \A i \in Ids : OlderOwed(i)' = OlderOwed(i)
    BY <2>1, OlderSame
  <2>3. Commands' /\ OneOwner' /\ CallersWait'
    BY <1>1, <2>1, <2>2, CommandsUnmoved DEF Inv, Queue, Commands, Owns, InState, Present
  <2>4. NoOrphans'
    BY <1>1, <1>7, <2>1 DEF Inv, Queue, NoOrphans, Owns, InState, Present
  <2>5. LandedInOrder' /\ ParkedUnrun'
    BY <2>1, <2>2 DEF Inv, Queue, LandedInOrder, ParkedUnrun, Owed, InState, Present
  <2> QED
    BY <1>4, <1>5, <1>6, <2>3, <2>4, <2>5 DEF Inv, Queue
<1>8. CASE ~Live
  <2>1. \A d \in Clients : pc[d] \notin Settlings
    BY <1>8 DEF Inv, Queue, Commands, Live, Settlings
  <2>2. Commands' /\ OneOwner' /\ CallersWait'
    BY <1>1, <2>1 DEF Inv, Queue, Commands, OneOwner, CallersWait, Owns, Settlings
  <2>3. NoOrphans'
    BY <1>2, <1>8 DEF NoOrphans, InState, Present
  <2>4. \A i \in Ids : OlderOwed(i)' \subseteq OlderOwed(i)
    BY <1>2 DEF OlderOwed, Owed, InState, Present, Stays, OrdersLaterOps
  <2>5. LandedInOrder' /\ ParkedUnrun'
    BY <1>2, <2>4 DEF Inv, Queue, LandedInOrder, ParkedUnrun, Owed, InState, Present, Stays
  <2> QED
    BY <1>4, <1>5, <1>6, <2>2, <2>3, <2>5 DEF Inv, Queue
<1> QED
  BY <1>7, <1>8

LEMMA DrainExecuteKeeps ==
    ASSUME Inv, NEW answer \in Answers, DrainExecute(answer)
    PROVE  Inv'
<1>1. /\ UNCHANGED <<rows, pc, cur, history>> /\ drain.at = "execute"
      /\ drain' = [drain EXCEPT !.at = "settle", !.answer = answer]
      /\ Run(drain.id, drain.op, answer)
  BY DEF DrainExecute
<1>2. PICK i \in Ids : i = drain.id
  BY <1>1 DEF Inv, Queue, DrainRuns, InState, Present
<1>3. /\ i \in Present /\ drain.op \in Op /\ OlderOwed(i) = {} /\ i \notin drain.list
      /\ drain.op.mail = ops[i].mail /\ ops[i].state = "queued"
  BY <1>1, <1>2 DEF Inv, TypeOK, Queue, DrainRuns, InState
<1>4. server[drain.op.mail] # None
  BY <1>3 DEF Inv, Identity, Arrived, Op
<1>5. /\ ops' \in [Ids -> Op \cup {None}]
      /\ server' \in [Mails -> [box : Boxes \cup {None}, flags : SUBSET Flags] \cup {None}]
      /\ \A m \in Mails : server'[m] = None => server[m] = None
      /\ \A j \in Ids : ops'[j] = None <=> ops[j] = None
      /\ \A j \in Present :
            /\ Stays(j) /\ ops'[j].state = ops[j].state
            /\ ops'[j].attempts = ops[j].attempts
            /\ j # i => ops'[j].landed = ops[j].landed
  BY <1>1, <1>2, <1>3, <1>4, RunIs DEF Inv
<1>6. /\ drain'.at = "settle" /\ drain'.list = drain.list /\ drain'.owed = drain.owed
      /\ drain'.id = drain.id /\ drain'.op = drain.op
  BY <1>1 DEF Inv, TypeOK
<1>7. TypeOK'
  BY <1>1, <1>5 DEF Inv, TypeOK, history
<1>8. Identity'
  BY <1>1, <1>5, IdentityKept DEF Inv, Present
<1>9. Proceeds
  BY <1>5 DEF Proceeds, Present
<1>10. \A j \in Present : OlderOwed(j)' \subseteq OlderOwed(j)
  BY <1>5, <1>9, OlderShrinks DEF Present
<1>11. Commands' /\ OneOwner' /\ CallersWait'
  BY <1>1, <1>5, <1>9, CommandsUnmoved DEF Inv, Queue, Commands, Owns, InState, Present
<1>12. NoOrphans'
  BY <1>1, <1>5 DEF Inv, Queue, NoOrphans, Owns, InState, Present
<1>13. Listed'
  BY <1>1, <1>5, <1>6 DEF Inv, Queue, Listed, Owns, InState, Present
<1>14. DrainOrder'
  <2> SUFFICES ASSUME NEW k \in drain.list, NEW j \in OlderOwed(k)'
               PROVE  Marked(k, j)'
    BY <1>6 DEF DrainOrder
  <2>1. k \in Present
    BY DEF Inv, Queue, Listed, InState
  <2>2. j \in OlderOwed(k) /\ Marked(k, j)
    BY <1>10, <2>1 DEF Inv, Queue, DrainOrder
  <2> QED
    BY <1>1, <1>5, <1>6, <2>1, <2>2 DEF Marked, Stays
<1>15. DrainRuns'
  <2>1. OlderOwed(i)' = {} /\ i \in InState({"queued"})'
    BY <1>3, <1>5, <1>10 DEF InState, Present
  <2>2. \A c \in Clients : ~Owns(c, i)'
    BY <1>1, <1>2 DEF Inv, Queue, DrainRuns, Owns
  <2> QED
    BY <1>1, <1>2, <1>3, <1>5, <1>6, <2>1, <2>2 DEF Inv, Queue, DrainRuns, Stays
<1>16. LandedInOrder'
  <2> SUFFICES ASSUME NEW j \in Ids, ops'[j] # None, ops'[j].landed,
                      ops'[j].state \in {"queued", "settling"}
               PROVE  OlderOwed(j)' = {}
    BY DEF LandedInOrder, Owed, InState, Present
  <2>1. j \in Present
    BY <1>5 DEF Present
  <2>2. OlderOwed(j) = {}
    BY <1>3, <1>5, <2>1 DEF Inv, Queue, LandedInOrder, Owed, InState, Present
  <2> QED
    BY <1>10, <2>1, <2>2
<1>17. ParkedUnrun'
  <2> SUFFICES ASSUME NEW j \in Ids, ops'[j] # None, ops'[j].state = "failed",
                      ops'[j].attempts < MaxAttempts, ops'[j].landed
               PROVE  FALSE
    BY DEF ParkedUnrun, InState, Present
  <2>1. j \in Present
    BY <1>5 DEF Present
  <2> QED
    BY <1>3, <1>5, <2>1 DEF Inv, Queue, ParkedUnrun, InState, Present
<1> QED
  BY <1>7, <1>8, <1>11, <1>12, <1>13, <1>14, <1>15, <1>16, <1>17 DEF Inv, Queue

LEMMA DrainSettleKeeps ==
    ASSUME Inv, DrainSettle
    PROVE  Inv'
<1>1. PICK i \in Ids : i = drain.id
  BY DEF DrainSettle, Inv, Queue, DrainRuns, InState, Present
<1>2. /\ UNCHANGED <<server, pc, cur, crashes, replies, heirs>> /\ drain.at = "settle"
      /\ i \in InState({"queued"}) /\ i \in Present /\ i \in Owed /\ i \notin drain.list
      /\ ops[i] \in Op /\ OlderOwed(i) = {}
      /\ \A c \in Clients : ~Owns(c, i)
      /\ drain.op.row = ops[i].row /\ drain.op.kind = ops[i].kind
      /\ drain.op.attempts = ops[i].attempts
  BY <1>1 DEF DrainSettle, Inv, TypeOK, Queue, DrainRuns, Owed, InState, Present
<1>3. /\ ops' \in [Ids -> Op \cup {None}] /\ OthersStay(i) /\ RowsStay /\ misled' \subseteq Mails
      /\ ops'[i] # None =>
            /\ Stays(i) /\ ops'[i].landed = ops[i].landed
            /\ ops'[i].state \in {ops[i].state, "failed"}
            /\ ops'[i].state = "failed" => ops'[i].attempts >= MaxAttempts
      /\ \E owed \in [Rows -> Ids \cup {None}] :
            /\ drain' = [drain EXCEPT !.at = "next", !.id = None, !.op = None, !.owed = owed]
            /\ \A t \in Rows : drain.owed[t] # None => owed[t] # None /\ owed[t] <= drain.owed[t]
            /\ ops'[i] # None /\ ops'[i].state = "queued" /\ OrdersLaterOps(ops[i]) =>
                   owed[ops[i].row] # None /\ owed[ops[i].row] <= i
  <2>1. drain.owed \in [Rows -> Ids \cup {None}]
    BY DEF Inv, TypeOK
  <2>2. \A t \in Rows : drain.owed[t] # None => drain.owed[t] <= drain.owed[t]
    BY <2>1, OpIdsAssumption
  <2>3. CASE drain' = [drain EXCEPT !.at = "next", !.id = None, !.op = None]
             /\ \/ ops' = Retired(i) /\ UNCHANGED <<rows, misled>>
                \/ Refuse(i, "park") /\ ops[i].attempts + 1 >= MaxAttempts
    <3>1. drain' = [drain EXCEPT !.at = "next", !.id = None, !.op = None, !.owed = drain.owed]
      BY <2>3 DEF Inv, TypeOK
    <3>2. \E owed \in [Rows -> Ids \cup {None}] :
            /\ drain' = [drain EXCEPT !.at = "next", !.id = None, !.op = None, !.owed = owed]
            /\ \A t \in Rows : drain.owed[t] # None => owed[t] # None /\ owed[t] <= drain.owed[t]
            /\ ops'[i] # None /\ ops'[i].state = "queued" /\ OrdersLaterOps(ops[i]) =>
                   owed[ops[i].row] # None /\ owed[ops[i].row] <= i
      <4>1. ops' = Retired(i) => ops'[i] = None
        BY RetiredIs DEF Inv
      <4>2. Refuse(i, "park") => ops'[i].state = "failed"
        BY <1>2, UndoneIs DEF Refuse, Inv
      <4> QED
        BY <2>1, <2>2, <2>3, <3>1, <4>1, <4>2
    <3>3. CASE ops' = Retired(i) /\ UNCHANGED <<rows, misled>>
      BY <3>2, <3>3, RetiredIs DEF Inv, TypeOK, RowsStay
    <3>4. CASE Refuse(i, "park") /\ ops[i].attempts + 1 >= MaxAttempts
      <4>1. /\ rows' = RowUndone(RefusedWith(i)) /\ ops' = OpsRefused(RefusedWith(i), "park")
            /\ misled' = IF ops[i].landed THEN misled \cup {ops[i].mail} ELSE misled
        BY <1>2, <3>4 DEF Refuse
      <4>2. misled' \subseteq Mails
        BY <1>2, <4>1 DEF Inv, TypeOK, Op
      <4>3. /\ ops' \in [Ids -> Op \cup {None}] /\ OthersStay(i) /\ RowsStay
            /\ Stays(i) /\ ops'[i].landed = ops[i].landed
            /\ ops'[i].state = "failed" /\ ops'[i].attempts = ops[i].attempts + 1
        BY <1>2, <4>1, UndoneIs DEF Inv
      <4> QED
        BY <3>2, <3>4, <4>2, <4>3
    <3> QED
      BY <2>3, <3>3, <3>4
  <2>4. CASE /\ ops' = [ops EXCEPT ![i].attempts = @ + 1] /\ UNCHANGED <<rows, misled>>
             /\ drain' = [drain EXCEPT !.at = "next", !.id = None, !.op = None,
                                       !.owed = StillOwed(i, drain.op)]
    <3>1. [ops[i] EXCEPT !.attempts = ops[i].attempts + 1] \in Op
      BY <1>2 DEF Op
    <3>2. /\ [ops[i] EXCEPT !.attempts = ops[i].attempts + 1].row = ops[i].row
          /\ [ops[i] EXCEPT !.attempts = ops[i].attempts + 1].mail = ops[i].mail
          /\ [ops[i] EXCEPT !.attempts = ops[i].attempts + 1].kind = ops[i].kind
          /\ [ops[i] EXCEPT !.attempts = ops[i].attempts + 1].state = ops[i].state
          /\ [ops[i] EXCEPT !.attempts = ops[i].attempts + 1].landed = ops[i].landed
      BY <1>2 DEF Op
    <3>3. /\ ops'[i] = [ops[i] EXCEPT !.attempts = ops[i].attempts + 1]
          /\ \A j \in Ids \ {i} : ops'[j] = ops[j]
          /\ ops' \in [Ids -> Op \cup {None}]
      BY <2>4, <3>1 DEF Inv, TypeOK
    <3>4. ops'[i] # None /\ ops[i] # None /\ ops[i].state = "queued"
      BY <1>2, <3>1, <3>3, NoneAssumption DEF InState, Present
    <3>5. OthersStay(i)
      BY <3>3 DEF OthersStay, Stays
    <3>6. RowsStay /\ misled' \subseteq Mails
      BY <2>4 DEF RowsStay, Inv, TypeOK
    <3>7. /\ StillOwed(i, drain.op) \in [Rows -> Ids \cup {None}]
          /\ \A t \in Rows : drain.owed[t] # None =>
                /\ StillOwed(i, drain.op)[t] # None
                /\ StillOwed(i, drain.op)[t] <= drain.owed[t]
          /\ OrdersLaterOps(drain.op) =>
                /\ StillOwed(i, drain.op)[drain.op.row] # None
                /\ StillOwed(i, drain.op)[drain.op.row] <= i
      <4>1. drain.op.row \in Rows
        BY <1>2 DEF Op
      <4> QED
        BY <4>1, StillOwedIs DEF Inv
    <3>8. OrdersLaterOps(ops[i]) => OrdersLaterOps(drain.op)
      BY <1>2 DEF OrdersLaterOps
    <3>9. \E owed \in [Rows -> Ids \cup {None}] :
            /\ drain' = [drain EXCEPT !.at = "next", !.id = None, !.op = None, !.owed = owed]
            /\ \A t \in Rows : drain.owed[t] # None => owed[t] # None /\ owed[t] <= drain.owed[t]
            /\ ops'[i] # None /\ ops'[i].state = "queued" /\ OrdersLaterOps(ops[i]) =>
                   owed[ops[i].row] # None /\ owed[ops[i].row] <= i
      BY <1>2, <2>4, <3>7, <3>8
    <3> QED
      BY <3>2, <3>3, <3>4, <3>5, <3>6, <3>9 DEF Stays
  <2> QED
    BY <1>1, <1>2, <2>3, <2>4 DEF DrainSettle
<1>4. PICK owed \in [Rows -> Ids \cup {None}] :
          /\ drain' = [drain EXCEPT !.at = "next", !.id = None, !.op = None, !.owed = owed]
          /\ \A t \in Rows : drain.owed[t] # None => owed[t] # None /\ owed[t] <= drain.owed[t]
          /\ ops'[i] # None /\ ops'[i].state = "queued" /\ OrdersLaterOps(ops[i]) =>
                 owed[ops[i].row] # None /\ owed[ops[i].row] <= i
  BY <1>3
<1>5. /\ drain'.at = "next" /\ drain'.list = drain.list /\ drain'.owed = owed
      /\ drain'.id = None /\ drain'.op = None
  BY <1>4 DEF Inv, TypeOK
<1>6. TypeOK'
  BY <1>2, <1>3, <1>4 DEF Inv, TypeOK, RowsStay
<1>7. /\ Proceeds /\ LandedInOrder'
      /\ \A j \in Present \ {i} : Stays(j) /\ OlderOwed(j)' \subseteq OlderOwed(j)
      /\ \A j \in Present \ {i} : OlderOwed(j) = {} => ops'[j].state = ops[j].state
      /\ \A j \in Ids \ {i} :
            ops'[j] # None /\ ops'[j].state = "failed" /\ ops'[j].landed =>
                /\ ops[j] # None /\ ops[j].state = "failed" /\ ops[j].landed
                /\ ops'[j].attempts = ops[j].attempts
  BY <1>3, OthersProceed DEF Inv, Queue
<1>8. Identity'
  BY <1>2, <1>3, IdentityKept DEF Inv, OthersStay, RowsStay
<1>9. Commands' /\ OneOwner' /\ CallersWait'
  <2>1. \A d \in Clients, j \in Ids : Owns(d, j) => j \in Present \ {i}
    BY <1>2 DEF Inv, Queue, Commands, Owns, InState
  <2>2. \A d \in Clients, j \in Ids :
            Owns(d, j) => ops'[j] # None /\ (pc[d] = "execute" => ops'[j].state = ops[j].state)
    <3> SUFFICES ASSUME NEW d \in Clients, NEW j \in Ids, Owns(d, j)
                 PROVE  /\ ops'[j] # None
                        /\ pc[d] = "execute" => ops'[j].state = ops[j].state
      OBVIOUS
    <3>1. j \in Present \ {i}
      BY <2>1
    <3>2. pc[d] = "execute" => OlderOwed(j) = {}
      BY DEF Inv, Queue, CallersWait, Owns
    <3> QED
      BY <1>7, <3>1, <3>2 DEF Stays
  <2> QED
    BY <1>2, <1>7, <2>2, CommandsUnmoved DEF Inv
<1>10. NoOrphans'
  <2>1. \A j \in Ids : ops'[j] # None /\ ops'[j].state = "settling" => j \in InState({"settling"})
    BY <1>2, <1>3 DEF OthersStay, InState, Present
  <2> QED
    BY <1>2, <2>1 DEF Inv, Queue, NoOrphans, Owns, InState, Present
<1>11. Listed'
  BY <1>2, <1>3, <1>5 DEF Inv, Queue, Listed, OthersStay, Owns, InState, Present
<1>12. DrainOrder'
  <2> SUFFICES ASSUME NEW k \in drain.list, NEW j \in OlderOwed(k)', j \notin drain.list
               PROVE  Marked(k, j)'
    BY <1>5 DEF DrainOrder, Marked
  <2>1. k \in Present \ {i} /\ ops[k].row \in Rows
    BY <1>2 DEF Inv, Queue, Listed, TypeOK, InState, Present, Op
  <2>2. j \in OlderOwed(k) /\ Marked(k, j) /\ Stays(k)
    BY <1>7, <2>1 DEF Inv, Queue, DrainOrder
  <2>3. j \in Ids /\ ops'[j] # None /\ ops'[j].state \in {"queued", "settling"}
    BY DEF OlderOwed, Owed, InState, Present
  <2>4. CASE j = i
    <3>1. OrdersLaterOps(ops[i]) /\ ops[i].row = ops[k].row
      BY <2>2, <2>4 DEF OlderOwed
    <3>2. ops'[i].state = "queued"
      BY <1>2, <1>3, <2>3, <2>4 DEF InState
    <3> QED
      BY <1>4, <1>5, <2>2, <2>3, <2>4, <3>1, <3>2 DEF Marked, Stays
  <2>5. CASE j # i
    <3>1. drain.owed[ops[k].row] # None /\ drain.owed[ops[k].row] <= j
      BY <1>1, <1>2, <2>2, <2>5 DEF Marked
    <3>2. drain.owed[ops[k].row] \in Nat /\ owed[ops[k].row] \in Nat /\ j \in Nat
      BY <1>4, <2>1, <2>3, <3>1, OpIdsAssumption DEF Inv, TypeOK
    <3>3. owed[ops[k].row] # None /\ owed[ops[k].row] <= j
      BY <1>4, <2>1, <3>1, <3>2
    <3> QED
      BY <1>5, <2>2, <3>3 DEF Marked, Stays
  <2> QED
    BY <2>4, <2>5
<1>13. DrainRuns'
  BY <1>5 DEF DrainRuns
<1>14. ParkedUnrun'
  <2> SUFFICES ASSUME NEW j \in Ids, ops'[j] # None, ops'[j].state = "failed",
                      ops'[j].attempts < MaxAttempts, ops'[j].landed
               PROVE  FALSE
    BY DEF ParkedUnrun, InState, Present
  <2>1. CASE j = i
    <3>1. ops'[i].attempts \in Nat /\ MaxAttempts \in Nat
      BY <1>3, <2>1, LimitsAssumption DEF Op
    <3> QED
      BY <1>3, <2>1, <3>1
  <2>2. CASE j # i
    BY <1>7, <2>2 DEF Inv, Queue, ParkedUnrun, InState, Present
  <2> QED
    BY <2>1, <2>2
<1> QED
  BY <1>6, <1>7, <1>8, <1>9, <1>10, <1>11, <1>12, <1>13, <1>14 DEF Inv, Queue

-----------------------------------------------------------------------------
(* Replies, arrivals and crashes.                                            *)

LEMMA ReplyKeeps ==
    ASSUME Inv, NEW t \in Rows, Reply(t)
    PROVE  Inv'
<1> DEFINE op == [kind |-> "set_answered", row |-> t, mail |-> rows[t].mail,
                  from |-> rows[t].box, to |-> rows[t].box, on |-> TRUE,
                  prev |-> rows[t].box, old |-> rows[t].flags,
                  state |-> "queued", attempts |-> 0, landed |-> FALSE]
<1>1. /\ UNCHANGED <<server, pc, cur, drain, crashes, misled, heirs>>
      /\ replies' = replies + 1 /\ rows[t] # None
      /\ rows' = [rows EXCEPT ![t].flags = @ \cup {"answered"}]
  BY DEF Reply
<1>2. PICK n \in Ids : IsNextId(n) /\ ops' = [ops EXCEPT ![n] = op]
  BY DEF Reply
<1>3. /\ op \in Op /\ op.row = t /\ op.mail = rows[t].mail /\ op.kind # "delete"
      /\ ~op.landed /\ op.state = "queued"
  BY <1>1 DEF Inv, TypeOK, Op, Message, AllKinds
<1> HIDE DEF op
<1>4. /\ op # None /\ ops'[n] = op /\ ops[n] = None
      /\ \A i \in Ids : i # n => ops'[i] = ops[i]
      /\ \A i \in Present : i < n
  <2>1. \A i \in Present : i < n
    BY <1>2 DEF IsNextId
  <2>2. n \notin Present
    BY <2>1, OpIdsAssumption
  <2> QED
    BY <1>2, <1>3, <2>1, <2>2, NoneAssumption DEF Inv, TypeOK, Present
<1>5. /\ rows' \in [Rows -> Message \cup {None}]
      /\ \A u \in Rows : rows'[u] # None => rows[u] # None /\ rows'[u].mail = rows[u].mail
  <2>1. rows[t] \in Message
    BY <1>1 DEF Inv, TypeOK
  <2>2. /\ [rows[t] EXCEPT !.flags = @ \cup {"answered"}] \in Message
        /\ [rows[t] EXCEPT !.flags = @ \cup {"answered"}].mail = rows[t].mail
    BY <2>1 DEF Message, Flags
  <2>3. rows' = [rows EXCEPT ![t] = [rows[t] EXCEPT !.flags = @ \cup {"answered"}]]
    BY <1>1 DEF Inv, TypeOK
  <2> QED
    BY <1>1, <2>2, <2>3 DEF Inv, TypeOK
<1>6. TypeOK'
  BY <1>1, <1>2, <1>3, <1>5 DEF Inv, TypeOK
<1>7. Identity'
  BY <1>1, <1>2, <1>3, <1>5, IdentityAdds DEF Inv
<1>8. Proceeds
  BY <1>4 DEF Proceeds, Stays
<1>9. Commands' /\ OneOwner' /\ CallersWait'
  <2>1. \A d \in Clients, i \in Ids :
            Owns(d, i) => ops'[i] # None /\ (pc[d] = "execute" => ops'[i].state = ops[i].state)
    BY <1>4 DEF Inv, Queue, Commands, Owns, InState, Present
  <2> QED
    BY <1>1, <1>8, <2>1, CommandsUnmoved DEF Inv
<1>10. NoOrphans'
  BY <1>1, <1>3, <1>4 DEF Inv, Queue, NoOrphans, Live, Owns, InState, Present
<1>11. Listed' /\ DrainOrder' /\ DrainRuns'
  BY <1>1, <1>4, <1>8, DrainUnmoved DEF Inv, Queue, Listed, DrainRuns, Owns, InState, Present
<1>12. LandedInOrder'
  BY <1>3, <1>4, <1>8, LandedKept DEF Inv, Queue
<1>13. ParkedUnrun'
  BY <1>3, <1>4 DEF Inv, Queue, ParkedUnrun, InState, Present
<1> QED
  BY <1>6, <1>7, <1>9, <1>10, <1>11, <1>12, <1>13 DEF Inv, Queue

(* A mail that arrives is named by nothing yet.                              *)
LEMMA ArriveKeeps ==
    ASSUME Inv, NEW t \in Rows, NEW m \in Mails, Arrive(t, m)
    PROVE  Inv'
<1>1. /\ UNCHANGED <<ops, pc, cur, drain, crashes, replies, misled>>
      /\ rows[t] = None /\ server[m] = None /\ heirs' \subseteq Mails
      /\ rows' = [rows EXCEPT ![t] = [mail |-> m, box |-> Inbox, flags |-> {}]]
      /\ server' = [server EXCEPT ![m] = [box |-> Inbox, flags |-> {}]]
  BY DEF Arrive, Inv, TypeOK
<1>2. /\ [mail |-> m, box |-> Inbox, flags |-> {}] \in Message
      /\ [box |-> Inbox, flags |-> {}] \in [box : Boxes \cup {None}, flags : SUBSET Flags]
  BY HomeAssumption DEF Message
<1>3. TypeOK'
  BY <1>1, <1>2 DEF Inv, TypeOK
<1>4. /\ rows'[t] # None /\ rows'[t].mail = m
      /\ \A u \in Rows : u # t => rows'[u] = rows[u]
      /\ server'[m] # None /\ \A k \in Mails : k # m => server'[k] = server[k]
  <2>1. rows \in [Rows -> Message \cup {None}] /\ DOMAIN server = Mails
    BY DEF Inv, TypeOK
  <2>2. rows'[t] = [mail |-> m, box |-> Inbox, flags |-> {}]
    BY <1>1, <2>1
  <2>3. server'[m] = [box |-> Inbox, flags |-> {}]
    BY <1>1, <2>1
  <2>4. rows'[t] # None /\ server'[m] # None
    BY <1>2, <2>2, <2>3, NoneAssumption
  <2>5. \A u \in Rows : u # t => rows'[u] = rows[u]
    BY <1>1, <2>1
  <2>6. \A k \in Mails : k # m => server'[k] = server[k]
    BY <1>1, <2>1
  <2> QED
    BY <2>2, <2>4, <2>5, <2>6
<1>5. /\ \A u \in Rows : rows[u] # None => rows[u].mail # m
      /\ \A i \in Present : ops[i].mail # m
  BY <1>1 DEF Inv, Identity, Arrived
<1>6. Identity'
  <2>1. RowsApart'
    BY <1>4, <1>5 DEF Inv, Identity, RowsApart
  <2>2. Arrived'
    BY <1>1, <1>4 DEF Inv, Identity, Arrived, Present
  <2>3. OneRow'
    BY <1>1, <1>4, <1>5 DEF Inv, Identity, OneRow, Present
  <2>4. SameRow'
    BY <1>1 DEF Inv, Identity, SameRow, Present
  <2> QED
    BY <2>1, <2>2, <2>3, <2>4 DEF Identity
<1>7. Queue'
  BY <1>1 DEF Inv, Queue, Commands, OneOwner, NoOrphans, CallersWait, Listed, DrainOrder,
              DrainRuns, LandedInOrder, ParkedUnrun, Owns, Live, Marked, OlderOwed, Owed,
              InState, Present, OrdersLaterOps
<1> QED
  BY <1>3, <1>6, <1>7 DEF Inv

LEMMA CrashKeeps ==
    ASSUME Inv, Crash
    PROVE  Inv'
<1>1. /\ UNCHANGED <<rows, ops, server, replies, misled, heirs>> /\ crashes' = crashes + 1
      /\ drain' = Idle /\ cur' = [c \in Clients |-> None]
      /\ pc' = [c \in Clients |-> IF pc[c] = "idle" THEN "idle" ELSE "ended"]
  BY DEF Crash
<1>2. TypeOK'
  BY <1>1 DEF Inv, TypeOK, Idle, Answers
<1>3. Identity'
  BY <1>1 DEF Inv, Identity, RowsApart, Arrived, OneRow, SameRow, Present
<1>4. \A c \in Clients : pc'[c] \in {"idle", "ended"} /\ cur'[c] = None
  BY <1>1
<1>5. Commands' /\ OneOwner' /\ CallersWait'
  BY <1>4 DEF Commands, OneOwner, CallersWait, Owns, Settlings
<1>6. NoOrphans' /\ Listed' /\ DrainOrder' /\ DrainRuns'
  BY <1>1, <1>4 DEF NoOrphans, Live, Listed, DrainOrder, DrainRuns, Idle
<1>7. LandedInOrder' /\ ParkedUnrun'
  BY <1>1 DEF Inv, Queue, LandedInOrder, ParkedUnrun, OlderOwed, Owed, InState, Present,
              OrdersLaterOps
<1> QED
  BY <1>2, <1>3, <1>5, <1>6, <1>7 DEF Inv, Queue

-----------------------------------------------------------------------------
(* The invariant holds.                                                      *)

LEMMA InitInv ==
    ASSUME Init
    PROVE  Inv
<1>1. TypeOK
  <2>1. \A t \in Rows : [mail |-> Home[t], box |-> Inbox, flags |-> {}] \in Message
    BY HomeAssumption DEF Message
  <2>2. [box |-> Inbox, flags |-> {}] \in [box : Boxes \cup {None}, flags : SUBSET Flags]
    BY HomeAssumption
  <2> QED
    BY <2>1, <2>2 DEF Init, TypeOK, Idle, Answers
<1>2. Present = {}
  BY DEF Init, Present
<1>3. Identity
  <2>1. \A t \in Rows : rows[t] # None /\ rows[t].mail = Home[t]
    BY HomeAssumption, NoneAssumption DEF Init, Message
  <2>2. \A t \in Rows : server[Home[t]] # None
    BY HomeAssumption, NoneAssumption DEF Init
  <2> QED
    BY <1>2, <2>1, <2>2, HomeAssumption DEF Identity, RowsApart, Arrived, OneRow, SameRow
<1>4. Queue
  BY <1>2 DEF Init, Idle, Queue, Commands, OneOwner, NoOrphans, CallersWait, Listed, DrainOrder,
              DrainRuns, LandedInOrder, ParkedUnrun, Owns, Settlings, Live, Owed, InState
<1> QED
  BY <1>1, <1>3, <1>4 DEF Inv

LEMMA StepInv ==
    ASSUME Inv, [Next]_vars
    PROVE  Inv'
<1>1. CASE UNCHANGED vars
  BY <1>1 DEF vars, Inv, TypeOK, Identity, RowsApart, Arrived, OneRow, SameRow, Queue, Commands,
              OneOwner, NoOrphans, CallersWait, Listed, DrainOrder, DrainRuns, LandedInOrder,
              ParkedUnrun, Owns, Live, Marked, OlderOwed, Owed, InState, Present, OrdersLaterOps
<1>2. ASSUME NEW c \in Clients, CommandStep(c) \/ \E ask \in Asks : Address(c, ask)
      PROVE  Inv'
  BY <1>2, RecoverKeeps, CommitKeeps, PollKeeps, OwnKeeps, GiveUpKeeps, SettleKeeps, ExecuteKeeps,
     AddressKeeps DEF CommandStep
<1>3. CASE DrainStep
  BY <1>3, StartDrainKeeps, ListQueuedKeeps, ReadTargetsKeeps, SkipRowKeeps, DeferRowKeeps,
     TakeRowKeeps, DrainSettleKeeps, EndDrainKeeps, DrainExecuteKeeps DEF DrainStep, DrainRow
<1>4. ASSUME NEW t \in Rows, Reply(t) \/ \E m \in Mails : Arrive(t, m)
      PROVE  Inv'
  BY <1>4, ReplyKeeps, ArriveKeeps
<1>5. CASE Crash
  BY <1>5, CrashKeeps
<1> QED
  BY <1>1, <1>2, <1>3, <1>4, <1>5 DEF Next

LEMMA Invariance == Spec => []Inv
BY InitInv, StepInv, PTL DEF Spec

-----------------------------------------------------------------------------
(* The theorems.                                                             *)

(* The variables and the parts of the queue have their types.                *)
THEOREM QueueTyping == Spec => []TypeOK
<1>1. Inv => TypeOK
  BY DEF Inv
<1> QED
  BY <1>1, Invariance, PTL

(* The ops on a mail reach the server in the order they were committed, by   *)
(* the drain and by the callers that settle their own (older_owed,           *)
(* still_owed, settling_targets).                                            *)
THEOREM QueueRunsInOrder == Spec => []RunsInOrder
<1>1. ASSUME Inv
      PROVE  RunsInOrder
  <2> SUFFICES ASSUME NEW i \in Present, Running(i), NEW j \in Owed, j < i,
                      ops[j].mail = ops[i].mail
               PROVE  FALSE
    BY DEF RunsInOrder
  <2>1. OlderOwed(i) = {}
    BY <1>1 DEF Running, Inv, Queue, DrainRuns, CallersWait
  <2>2. j \in Present
    BY DEF Owed, InState
  <2>3. ops[j].row = ops[i].row /\ ops[j].kind # "delete"
    BY <1>1, <2>2 DEF Inv, Identity, SameRow
  <2> QED
    BY <2>1, <2>3 DEF OlderOwed, OrdersLaterOps
<1> QED
  BY <1>1, Invariance, PTL

(* An op that refuse parks with an older one has not been run: the server    *)
(* has nothing to undo.                                                      *)
THEOREM QueueParkedUnrun == Spec => []ParkedUnrun
<1>1. Inv => ParkedUnrun
  BY DEF Inv, Queue
<1> QED
  BY <1>1, Invariance, PTL

(* What no step does to a row: take the mark of a reply from it.             *)
AnsweredStays ==
    \A t \in Rows :
        /\ rows[t] # None /\ rows'[t] # None /\ rows[t].mail = rows'[t].mail
        /\ "answered" \in rows[t].flags
        => "answered" \in rows'[t].flags

LEMMA RefuseAnswered ==
    ASSUME TypeOK, NEW i \in Ids, NEW how \in {"park", "discard"}, Refuse(i, how)
    PROVE  AnsweredStays
<1>1. CASE /\ i \in InState({"queued", "settling"})
           /\ rows' = RowUndone(RefusedWith(i))
  <2>1. ops[i] # None
    BY <1>1 DEF InState, Present
  <2> QED
    BY <1>1, <2>1, RefusedRows DEF AnsweredStays
<1>2. CASE rows' = rows
  BY <1>2 DEF AnsweredStays
<1> QED
  BY <1>1, <1>2 DEF Refuse, InState

LEMMA CommitAnswered ==
    ASSUME Inv, NEW c \in Clients, Commit(c)
    PROVE  AnsweredStays
<1> DEFINE ask == cur[c]
<1>1. CASE rows[ask.row] = None
  BY <1>1 DEF Commit, AnsweredStays
<1>2. CASE rows[ask.row] # None
  <2>1. /\ rows' = [rows EXCEPT ![ask.row] = Applied(rows[ask.row], ask)]
        /\ ask \in Ask /\ ask.row \in Rows /\ rows[ask.row] \in Message
    BY <1>2 DEF Commit, Inv, TypeOK, Queue, Commands, Ask
  <2>2. ASSUME Applied(rows[ask.row], ask) # None, "answered" \in rows[ask.row].flags
        PROVE  "answered" \in Applied(rows[ask.row], ask).flags
    <3>1. CASE ask.kind = "move"
      BY <2>1, <2>2, <3>1 DEF Applied, Message
    <3>2. CASE ask.kind = "delete"
      BY <2>2, <3>2 DEF Applied
    <3>3. CASE ask.kind \notin {"move", "delete"}
      <4>1. "answered" \in WithBit(rows[ask.row].flags, BitOf(ask.kind), ask.on)
        BY <2>2 DEF WithBit, BitOf
      <4>2. Applied(rows[ask.row], ask) =
                [rows[ask.row] EXCEPT !.flags =
                    WithBit(rows[ask.row].flags, BitOf(ask.kind), ask.on)]
        BY <3>3 DEF Applied
      <4> QED
        BY <2>1, <4>1, <4>2 DEF Message
    <3> QED
      BY <3>1, <3>2, <3>3
  <2> QED
    BY <2>1, <2>2 DEF Inv, TypeOK, AnsweredStays
<1> QED
  BY <1>1, <1>2

LEMMA StepAnswered ==
    ASSUME Inv, Next
    PROVE  AnsweredStays
<1>1. CASE rows' = rows
  BY <1>1 DEF AnsweredStays
<1>2. ASSUME NEW c \in Clients, CommandStep(c) \/ \E ask \in Asks : Address(c, ask)
      PROVE  AnsweredStays
  <2>1. CASE Settle(c)
    <3>1. cur[c].id \in Ids
      BY <2>1 DEF Settle, Inv, Queue, Commands, Settlings, InState, Present
    <3> QED
      BY <1>1, <2>1, <3>1, RefuseAnswered DEF Settle, Inv
  <2>2. CASE Commit(c)
    BY <2>2, CommitAnswered
  <2>3. CASE ~Settle(c) /\ ~Commit(c)
    BY <1>1, <1>2, <2>3 DEF CommandStep, Address, Recover, Poll, Own, GiveUp, Execute
  <2> QED
    BY <2>1, <2>2, <2>3
<1>3. CASE DrainStep
  <2>1. CASE DrainSettle
    <3>1. drain.id \in Ids
      BY <2>1 DEF DrainSettle, Inv, Queue, DrainRuns, InState, Present
    <3> QED
      BY <1>1, <2>1, <3>1, RefuseAnswered DEF DrainSettle, Inv
  <2>2. CASE ~DrainSettle
    BY <1>1, <1>3, <2>2 DEF DrainStep, DrainRow, StartDrain, ListQueued, ReadTargets, SkipRow,
                            DeferRow, TakeRow, DrainExecute, EndDrain
  <2> QED
    BY <2>1, <2>2
<1>4. ASSUME NEW t \in Rows, Reply(t) \/ \E m \in Mails : Arrive(t, m)
      PROVE  AnsweredStays
  <2>1. CASE Reply(t)
    <3>1. /\ rows' = [rows EXCEPT ![t] = [rows[t] EXCEPT !.flags = @ \cup {"answered"}]]
          /\ rows[t] \in Message
      BY <2>1 DEF Reply, Inv, TypeOK
    <3>2. [rows[t] EXCEPT !.flags = @ \cup {"answered"}].flags = rows[t].flags \cup {"answered"}
      BY <3>1 DEF Message
    <3> QED
      BY <3>1, <3>2 DEF Inv, TypeOK, AnsweredStays
  <2>2. ASSUME NEW m \in Mails, Arrive(t, m)
        PROVE  AnsweredStays
    BY <2>2 DEF Arrive, Inv, TypeOK, AnsweredStays
  <2> QED
    BY <1>4, <2>1, <2>2
<1>5. CASE Crash
  BY <1>1, <1>5 DEF Crash
<1> QED
  BY <1>2, <1>3, <1>4, <1>5 DEF Next

(* No command, refusal, rollback or sync takes from a message the mark of a  *)
(* reply that was sent (apply_post_send_flag, roll_flag_back).               *)
THEOREM QueueAnsweredKept == Spec => AnsweredKept
<1>1. Inv /\ [Next]_vars => [AnsweredStays]_vars
  BY StepAnswered
<1> QED
  BY <1>1, Invariance, PTL DEF Spec, AnsweredKept, AnsweredStays

-----------------------------------------------------------------------------
(* Converged.  The ops owed on a row and not yet run are, for its folder and *)
(* for each of its bits, a chain from what the server has to what the store  *)
(* shows: the oldest starts from the server's value, each one from what the  *)
(* one before it leaves, and the newest leaves what is shown.  Every step    *)
(* keeps the chain: a commit adds an op at its end, a run takes its first,   *)
(* and a rollback takes its end or rejoins it.                               *)
(* W is the ids of the ops, p what each starts from and v what it leaves.    *)
Chain(W, a, z, p, v) ==
    /\ W = {} => a = z
    /\ \A i \in W : (\A j \in W : i <= j) => p[i] = a
    /\ \A i \in W : (\A j \in W : j <= i) => v[i] = z
    /\ \A i, j \in W : i < j /\ (\A k \in W : ~(i < k /\ k < j)) => p[j] = v[i]

OnRow(t) == {i \in Owed : ops[i].row = t}
Unrun(t) == {i \in OnRow(t) : ~ops[i].landed}
TogglesOf(t, f) == {i \in Unrun(t) : ops[i].kind \in Toggles /\ BitOf(ops[i].kind) = f}

Bit(b) == IF b THEN 1 ELSE 0

Froms   == [i \in Ids |-> ops[i].from]
Tos     == [i \in Ids |-> ops[i].to]
Olds(f) == [i \in Ids |-> Bit(f \in ops[i].old)]
Ons     == [i \in Ids |-> Bit(ops[i].on)]

(* The rows Converged speaks of.                                             *)
Trusted(t) == rows[t] # None /\ rows[t].mail \notin misled \cup heirs

Fits(t) ==
    \A i \in OnRow(t) :
        /\ ops[i].mail = rows[t].mail /\ ops[i].kind # "delete"
        /\ ops[i].prev = ops[i].from
        /\ ops[i].kind # "move" => ops[i].to = ops[i].from
Done(t) ==
    \A i \in OnRow(t) : ops[i].landed =>
        /\ server[rows[t].mail].box = ops[i].to
        /\ ops[i].kind \in Toggles =>
              Bit(BitOf(ops[i].kind) \in server[rows[t].mail].flags) = Bit(ops[i].on)
BoxChain(t) == Chain(Unrun(t), server[rows[t].mail].box, rows[t].box, Froms, Tos)
BitChain(t, f) ==
    Chain(TogglesOf(t, f), Bit(f \in server[rows[t].mail].flags), Bit(f \in rows[t].flags),
          Olds(f), Ons)
Told(t) == Fits(t) /\ Done(t) /\ BoxChain(t) /\ BitChain(t, "seen") /\ BitChain(t, "flagged")

(* A command holds the row it read as it is, and it is the only one to.      *)
Reading ==
    \A c \in Clients : pc[c] \in {"recover", "commit"} =>
        /\ rows[cur[c].row] # None
        /\ cur[c].from = rows[cur[c].row].box
        /\ cur[c].kind # "move" => cur[c].to = cur[c].from
        /\ \A d \in Clients : pc[d] \in {"recover", "commit"} => d = c

(* An op is answered for when it has reached the server.                     *)
AnsweredFor ==
    /\ \A c \in Clients :
          /\ pc[c] = "settle" /\ cur[c].answer # "error"
          /\ cur[c].id \in Owed /\ Trusted(ops[cur[c].id].row)
          => ops[cur[c].id].landed
    /\ drain.at = "settle" /\ drain.answer # "error" /\ Trusted(ops[drain.id].row)
          => ops[drain.id].landed
SameDrain ==
    drain.at \in {"execute", "settle"} =>
        /\ drain.op.from = ops[drain.id].from /\ drain.op.to = ops[drain.id].to
        /\ drain.op.on = ops[drain.id].on

(* The table is never endless.                                               *)
Bounded == \E n \in Nat : \A i \in Present : i <= n

Truth ==
    /\ \A t \in Rows : Trusted(t) => Told(t)
    /\ Reading /\ AnsweredFor /\ SameDrain /\ Bounded

-----------------------------------------------------------------------------
(* What each kind of step does to a chain.                                   *)

LEMMA ChainSame ==
    ASSUME NEW W, NEW a, NEW z, NEW p, NEW v, NEW q, NEW w, Chain(W, a, z, p, v),
           \A i \in W : q[i] = p[i] /\ w[i] = v[i]
    PROVE  Chain(W, a, z, q, w)
BY DEF Chain

(* A new op n starts from z, what is shown, and y is shown then.             *)
Appends(W, n, X, z, y, p, v, q, w) ==
    /\ W \subseteq Nat /\ n \in Nat /\ X = W \cup {n} /\ \A i \in W : i < n
    /\ \A i \in W : q[i] = p[i] /\ w[i] = v[i]
    /\ q[n] = z /\ w[n] = y

LEMMA ChainAppends ==
    ASSUME NEW W, NEW n, NEW X, NEW a, NEW z, NEW y, NEW p, NEW v, NEW q, NEW w,
           Chain(W, a, z, p, v), Appends(W, n, X, z, y, p, v, q, w)
    PROVE  Chain(X, a, y, q, w)
<1> USE DEF Appends
<1>1. ASSUME NEW i \in X, \A j \in X : i <= j
      PROVE  q[i] = a
  <2>1. CASE i = n
    <3>1. W = {}
      BY <1>1, <2>1
    <3> QED
      BY <2>1, <3>1 DEF Chain
  <2>2. CASE i \in W
    BY <1>1, <2>2 DEF Chain
  <2> QED
    BY <2>1, <2>2
<1>2. ASSUME NEW i \in X, \A j \in X : j <= i
      PROVE  w[i] = y
  <2>1. i = n
    BY <1>2
  <2> QED
    BY <2>1
<1>3. ASSUME NEW i \in X, NEW j \in X, i < j, \A k \in X : ~(i < k /\ k < j)
      PROVE  q[j] = w[i]
  <2>1. i \in W
    BY <1>3
  <2>2. CASE j = n
    <3>1. \A k \in W : k < n /\ ~(i < k /\ k < n)
      BY <1>3, <2>2
    <3>2. \A k \in W : k <= i
      BY <2>1, <3>1
    <3> QED
      BY <2>1, <2>2, <3>2 DEF Chain
  <2>3. CASE j \in W
    BY <1>3, <2>1, <2>3 DEF Chain
  <2> QED
    BY <2>2, <2>3
<1> QED
  BY <1>1, <1>2, <1>3 DEF Chain

(* The oldest op, i, has run: it leaves b.                                   *)
Lands(W, i, X, b, p, v, q, w) ==
    /\ W \subseteq Nat /\ i \in W /\ X = W \ {i} /\ \A j \in W : i <= j
    /\ \A j \in W : q[j] = p[j] /\ w[j] = v[j]
    /\ v[i] = b

LEMMA ChainLands ==
    ASSUME NEW W, NEW i, NEW X, NEW a, NEW b, NEW z, NEW p, NEW v, NEW q, NEW w,
           Chain(W, a, z, p, v), Lands(W, i, X, b, p, v, q, w)
    PROVE  Chain(X, b, z, q, w)
<1> USE DEF Lands
<1>1. ASSUME X = {}
      PROVE  v[i] = z
  <2>1. \A j \in W : j = i
    BY <1>1
  <2>2. \A j \in W : j <= i
    BY <2>1
  <2> QED
    BY <2>2 DEF Chain
<1>2. ASSUME NEW j \in X, \A k \in X : j <= k
      PROVE  q[j] = v[i]
  <2>1. i < j /\ \A k \in W : ~(i < k /\ k < j)
    BY <1>2
  <2> QED
    BY <2>1 DEF Chain
<1>3. ASSUME NEW j \in X, \A k \in X : k <= j
      PROVE  w[j] = z
  <2>1. \A k \in W : k <= j
    BY <1>3
  <2> QED
    BY <2>1 DEF Chain
<1>4. ASSUME NEW j \in X, NEW k \in X, j < k, \A l \in X : ~(j < l /\ l < k)
      PROVE  q[k] = w[j]
  <2>1. \A l \in W : l = i \/ ~(j < l /\ l < k)
    BY <1>4
  <2>2. \A l \in W : ~(j < l /\ l < k)
    BY <2>1
  <2> QED
    BY <1>4, <2>2 DEF Chain
<1> QED
  BY <1>1, <1>2, <1>3, <1>4 DEF Chain

(* The op k is undone with all the later ones: y is what it started from.    *)
Cuts(W, k, X, y, p, v, q, w) ==
    /\ W \subseteq Nat /\ k \in W /\ X = {j \in W : j < k}
    /\ \A j \in X : q[j] = p[j] /\ w[j] = v[j]
    /\ p[k] = y

LEMMA ChainCuts ==
    ASSUME NEW W, NEW k, NEW X, NEW a, NEW z, NEW y, NEW p, NEW v, NEW q, NEW w,
           Chain(W, a, z, p, v), Cuts(W, k, X, y, p, v, q, w)
    PROVE  Chain(X, a, y, q, w)
<1> USE DEF Cuts
<1>1. ASSUME X = {}
      PROVE  a = y
  <2>1. \A j \in W : ~ (j < k)
    BY <1>1
  <2>2. \A j \in W : k <= j
    BY <2>1
  <2> QED
    BY <2>2 DEF Chain
<1>2. ASSUME NEW j \in X, \A l \in X : j <= l
      PROVE  q[j] = a
  <2>1. \A l \in W : l < k => j <= l
    BY <1>2
  <2>2. \A l \in W : j <= l
    BY <2>1
  <2> QED
    BY <2>2 DEF Chain
<1>3. ASSUME NEW j \in X, \A l \in X : l <= j
      PROVE  w[j] = y
  <2>1. j < k /\ \A l \in W : l < k => l <= j
    BY <1>3
  <2>2. \A l \in W : ~(j < l /\ l < k)
    BY <2>1
  <2> QED
    BY <2>1, <2>2 DEF Chain
<1>4. ASSUME NEW j \in X, NEW l \in X, j < l, \A h \in X : ~(j < h /\ h < l)
      PROVE  q[l] = w[j]
  <2>1. j \in Nat /\ k \in Nat /\ l \in Nat /\ l < k
    OBVIOUS
  <2>2. \A h \in W : h < k => ~(j < h /\ h < l)
    BY <1>4
  <2>3. \A h \in W : ~(j < h /\ h < l)
    BY <2>1, <2>2
  <2> QED
    BY <1>4, <2>3 DEF Chain
<1> QED
  BY <1>1, <1>2, <1>3, <1>4 DEF Chain

(* The op k alone is undone: the next one starts from what k started from,   *)
(* or, where k was the newest, that is shown again.                          *)
IsNextOf(W, k, j) == j \in W /\ k < j /\ \A l \in W : ~(k < l /\ l < j)

Skips(W, k, X, z, y, p, v, q, w) ==
    /\ W \subseteq Nat /\ k \in W /\ X = W \ {k}
    /\ \A j \in X : w[j] = v[j]
    /\ \A j \in X : IsNextOf(W, k, j) => q[j] = p[k]
    /\ \A j \in X : ~IsNextOf(W, k, j) => q[j] = p[j]
    /\ (\A j \in W : j <= k) => y = p[k]
    /\ ~(\A j \in W : j <= k) => y = z

LEMMA ChainSkips ==
    ASSUME NEW W, NEW k, NEW X, NEW a, NEW z, NEW y, NEW p, NEW v, NEW q, NEW w,
           Chain(W, a, z, p, v), Skips(W, k, X, z, y, p, v, q, w)
    PROVE  Chain(X, a, y, q, w)
<1> USE DEF Skips
<1>1. ASSUME X = {}
      PROVE  a = y
  <2>1. \A j \in W : j = k
    BY <1>1
  <2>2. \A j \in W : j <= k /\ k <= j
    BY <2>1
  <2> QED
    BY <2>2 DEF Chain
<1>2. ASSUME NEW j \in X, \A l \in X : j <= l
      PROVE  q[j] = a
  <2>0. j \in Nat /\ k \in Nat /\ j # k /\ j \in W
    OBVIOUS
  <2>1. \A l \in W : l = k \/ j <= l
    BY <1>2
  <2>2. CASE j < k
    <3>1. \A l \in W : j <= l
      BY <2>0, <2>1, <2>2
    <3>2. ~IsNextOf(W, k, j)
      BY <2>0, <2>2 DEF IsNextOf
    <3> QED
      BY <3>1, <3>2 DEF Chain
  <2>3. CASE k < j
    <3>1. (\A l \in W : k <= l) /\ (\A l \in W : ~(k < l /\ l < j))
      BY <2>0, <2>1, <2>3
    <3>2. IsNextOf(W, k, j)
      BY <2>0, <2>3, <3>1 DEF IsNextOf
    <3> QED
      BY <3>1, <3>2 DEF Chain
  <2> QED
    BY <2>0, <2>2, <2>3
<1>3. ASSUME NEW j \in X, \A l \in X : l <= j
      PROVE  w[j] = y
  <2>0. j \in Nat /\ k \in Nat /\ j # k /\ j \in W
    OBVIOUS
  <2>1. \A l \in W : l = k \/ l <= j
    BY <1>3
  <2>2. CASE j < k
    <3>1. (\A l \in W : l <= k) /\ (\A l \in W : ~(j < l /\ l < k))
      BY <2>0, <2>1, <2>2
    <3> QED
      BY <2>0, <2>2, <3>1 DEF Chain
  <2>3. CASE k < j
    <3>1. (\A l \in W : l <= j) /\ ~(\A l \in W : l <= k)
      BY <2>0, <2>1, <2>3
    <3> QED
      BY <2>0, <3>1 DEF Chain
  <2> QED
    BY <2>0, <2>2, <2>3
<1>4. ASSUME NEW j \in X, NEW l \in X, j < l, \A h \in X : ~(j < h /\ h < l)
      PROVE  q[l] = w[j]
  <2>0. j \in Nat /\ k \in Nat /\ l \in Nat /\ j # k /\ l # k /\ j \in W /\ l \in W
    OBVIOUS
  <2>1. \A h \in W : h = k \/ ~(j < h /\ h < l)
    BY <1>4
  <2>2. CASE j < k /\ k < l
    <3>1. (\A h \in W : ~(k < h /\ h < l)) /\ (\A h \in W : ~(j < h /\ h < k))
      BY <2>0, <2>1, <2>2
    <3>2. IsNextOf(W, k, l) /\ p[k] = v[j]
      BY <2>0, <2>2, <3>1 DEF IsNextOf, Chain
    <3> QED
      BY <3>2
  <2>3. CASE ~(j < k /\ k < l)
    <3>1. \A h \in W : ~(j < h /\ h < l)
      BY <2>1, <2>3
    <3>2. ~IsNextOf(W, k, l)
      BY <1>4, <2>0, <2>3 DEF IsNextOf
    <3>3. p[l] = v[j]
      BY <1>4, <2>0, <3>1 DEF Chain
    <3> QED
      BY <3>2, <3>3
  <2> QED
    BY <2>2, <2>3
<1> QED
  BY <1>1, <1>2, <1>3, <1>4 DEF Chain

-----------------------------------------------------------------------------
(* What each kind of step does to what is told of a row.                     *)

(* An op that says the same after a step.                                    *)
SameOp(i) ==
    /\ ops'[i].row = ops[i].row /\ ops'[i].mail = ops[i].mail /\ ops'[i].kind = ops[i].kind
    /\ ops'[i].from = ops[i].from /\ ops'[i].to = ops[i].to /\ ops'[i].on = ops[i].on
    /\ ops'[i].prev = ops[i].prev /\ ops'[i].landed = ops[i].landed

LEMMA RowIds ==
    ASSUME NEW t
    PROVE  /\ OnRow(t) \subseteq Ids /\ Unrun(t) \subseteq OnRow(t) /\ Unrun(t) \subseteq Nat
           /\ \A f : TogglesOf(t, f) \subseteq Unrun(t) /\ TogglesOf(t, f) \subseteq Nat
BY OpIdsAssumption DEF OnRow, Unrun, TogglesOf, Owed, InState, Present

(* An op that leaves the row has reached the server, and the rest is as it   *)
(* was.                                                                      *)
LEMMA ToldKept ==
    ASSUME NEW t \in Rows, Told(t), rows'[t] = rows[t],
           server'[rows[t].mail] = server[rows[t].mail],
           OnRow(t)' \subseteq OnRow(t), \A i \in OnRow(t) \ OnRow(t)' : ops[i].landed,
           \A i \in OnRow(t)' : SameOp(i) /\ ops'[i].old = ops[i].old
    PROVE  Told(t)'
<1>1. Fits(t)' /\ Done(t)'
  BY DEF Told, Fits, Done, SameOp
<1>2. Unrun(t)' = Unrun(t) /\ Unrun(t) \subseteq OnRow(t)'
  BY DEF Unrun, SameOp
<1>3. Unrun(t) \subseteq Ids
  BY RowIds
<1>4. BoxChain(t)'
  <2>1. \A i \in Unrun(t) : Froms'[i] = Froms[i] /\ Tos'[i] = Tos[i]
    BY <1>2, <1>3 DEF Froms, Tos, SameOp
  <2> QED
    BY <1>2, <2>1, ChainSame DEF Told, BoxChain
<1>5. ASSUME NEW f \in {"seen", "flagged"}
      PROVE  BitChain(t, f)'
  <2>1. TogglesOf(t, f)' = TogglesOf(t, f)
    BY <1>2 DEF TogglesOf, SameOp
  <2>2. \A i \in TogglesOf(t, f) : Olds(f)'[i] = Olds(f)[i] /\ Ons'[i] = Ons[i]
    BY <1>2, <1>3 DEF TogglesOf, Olds, Ons, SameOp
  <2>3. BitChain(t, f)
    BY DEF Told
  <2> QED
    BY <2>1, <2>2, <2>3, ChainSame DEF BitChain
<1> QED
  BY <1>1, <1>4, <1>5 DEF Told

(* A new op, and what the row shows once it is applied.                      *)
LEMMA ToldAdds ==
    ASSUME NEW t \in Rows, Told(t), NEW n \in Ids, \A i \in Present : i < n,
           \A i \in Ids \ {n} : ops'[i] = ops[i],
           ops'[n] # None, ops'[n].row = t, ops'[n].mail = rows[t].mail,
           ops'[n].kind # "delete", ~ops'[n].landed, ops'[n].state \in {"queued", "settling"},
           ops'[n].from = rows[t].box, ops'[n].prev = rows[t].box,
           ops'[n].kind # "move" => ops'[n].to = ops'[n].from,
           rows'[t].mail = rows[t].mail, rows'[t].box = ops'[n].to,
           server'[rows[t].mail] = server[rows[t].mail],
           \A f \in {"seen", "flagged"} :
               IF ops'[n].kind \in Toggles /\ BitOf(ops'[n].kind) = f
               THEN /\ Bit(f \in ops'[n].old) = Bit(f \in rows[t].flags)
                    /\ Bit(f \in rows'[t].flags) = Bit(ops'[n].on)
               ELSE Bit(f \in rows'[t].flags) = Bit(f \in rows[t].flags)
    PROVE  Told(t)'
<1>1. /\ OnRow(t)' = OnRow(t) \cup {n} /\ Unrun(t)' = Unrun(t) \cup {n}
      /\ \A i \in OnRow(t) : i \in Ids \ {n} /\ i < n /\ ops'[i] = ops[i]
  <2>1. n \notin Present
    BY OpIdsAssumption
  <2> QED
    BY <2>1 DEF OnRow, Unrun, Owed, InState, Present
<1>2. Unrun(t) \subseteq OnRow(t) /\ Unrun(t) \subseteq Nat /\ n \in Nat
  BY RowIds, OpIdsAssumption
<1>3. Fits(t)' /\ Done(t)'
  BY <1>1 DEF Told, Fits, Done
<1>4. BoxChain(t)'
  <2>1. /\ \A i \in Unrun(t) : Froms'[i] = Froms[i] /\ Tos'[i] = Tos[i]
        /\ Froms'[n] = rows[t].box /\ Tos'[n] = rows'[t].box
    BY <1>1, <1>2 DEF Froms, Tos
  <2>2. \A i \in Unrun(t) : i < n
    BY <1>1, <1>2
  <2>3. Chain(Unrun(t)', server[rows[t].mail].box, rows'[t].box, Froms', Tos')
    <3>1. Chain(Unrun(t), server[rows[t].mail].box, rows[t].box, Froms, Tos)
      BY DEF Told, BoxChain
    <3> QED
      <4>1. Appends(Unrun(t), n, Unrun(t)', rows[t].box, rows'[t].box, Froms, Tos, Froms', Tos')
        BY <1>1, <1>2, <2>1, <2>2 DEF Appends
      <4> QED
        BY <3>1, <4>1, ChainAppends
  <2> QED
    BY <2>3 DEF BoxChain
<1>5. ASSUME NEW f \in {"seen", "flagged"}
      PROVE  BitChain(t, f)'
  <2>1. BitChain(t, f) /\ TogglesOf(t, f) \subseteq Nat
    BY RowIds DEF Told
  <2>2. \A i \in TogglesOf(t, f) : i < n /\ Olds(f)'[i] = Olds(f)[i] /\ Ons'[i] = Ons[i]
    BY <1>1, <1>2 DEF TogglesOf, Olds, Ons
  <2>3. CASE ops'[n].kind \in Toggles /\ BitOf(ops'[n].kind) = f
    <3>1. TogglesOf(t, f)' = TogglesOf(t, f) \cup {n}
      BY <1>1, <1>2, <2>3 DEF TogglesOf
    <3>2. Olds(f)'[n] = Bit(f \in rows[t].flags) /\ Ons'[n] = Bit(f \in rows'[t].flags)
      BY <2>3 DEF Olds, Ons
    <3>3. Chain(TogglesOf(t, f)', Bit(f \in server[rows[t].mail].flags),
                Bit(f \in rows'[t].flags), Olds(f)', Ons')
      <4>1. Chain(TogglesOf(t, f), Bit(f \in server[rows[t].mail].flags),
                  Bit(f \in rows[t].flags), Olds(f), Ons)
        BY <2>1 DEF BitChain
      <4> QED
        <5>1. Appends(TogglesOf(t, f), n, TogglesOf(t, f)', Bit(f \in rows[t].flags),
                      Bit(f \in rows'[t].flags), Olds(f), Ons, Olds(f)', Ons')
          BY <1>2, <2>1, <2>2, <3>1, <3>2 DEF Appends
        <5> QED
          BY <4>1, <5>1, ChainAppends
    <3> QED
      BY <3>3 DEF BitChain
  <2>4. CASE ~ (ops'[n].kind \in Toggles /\ BitOf(ops'[n].kind) = f)
    <3>1. TogglesOf(t, f)' = TogglesOf(t, f)
      BY <1>1, <1>2, <2>4 DEF TogglesOf
    <3>2. Bit(f \in rows'[t].flags) = Bit(f \in rows[t].flags)
      BY <2>4
    <3>3. Chain(TogglesOf(t, f), Bit(f \in server[rows[t].mail].flags),
                Bit(f \in rows[t].flags), Olds(f)', Ons')
      BY <2>1, <2>2, ChainSame DEF BitChain
    <3> QED
      BY <3>1, <3>2, <3>3 DEF BitChain
  <2> QED
    BY <2>3, <2>4
<1> QED
  BY <1>3, <1>4, <1>5 DEF Told

(* The op i, with nothing older owed, has its effect on the server, perhaps  *)
(* for the second time.                                                      *)
LEMMA ToldLands ==
    ASSUME NEW t \in Rows, Told(t), LandedInOrder, NEW i \in OnRow(t), OlderOwed(i) = {},
           \A j \in Ids \ {i} : ops'[j] = ops[j],
           ops'[i] # None, ops'[i].landed, ops'[i].state = ops[i].state,
           ops'[i].old = ops[i].old,
           ops'[i].row = ops[i].row, ops'[i].mail = ops[i].mail, ops'[i].kind = ops[i].kind,
           ops'[i].from = ops[i].from, ops'[i].to = ops[i].to, ops'[i].on = ops[i].on,
           ops'[i].prev = ops[i].prev,
           rows'[t] = rows[t],
           server'[rows[t].mail].box = IF ops[i].kind = "move" THEN ops[i].to
                                       ELSE server[rows[t].mail].box,
           \A f \in {"seen", "flagged"} :
               Bit(f \in server'[rows[t].mail].flags) =
                   IF ops[i].kind \in Toggles /\ BitOf(ops[i].kind) = f THEN Bit(ops[i].on)
                   ELSE Bit(f \in server[rows[t].mail].flags)
    PROVE  Told(t)'
<1> DEFINE m == rows[t].mail
<1>1. /\ OnRow(t) \subseteq Ids /\ Unrun(t) \subseteq OnRow(t) /\ Unrun(t) \subseteq Nat
      /\ i \in Ids /\ i \in Nat /\ OnRow(t) \subseteq Nat
  BY RowIds, OpIdsAssumption
<1>2. /\ OnRow(t)' = OnRow(t) /\ Unrun(t)' = Unrun(t) \ {i}
      /\ \A j \in OnRow(t) : j # i => ops'[j] = ops[j]
  <2>1. \A j \in OnRow(t) : j # i => ops'[j] = ops[j]
    BY <1>1
  <2>2. OnRow(t)' = OnRow(t)
    <3>1. /\ ops'[i] # None /\ ops'[i].state = ops[i].state /\ ops'[i].row = ops[i].row
          /\ ops[i] # None /\ ops[i].state \in {"queued", "settling"} /\ ops[i].row = t
      BY DEF OnRow, Owed, InState, Present
    <3>2. /\ OnRow(t) = {j \in Ids : /\ ops[j] # None /\ ops[j].row = t
                                      /\ ops[j].state \in {"queued", "settling"}}
          /\ OnRow(t)' = {j \in Ids : /\ ops'[j] # None /\ ops'[j].row = t
                                       /\ ops'[j].state \in {"queued", "settling"}}
      BY DEF OnRow, Owed, InState, Present
    <3>3. ASSUME NEW j \in Ids PROVE j \in OnRow(t)' <=> j \in OnRow(t)
      <4>1. CASE j = i
        BY <3>1, <3>2, <4>1
      <4>2. CASE j # i
        BY <3>2, <4>2
      <4> QED
        BY <4>1, <4>2
    <3> QED
      BY <3>2, <3>3
  <2>3. Unrun(t)' = Unrun(t) \ {i}
    BY <1>1, <2>1, <2>2 DEF Unrun
  <2> QED
    BY <2>1, <2>2, <2>3
<1>3. Fits(t)
  BY DEF Told
<1>4. \A j \in OnRow(t) : i <= j
  <2>1. \A j \in OnRow(t) : j \in Nat /\ (j < i => j \in OlderOwed(i))
    BY <1>1, <1>3 DEF OlderOwed, OnRow, Fits, OrdersLaterOps
  <2> QED
    BY <1>1, <2>1
<1>5. \A j \in OnRow(t) : j # i => ~ops[j].landed
  <2> SUFFICES ASSUME NEW j \in OnRow(t), j # i, ops[j].landed
               PROVE  FALSE
    OBVIOUS
  <2>1. i < j
    BY <1>1, <1>4
  <2>2. i \in OlderOwed(j)
    BY <1>3, <2>1 DEF OlderOwed, OnRow, Fits, OrdersLaterOps
  <2>3. j \in Owed
    BY DEF OnRow
  <2> QED
    BY <2>2, <2>3 DEF LandedInOrder
<1>6. server'[m].box = ops[i].to
  <2>1. CASE ops[i].kind = "move"
    BY <2>1
  <2>2. CASE ops[i].kind # "move" /\ ops[i].landed
    BY <2>2 DEF Told, Done
  <2>3. CASE ops[i].kind # "move" /\ ~ops[i].landed
    <3>1. i \in Unrun(t) /\ \A j \in Unrun(t) : i <= j
      BY <1>1, <1>4, <2>3 DEF Unrun
    <3>2. Froms[i] = server[m].box
      BY <3>1 DEF Told, BoxChain, Chain
    <3>3. ops[i].to = ops[i].from
      BY <1>3, <2>3 DEF Fits
    <3> QED
      BY <1>1, <2>3, <3>2, <3>3 DEF Froms
  <2> QED
    BY <2>1, <2>2, <2>3
<1>7. ops[i].kind \in Toggles => Bit(BitOf(ops[i].kind) \in server'[m].flags) = Bit(ops[i].on)
  BY DEF BitOf
<1>8. Fits(t)'
  BY <1>2, <1>3 DEF Fits
<1>9. Done(t)'
  BY <1>2, <1>5, <1>6, <1>7 DEF Done
<1>10. BoxChain(t)'
  <2>1. \A j \in Unrun(t) : Froms'[j] = Froms[j] /\ Tos'[j] = Tos[j]
    BY <1>1, <1>2 DEF Froms, Tos
  <2>2. CASE ops[i].landed
    <3>1. Unrun(t)' = Unrun(t) /\ server[m].box = ops[i].to
      BY <1>2, <2>2 DEF Unrun, Told, Done
    <3>2. Chain(Unrun(t), server[m].box, rows[t].box, Froms', Tos')
      BY <2>1, ChainSame DEF Told, BoxChain
    <3> QED
      BY <1>6, <3>1, <3>2 DEF BoxChain
  <2>3. CASE ~ops[i].landed
    <3>1. i \in Unrun(t) /\ \A j \in Unrun(t) : i <= j
      BY <1>1, <1>4, <2>3 DEF Unrun
    <3>2. Tos[i] = server'[m].box
      BY <1>1, <1>6 DEF Tos
    <3>3. Chain(Unrun(t), server[m].box, rows[t].box, Froms, Tos)
      BY DEF Told, BoxChain
    <3>4. Chain(Unrun(t)', server'[m].box, rows[t].box, Froms', Tos')
      <4>1. Lands(Unrun(t), i, Unrun(t)', server'[m].box, Froms, Tos, Froms', Tos')
        BY <1>1, <1>2, <2>1, <3>1, <3>2 DEF Lands
      <4> QED
        BY <3>3, <4>1, ChainLands
    <3> QED
      BY <3>4 DEF BoxChain
  <2> QED
    BY <2>2, <2>3
<1>11. ASSUME NEW f \in {"seen", "flagged"}
       PROVE  BitChain(t, f)'
  <2>1. BitChain(t, f) /\ TogglesOf(t, f) \subseteq Nat /\ TogglesOf(t, f) \subseteq Unrun(t)
    BY RowIds DEF Told
  <2>2. /\ TogglesOf(t, f)' = TogglesOf(t, f) \ {i}
        /\ \A j \in TogglesOf(t, f) : Olds(f)'[j] = Olds(f)[j] /\ Ons'[j] = Ons[j]
    BY <1>1, <1>2 DEF TogglesOf, Olds, Ons
  <2>3. CASE i \notin TogglesOf(t, f)
    <3>1. Bit(f \in server'[m].flags) = Bit(f \in server[m].flags)
      <4>1. CASE ops[i].kind \in Toggles /\ BitOf(ops[i].kind) = f
        <5>1. ops[i].landed
          BY <1>1, <2>3, <4>1 DEF TogglesOf, Unrun
        <5>2. Bit(f \in server[m].flags) = Bit(ops[i].on)
          BY <4>1, <5>1 DEF Told, Done
        <5> QED
          BY <4>1, <5>2
      <4>2. CASE ~ (ops[i].kind \in Toggles /\ BitOf(ops[i].kind) = f)
        BY <4>2
      <4> QED
        BY <4>1, <4>2
    <3>2. Chain(TogglesOf(t, f), Bit(f \in server[m].flags), Bit(f \in rows[t].flags),
                Olds(f)', Ons')
      BY <2>1, <2>2, ChainSame DEF BitChain
    <3> QED
      BY <2>2, <2>3, <3>1, <3>2 DEF BitChain
  <2>4. CASE i \in TogglesOf(t, f)
    <3>1. \A j \in TogglesOf(t, f) : i <= j
      BY <1>1, <1>4, <2>1
    <3>2. Chain(TogglesOf(t, f), Bit(f \in server[m].flags), Bit(f \in rows[t].flags),
                Olds(f), Ons)
      BY <2>1 DEF BitChain
    <3>3. Ons[i] = Bit(f \in server'[m].flags)
      BY <1>1, <2>4 DEF Ons, TogglesOf
    <3>4. Chain(TogglesOf(t, f)', Bit(f \in server'[m].flags), Bit(f \in rows[t].flags),
                Olds(f)', Ons')
      <4>1. Lands(TogglesOf(t, f), i, TogglesOf(t, f)', Bit(f \in server'[m].flags), Olds(f), Ons,
                  Olds(f)', Ons')
        BY <2>1, <2>2, <2>4, <3>1, <3>3 DEF Lands
      <4> QED
        BY <3>2, <4>1, ChainLands
    <3> QED
      BY <3>4 DEF BitChain
  <2> QED
    BY <2>3, <2>4
<1> QED
  BY <1>8, <1>9, <1>10, <1>11 DEF Told

-----------------------------------------------------------------------------
(* What a refusal does to what is told of a row.                             *)

(* Newest is the largest of some of the ids in use.                          *)
LEMMA NewestOf ==
    ASSUME Bounded, NEW S, S \subseteq Present, S # {}
    PROVE  Newest(S) \in S /\ \A j \in S : j <= Newest(S)
<1>1. PICK n \in Nat : \A i \in Present : i <= n
  BY DEF Bounded
<1>2. S \subseteq Nat /\ \A i \in S : i <= n
  BY <1>1, OpIdsAssumption DEF Present
<1> DEFINE D == {n - i : i \in S}
<1>3. D \subseteq Nat /\ D # {}
  <2>1. \A i \in S : n - i \in Nat
    BY <1>2
  <2> QED
    BY <2>1
<1> HIDE DEF D
<1>4. PICK d \in D : \A e \in D : d <= e
  BY <1>3, Least
<1>5. PICK i \in S : d = n - i
  BY DEF D
<1>6. ASSUME NEW j \in S
      PROVE  j <= i
  <2>1. n - i <= n - j
    BY <1>4, <1>5 DEF D
  <2>2. i \in Nat /\ j \in Nat
    BY <1>2
  <2> QED
    BY <2>1, <2>2
<1>7. \E k \in S : \A j \in S : j <= k
  BY <1>6
<1> QED
  BY <1>7 DEF Newest

(* The ops refused with i are on its row, and so is the one a rollback       *)
(* leaves a bit to.                                                          *)
LEMMA RefusedOnRow ==
    ASSUME Bounded, NEW i \in Owed
    PROVE  LET S == RefusedWith(i) IN
           /\ i \in S /\ S \subseteq OnRow(ops[i].row) /\ \A j \in S : i <= j
           /\ Newest(S) \in S /\ \A j \in S : j <= Newest(S)
           /\ \A f : NextToggle(S, f) # None => NextToggle(S, f) \in OnRow(ops[i].row) \ S
<1> DEFINE S == RefusedWith(i)
<1>1. i \in Ids /\ i \in S /\ S \subseteq OnRow(ops[i].row) /\ S \subseteq Present
  BY DEF RefusedWith, LaterOnMessage, OnRow, Owed, InState, Present
<1>2. \A j \in S : i <= j
  BY <1>1, OpIdsAssumption DEF RefusedWith, LaterOnMessage, Owed, InState, Present
<1>3. Newest(S) \in S /\ \A j \in S : j <= Newest(S)
  BY <1>1, NewestOf
<1> HIDE DEF S
<1>4. ASSUME NEW f, NextToggle(S, f) # None
      PROVE  NextToggle(S, f) \in OnRow(ops[i].row) \ S
  <2> DEFINE behind == {j \in LaterOnMessage(Newest(S)) \ S :
                           ops[j].kind \in Toggles /\ BitOf(ops[j].kind) = f}
  <2>1. behind \subseteq OnRow(ops[i].row) \ S
    BY <1>1, <1>3 DEF LaterOnMessage, OnRow
  <2>2. behind # {} /\ NextToggle(S, f) = Oldest(behind)
    BY <1>4 DEF NextToggle
  <2>3. behind \subseteq Ids
    BY <2>1 DEF OnRow, Owed, InState, Present
  <2> HIDE DEF behind
  <2>4. Oldest(behind) \in behind
    BY <2>2, <2>3, OldestOf
  <2> QED
    BY <2>1, <2>2, <2>4
<1> QED
  BY <1>1, <1>2, <1>3, <1>4 DEF S

(* What refuse makes of the ops, in what they say.                           *)
LEMMA RefusedSays ==
    ASSUME TypeOK, NEW i \in Owed, NEW how \in {"park", "discard"},
           ops' = OpsRefused(RefusedWith(i), how)
    PROVE  LET S == RefusedWith(i) IN
           /\ ops'[i] # None => ops'[i].state = "failed" /\ SameOp(i)
           /\ \A j \in Ids : ops[j] = None => ops'[j] = None
           /\ \A j \in Present \ {i} :
                 /\ ops'[j] # None /\ SameOp(j)
                 /\ j \in S => ops'[j].state = "failed"
                 /\ j \notin S => ops'[j].state = ops[j].state /\ ops'[j].old = OldRewritten(S, j)
<1> DEFINE S == RefusedWith(i)
<1>1. /\ i \in Ids /\ i \in Present /\ ops[i] # None /\ i \in S /\ Oldest(S) = i
      /\ S \subseteq Present
  BY RefusedOldest DEF RefusedWith, LaterOnMessage, Owed, InState, Present
<1> HIDE DEF S
<1>2. \A j \in Ids :
          ops'[j] = CASE j \notin Present -> None
                      [] j \in S /\ j # i -> [ops[j] EXCEPT !.state = "failed"]
                      [] j \in S /\ j = i ->
                            IF how = "discard" THEN None
                            ELSE [ops[j] EXCEPT !.state = "failed", !.attempts = @ + 1]
                      [] OTHER -> [ops[j] EXCEPT !.old = OldRewritten(S, j)]
  BY <1>1 DEF OpsRefused, S
<1>3. ops'[i] # None => ops'[i].state = "failed" /\ SameOp(i)
  <2>1. ops'[i] = IF how = "discard" THEN None
                  ELSE [ops[i] EXCEPT !.state = "failed", !.attempts = @ + 1]
    BY <1>1, <1>2
  <2>2. ops[i] \in Op
    BY <1>1 DEF TypeOK
  <2> DEFINE parked == [ops[i] EXCEPT !.state = "failed"]
             new == [parked EXCEPT !.attempts = @ + 1]
  <2>3. new = [ops[i] EXCEPT !.state = "failed", !.attempts = @ + 1]
    BY <2>2 DEF Op
  <2>4. /\ parked \in Op /\ parked.state = "failed"
        /\ parked.row = ops[i].row /\ parked.mail = ops[i].mail /\ parked.kind = ops[i].kind
        /\ parked.from = ops[i].from /\ parked.to = ops[i].to /\ parked.on = ops[i].on
        /\ parked.prev = ops[i].prev /\ parked.landed = ops[i].landed
    BY <2>2 DEF Op
  <2> HIDE DEF parked
  <2>5. /\ new.state = parked.state
        /\ new.row = parked.row /\ new.mail = parked.mail /\ new.kind = parked.kind
        /\ new.from = parked.from /\ new.to = parked.to /\ new.on = parked.on
        /\ new.prev = parked.prev /\ new.landed = parked.landed
    BY <2>4 DEF Op
  <2> HIDE DEF new
  <2>6. ops'[i] # None => ops'[i] = new
    BY <2>1, <2>3
  <2> QED
    BY <2>4, <2>5, <2>6 DEF SameOp
<1>4. \A j \in Ids : ops[j] = None => ops'[j] = None
  <2> SUFFICES ASSUME NEW j \in Ids, ops[j] = None
               PROVE  ops'[j] = None
    OBVIOUS
  <2>1. j \notin Present /\ j \notin S
    BY <1>1 DEF Present
  <2> QED
    BY <1>2, <2>1
<1>5. ASSUME NEW j \in Present \ {i}
      PROVE  /\ ops'[j] # None /\ SameOp(j)
             /\ j \in S => ops'[j].state = "failed"
             /\ j \notin S => ops'[j].state = ops[j].state /\ ops'[j].old = OldRewritten(S, j)
  <2>1. ops[j] \in Op /\ j \in Ids
    BY DEF TypeOK, Present
  <2>2. CASE j \in S
    <3>1. ops'[j] = [ops[j] EXCEPT !.state = "failed"]
      BY <1>2, <2>1, <2>2
    <3>2. ops'[j] \in Op
      BY <2>1, <3>1, OpParked
    <3> QED
      BY <2>1, <2>2, <3>1, <3>2, NoneAssumption DEF Op, SameOp
  <2>3. CASE j \notin S
    <3>1. ops'[j] = [ops[j] EXCEPT !.old = OldRewritten(S, j)]
      BY <1>1, <1>2, <2>1, <2>3
    <3>2. OldRewritten(S, j) \in SUBSET Flags
      <4>1. ops[j].old \subseteq Flags
        BY <2>1 DEF Op
      <4> QED
        BY <4>1 DEF OldRewritten, WithBit, BitOf, Flags
    <3>3. ops'[j] \in Op
      BY <2>1, <3>1, <3>2, OpRewritten
    <3> QED
      BY <2>1, <2>3, <3>1, <3>3, NoneAssumption DEF Op, SameOp
  <2> QED
    BY <2>2, <2>3
<1> QED
  BY <1>3, <1>4, <1>5 DEF S

(* A row none of the refused ops is on.                                      *)
LEMMA ToldBeside ==
    ASSUME TypeOK, Bounded, NEW i \in Owed, NEW how \in {"park", "discard"},
           rows' = RowUndone(RefusedWith(i)), ops' = OpsRefused(RefusedWith(i), how),
           UNCHANGED server, NEW t \in Rows, t # ops[i].row, Told(t)
    PROVE  rows'[t] = rows[t] /\ Told(t)'
<1> DEFINE S == RefusedWith(i)
<1>1. Oldest(S) = i /\ i \in Present
  BY RefusedOldest DEF Owed, InState, Present
<1>2. /\ i \in S /\ S \subseteq OnRow(ops[i].row)
      /\ \A f : NextToggle(S, f) # None => NextToggle(S, f) \in OnRow(ops[i].row) \ S
  BY RefusedOnRow
<1>3. /\ ops'[i] # None => ops'[i].state = "failed"
      /\ \A j \in Ids : ops[j] = None => ops'[j] = None
      /\ \A j \in Present \ {i} :
            /\ ops'[j] # None /\ SameOp(j)
            /\ j \in S => ops'[j].state = "failed"
            /\ j \notin S => ops'[j].state = ops[j].state /\ ops'[j].old = OldRewritten(S, j)
  BY RefusedSays
<1>4. rows'[t] = rows[t]
  BY <1>1 DEF RowUndone, TypeOK
<1> HIDE DEF S
<1>5. ASSUME NEW j \in OnRow(t)
      PROVE  /\ j \in Present \ {i} /\ j \notin S /\ SameOp(j) /\ ops'[j] # None
             /\ ops'[j].state = ops[j].state /\ ops'[j].old = ops[j].old
  <2>1. j \in Present \ {i} /\ j \notin S /\ j \in Ids /\ j \notin OnRow(ops[i].row)
    BY <1>2 DEF OnRow, Owed, InState, Present
  <2>2. {k \in TogglesIn(S) : NextToggle(S, BitOf(ops[k].kind)) = j} = {}
    BY <1>2, <2>1, OpIdsAssumption
  <2>3. OldRewritten(S, j) = ops[j].old
    BY <2>2 DEF OldRewritten
  <2> QED
    BY <1>3, <2>1, <2>3
<1>6. OnRow(t)' = OnRow(t)
  <2>1. ASSUME NEW j \in OnRow(t)
        PROVE  j \in OnRow(t)'
    BY <1>5 DEF OnRow, Owed, InState, Present, SameOp
  <2>2. ASSUME NEW j \in OnRow(t)'
        PROVE  j \in OnRow(t)
    <3>1. j \in Ids /\ ops'[j] # None /\ ops'[j].state # "failed" /\ ops'[j].row = t
      BY DEF OnRow, Owed, InState, Present
    <3>2. j \in Present \ {i}
      BY <1>3, <3>1 DEF Present
    <3> QED
      BY <1>3, <3>1, <3>2 DEF OnRow, Owed, InState, Present, SameOp
  <2> QED
    BY <2>1, <2>2
<1>7. Told(t)'
  BY <1>4, <1>5, <1>6, ToldKept
<1> QED
  BY <1>4, <1>7

(* A refused move takes the later ops of its row with it, and none of them   *)
(* has run.                                                                  *)
LEMMA LaterUnrun ==
    ASSUME NEW t \in Rows, Told(t), LandedInOrder, NEW i \in OnRow(t), ~ops[i].landed
    PROVE  /\ LaterOnMessage(i) = {j \in OnRow(t) : i < j}
           /\ i \in Unrun(t) /\ \A j \in OnRow(t) : i < j => j \in Unrun(t)
<1>1. Fits(t) /\ ops[i].row = t /\ i \in Owed
  BY DEF Told, OnRow
<1>2. LaterOnMessage(i) = {j \in OnRow(t) : i < j}
  <2>1. \A j \in OnRow(t) : OrdersLaterOps(ops[j])
    BY <1>1 DEF Fits, OrdersLaterOps
  <2> QED
    BY <1>1, <2>1 DEF LaterOnMessage, OnRow
<1>3. ASSUME NEW j \in OnRow(t), i < j, ops[j].landed
      PROVE  FALSE
  <2>1. i \in OlderOwed(j) /\ j \in Owed
    BY <1>1, <1>3 DEF OlderOwed, OnRow, Fits, OrdersLaterOps
  <2> QED
    BY <1>3, <2>1 DEF LandedInOrder
<1> QED
  BY <1>2, <1>3 DEF Unrun

LEMMA ToldMoveUndone ==
    ASSUME TypeOK, Bounded, LandedInOrder, NEW t \in Rows, rows[t] # None, Told(t),
           NEW i \in OnRow(t), ~ops[i].landed, ops[i].kind = "move",
           NEW how \in {"park", "discard"},
           rows' = RowUndone(RefusedWith(i)), ops' = OpsRefused(RefusedWith(i), how),
           UNCHANGED server
    PROVE  Told(t)'
<1> DEFINE S == RefusedWith(i)
           m == rows[t].mail
<1>1. /\ i \in Owed /\ i \in Present /\ i \in Ids /\ i \in Nat /\ ops[i].row = t
      /\ OnRow(t) \subseteq Ids /\ OnRow(t) \subseteq Nat /\ OnRow(t) \subseteq Present
      /\ Oldest(S) = i
  BY RefusedOldest, OpIdsAssumption DEF OnRow, Owed, InState, Present
<1>2. /\ LaterOnMessage(i) = {j \in OnRow(t) : i < j}
      /\ i \in Unrun(t) /\ \A j \in OnRow(t) : i < j => j \in Unrun(t)
  BY LaterUnrun
<1>3. S = {j \in OnRow(t) : i <= j}
  BY <1>1, <1>2 DEF RefusedWith
<1>4. /\ Newest(S) \in S /\ \A j \in S : j <= Newest(S)
      /\ \A f : NextToggle(S, f) # None => NextToggle(S, f) \in OnRow(t) \ S
  BY <1>1, RefusedOnRow
<1>5. /\ ops'[i] # None => ops'[i].state = "failed"
      /\ \A j \in Ids : ops[j] = None => ops'[j] = None
      /\ \A j \in Present \ {i} :
            /\ ops'[j] # None /\ SameOp(j)
            /\ j \in S => ops'[j].state = "failed"
            /\ j \notin S => ops'[j].state = ops[j].state /\ ops'[j].old = OldRewritten(S, j)
  BY <1>1, RefusedSays
<1> HIDE DEF S
<1>6. \A f : NextToggle(S, f) = None
  <2>1. LaterOnMessage(Newest(S)) \ S = {}
    <3>1. \A j \in LaterOnMessage(Newest(S)) : j \in OnRow(t) /\ Newest(S) < j
      BY <1>3, <1>4 DEF LaterOnMessage, OnRow
    <3>2. Newest(S) \in Nat /\ i <= Newest(S)
      BY <1>1, <1>3, <1>4
    <3> QED
      BY <1>1, <1>3, <3>1, <3>2
  <2> QED
    BY <2>1 DEF NextToggle
<1>7. \A j \in Ids : OldRewritten(S, j) = ops[j].old
  <2>1. \A j \in Ids : {k \in TogglesIn(S) : NextToggle(S, BitOf(ops[k].kind)) = j} = {}
    BY <1>6, OpIdsAssumption
  <2> QED
    BY <2>1 DEF OldRewritten
<1>8. /\ OnRow(t)' = {j \in OnRow(t) : j < i} /\ Unrun(t)' = {j \in Unrun(t) : j < i}
      /\ \A j \in OnRow(t) : j < i => SameOp(j) /\ ops'[j].old = ops[j].old
  <2>1. ASSUME NEW j \in OnRow(t), j < i
        PROVE  j \in OnRow(t)' /\ SameOp(j) /\ ops'[j].old = ops[j].old
    <3>1. j \in Present \ {i} /\ j \notin S /\ j \in Ids
      BY <1>1, <1>3, <2>1
    <3> QED
      BY <1>5, <1>7, <3>1 DEF OnRow, Owed, InState, Present, SameOp
  <2>2. ASSUME NEW j \in OnRow(t)'
        PROVE  j \in OnRow(t) /\ j < i
    <3>1. j \in Ids /\ ops'[j] # None /\ ops'[j].state # "failed" /\ ops'[j].row = t
      BY DEF OnRow, Owed, InState, Present
    <3>2. j \in Present \ {i} /\ j \notin S
      BY <1>5, <3>1 DEF Present
    <3>3. j \in OnRow(t)
      BY <1>5, <3>1, <3>2 DEF OnRow, Owed, InState, Present, SameOp
    <3> QED
      BY <1>1, <1>3, <3>2, <3>3
  <2>3. OnRow(t)' = {j \in OnRow(t) : j < i}
    BY <2>1, <2>2
  <2> QED
    BY <2>1, <2>3 DEF Unrun, SameOp
<1> DEFINE T == {j \in TogglesIn(S) : NextToggle(S, BitOf(ops[j].kind)) = None}
<1>9. rows'[t].mail = m /\ rows'[t].box = ops[i].prev
      /\ rows'[t].flags = FlagsBefore(S, rows[t].flags, TogglesIn(S))
  <2>1. rows[t] \in Message
    BY DEF TypeOK
  <2>2. T = TogglesIn(S)
    BY <1>6
  <2>3. rows' = [rows EXCEPT ![t] = [rows[t] EXCEPT !.box = ops[i].prev,
                                        !.flags = FlagsBefore(S, rows[t].flags, T)]]
    BY <1>1 DEF RowUndone, S
  <2> HIDE DEF T
  <2>4. rows'[t] = [rows[t] EXCEPT !.box = ops[i].prev,
                                   !.flags = FlagsBefore(S, rows[t].flags, T)]
    BY <2>3 DEF TypeOK
  <2> QED
    BY <2>1, <2>2, <2>4 DEF Message
<1> HIDE DEF T
<1>10. Fits(t)' /\ Done(t)'
  BY <1>8, <1>9 DEF Told, Fits, Done, SameOp
<1>11. Unrun(t) \subseteq OnRow(t) /\ Unrun(t) \subseteq Nat
  BY RowIds
<1>12. BoxChain(t)'
  <2>1. /\ \A j \in Unrun(t)' : Froms'[j] = Froms[j] /\ Tos'[j] = Tos[j]
        /\ Froms[i] = rows'[t].box
    BY <1>1, <1>8, <1>9, <1>11 DEF Froms, Tos, SameOp, Told, Fits
  <2>2. Cuts(Unrun(t), i, Unrun(t)', rows'[t].box, Froms, Tos, Froms', Tos')
    BY <1>2, <1>8, <1>11, <2>1 DEF Cuts
  <2>3. Chain(Unrun(t), server[m].box, rows[t].box, Froms, Tos)
    BY DEF Told, BoxChain
  <2>4. Chain(Unrun(t)', server[m].box, rows'[t].box, Froms', Tos')
    BY <2>2, <2>3, ChainCuts
  <2> QED
    BY <1>9, <2>4 DEF BoxChain
<1>13. ASSUME NEW f \in {"seen", "flagged"}
       PROVE  BitChain(t, f)'
  <2> DEFINE W == TogglesOf(t, f)
             of == {j \in TogglesIn(S) : BitOf(ops[j].kind) = f}
  <2>1. /\ BitChain(t, f) /\ W \subseteq Nat /\ W \subseteq Unrun(t)
        /\ TogglesOf(t, f)' = {j \in W : j < i}
    <3>1. TogglesOf(t, f)' = {j \in W : j < i}
      BY <1>8, <1>11 DEF TogglesOf, SameOp
    <3> QED
      BY <3>1, RowIds DEF Told
  <2>2. of = {j \in W : i <= j}
    <3>1. \A j \in OnRow(t) : i <= j => j \in Unrun(t)
      BY <1>1, <1>2
    <3> QED
      BY <1>3, <1>11, <3>1 DEF TogglesOf, TogglesIn
  <2>3. \A j \in TogglesOf(t, f)' : Olds(f)'[j] = Olds(f)[j] /\ Ons'[j] = Ons[j]
    BY <1>1, <1>8, <1>11, <2>1 DEF Olds, Ons, SameOp
  <2>4. Chain(W, Bit(f \in server[m].flags), Bit(f \in rows[t].flags), Olds(f), Ons)
    BY <2>1 DEF BitChain
  <2>5. f \in rows'[t].flags <=>
            IF of # {} THEN f \in ops[Oldest(of)].old ELSE f \in rows[t].flags
    BY <1>9 DEF FlagsBefore, Flags
  <2> HIDE DEF of, W
  <2>6. CASE of = {}
    <3>1. TogglesOf(t, f)' = W
      BY <1>1, <2>1, <2>2, <2>6
    <3>2. Chain(W, Bit(f \in server[m].flags), Bit(f \in rows[t].flags), Olds(f)', Ons')
      BY <2>3, <2>4, <3>1, ChainSame
    <3>3. Bit(f \in rows'[t].flags) = Bit(f \in rows[t].flags)
      BY <2>5, <2>6 DEF Bit
    <3> QED
      BY <1>9, <3>1, <3>2, <3>3 DEF BitChain
  <2>7. CASE of # {}
    <3> DEFINE k == Oldest(of)
    <3>1. k \in of /\ \A j \in of : k <= j
      <4>1. of \subseteq Ids
        BY <1>1, <1>11, <2>1, <2>2
      <4> QED
        BY <2>7, <4>1, OldestOf
    <3>2. Bit(f \in rows'[t].flags) = Bit(f \in ops[k].old)
      BY <2>5, <2>7 DEF Bit
    <3> HIDE DEF k
    <3>3. k \in W /\ i <= k /\ k \in Ids /\ \A j \in W : i <= j => k <= j
      BY <1>1, <1>11, <2>1, <2>2, <3>1
    <3>4. TogglesOf(t, f)' = {j \in W : j < k}
      <4>1. k \in Nat
        BY <2>1, <3>3
      <4>2. \A j \in W : j \in Nat /\ (j < i <=> j < k)
        BY <1>1, <2>1, <3>3, <4>1
      <4> QED
        BY <2>1, <4>2
    <3>5. Olds(f)[k] = Bit(f \in rows'[t].flags)
      BY <3>2, <3>3 DEF Olds
    <3>6. Cuts(W, k, TogglesOf(t, f)', Bit(f \in rows'[t].flags), Olds(f), Ons, Olds(f)', Ons')
      BY <2>1, <2>3, <3>3, <3>4, <3>5 DEF Cuts
    <3>7. Chain(TogglesOf(t, f)', Bit(f \in server[m].flags), Bit(f \in rows'[t].flags),
                Olds(f)', Ons')
      BY <2>4, <3>6, ChainCuts
    <3> QED
      BY <1>9, <3>7 DEF BitChain
  <2> QED
    BY <2>6, <2>7
<1> QED
  BY <1>10, <1>12, <1>13 DEF Told

(* An op that is not a move is refused alone.                                *)
LEMMA ToldOneUndone ==
    ASSUME TypeOK, Bounded, LandedInOrder, NEW t \in Rows, rows[t] # None, Told(t),
           NEW i \in OnRow(t), ~ops[i].landed, ops[i].kind # "move",
           NEW how \in {"park", "discard"},
           rows' = RowUndone(RefusedWith(i)), ops' = OpsRefused(RefusedWith(i), how),
           UNCHANGED server
    PROVE  Told(t)'
<1> DEFINE S == {i}
           m == rows[t].mail
           g == BitOf(ops[i].kind)
           behind == {j \in TogglesOf(t, g) : i < j}
<1>1. /\ i \in Owed /\ i \in Present /\ i \in Ids /\ i \in Nat /\ ops[i].row = t
      /\ OnRow(t) \subseteq Ids /\ OnRow(t) \subseteq Nat /\ OnRow(t) \subseteq Present
      /\ RefusedWith(i) = S
  BY OpIdsAssumption DEF OnRow, Owed, InState, Present, RefusedWith
<1>2. Oldest(S) = i /\ Newest(S) = i
  BY <1>1 DEF Oldest, Newest
<1>3. /\ LaterOnMessage(i) = {j \in OnRow(t) : i < j}
      /\ i \in Unrun(t) /\ \A j \in OnRow(t) : i < j => j \in Unrun(t)
  BY LaterUnrun
<1>4. /\ ops'[i] # None => ops'[i].state = "failed"
      /\ \A j \in Ids : ops[j] = None => ops'[j] = None
      /\ \A j \in Present \ {i} :
            /\ ops'[j] # None /\ SameOp(j)
            /\ ops'[j].state = ops[j].state /\ ops'[j].old = OldRewritten(S, j)
  <2> DEFINE R == RefusedWith(i)
  <2>1. /\ ops'[i] # None => ops'[i].state = "failed"
        /\ \A j \in Ids : ops[j] = None => ops'[j] = None
        /\ \A j \in Present \ {i} :
              /\ ops'[j] # None /\ SameOp(j)
              /\ j \notin R => ops'[j].state = ops[j].state /\ ops'[j].old = OldRewritten(R, j)
    BY <1>1, RefusedSays
  <2>2. R = S
    BY <1>1
  <2> HIDE DEF R
  <2>3. \A j \in Present \ {i} : j \notin R
    BY <2>2
  <2> QED
    BY <2>1, <2>2, <2>3
<1>5. Unrun(t) \subseteq OnRow(t) /\ Unrun(t) \subseteq Nat
  BY RowIds
<1>6. NextToggle(S, g) = IF behind = {} THEN None ELSE Oldest(behind)
  <2>1. {j \in LaterOnMessage(i) \ S : ops[j].kind \in Toggles /\ BitOf(ops[j].kind) = g} = behind
    BY <1>1, <1>3, <1>5 DEF TogglesOf
  <2> HIDE DEF behind, g
  <2> QED
    BY <1>2, <2>1 DEF NextToggle
<1>7. TogglesIn(S) = IF ops[i].kind \in Toggles THEN {i} ELSE {}
  BY DEF TogglesIn
<1> HIDE DEF S
<1>8. /\ OnRow(t)' = OnRow(t) \ {i} /\ Unrun(t)' = Unrun(t) \ {i}
      /\ \A j \in OnRow(t) \ {i} : SameOp(j) /\ ops'[j].old = OldRewritten(S, j)
  <2>1. ASSUME NEW j \in OnRow(t) \ {i}
        PROVE  j \in OnRow(t)' /\ SameOp(j) /\ ops'[j].old = OldRewritten(S, j)
    <3>1. j \in Present \ {i} /\ j \in Ids
      BY <1>1
    <3> QED
      BY <1>4, <3>1 DEF OnRow, Owed, InState, Present, SameOp
  <2>2. ASSUME NEW j \in OnRow(t)'
        PROVE  j \in OnRow(t) \ {i}
    <3>1. j \in Ids /\ ops'[j] # None /\ ops'[j].state # "failed" /\ ops'[j].row = t
      BY DEF OnRow, Owed, InState, Present
    <3>2. j \in Present \ {i}
      BY <1>4, <3>1 DEF Present
    <3> QED
      BY <1>4, <3>1, <3>2 DEF OnRow, Owed, InState, Present, SameOp
  <2>3. OnRow(t)' = OnRow(t) \ {i}
    BY <2>1, <2>2
  <2> QED
    BY <2>1, <2>3 DEF Unrun, SameOp
<1> DEFINE T == {j \in TogglesIn(S) : NextToggle(S, BitOf(ops[j].kind)) = None}
<1>9. rows'[t].mail = m /\ rows'[t].box = rows[t].box
      /\ rows'[t].flags = FlagsBefore(S, rows[t].flags, T)
  <2>1. rows[t] \in Message
    BY DEF TypeOK
  <2>2. rows' = [rows EXCEPT ![t] = [rows[t] EXCEPT !.box = rows[t].box,
                                        !.flags = FlagsBefore(S, rows[t].flags, T)]]
    BY <1>1, <1>2 DEF RowUndone
  <2> HIDE DEF T
  <2>3. rows'[t] = [rows[t] EXCEPT !.box = rows[t].box,
                                   !.flags = FlagsBefore(S, rows[t].flags, T)]
    BY <2>2 DEF TypeOK
  <2> QED
    BY <2>1, <2>3 DEF Message
<1>10. Fits(t)' /\ Done(t)'
  BY <1>8, <1>9 DEF Told, Fits, Done, SameOp
<1>11. BoxChain(t)'
  <2>1. Chain(Unrun(t), server[m].box, rows[t].box, Froms, Tos)
    BY DEF Told, BoxChain
  <2>2. \A j \in Unrun(t) \ {i} : Froms'[j] = Froms[j] /\ Tos'[j] = Tos[j]
    BY <1>1, <1>5, <1>8 DEF Froms, Tos, SameOp
  <2>3. Froms[i] = Tos[i]
    BY <1>1 DEF Froms, Tos, Told, Fits
  <2>4. \A j \in Unrun(t) : IsNextOf(Unrun(t), i, j) => Froms[j] = Froms[i]
    BY <1>3, <2>1, <2>3 DEF IsNextOf, Chain
  <2>5. (\A j \in Unrun(t) : j <= i) => rows[t].box = Froms[i]
    BY <1>3, <2>1, <2>3 DEF Chain
  <2>6. Skips(Unrun(t), i, Unrun(t)', rows[t].box, rows[t].box, Froms, Tos, Froms', Tos')
    BY <1>3, <1>5, <1>8, <2>2, <2>4, <2>5 DEF Skips
  <2>7. Chain(Unrun(t)', server[m].box, rows[t].box, Froms', Tos')
    BY <2>1, <2>6, ChainSkips
  <2> QED
    BY <1>9, <2>7 DEF BoxChain
<1>12. ASSUME NEW f \in {"seen", "flagged"}, ~(ops[i].kind \in Toggles /\ f = g)
       PROVE  BitChain(t, f)'
  (* A bit the refused op does not write.                                    *)
  <2>1. /\ BitChain(t, f) /\ TogglesOf(t, f) \subseteq Nat /\ TogglesOf(t, f) \subseteq Unrun(t)
        /\ TogglesOf(t, f)' = TogglesOf(t, f) /\ i \notin TogglesOf(t, f)
    <3>1. i \notin TogglesOf(t, f)
      BY <1>12 DEF TogglesOf
    <3>2. TogglesOf(t, f)' = TogglesOf(t, f)
      BY <1>5, <1>8, <3>1 DEF TogglesOf, SameOp
    <3> QED
      BY <3>1, <3>2, RowIds DEF Told
  <2>2. \A j \in TogglesOf(t, f) : j \in OnRow(t) \ {i} /\ j \in Ids /\ BitOf(ops[j].kind) = f
    BY <1>1, <1>5, <2>1 DEF TogglesOf
  <2>3. \A j \in TogglesOf(t, f) : OldRewritten(S, j) = ops[j].old
    <3> SUFFICES ASSUME NEW j \in TogglesOf(t, f)
                 PROVE  OldRewritten(S, j) = ops[j].old
      OBVIOUS
    <3>1. j # None
      BY <2>2, OpIdsAssumption
    <3>2. ops[i].kind \in Toggles => NextToggle(S, g) # j
      <4>1. behind # {} => Oldest(behind) \in behind
        <5>1. behind \subseteq Ids
          BY <1>1, <1>5 DEF TogglesOf
        <5> HIDE DEF behind
        <5> QED
          BY <5>1, OldestOf
      <4>2. \A k \in behind : BitOf(ops[k].kind) = g
        BY DEF TogglesOf
      <4> HIDE DEF behind, g
      <4> QED
        BY <1>6, <1>12, <2>2, <3>1, <4>1, <4>2
    <3>3. {k \in TogglesIn(S) : NextToggle(S, BitOf(ops[k].kind)) = j} = {}
      BY <1>7, <3>2
    <3> QED
      BY <3>3 DEF OldRewritten
  <2>4. \A j \in TogglesOf(t, f) : Olds(f)'[j] = Olds(f)[j] /\ Ons'[j] = Ons[j]
    BY <1>8, <2>2, <2>3 DEF Olds, Ons, SameOp
  <2>5. Chain(TogglesOf(t, f), Bit(f \in server[m].flags), Bit(f \in rows[t].flags),
              Olds(f)', Ons')
    BY <2>1, <2>4, ChainSame DEF BitChain
  <2>6. Bit(f \in rows'[t].flags) = Bit(f \in rows[t].flags)
    <3>1. {k \in T : BitOf(ops[k].kind) = f} = {}
      BY <1>7, <1>12
    <3> HIDE DEF T
    <3>2. f \in rows'[t].flags <=> f \in rows[t].flags
      BY <1>9, <3>1 DEF FlagsBefore, Flags
    <3> QED
      BY <3>2 DEF Bit
  <2> QED
    BY <1>9, <2>1, <2>5, <2>6 DEF BitChain
<1>13. ASSUME NEW f \in {"seen", "flagged"}, ops[i].kind \in Toggles, f = g
       PROVE  BitChain(t, f)'
  (* The bit it writes.                                                      *)
  <2> DEFINE W == TogglesOf(t, f)
  <2>1. /\ BitChain(t, f) /\ W \subseteq Nat /\ W \subseteq Unrun(t)
        /\ i \in W /\ TogglesOf(t, f)' = W \ {i}
    <3>1. i \in W
      BY <1>3, <1>13 DEF TogglesOf
    <3>2. TogglesOf(t, f)' = W \ {i}
      BY <1>5, <1>8 DEF TogglesOf, SameOp
    <3> QED
      BY <3>1, <3>2, RowIds DEF Told
  <2>2. \A j \in W : j \in OnRow(t) /\ j \in Ids /\ BitOf(ops[j].kind) = f
    BY <1>1, <1>5, <2>1 DEF TogglesOf
  <2>3. behind = {j \in W : i < j}
    BY <1>13
  <2>4. NextToggle(S, f) = IF behind = {} THEN None ELSE Oldest(behind)
    BY <1>6, <1>13
  <2>5. TogglesIn(S) = {i} /\ BitOf(ops[i].kind) = f
    BY <1>7, <1>13
  <2> HIDE DEF W, behind, g
  <2>6. behind # {} => Oldest(behind) \in behind /\ \A j \in behind : Oldest(behind) <= j
    <3>1. behind \subseteq Ids
      BY <2>2, <2>3
    <3> QED
      BY <3>1, OldestOf
  <2>7. \A j \in W \ {i} : NextToggle(S, f) = j <=> IsNextOf(W, i, j)
    <3> SUFFICES ASSUME NEW j \in W \ {i}
                 PROVE  NextToggle(S, f) = j <=> IsNextOf(W, i, j)
      OBVIOUS
    <3>1. j # None /\ j \in Nat /\ j \in W
      BY <2>1, <2>2, OpIdsAssumption
    <3>2. ASSUME NextToggle(S, f) = j
          PROVE  IsNextOf(W, i, j)
      <4>1. i < j /\ \A k \in W : i < k => j <= k
        BY <2>3, <2>4, <2>6, <3>1, <3>2
      <4>2. \A k \in W : ~(i < k /\ k < j)
        <5>1. \A k \in W : k \in Nat
          BY <2>1
        <5> QED
          BY <3>1, <4>1, <5>1
      <4> QED
        BY <3>1, <4>1, <4>2 DEF IsNextOf
    <3>3. ASSUME IsNextOf(W, i, j)
          PROVE  NextToggle(S, f) = j
      <4>1. j \in behind /\ \A k \in W : ~(i < k /\ k < j)
        BY <2>3, <3>3 DEF IsNextOf
      <4>2. PICK k \in behind : k = Oldest(behind) /\ k <= j
        BY <2>6, <4>1
      <4>3. k \in Nat /\ i < k /\ k \in W
        BY <2>1, <2>3
      <4>4. k = j
        BY <3>1, <4>1, <4>2, <4>3
      <4> QED
        BY <2>4, <4>1, <4>2, <4>4
    <3> QED
      BY <3>2, <3>3
  <2>8. ASSUME NEW j \in W \ {i}
        PROVE  /\ Ons'[j] = Ons[j]
               /\ IsNextOf(W, i, j) => Olds(f)'[j] = Olds(f)[i]
               /\ ~IsNextOf(W, i, j) => Olds(f)'[j] = Olds(f)[j]
    <3> DEFINE of == {k \in TogglesIn(S) : NextToggle(S, BitOf(ops[k].kind)) = j}
    <3>1. of = IF IsNextOf(W, i, j) THEN {i} ELSE {}
      BY <2>5, <2>7
    <3>2. SameOp(j) /\ ops'[j].old = OldRewritten(S, j) /\ j \in Ids
      BY <1>8, <2>2
    <3>3. OldRewritten(S, j) = IF of = {} THEN ops[j].old
                               ELSE LET h == BitOf(ops[j].kind)
                                    IN  WithBit(ops[j].old, h, h \in ops[Oldest(of)].old)
      BY DEF OldRewritten
    <3> HIDE DEF of
    <3>4. CASE IsNextOf(W, i, j)
      <4>1. Oldest(of) = i
        BY <1>1, <3>1, <3>4 DEF Oldest
      <4>2. ops'[j].old = WithBit(ops[j].old, f, f \in ops[i].old)
        BY <2>2, <3>1, <3>2, <3>3, <3>4, <4>1
      <4>3. f \in ops'[j].old <=> f \in ops[i].old
        BY <4>2 DEF WithBit
      <4>4. Bit(f \in ops'[j].old) = Bit(f \in ops[i].old)
        BY <4>3 DEF Bit
      <4> QED
        BY <1>1, <3>2, <3>4, <4>4 DEF Ons, Olds, SameOp
    <3>5. CASE ~IsNextOf(W, i, j)
      BY <3>1, <3>2, <3>3, <3>5 DEF Ons, Olds, SameOp
    <3> QED
      BY <3>4, <3>5
  <2>9. /\ (\A j \in W : j <= i) => Bit(f \in rows'[t].flags) = Olds(f)[i]
        /\ ~(\A j \in W : j <= i) => Bit(f \in rows'[t].flags) = Bit(f \in rows[t].flags)
    <3>1. (\A j \in W : j <= i) <=> behind = {}
      <4>1. \A j \in W : j \in Nat /\ (j <= i <=> ~(i < j))
        BY <1>1, <2>1
      <4> QED
        BY <2>3, <4>1
    <3> DEFINE of == {k \in T : BitOf(ops[k].kind) = f}
    <3>2. of = IF behind = {} THEN {i} ELSE {}
      <4>1. behind # {} => NextToggle(S, f) # None
        BY <2>2, <2>3, <2>4, <2>6, OpIdsAssumption
      <4> QED
        BY <2>4, <2>5, <4>1
    <3>3. f \in rows'[t].flags <=>
              IF of # {} THEN f \in ops[Oldest(of)].old ELSE f \in rows[t].flags
      BY <1>9 DEF FlagsBefore, Flags
    <3> HIDE DEF of, T
    <3>4. CASE behind = {}
      <4>1. Oldest(of) = i
        BY <1>1, <3>2, <3>4 DEF Oldest
      <4>2. f \in rows'[t].flags <=> f \in ops[i].old
        BY <3>2, <3>3, <3>4, <4>1
      <4> QED
        BY <1>1, <3>1, <3>4, <4>2 DEF Bit, Olds
    <3>5. CASE behind # {}
      <4>1. f \in rows'[t].flags <=> f \in rows[t].flags
        BY <3>2, <3>3, <3>5
      <4> QED
        BY <3>1, <3>5, <4>1 DEF Bit
    <3> QED
      BY <3>4, <3>5
  <2>10. Skips(W, i, TogglesOf(t, f)', Bit(f \in rows[t].flags), Bit(f \in rows'[t].flags),
               Olds(f), Ons, Olds(f)', Ons')
    BY <2>1, <2>8, <2>9 DEF Skips
  <2>11. Chain(W, Bit(f \in server[m].flags), Bit(f \in rows[t].flags), Olds(f), Ons)
    BY <2>1 DEF BitChain, W
  <2>12. Chain(TogglesOf(t, f)', Bit(f \in server[m].flags), Bit(f \in rows'[t].flags),
               Olds(f)', Ons')
    BY <2>10, <2>11, ChainSkips
  <2> QED
    BY <1>9, <2>12 DEF BitChain
<1> QED
  BY <1>10, <1>11, <1>12, <1>13 DEF Told

-----------------------------------------------------------------------------
(* What the other steps do to it.                                            *)

Tellings == \A t \in Rows : Trusted(t) => Told(t)

(* Nothing is applied, and an op that is settled had reached the server.     *)
LEMMA QuietTold ==
    ASSUME Tellings, UNCHANGED <<rows, server, misled, heirs>>,
           \A i \in Ids : ops'[i] # None => ops[i] # None /\ SameOp(i) /\ ops'[i].old = ops[i].old,
           \A i \in Ids : i \in Owed' => i \in Owed,
           \A i \in Owed : i \notin Owed' /\ Trusted(ops[i].row) => ops[i].landed
    PROVE  Tellings'
<1> SUFFICES ASSUME NEW t \in Rows, Trusted(t)'
             PROVE  Told(t)'
  BY DEF Tellings
<1>1. Trusted(t) /\ Told(t)
  BY DEF Trusted, Tellings
<1>2. \A i \in OnRow(t)' : i \in OnRow(t) /\ SameOp(i) /\ ops'[i].old = ops[i].old
  BY DEF OnRow, Owed, InState, Present, SameOp
<1>3. \A i \in OnRow(t) \ OnRow(t)' : ops[i].landed
  <2> SUFFICES ASSUME NEW i \in OnRow(t), i \notin OnRow(t)', ~ops[i].landed
               PROVE  FALSE
    OBVIOUS
  <2>1. i \in Owed /\ ops[i].row = t
    BY DEF OnRow
  <2>2. i \in Owed'
    BY <1>1, <2>1
  <2>3. ops'[i].row = t
    BY <2>1, <2>2 DEF Owed, InState, Present, SameOp
  <2> QED
    BY <2>2, <2>3 DEF OnRow
<1> QED
  BY <1>1, <1>2, <1>3, ToldKept

LEMMA RefuseTold ==
    ASSUME Inv, Tellings, Bounded, NEW i \in Ids, NEW how \in {"park", "discard"},
           Refuse(i, how), UNCHANGED <<server, heirs>>
    PROVE  Tellings'
<1>1. CASE /\ i \in Owed
           /\ rows' = RowUndone(RefusedWith(i)) /\ ops' = OpsRefused(RefusedWith(i), how)
           /\ misled' = IF ops[i].landed THEN misled \cup {ops[i].mail} ELSE misled
  <2> SUFFICES ASSUME NEW t \in Rows, Trusted(t)'
               PROVE  Told(t)'
    BY DEF Tellings
  <2>1. ops[i] # None
    BY <1>1 DEF Owed, InState, Present
  <2>2. rows[t] # None /\ rows'[t].mail = rows[t].mail
    BY <1>1, <2>1, RefusedRows DEF Trusted, Inv
  <2>3. Trusted(t) /\ Told(t)
    BY <1>1, <2>2 DEF Trusted, Tellings
  <2>4. CASE t = ops[i].row
    <3>1. i \in OnRow(t)
      BY <1>1, <2>4 DEF OnRow
    <3>2. ~ops[i].landed
      BY <1>1, <2>2, <2>3, <3>1 DEF Trusted, Told, Fits
    <3> QED
      BY <1>1, <2>2, <2>3, <3>1, <3>2, ToldMoveUndone, ToldOneUndone DEF Inv, Queue
  <2>5. CASE t # ops[i].row
    BY <1>1, <2>3, <2>5, ToldBeside DEF Inv
  <2> QED
    BY <2>4, <2>5
<1>2. CASE i \in InState({"failed"}) /\ ops' = [ops EXCEPT ![i] = None] /\ UNCHANGED <<rows, misled>>
  <2>1. ops'[i] = None /\ \A j \in Ids \ {i} : ops'[j] = ops[j]
    BY <1>2 DEF Inv, TypeOK
  <2>2. Owed' = Owed
    BY <1>2, <2>1 DEF Owed, InState, Present
  <2> QED
    BY <1>2, <2>1, <2>2, QuietTold DEF SameOp
<1>3. CASE UNCHANGED <<rows, ops, misled>>
  BY <1>3, QuietTold DEF SameOp, Owed, InState, Present
<1> QED
  BY <1>1, <1>2, <1>3 DEF Refuse, Owed, InState, Present

(* The settled op i leaves the table.                                        *)
LEMMA RetiredTold ==
    ASSUME Inv, Tellings, NEW i \in Ids, ops' = Retired(i),
           UNCHANGED <<rows, server, misled, heirs>>,
           i \in Owed /\ Trusted(ops[i].row) => ops[i].landed
    PROVE  Tellings'
<1>1. ops'[i] = None /\ \A j \in Ids \ {i} : ops'[j] = ops[j]
  BY DEF Retired, Inv, TypeOK
<1>2. \A j \in Ids : j \in Owed' <=> j \in Owed /\ j # i
  BY <1>1 DEF Owed, InState, Present
<1>3. Owed \subseteq Ids
  BY DEF Owed, InState, Present
<1> QED
  BY <1>1, <1>2, <1>3, QuietTold DEF SameOp

(* The op i is run, by its caller or by the drain: what is told of its row   *)
(* stays true, and an answer that settles it means that it has landed.       *)
LEMMA RunTold ==
    ASSUME Inv, Tellings, NEW i \in Owed, OlderOwed(i) = {}, NEW op \in Op, NEW answer \in Answers,
           op.mail = ops[i].mail, op.kind = ops[i].kind, op.from = ops[i].from,
           op.to = ops[i].to, op.on = ops[i].on,
           Run(i, op, answer), UNCHANGED <<rows, misled, heirs>>
    PROVE  /\ Tellings' /\ Owed' = Owed
           /\ \A j \in Ids : ops'[j] = None <=> ops[j] = None
           /\ \A j \in Present :
                 /\ ops'[j].row = ops[j].row /\ ops'[j].from = ops[j].from
                 /\ ops'[j].to = ops[j].to /\ ops'[j].on = ops[j].on
                 /\ ops[j].landed => ops'[j].landed
           /\ Trusted(ops[i].row) /\ answer # "error" => ops'[i].landed
<1> DEFINE t == ops[i].row
           m == op.mail
<1>1. /\ i \in Ids /\ i \in Present /\ ops[i] \in Op /\ ops[i] # None /\ t \in Rows
      /\ m \in Mails /\ op.to \in Boxes /\ op.kind \in AllKinds /\ i \in OnRow(t)
  BY DEF Owed, InState, Present, Inv, TypeOK, Op, OnRow
<1>2. server[m] \in [box : Boxes \cup {None}, flags : SUBSET Flags]
  BY <1>1 DEF Inv, TypeOK, Identity, Arrived
<1>3. ASSUME Trusted(t)
      PROVE  Fits(t) /\ rows[t].mail = m /\ op.kind # "delete"
  BY <1>1, <1>3 DEF Tellings, Told, Fits
<1>4. CASE UNCHANGED <<server, ops>>
  <2>1. Tellings' /\ Owed' = Owed
    <3>1. Owed' = Owed
      BY <1>4 DEF Owed, InState, Present
    <3> QED
      BY <1>4, <3>1, QuietTold DEF SameOp
  <2>2. ASSUME Trusted(t), answer # "error"
        PROVE  ops'[i].landed
    <3>1. ~Found(op) \/ (Found(op) /\ server' = Landed(op) /\ ops' = [ops EXCEPT ![i].landed = TRUE])
      BY <1>1, <2>2 DEF Run
    <3>2. CASE ops' = [ops EXCEPT ![i].landed = TRUE]
      BY <1>1, <3>2 DEF Inv, TypeOK, Op
    <3>3. CASE ~Found(op)
      <4> SUFFICES ASSUME ~ops[i].landed
                   PROVE  FALSE
        BY <1>4
      <4>1. i \in Unrun(t) /\ Told(t) /\ Fits(t)
        BY <1>1, <1>3, <2>2 DEF Unrun, Tellings
      <4>2. \A j \in Unrun(t) : i <= j
        <5>1. \A j \in Unrun(t) : j \in Nat /\ i \in Nat /\ (j < i => j \in OlderOwed(i))
          BY <1>1, <4>1, OpIdsAssumption
             DEF OlderOwed, Unrun, OnRow, Fits, OrdersLaterOps, Owed, InState, Present
        <5> QED
          BY <5>1
      <4>3. Froms[i] = server[m].box
        BY <1>3, <2>2, <4>1, <4>2 DEF Told, BoxChain, Chain
      <4> QED
        BY <1>1, <3>3, <4>3 DEF Froms, Found
    <3> QED
      BY <3>1, <3>2, <3>3
  <2> QED
    BY <1>4, <2>1, <2>2
<1>5. CASE server' = Landed(op) /\ ops' = [ops EXCEPT ![i].landed = TRUE]
  <2> DEFINE s == server[m]
             new == CASE op.kind = "move"    -> [s EXCEPT !.box = op.to]
                      [] op.kind = "delete"  -> [s EXCEPT !.box = None]
                      [] op.kind \in Toggles ->
                            [s EXCEPT !.flags = WithBit(@, BitOf(op.kind), op.on)]
                      [] op.kind = "set_answered" ->
                            [s EXCEPT !.flags = @ \cup {"answered"}]
  <2>1. server' = [server EXCEPT ![m] = new]
    BY <1>5 DEF Landed
  <2>2. ASSUME op.kind # "delete"
        PROVE  /\ new.box = IF op.kind = "move" THEN op.to ELSE s.box
               /\ \A f \in {"seen", "flagged"} :
                     Bit(f \in new.flags) =
                         IF op.kind \in Toggles /\ BitOf(op.kind) = f THEN Bit(op.on)
                         ELSE Bit(f \in s.flags)
    <3>1. CASE op.kind = "move"
      <4>1. new = [s EXCEPT !.box = op.to]
        BY <3>1 DEF Toggles
      <4> HIDE DEF new
      <4>2. new.box = op.to /\ new.flags = s.flags
        BY <1>2, <4>1
      <4> QED
        BY <3>1, <4>2 DEF Toggles
    <3>2. CASE op.kind \in Toggles
      <4>1. new = [s EXCEPT !.flags = WithBit(s.flags, BitOf(op.kind), op.on)]
        BY <3>2 DEF Toggles
      <4> HIDE DEF new
      <4>2. new.box = s.box /\ new.flags = WithBit(s.flags, BitOf(op.kind), op.on)
        BY <1>2, <4>1
      <4>3. \A f : f \in new.flags <=> IF f = BitOf(op.kind) THEN op.on ELSE f \in s.flags
        BY <4>2 DEF WithBit
      <4> QED
        BY <3>2, <4>2, <4>3 DEF Bit, Toggles
    <3>3. CASE op.kind = "set_answered"
      <4>1. new = [s EXCEPT !.flags = s.flags \cup {"answered"}]
        BY <3>3 DEF Toggles
      <4> HIDE DEF new
      <4>2. new.box = s.box /\ new.flags = s.flags \cup {"answered"}
        BY <1>2, <4>1
      <4>3. \A f \in {"seen", "flagged"} : f \in new.flags <=> f \in s.flags
        BY <4>2
      <4> QED
        BY <3>3, <4>2, <4>3 DEF Bit, Toggles
    <3> QED
      BY <1>1, <2>2, <3>1, <3>2, <3>3 DEF AllKinds
  <2> HIDE DEF new
  <2>3. server'[m] = new /\ \A k \in Mails : k # m => server'[k] = server[k]
    BY <1>1, <2>1 DEF Inv, TypeOK
  <2>4. /\ ops'[i] = [ops[i] EXCEPT !.landed = TRUE]
        /\ \A j \in Ids \ {i} : ops'[j] = ops[j]
    BY <1>1, <1>5 DEF Inv, TypeOK
  <2>5. /\ ops'[i] \in Op /\ ops'[i] # None /\ ops'[i].landed
        /\ ops'[i].row = ops[i].row /\ ops'[i].mail = ops[i].mail /\ ops'[i].kind = ops[i].kind
        /\ ops'[i].from = ops[i].from /\ ops'[i].to = ops[i].to /\ ops'[i].on = ops[i].on
        /\ ops'[i].prev = ops[i].prev /\ ops'[i].old = ops[i].old
        /\ ops'[i].state = ops[i].state
    <3> DEFINE r == [ops[i] EXCEPT !.landed = TRUE]
    <3>1. /\ r \in Op /\ r.landed
          /\ r.row = ops[i].row /\ r.mail = ops[i].mail /\ r.kind = ops[i].kind
          /\ r.from = ops[i].from /\ r.to = ops[i].to /\ r.on = ops[i].on
          /\ r.prev = ops[i].prev /\ r.old = ops[i].old /\ r.state = ops[i].state
      BY <1>1 DEF Op
    <3> HIDE DEF r
    <3>2. ops'[i] = r
      BY <2>4 DEF r
    <3> QED
      BY <3>1, <3>2, NoneAssumption
  <2>6. /\ Owed' = Owed /\ \A j \in Ids : ops'[j] = None <=> ops[j] = None
        /\ \A u : OnRow(u)' = OnRow(u)
    <3>1. \A j \in Ids : ops'[j] = None <=> ops[j] = None
      BY <1>1, <2>4, <2>5
    <3>2. Owed' = Owed
      BY <2>4, <2>5, <3>1 DEF Owed, InState, Present
    <3>3. \A u : OnRow(u)' = OnRow(u)
      <4>1. \A j \in Owed : j \in Ids /\ ops'[j].row = ops[j].row
        BY <2>4, <2>5 DEF Owed, InState, Present
      <4> QED
        BY <3>2, <4>1 DEF OnRow
    <3> QED
      BY <3>1, <3>2, <3>3
  <2>7. ASSUME NEW u \in Rows, Trusted(u)'
        PROVE  Told(u)'
    <3>1. Trusted(u) /\ Told(u)
      BY <2>7 DEF Trusted, Tellings
    <3>2. CASE u = t
      <4>1. rows[u].mail = m /\ op.kind # "delete" /\ i \in OnRow(u)
        BY <1>1, <1>3, <3>1, <3>2
      <4>2. /\ server'[rows[u].mail].box = IF ops[i].kind = "move" THEN ops[i].to
                                           ELSE server[rows[u].mail].box
            /\ \A f \in {"seen", "flagged"} :
                  Bit(f \in server'[rows[u].mail].flags) =
                      IF ops[i].kind \in Toggles /\ BitOf(ops[i].kind) = f THEN Bit(ops[i].on)
                      ELSE Bit(f \in server[rows[u].mail].flags)
        BY <2>2, <2>3, <4>1
      <4>3. LandedInOrder /\ rows'[u] = rows[u] /\ \A j \in Ids \ {i} : ops'[j] = ops[j]
        BY <2>4 DEF Inv, Queue
      <4> HIDE DEF t, m
      <4> QED
        BY <2>5, <3>1, <4>1, <4>2, <4>3, ToldLands
    <3>3. CASE u # t
      <4>1. rows[u] # None /\ rows[u].mail \in Mails /\ rows[u].mail # m
        BY <1>1, <3>1, <3>3 DEF Trusted, Inv, Identity, OneRow, TypeOK, Message
      <4>2. server'[rows[u].mail] = server[rows[u].mail]
        BY <2>3, <4>1
      <4>3. \A j \in OnRow(u)' : SameOp(j) /\ ops'[j].old = ops[j].old
        BY <2>4, <2>6, <3>3 DEF OnRow, Owed, InState, Present, SameOp
      <4> QED
        BY <2>6, <3>1, <4>2, <4>3, ToldKept
    <3> QED
      BY <3>2, <3>3
  <2>8. Tellings'
    BY <2>7 DEF Tellings
  <2> QED
    BY <2>4, <2>5, <2>6, <2>8 DEF Present
<1> QED
  BY <1>1, <1>4, <1>5 DEF Run

-----------------------------------------------------------------------------
(* The other parts of the truth, for a step that leaves them be.             *)

Readers == {"recover", "commit"}

LEMMA ReadingKept ==
    ASSUME Reading, ~Overlaps, rows' = rows \/ RowsFree,
           \A c \in Clients : pc'[c] \in Readers => pc[c] \in Readers /\ cur'[c] = cur[c]
    PROVE  Reading'
BY DEF Reading, Readers, RowsFree

LEMMA AnswersKept ==
    ASSUME Inv, Inv', AnsweredFor,
           \A c \in Clients : pc'[c] = "settle" /\ cur'[c].answer # "error" =>
               pc[c] = "settle" /\ cur'[c] = cur[c],
           drain'.at = "settle" =>
               drain.at = "settle" /\ drain'.id = drain.id /\ drain'.answer = drain.answer,
           \A i \in Present : i \in Owed' =>
               i \in Owed /\ ops'[i].row = ops[i].row /\ (ops[i].landed => ops'[i].landed),
           \A t \in Rows : (\E i \in Owed : ops[i].row = t) /\ Trusted(t)' => Trusted(t)
    PROVE  AnsweredFor'
<1>1. \A i \in Present : ops[i].row \in Rows
  BY DEF Inv, TypeOK, Present, Op
<1>2. ASSUME NEW c \in Clients, pc'[c] = "settle", cur'[c].answer # "error",
             cur'[c].id \in Owed', Trusted(ops[cur[c].id].row)'
      PROVE  ops'[cur'[c].id].landed
  <2>1. pc[c] = "settle" /\ cur'[c] = cur[c]
    BY <1>2
  <2>2. PICK i \in Present : i = cur[c].id
    BY <2>1 DEF Inv, Queue, Commands, Settlings, InState
  <2>3. i \in Owed /\ ops'[i].row = ops[i].row /\ (ops[i].landed => ops'[i].landed)
    BY <1>2, <2>1, <2>2
  <2>4. PICK t \in Rows : t = ops[i].row
    BY <1>1
  <2>5. Trusted(t)'
    BY <1>2, <2>1, <2>2, <2>3, <2>4 DEF Trusted
  <2>6. Trusted(t)
    BY <2>3, <2>4, <2>5
  <2> QED
    BY <1>2, <2>1, <2>2, <2>3, <2>4, <2>6 DEF AnsweredFor
<1>3. ASSUME drain'.at = "settle", drain'.answer # "error", Trusted(ops[drain.id].row)'
      PROVE  ops'[drain'.id].landed
  <2>1. drain.at = "settle" /\ drain'.id = drain.id /\ drain'.answer = drain.answer
    BY <1>3
  <2>2. PICK i \in Present : i = drain.id
    BY <2>1 DEF Inv, Queue, DrainRuns, InState
  <2>3. i \in Owed'
    BY <1>3, <2>1, <2>2 DEF Inv, Queue, DrainRuns, Owed, InState, Present
  <2>4. i \in Owed /\ ops'[i].row = ops[i].row /\ (ops[i].landed => ops'[i].landed)
    BY <2>2, <2>3
  <2>5. PICK t \in Rows : t = ops[i].row
    BY <1>1
  <2>6. Trusted(t)'
    BY <1>3, <2>1, <2>2, <2>4, <2>5 DEF Trusted
  <2>7. Trusted(t)
    BY <2>4, <2>5, <2>6
  <2> QED
    BY <1>3, <2>1, <2>2, <2>4, <2>5, <2>7 DEF AnsweredFor
<1> QED
  BY <1>2, <1>3 DEF AnsweredFor, Trusted

LEMMA DrainSame ==
    ASSUME Inv, Inv', SameDrain,
           drain'.at \in {"execute", "settle"} =>
               drain.at \in {"execute", "settle"} /\ drain'.id = drain.id /\ drain'.op = drain.op,
           \A i \in Present : ops'[i] # None =>
               ops'[i].from = ops[i].from /\ ops'[i].to = ops[i].to /\ ops'[i].on = ops[i].on
    PROVE  SameDrain'
<1> SUFFICES ASSUME drain'.at \in {"execute", "settle"}
             PROVE  /\ drain'.op.from = ops'[drain'.id].from /\ drain'.op.to = ops'[drain'.id].to
                    /\ drain'.op.on = ops'[drain'.id].on
  BY DEF SameDrain
<1>1. PICK i \in Present : i = drain.id /\ i = drain'.id /\ ops'[i] # None
  BY DEF Inv, Queue, DrainRuns, InState, Present
<1> QED
  BY <1>1 DEF SameDrain

LEMMA BoundedKept ==
    ASSUME Bounded, \A i \in Ids : ops'[i] # None => ops[i] # None
    PROVE  Bounded'
BY DEF Bounded, Present

LEMMA BoundedAdds ==
    ASSUME NEW n \in Ids, \A i \in Present : i < n, \A i \in Ids \ {n} : ops'[i] = ops[i]
    PROVE  Bounded'
<1>1. n \in Nat /\ \A i \in Present' : i <= n
  BY OpIdsAssumption DEF Present
<1> QED
  BY <1>1 DEF Bounded

(* A step that adds no op and runs none.                                     *)
Calm ==
    /\ \A c \in Clients : pc'[c] \in Readers => pc[c] \in Readers /\ cur'[c] = cur[c]
    /\ \A c \in Clients : pc'[c] = "settle" /\ cur'[c].answer # "error" =>
           pc[c] = "settle" /\ cur'[c] = cur[c]
    /\ drain'.at = "settle" =>
           drain.at = "settle" /\ drain'.id = drain.id /\ drain'.answer = drain.answer
    /\ drain'.at \in {"execute", "settle"} =>
           drain.at \in {"execute", "settle"} /\ drain'.id = drain.id /\ drain'.op = drain.op
    /\ \A i \in Ids : ops'[i] # None => ops[i] # None /\ SameOp(i)
    /\ \A i \in Owed' : i \in Owed

LEMMA CalmTruth ==
    ASSUME Inv, Inv', Truth, ~Overlaps, Calm, rows' = rows \/ RowsFree, Tellings',
           \A t \in Rows : (\E i \in Owed : ops[i].row = t) /\ Trusted(t)' => Trusted(t)
    PROVE  Truth'
<1>1. Reading'
  BY ReadingKept DEF Truth, Calm
<1>2. AnsweredFor'
  <2>1. \A i \in Present : i \in Owed' =>
            i \in Owed /\ ops'[i].row = ops[i].row /\ (ops[i].landed => ops'[i].landed)
    BY DEF Calm, SameOp, Owed, InState, Present
  <2> QED
    BY <2>1, AnswersKept DEF Truth, Calm
<1>3. SameDrain'
  BY DrainSame DEF Truth, Calm, SameOp, Present
<1>4. Bounded'
  BY BoundedKept DEF Truth, Calm
<1> QED
  BY <1>1, <1>2, <1>3, <1>4 DEF Truth, Tellings

(* A step of that kind that leaves the ops as they are.                      *)
LEMMA IdleTruth ==
    ASSUME Inv, Inv', Truth, ~Overlaps, UNCHANGED <<rows, ops, server, misled, heirs>>,
           \A c \in Clients : pc'[c] \in Readers => pc[c] \in Readers /\ cur'[c] = cur[c],
           \A c \in Clients : pc'[c] = "settle" /\ cur'[c].answer # "error" =>
               pc[c] = "settle" /\ cur'[c] = cur[c],
           drain'.at = "settle" =>
               drain.at = "settle" /\ drain'.id = drain.id /\ drain'.answer = drain.answer,
           drain'.at \in {"execute", "settle"} =>
               drain.at \in {"execute", "settle"} /\ drain'.id = drain.id /\ drain'.op = drain.op
    PROVE  Truth'
<1>1. /\ \A i \in Ids : ops'[i] # None => ops[i] # None /\ SameOp(i) /\ ops'[i].old = ops[i].old
      /\ Owed' = Owed
  BY DEF SameOp, Owed, InState, Present
<1>2. Calm
  BY <1>1 DEF Calm
<1>3. Tellings'
  BY <1>1, QuietTold DEF Truth, Tellings
<1>4. \A t \in Rows : Trusted(t)' => Trusted(t)
  BY DEF Trusted
<1> QED
  BY <1>2, <1>3, <1>4, CalmTruth

-----------------------------------------------------------------------------
(* The steps, one by one.                                                    *)

(* The commands that wait, the drain that goes through its list, a crash.    *)
LEMMA WaitsTruth ==
    ASSUME Inv, Inv', Truth, ~Overlaps, NEW c \in Clients, Poll(c) \/ Own(c) \/ GiveUp(c)
    PROVE  Truth'
<1>1. /\ UNCHANGED <<rows, ops, server, drain, history>>
      /\ \A d \in Clients : d # c => pc'[d] = pc[d] /\ cur'[d] = cur[d]
      /\ pc'[c] \in {"own", "execute", "poll"} \/ (pc'[c] = "settle" /\ cur'[c].answer = "error")
  <2>1. CASE Poll(c)
    BY <2>1 DEF Poll, Goto, Inv, TypeOK
  <2>2. CASE Own(c) \/ GiveUp(c)
    <3>1. cur[c] \in Ask
      BY <2>2 DEF Own, GiveUp, Inv, TypeOK, Queue, Commands
    <3>2. cur' = [cur EXCEPT ![c].answer = "error"] => cur'[c].answer = "error"
      BY <3>1 DEF Inv, TypeOK, Ask
    <3> QED
      BY <2>2, <3>2 DEF Own, GiveUp, Goto, Inv, TypeOK
  <2> QED
    BY <2>1, <2>2
<1>2. UNCHANGED <<rows, ops, server, misled, heirs>>
  BY <1>1 DEF history
<1> QED
  BY <1>1, <1>2, IdleTruth DEF Readers

LEMMA DrainGoesOnTruth ==
    ASSUME Inv, Inv', Truth, ~Overlaps,
           \/ ListQueued \/ ReadTargets \/ EndDrain
           \/ \E i \in Ids : SkipRow(i) \/ DeferRow(i)
    PROVE  Truth'
<1>1. /\ UNCHANGED <<rows, ops, server, pc, cur, history>>
      /\ drain'.at \in {"targets", "next", "idle"}
  <2>1. CASE ListQueued
    BY <2>1 DEF ListQueued, Inv, TypeOK
  <2>2. CASE ReadTargets
    BY <2>2 DEF ReadTargets, Inv, TypeOK
  <2>3. CASE EndDrain
    BY <2>3 DEF EndDrain, Idle
  <2>4. ASSUME NEW i \in Ids, SkipRow(i) \/ DeferRow(i)
        PROVE  /\ UNCHANGED <<rows, ops, server, pc, cur, history>>
               /\ drain'.at \in {"targets", "next", "idle"}
    BY <2>4 DEF SkipRow, DeferRow, NextRow, Inv, TypeOK
  <2> QED
    BY <2>1, <2>2, <2>3, <2>4
<1>2. UNCHANGED <<rows, ops, server, misled, heirs>>
  BY <1>1 DEF history
<1> QED
  BY <1>1, <1>2, IdleTruth DEF Readers

LEMMA TakeRowTruth ==
    ASSUME Inv, Inv', Truth, ~Overlaps, NEW i \in Ids, TakeRow(i)
    PROVE  Truth'
<1>1. /\ UNCHANGED <<rows, ops, server, pc, cur, history>>
      /\ drain'.at = "execute" /\ drain'.id = i /\ drain'.op = ops[i]
  BY DEF TakeRow, Inv, TypeOK
<1>2. /\ \A j \in Ids : ops'[j] # None => ops[j] # None /\ SameOp(j) /\ ops'[j].old = ops[j].old
      /\ Owed' = Owed /\ \A t \in Rows : Trusted(t)' => Trusted(t)
  BY <1>1 DEF SameOp, Owed, InState, Present, Trusted, history
<1>3. Tellings'
  BY <1>1, <1>2, QuietTold DEF Truth, Tellings, history
<1>4. Reading'
  BY <1>1, ReadingKept DEF Truth
<1>5. AnsweredFor'
  BY <1>1, <1>2, AnswersKept DEF Truth
<1>6. SameDrain'
  BY <1>1 DEF SameDrain
<1>7. Bounded'
  BY <1>2, BoundedKept DEF Truth
<1> QED
  BY <1>3, <1>4, <1>5, <1>6, <1>7 DEF Truth, Tellings

LEMMA CrashTruth ==
    ASSUME Inv, Inv', Truth, ~Overlaps, Crash
    PROVE  Truth'
<1>1. /\ UNCHANGED <<rows, ops, server, misled, heirs>>
      /\ drain'.at = "idle" /\ \A c \in Clients : pc'[c] \in {"idle", "ended"}
  BY DEF Crash, Idle
<1> QED
  BY <1>1, IdleTruth DEF Readers

(* Orphans handed back stay owed.                                            *)
LEMMA RecoveredTold ==
    ASSUME Inv, Tellings, ops' = Recovered, UNCHANGED <<rows, server, misled, heirs>>
    PROVE  /\ Tellings' /\ Owed' = Owed
           /\ \A i \in Ids : ops'[i] # None => ops[i] # None /\ SameOp(i) /\ ops'[i].old = ops[i].old
<1>1. \A i \in Ids : ops'[i] = None <=> ops[i] = None
  BY RecoveredIs DEF Inv
<1>2. ASSUME NEW i \in Ids, ops[i] # None
      PROVE  /\ SameOp(i) /\ ops'[i].old = ops[i].old
             /\ ops'[i].state \in {"queued", "settling"} <=> ops[i].state \in {"queued", "settling"}
  <2>1. ops[i] \in Op
    BY <1>2 DEF Inv, TypeOK
  <2>2. CASE ops'[i] = ops[i]
    BY <2>2 DEF SameOp
  <2>3. CASE ops'[i] = [ops[i] EXCEPT !.state = "queued"] /\ ops[i].state = "settling"
    BY <2>1, <2>3 DEF SameOp, Op
  <2> QED
    BY <2>2, <2>3 DEF Recovered, InState
<1>3. Owed' = Owed
  BY <1>1, <1>2 DEF Owed, InState, Present
<1>4. Tellings'
  BY <1>1, <1>2, <1>3, QuietTold
<1> QED
  BY <1>1, <1>2, <1>3, <1>4

LEMMA RecoverTruth ==
    ASSUME Inv, Inv', Truth, ~Overlaps,
           StartDrain \/ \E c \in Clients : Recover(c)
    PROVE  Truth'
<1>1. /\ UNCHANGED <<rows, server, cur, misled, heirs>> /\ ops' = Recovered
      /\ \A c \in Clients : pc'[c] = pc[c] \/ (pc[c] = "recover" /\ pc'[c] = "commit")
      /\ drain' = drain \/ drain'.at = "list"
  BY DEF StartDrain, Recover, Goto, history, Inv, TypeOK
<1>2. /\ Tellings' /\ Owed' = Owed
      /\ \A i \in Ids : ops'[i] # None => ops[i] # None /\ SameOp(i) /\ ops'[i].old = ops[i].old
  BY <1>1, RecoveredTold DEF Truth, Tellings
<1>3. Calm
  BY <1>1, <1>2 DEF Calm, Readers
<1>4. \A t \in Rows : Trusted(t)' => Trusted(t)
  BY <1>1 DEF Trusted
<1> QED
  BY <1>1, <1>2, <1>3, <1>4, CalmTruth

(* A row is read when nobody else holds one.                                 *)
LEMMA AddressTruth ==
    ASSUME Inv, Inv', Truth, ~Overlaps, NEW c \in Clients, NEW ask \in Asks, Address(c, ask)
    PROVE  Truth'
<1>1. /\ UNCHANGED <<rows, ops, server, drain, history>>
      /\ \A d \in Clients : pc[d] \notin Readers
      /\ \A d \in Clients : d # c => pc'[d] = pc[d] /\ cur'[d] = cur[d]
      /\ cur'[c] = ask /\ pc'[c] \in Readers
      /\ rows[ask.row] # None /\ ask.from = rows[ask.row].box
      /\ ask.kind # "move" => ask.to = ask.from
  BY DEF Address, Goto, RowsFree, Readers, Inv, TypeOK
<1>2. /\ \A j \in Ids : ops'[j] # None => ops[j] # None /\ SameOp(j) /\ ops'[j].old = ops[j].old
      /\ Owed' = Owed /\ \A t \in Rows : Trusted(t)' => Trusted(t)
  BY <1>1 DEF SameOp, Owed, InState, Present, Trusted, history
<1>3. Tellings'
  BY <1>1, <1>2, QuietTold DEF Truth, Tellings, history
<1>4. Reading'
  BY <1>1 DEF Reading, Readers
<1>5. AnsweredFor'
  BY <1>1, <1>2, AnswersKept DEF Truth, Readers
<1>6. SameDrain'
  BY <1>1, DrainSame DEF Truth
<1>7. Bounded'
  BY <1>2, BoundedKept DEF Truth
<1> QED
  BY <1>3, <1>4, <1>5, <1>6, <1>7 DEF Truth, Tellings

(* A new op n on the row u.                                                  *)
LEMMA AddedTruth ==
    ASSUME Inv, Inv', Truth, ~Overlaps, NEW n \in Ids, IsNextId(n), NEW u \in Rows,
           \A i \in Ids \ {n} : ops'[i] = ops[i], \A t \in Rows \ {u} : rows'[t] = rows[t],
           ops'[n] # None, ops'[n].row = u,
           UNCHANGED <<server, drain, misled, heirs>>,
           Trusted(u)' => Trusted(u) /\ Told(u)', Reading',
           \A c \in Clients : pc'[c] = "settle" /\ cur'[c].answer # "error" =>
               pc[c] = "settle" /\ cur'[c] = cur[c]
    PROVE  Truth'
<1>1. \A i \in Present : i < n /\ i \in Ids \ {n} /\ ops'[i] = ops[i]
  BY OpIdsAssumption DEF IsNextId, Present
<1>2. ASSUME NEW t \in Rows \ {u}, Trusted(t)'
      PROVE  Told(t)'
  <2>1. Trusted(t) /\ Told(t)
    BY <1>2 DEF Trusted, Truth
  <2>2. OnRow(t)' = OnRow(t) /\ \A i \in OnRow(t) : SameOp(i) /\ ops'[i].old = ops[i].old
    BY <1>1 DEF OnRow, Owed, InState, Present, SameOp
  <2> QED
    BY <2>1, <2>2, ToldKept
<1>3. \A t \in Rows : Trusted(t)' => Trusted(t)
  BY DEF Trusted
<1>4. AnsweredFor'
  BY <1>1, <1>3, AnswersKept DEF Truth, Owed, InState, Present
<1>5. SameDrain'
  BY <1>1, DrainSame DEF Truth
<1>6. Bounded'
  BY <1>1, BoundedAdds
<1> QED
  BY <1>2, <1>4, <1>5, <1>6 DEF Truth

(* A command commits: its op is the newest of the row it read.               *)
LEMMA CommitTruth ==
    ASSUME Inv, Inv', Truth, ~Overlaps, NEW c \in Clients, Commit(c)
    PROVE  Truth'
<1> DEFINE ask == cur[c]
<1>0. PICK u \in Rows : u = ask.row
  BY DEF Commit, Inv, Queue, Commands, TypeOK, Ask
<1> DEFINE op == OpOf(ask, rows[u])
<1>1. /\ UNCHANGED <<server, drain, history>> /\ pc[c] = "commit"
      /\ ask \in Ask /\ rows[u] # None /\ rows[u] \in Message
      /\ ask.from = rows[u].box
      /\ ask.kind # "move" => ask.to = ask.from
      /\ ask.kind \in {"move", "delete"} \cup Toggles
  <2>1. ask \in Ask /\ pc[c] = "commit"
    BY DEF Commit, Inv, Queue, Commands, TypeOK
  <2>2. ask.kind \in AllKinds \ {"set_answered"}
    BY <2>1, KindsAssumption DEF Ask
  <2>3. ask.kind \in {"move", "delete"} \cup Toggles
    BY <2>2 DEF AllKinds
  <2> QED
    BY <1>0, <2>1, <2>2, <2>3 DEF Commit, Truth, Reading, Inv, TypeOK
<1>2. PICK n \in Ids :
          /\ IsNextId(n)
          /\ ops' = [ops EXCEPT ![n] = op]
          /\ rows' = [rows EXCEPT ![u] = Applied(rows[u], ask)]
          /\ IF ask.settle
             THEN Goto(c, "poll") /\ cur' = [cur EXCEPT ![c] = [ask EXCEPT !.id = n]]
             ELSE Goto(c, "ended") /\ cur' = [cur EXCEPT ![c] = None]
  BY <1>0, <1>1 DEF Commit
<1>3. /\ pc'[c] \in {"poll", "ended"}
      /\ \A d \in Clients : d # c => pc'[d] = pc[d] /\ cur'[d] = cur[d]
  BY <1>2 DEF Goto, Inv, TypeOK
<1>4. /\ op \in Op /\ op.row = u /\ op.mail = rows[u].mail /\ op.kind = ask.kind /\ ~op.landed
      /\ op.from = rows[u].box /\ op.prev = rows[u].box /\ op.to = ask.to /\ op.on = ask.on
      /\ op.old = rows[u].flags /\ op.state \in {"queued", "settling"}
  <2>1. op \in Op
    BY <1>1, KindsAssumption DEF OpOf, Op, Ask, Message
  <2>2. op.row = u /\ op.mail = rows[u].mail /\ op.kind = ask.kind /\ ~op.landed
    BY <1>0 DEF OpOf
  <2>3. /\ op.from = rows[u].box /\ op.prev = rows[u].box /\ op.to = ask.to /\ op.on = ask.on
        /\ op.old = rows[u].flags /\ op.state \in {"queued", "settling"}
    BY <1>1 DEF OpOf
  <2> QED
    BY <2>1, <2>2, <2>3
<1> HIDE DEF op
<1>5. /\ ops'[n] = op /\ op # None /\ \A i \in Ids \ {n} : ops'[i] = ops[i]
      /\ rows'[u] = Applied(rows[u], ask) /\ \A t \in Rows \ {u} : rows'[t] = rows[t]
  BY <1>1, <1>2, <1>4, NoneAssumption DEF Inv, TypeOK
<1>6. ASSUME Trusted(u)'
      PROVE  Trusted(u) /\ Told(u)'
  <2>1. ask.kind # "delete"
    <3>1. Applied(rows[u], ask) # None
      BY <1>5, <1>6 DEF Trusted
    <3> QED
      BY <3>1 DEF Applied
  <2>2. /\ rows'[u].mail = rows[u].mail /\ rows'[u].box = op.to
        /\ \A f \in {"seen", "flagged"} :
              IF op.kind \in Toggles /\ BitOf(op.kind) = f
              THEN /\ Bit(f \in op.old) = Bit(f \in rows[u].flags)
                   /\ Bit(f \in rows'[u].flags) = Bit(op.on)
              ELSE Bit(f \in rows'[u].flags) = Bit(f \in rows[u].flags)
    <3>1. CASE ask.kind = "move"
      <4>1. rows'[u] = [rows[u] EXCEPT !.box = ask.to]
        BY <1>5, <3>1 DEF Applied
      <4>2. rows'[u].mail = rows[u].mail /\ rows'[u].box = ask.to /\ rows'[u].flags = rows[u].flags
        BY <1>1, <4>1 DEF Message
      <4> QED
        BY <1>4, <3>1, <4>2 DEF Toggles
    <3>2. CASE ask.kind \in Toggles
      <4>1. rows'[u] = [rows[u] EXCEPT !.flags = WithBit(rows[u].flags, BitOf(ask.kind), ask.on)]
        BY <1>5, <3>2 DEF Applied, Toggles
      <4>2. /\ rows'[u].mail = rows[u].mail /\ rows'[u].box = rows[u].box
            /\ rows'[u].flags = WithBit(rows[u].flags, BitOf(ask.kind), ask.on)
        BY <1>1, <4>1 DEF Message
      <4>3. \A f : f \in rows'[u].flags <=>
                       IF f = BitOf(ask.kind) THEN ask.on ELSE f \in rows[u].flags
        BY <4>2 DEF WithBit
      <4>4. ask.to = rows[u].box
        BY <1>1, <3>2 DEF Toggles
      <4> QED
        BY <1>4, <3>2, <4>2, <4>3, <4>4 DEF Bit
    <3> QED
      BY <1>1, <2>1, <3>1, <3>2
  <2>3. Trusted(u) /\ Told(u)
    BY <1>1, <1>6, <2>2 DEF Trusted, Truth, history
  <2>4. \A i \in Present : i < n
    BY <1>2 DEF IsNextId
  <2>5. op.kind # "move" => op.to = op.from
    BY <1>1, <1>4
  <2>6. server'[rows[u].mail] = server[rows[u].mail]
    BY <1>1
  <2>7. Told(u)'
    <3> HIDE DEF ask
    <3> QED
      BY <1>4, <1>5, <2>1, <2>2, <2>3, <2>4, <2>5, <2>6, ToldAdds
  <2> QED
    BY <2>3, <2>7
<1>7. Reading'
  BY <1>1, <1>3 DEF Truth, Reading
<1>8. \A d \in Clients : pc'[d] = "settle" => pc[d] = "settle" /\ cur'[d] = cur[d]
  BY <1>3
<1>9. UNCHANGED <<server, drain, misled, heirs>>
  BY <1>1 DEF history
<1> QED
  BY <1>1, <1>2, <1>4, <1>5, <1>6, <1>7, <1>8, <1>9, AddedTruth

(* The mark of a reply, and its op.                                          *)
LEMMA ReplyTruth ==
    ASSUME Inv, Inv', Truth, ~Overlaps, NEW u \in Rows, Reply(u)
    PROVE  Truth'
<1> DEFINE op == [kind |-> "set_answered", row |-> u, mail |-> rows[u].mail,
                  from |-> rows[u].box, to |-> rows[u].box, on |-> TRUE,
                  prev |-> rows[u].box, old |-> rows[u].flags,
                  state |-> "queued", attempts |-> 0, landed |-> FALSE]
<1>1. /\ UNCHANGED <<server, pc, cur, drain, misled, heirs>> /\ RowsFree
      /\ rows[u] # None /\ rows[u] \in Message
      /\ rows' = [rows EXCEPT ![u] = [rows[u] EXCEPT !.flags = rows[u].flags \cup {"answered"}]]
  BY DEF Reply, Inv, TypeOK
<1>2. PICK n \in Ids : IsNextId(n) /\ ops' = [ops EXCEPT ![n] = op]
  BY DEF Reply
<1>3. /\ op \in Op /\ op.row = u /\ op.mail = rows[u].mail /\ op.kind = "set_answered"
      /\ op.from = rows[u].box /\ op.prev = rows[u].box /\ op.to = rows[u].box
      /\ ~op.landed /\ op.state = "queued"
  BY <1>1 DEF Op, Message, AllKinds
<1> HIDE DEF op
<1>4. /\ ops'[n] = op /\ op # None /\ \A i \in Ids \ {n} : ops'[i] = ops[i]
      /\ \A t \in Rows \ {u} : rows'[t] = rows[t]
      /\ rows'[u].mail = rows[u].mail /\ rows'[u].box = rows[u].box
      /\ rows'[u].flags = rows[u].flags \cup {"answered"}
  <2>1. rows'[u] = [rows[u] EXCEPT !.flags = rows[u].flags \cup {"answered"}]
    BY <1>1 DEF Inv, TypeOK
  <2> QED
    BY <1>1, <1>2, <1>3, <2>1, NoneAssumption DEF Inv, TypeOK, Message
<1>5. ASSUME Trusted(u)'
      PROVE  Trusted(u) /\ Told(u)'
  <2>1. Trusted(u) /\ Told(u)
    BY <1>1, <1>4, <1>5 DEF Trusted, Truth
  <2>2. \A f \in {"seen", "flagged"} :
            /\ ~ (op.kind \in Toggles /\ BitOf(op.kind) = f)
            /\ Bit(f \in rows'[u].flags) = Bit(f \in rows[u].flags)
    BY <1>3, <1>4 DEF Bit, Toggles
  <2>3. \A i \in Present : i < n
    BY <1>2 DEF IsNextId
  <2>4. server'[rows[u].mail] = server[rows[u].mail]
    BY <1>1
  <2>5. Told(u)'
    BY <1>3, <1>4, <2>1, <2>2, <2>3, <2>4, ToldAdds
  <2> QED
    BY <2>1, <2>5
<1>6. Reading'
  BY <1>1, ReadingKept DEF Truth
<1> QED
  BY <1>1, <1>2, <1>3, <1>4, <1>5, <1>6, AddedTruth

(* A mail that arrives on a row nothing is owed for is shown as it is.       *)
LEMMA ArriveTruth ==
    ASSUME Inv, Inv', Truth, ~Overlaps, NEW u \in Rows, NEW m \in Mails, Arrive(u, m)
    PROVE  Truth'
<1>1. /\ UNCHANGED <<ops, pc, cur, drain, misled>> /\ RowsFree /\ server[m] = None
      /\ rows' = [rows EXCEPT ![u] = [mail |-> m, box |-> Inbox, flags |-> {}]]
      /\ server' = [server EXCEPT ![m] = [box |-> Inbox, flags |-> {}]]
      /\ heirs' = IF \E i \in Owed : ops[i].row = u THEN heirs \cup {m} ELSE heirs
  BY DEF Arrive
<1>2. /\ rows'[u] = [mail |-> m, box |-> Inbox, flags |-> {}]
      /\ server'[m] = [box |-> Inbox, flags |-> {}]
      /\ \A t \in Rows : t # u => rows'[t] = rows[t]
      /\ \A k \in Mails : k # m => server'[k] = server[k]
  BY <1>1 DEF Inv, TypeOK
<1>3. Owed' = Owed /\ \A t \in Rows : OnRow(t)' = OnRow(t)
  BY <1>1 DEF OnRow, Owed, InState, Present
<1>4. ASSUME Trusted(u)'
      PROVE  OnRow(u) = {}
  BY <1>1, <1>2, <1>4 DEF Trusted, OnRow
<1>5. ASSUME NEW t \in Rows, t # u, Trusted(t)'
      PROVE  Trusted(t) /\ server'[rows[t].mail] = server[rows[t].mail]
  <2>1. Trusted(t)
    BY <1>1, <1>2, <1>5 DEF Trusted
  <2>2. rows[t].mail \in Mails /\ rows[t].mail # m
    BY <1>1, <2>1 DEF Trusted, Inv, TypeOK, Identity, Arrived, Message
  <2> QED
    BY <1>2, <2>1, <2>2
<1>6. Tellings'
  <2> SUFFICES ASSUME NEW t \in Rows, Trusted(t)'
               PROVE  Told(t)'
    BY DEF Tellings
  <2>1. CASE t = u
    <3>1. /\ OnRow(t)' = {} /\ Unrun(t)' = {} /\ \A f : TogglesOf(t, f)' = {}
      BY <1>3, <1>4, <2>1 DEF Unrun, TogglesOf
    <3>2. /\ rows'[t].mail = m /\ rows'[t].box = Inbox /\ rows'[t].flags = {}
          /\ server'[m].box = Inbox /\ server'[m].flags = {}
      BY <1>2, <2>1
    <3> QED
      BY <3>1, <3>2 DEF Told, Fits, Done, BoxChain, BitChain, Chain
  <2>2. CASE t # u
    <3>1. Told(t) /\ rows'[t] = rows[t] /\ server'[rows[t].mail] = server[rows[t].mail]
      BY <1>2, <1>5, <2>2 DEF Truth
    <3>2. \A i \in OnRow(t)' : SameOp(i) /\ ops'[i].old = ops[i].old
      BY <1>1 DEF SameOp
    <3> QED
      BY <1>3, <3>1, <3>2, ToldKept
  <2> QED
    BY <2>1, <2>2
<1>7. Calm
  BY <1>1, <1>3 DEF Calm, SameOp
<1>8. \A t \in Rows : (\E i \in Owed : ops[i].row = t) /\ Trusted(t)' => Trusted(t)
  <2>1. Trusted(u)' => ~ \E i \in Owed : ops[i].row = u
    BY <1>4 DEF OnRow
  <2> QED
    BY <1>5, <2>1
<1> QED
  BY <1>1, <1>6, <1>7, <1>8, CalmTruth

(* The caller of an op runs it, ...                                          *)
LEMMA ExecuteTruth ==
    ASSUME Inv, Inv', Truth, ~Overlaps, NEW c \in Clients, NEW answer \in Answers,
           Execute(c, answer)
    PROVE  Truth'
<1>1. /\ UNCHANGED <<rows, drain, misled, heirs>> /\ pc[c] = "execute"
      /\ cur' = [cur EXCEPT ![c].answer = answer] /\ pc' = [pc EXCEPT ![c] = "settle"]
      /\ Run(cur[c].id, ops[cur[c].id], answer)
  BY DEF Execute, Goto, history
<1>2. PICK i \in Owed : i = cur[c].id /\ i \in Present /\ ops[i] \in Op /\ OlderOwed(i) = {}
  BY <1>1 DEF Inv, TypeOK, Queue, CallersWait, Owed, InState, Present
<1>3. /\ pc'[c] = "settle" /\ cur'[c].id = i /\ cur'[c].answer = answer
      /\ \A d \in Clients : d # c => pc'[d] = pc[d] /\ cur'[d] = cur[d]
  <2>1. cur[c] \in Ask
    BY <1>1 DEF Inv, TypeOK, Queue, Commands
  <2>2. cur'[c] = [cur[c] EXCEPT !.answer = answer]
    BY <1>1 DEF Inv, TypeOK
  <2>3. cur'[c].id = i /\ cur'[c].answer = answer
    BY <1>2, <2>1, <2>2 DEF Ask
  <2> QED
    BY <1>1, <2>3 DEF Inv, TypeOK
<1>4. /\ Tellings' /\ Owed' = Owed
      /\ \A j \in Ids : ops'[j] = None <=> ops[j] = None
      /\ \A j \in Present :
            /\ ops'[j].row = ops[j].row /\ ops'[j].from = ops[j].from
            /\ ops'[j].to = ops[j].to /\ ops'[j].on = ops[j].on
            /\ ops[j].landed => ops'[j].landed
      /\ Trusted(ops[i].row) /\ answer # "error" => ops'[i].landed
  BY <1>1, <1>2, RunTold DEF Truth, Tellings
<1>5. Reading'
  BY <1>1, <1>3, ReadingKept DEF Truth, Readers
<1>6. AnsweredFor'
  <2>1. ASSUME NEW d \in Clients, pc'[d] = "settle", cur'[d].answer # "error",
               cur'[d].id \in Owed', Trusted(ops[cur[d].id].row)'
        PROVE  ops'[cur'[d].id].landed
    <3>1. PICK j \in Present : j = cur'[d].id /\ j \in Owed
      BY <1>4, <2>1 DEF Owed, InState
    <3>2. Trusted(ops[j].row)
      BY <1>1, <1>4, <2>1, <3>1 DEF Trusted
    <3>3. CASE d = c
      BY <1>3, <1>4, <2>1, <3>1, <3>2, <3>3
    <3>4. CASE d # c
      BY <1>3, <1>4, <2>1, <3>1, <3>2, <3>4 DEF Truth, AnsweredFor
    <3> QED
      BY <3>3, <3>4
  <2>2. ASSUME drain'.at = "settle", drain'.answer # "error", Trusted(ops[drain.id].row)'
        PROVE  ops'[drain'.id].landed
    <3>1. drain.id \in Present /\ drain'.id = drain.id
      BY <1>1, <2>2 DEF Inv, Queue, DrainRuns, InState
    <3>2. Trusted(ops[drain.id].row)
      BY <1>1, <1>4, <2>2, <3>1 DEF Trusted
    <3> QED
      BY <1>1, <1>4, <2>2, <3>1, <3>2 DEF Truth, AnsweredFor
  <2> QED
    BY <2>1, <2>2 DEF AnsweredFor, Trusted
<1>7. SameDrain'
  BY <1>1, <1>4, DrainSame DEF Truth
<1>8. Bounded'
  BY <1>4, BoundedKept DEF Truth
<1> QED
  BY <1>4, <1>5, <1>6, <1>7, <1>8 DEF Truth, Tellings

(* ... or the drain does.                                                    *)
LEMMA DrainExecuteTruth ==
    ASSUME Inv, Inv', Truth, ~Overlaps, NEW answer \in Answers, DrainExecute(answer)
    PROVE  Truth'
<1>1. /\ UNCHANGED <<rows, pc, cur, misled, heirs>> /\ drain.at = "execute"
      /\ drain' = [drain EXCEPT !.at = "settle", !.answer = answer]
      /\ Run(drain.id, drain.op, answer)
  BY DEF DrainExecute, history
<1>2. PICK i \in Owed : i = drain.id /\ i \in Present /\ OlderOwed(i) = {}
  BY <1>1 DEF Inv, Queue, DrainRuns, Owed, InState
<1>3. /\ drain.op \in Op /\ drain.op.mail = ops[i].mail /\ drain.op.kind = ops[i].kind
      /\ drain.op.from = ops[i].from /\ drain.op.to = ops[i].to /\ drain.op.on = ops[i].on
  BY <1>1, <1>2 DEF Inv, TypeOK, Queue, DrainRuns, Truth, SameDrain
<1>4. /\ drain'.at = "settle" /\ drain'.id = drain.id /\ drain'.op = drain.op
      /\ drain'.answer = answer
  BY <1>1 DEF Inv, TypeOK
<1>5. /\ Tellings' /\ Owed' = Owed
      /\ \A j \in Ids : ops'[j] = None <=> ops[j] = None
      /\ \A j \in Present :
            /\ ops'[j].row = ops[j].row /\ ops'[j].from = ops[j].from
            /\ ops'[j].to = ops[j].to /\ ops'[j].on = ops[j].on
            /\ ops[j].landed => ops'[j].landed
      /\ Trusted(ops[i].row) /\ answer # "error" => ops'[i].landed
  BY <1>1, <1>2, <1>3, RunTold DEF Truth, Tellings
<1>6. Reading'
  BY <1>1, ReadingKept DEF Truth
<1>7. AnsweredFor'
  <2>1. ASSUME NEW d \in Clients, pc'[d] = "settle", cur'[d].answer # "error",
               cur'[d].id \in Owed', Trusted(ops[cur[d].id].row)'
        PROVE  ops'[cur'[d].id].landed
    <3>1. PICK j \in Present : j = cur[d].id /\ j \in Owed
      BY <1>1, <1>5, <2>1 DEF Owed, InState
    <3>2. Trusted(ops[j].row)
      BY <1>1, <1>5, <2>1, <3>1 DEF Trusted
    <3> QED
      BY <1>1, <1>5, <2>1, <3>1, <3>2 DEF Truth, AnsweredFor
  <2>2. ASSUME drain'.answer # "error", Trusted(ops[drain.id].row)'
        PROVE  ops'[drain'.id].landed
    <3>1. Trusted(ops[i].row)
      BY <1>1, <1>2, <1>4, <1>5, <2>2 DEF Trusted
    <3> QED
      BY <1>2, <1>4, <1>5, <2>2, <3>1
  <2> QED
    BY <2>1, <2>2 DEF AnsweredFor, Trusted
<1>8. SameDrain'
  BY <1>1, <1>4, <1>5, DrainSame DEF Truth
<1>9. Bounded'
  BY <1>5, BoundedKept DEF Truth
<1> QED
  BY <1>5, <1>6, <1>7, <1>8, <1>9 DEF Truth, Tellings

(* A refusal changes what no other op says, and leaves none owed that was    *)
(* not.                                                                      *)
LEMMA RefuseCalm ==
    ASSUME Inv, NEW i \in Ids, NEW how \in {"park", "discard"}, Refuse(i, how)
    PROVE  /\ \A j \in Ids : ops'[j] # None => ops[j] # None /\ SameOp(j)
           /\ \A j \in Owed' : j \in Owed
           /\ \A t \in Rows : rows'[t] # None => rows[t] # None /\ rows'[t].mail = rows[t].mail
           /\ misled \subseteq misled'
<1>1. CASE /\ i \in Owed
           /\ rows' = RowUndone(RefusedWith(i)) /\ ops' = OpsRefused(RefusedWith(i), how)
           /\ misled' = IF ops[i].landed THEN misled \cup {ops[i].mail} ELSE misled
  <2> DEFINE S == RefusedWith(i)
  <2>1. /\ ops'[i] # None => ops'[i].state = "failed" /\ SameOp(i)
        /\ \A j \in Ids : ops[j] = None => ops'[j] = None
        /\ \A j \in Present \ {i} :
              /\ ops'[j] # None /\ SameOp(j)
              /\ j \in S => ops'[j].state = "failed"
              /\ j \notin S => ops'[j].state = ops[j].state /\ ops'[j].old = OldRewritten(S, j)
    BY <1>1, RefusedSays DEF Inv
  <2> HIDE DEF S
  <2>2. \A j \in Ids : ops'[j] # None => ops[j] # None /\ SameOp(j)
    BY <2>1 DEF Present
  <2>3. ASSUME NEW j \in Owed'
        PROVE  j \in Owed
    <3>1. j \in Ids /\ ops'[j] # None /\ ops'[j].state \in {"queued", "settling"}
      BY DEF Owed, InState, Present
    <3>2. j \in Present \ {i} /\ ops'[j].state = ops[j].state
      BY <2>1, <3>1 DEF Present
    <3> QED
      BY <3>1, <3>2 DEF Owed, InState
  <2>4. ops[i] # None
    BY <1>1 DEF Owed, InState, Present
  <2>5. \A t \in Rows : rows'[t] # None => rows[t] # None /\ rows'[t].mail = rows[t].mail
    BY <1>1, <2>4, RefusedRows DEF Inv
  <2> QED
    BY <1>1, <2>2, <2>3, <2>5
<1>2. CASE i \in InState({"failed"}) /\ ops' = [ops EXCEPT ![i] = None] /\ UNCHANGED <<rows, misled>>
  <2>1. ops'[i] = None /\ \A j \in Ids \ {i} : ops'[j] = ops[j]
    BY <1>2 DEF Inv, TypeOK
  <2> QED
    BY <1>2, <2>1 DEF SameOp, Owed, InState, Present
<1>3. CASE UNCHANGED <<rows, ops, misled>>
  BY <1>3 DEF SameOp, Owed, InState, Present
<1> QED
  BY <1>1, <1>2, <1>3 DEF Refuse, Owed, InState, Present

LEMMA RetiredCalm ==
    ASSUME Inv, NEW i \in Ids, ops' = Retired(i)
    PROVE  /\ \A j \in Ids : ops'[j] # None => ops[j] # None /\ SameOp(j)
           /\ \A j \in Owed' : j \in Owed
<1>1. ops'[i] = None /\ \A j \in Ids \ {i} : ops'[j] = ops[j]
  BY DEF Retired, Inv, TypeOK
<1> QED
  BY <1>1 DEF SameOp, Owed, InState, Present

LEMMA SettleTruth ==
    ASSUME Inv, Inv', Truth, ~Overlaps, NEW c \in Clients, Settle(c)
    PROVE  Truth'
<1>1. /\ UNCHANGED <<server, drain, heirs>> /\ pc[c] = "settle" /\ pc'[c] = "ended"
      /\ \A d \in Clients : d # c => pc'[d] = pc[d] /\ cur'[d] = cur[d]
  BY DEF Settle, Goto, Inv, TypeOK
<1>2. PICK i \in Ids : i = cur[c].id
  BY <1>1 DEF Inv, Queue, Commands, Settlings, InState, Present
<1>3. CASE cur[c].answer # "error" /\ ops' = Retired(i) /\ UNCHANGED <<rows, misled>>
  <2>1. i \in Owed /\ Trusted(ops[i].row) => ops[i].landed
    BY <1>1, <1>2, <1>3 DEF Truth, AnsweredFor
  <2>2. Tellings'
    BY <1>1, <1>3, <2>1, RetiredTold DEF Truth, Tellings
  <2>3. Calm
    BY <1>1, <1>3, RetiredCalm DEF Calm, Readers
  <2>4. \A t \in Rows : Trusted(t)' => Trusted(t)
    BY <1>1, <1>3 DEF Trusted
  <2> QED
    BY <1>3, <2>2, <2>3, <2>4, CalmTruth
<1>4. CASE RowsFree /\ Refuse(i, "discard")
  <2>1. Tellings'
    BY <1>1, <1>4, RefuseTold DEF Truth, Tellings
  <2>2. /\ \A j \in Ids : ops'[j] # None => ops[j] # None /\ SameOp(j)
        /\ \A j \in Owed' : j \in Owed
        /\ \A t \in Rows : rows'[t] # None => rows[t] # None /\ rows'[t].mail = rows[t].mail
        /\ misled \subseteq misled'
    BY <1>4, RefuseCalm
  <2>3. Calm
    BY <1>1, <2>2 DEF Calm, Readers
  <2>4. \A t \in Rows : Trusted(t)' => Trusted(t)
    BY <1>1, <2>2 DEF Trusted
  <2> QED
    BY <1>4, <2>1, <2>3, <2>4, CalmTruth
<1> QED
  BY <1>2, <1>3, <1>4 DEF Settle

LEMMA DrainSettleTruth ==
    ASSUME Inv, Inv', Truth, ~Overlaps, DrainSettle
    PROVE  Truth'
<1>1. /\ UNCHANGED <<server, pc, cur, heirs>> /\ drain.at = "settle" /\ drain'.at = "next"
  BY DEF DrainSettle, Inv, TypeOK
<1>2. PICK i \in Ids : i = drain.id /\ i \in Present
  BY <1>1 DEF Inv, Queue, DrainRuns, InState, Present
<1>3. CASE drain.answer # "error" /\ ops' = Retired(i) /\ UNCHANGED <<rows, misled>>
  <2>1. i \in Owed /\ Trusted(ops[i].row) => ops[i].landed
    BY <1>1, <1>2, <1>3 DEF Truth, AnsweredFor
  <2>2. Tellings'
    BY <1>1, <1>3, <2>1, RetiredTold DEF Truth, Tellings
  <2>3. Calm
    BY <1>1, <1>3, RetiredCalm DEF Calm, Readers
  <2>4. \A t \in Rows : Trusted(t)' => Trusted(t)
    BY <1>1, <1>3 DEF Trusted
  <2> QED
    BY <1>3, <2>2, <2>3, <2>4, CalmTruth
<1>4. CASE RowsFree /\ Refuse(i, "park")
  <2>1. Tellings'
    BY <1>1, <1>4, RefuseTold DEF Truth, Tellings
  <2>2. /\ \A j \in Ids : ops'[j] # None => ops[j] # None /\ SameOp(j)
        /\ \A j \in Owed' : j \in Owed
        /\ \A t \in Rows : rows'[t] # None => rows[t] # None /\ rows'[t].mail = rows[t].mail
        /\ misled \subseteq misled'
    BY <1>4, RefuseCalm
  <2>3. Calm
    BY <1>1, <2>2 DEF Calm, Readers
  <2>4. \A t \in Rows : Trusted(t)' => Trusted(t)
    BY <1>1, <2>2 DEF Trusted
  <2> QED
    BY <1>4, <2>1, <2>3, <2>4, CalmTruth
<1>5. CASE ops' = [ops EXCEPT ![i].attempts = @ + 1] /\ UNCHANGED <<rows, misled>>
  <2>1. ops[i] \in Op
    BY <1>2 DEF Inv, TypeOK, Present
  <2>2. ops'[i] = [ops[i] EXCEPT !.attempts = @ + 1] /\ \A j \in Ids \ {i} : ops'[j] = ops[j]
    BY <1>5 DEF Inv, TypeOK
  <2>3. SameOp(i) /\ ops'[i].old = ops[i].old /\ ops'[i].state = ops[i].state
    BY <2>1, <2>2 DEF SameOp, Op
  <2>4. \A j \in Ids : ops'[j] # None => ops[j] # None /\ SameOp(j) /\ ops'[j].old = ops[j].old
    BY <1>2, <2>2, <2>3 DEF SameOp, Present
  <2>5. ops'[i] # None
    <3>1. ops'[i] \in Op
      BY <2>1, <2>2 DEF Op
    <3> QED
      BY <3>1, NoneAssumption
  <2>6. Owed' = Owed
    BY <1>2, <2>2, <2>3, <2>5 DEF Owed, InState, Present
  <2>7. Tellings'
    BY <1>1, <1>5, <2>4, <2>6, QuietTold DEF Truth, Tellings
  <2>8. Calm
    BY <1>1, <2>4, <2>6 DEF Calm
  <2>9. \A t \in Rows : Trusted(t)' => Trusted(t)
    BY <1>1, <1>5 DEF Trusted
  <2> QED
    BY <1>5, <2>7, <2>8, <2>9, CalmTruth
<1> QED
  BY <1>2, <1>3, <1>4, <1>5 DEF DrainSettle

-----------------------------------------------------------------------------
LEMMA InitTruth ==
    ASSUME Init
    PROVE  Truth
<1>1. Present = {} /\ Owed = {}
  BY DEF Init, Present, Owed, InState
<1>2. ASSUME NEW t \in Rows
      PROVE  Told(t)
  <2>1. OnRow(t) = {} /\ Unrun(t) = {} /\ \A f : TogglesOf(t, f) = {}
    BY <1>1 DEF OnRow, Unrun, TogglesOf
  <2>2. /\ rows[t].mail = Home[t] /\ rows[t].box = Inbox /\ rows[t].flags = {}
        /\ server[Home[t]] = [box |-> Inbox, flags |-> {}]
    BY HomeAssumption DEF Init
  <2> QED
    BY <2>1, <2>2 DEF Told, Fits, Done, BoxChain, BitChain, Chain
<1>3. Reading /\ AnsweredFor /\ SameDrain
  BY DEF Init, Idle, Reading, AnsweredFor, SameDrain
<1>4. Bounded
  BY <1>1 DEF Bounded
<1> QED
  BY <1>2, <1>3, <1>4 DEF Truth

LEMMA StepTruth ==
    ASSUME Inv, Inv', Truth, ~Overlaps, [Next]_vars
    PROVE  Truth'
<1>1. CASE UNCHANGED vars
  BY <1>1, IdleTruth DEF vars, Readers
<1>2. ASSUME NEW c \in Clients, CommandStep(c) \/ \E ask \in Asks : Address(c, ask)
      PROVE  Truth'
  BY <1>2, RecoverTruth, CommitTruth, WaitsTruth, SettleTruth, ExecuteTruth, AddressTruth
     DEF CommandStep
<1>3. CASE DrainStep
  BY <1>3, RecoverTruth, DrainGoesOnTruth, TakeRowTruth, DrainSettleTruth, DrainExecuteTruth
     DEF DrainStep, DrainRow
<1>4. ASSUME NEW t \in Rows, Reply(t) \/ \E m \in Mails : Arrive(t, m)
      PROVE  Truth'
  BY <1>4, ReplyTruth, ArriveTruth
<1>5. CASE Crash
  BY <1>5, CrashTruth
<1> QED
  BY <1>1, <1>2, <1>3, <1>4, <1>5 DEF Next

(* A message nothing is owed for is shown as the server has it: in the       *)
(* folder it is in, and with its flags, whatever landed, was refused, undone *)
(* or run again on the way (apply_*, refuse, roll_flag_back, still_owed),    *)
(* where no row changes between a command's read and its commit.             *)
THEOREM QueueConverges == ~Overlaps /\ Spec => []Converged
<1> SUFFICES ASSUME ~Overlaps
             PROVE  Spec => []Converged
  OBVIOUS
<1>1. Inv /\ Truth /\ [Next]_vars => Inv' /\ Truth'
  BY StepInv, StepTruth
<1>2. Inv /\ Truth => Converged
  <2> SUFFICES ASSUME Inv, Truth,
                      NEW t \in Rows, rows[t] # None, Quiet(rows[t].mail),
                      rows[t].mail \notin misled \cup heirs
               PROVE  SameAsServer(t)
    BY DEF Converged
  <2>1. Told(t)
    BY DEF Truth, Trusted
  <2>2. OnRow(t) = {} /\ Unrun(t) = {} /\ \A f : TogglesOf(t, f) = {}
    <3>1. OnRow(t) = {}
      BY <2>1 DEF Told, Fits, OnRow, Quiet
    <3> QED
      BY <3>1 DEF Unrun, TogglesOf
  <2>3. rows[t].box = server[rows[t].mail].box
    BY <2>1, <2>2 DEF Told, BoxChain, Chain
  <2>4. ASSUME NEW f \in {"seen", "flagged"}
        PROVE  f \in rows[t].flags <=> f \in server[rows[t].mail].flags
    BY <2>1, <2>2 DEF Told, BitChain, Chain, Bit
  <2>5. rows[t].flags \subseteq Flags /\ server[rows[t].mail].flags \subseteq Flags
    BY DEF Inv, TypeOK, Identity, Arrived, Message
  <2>6. rows[t].flags \ {"answered"} = server[rows[t].mail].flags \ {"answered"}
    BY <2>4, <2>5 DEF Flags
  <2> QED
    BY <2>3, <2>6 DEF SameAsServer
<1> QED
  BY <1>1, <1>2, InitInv, InitTruth, PTL DEF Spec

=============================================================================

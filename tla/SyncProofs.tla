------------------------------ MODULE SyncProofs ------------------------------
(***************************************************************************)
(* What holds of sync passes over any mailboxes and messages, at any limit,  *)
(* and for any budget of local moves, other clients, faults and              *)
(* renumberings: the types, that a move keeps a copy on the server, and that *)
(* no message gets a second row unnoticed.                                   *)
(*                                                                          *)
(* Shape is what the first two follow from.  The third needs what is kept of *)
(* each message: its copy, row and ops form a chain, a UID its row or an op  *)
(* is bound to was never another message's, and whatever of it a pass has    *)
(* still to ingest has departed for good or has not moved at all.            *)
(***************************************************************************)
EXTENDS Sync, FiniteSetTheorems, WellFoundedInduction, TLAPS

-----------------------------------------------------------------------------
(* The shape of the state.                                                   *)

Op     == [id : Nat \ {0}, row : Nat \ {0}, msg : Msgs, from : Boxes, to : Boxes \cup {None},
           copy : Name \cup {None}, uid : Nat]
Leave  == [msg : Msgs, from : Boxes, copy : Name \cup {None}]
Skips  == [uids : SUBSET (Nat \ {0}), cursor : Cursor \cup {None}]
Answer == [listed : SUBSET (Nat \ {0}), complete : BOOLEAN, reset : BOOLEAN, validity : Nat,
           top : Nat, msgs : SUBSET Copy, vanished : SUBSET Nat, short : BOOLEAN,
           mark : Nat \cup {None}, backlog : SUBSET Msgs]
Pass   == [at : {"idle", "open", "fetch", "target", "ingest"}, limit : Nat, next : Nat,
           watch : SUBSET Leave, known : [Boxes -> Skips \cup {None}],
           got : [Boxes -> Answer \cup {None, Failed}], todo : SUBSET Copy, uids : SUBSET Nat,
           unmet : SUBSET Nat, gate : BOOLEAN, prunes : SUBSET (Boxes \X Nat)]

Bounded(S) == \E n \in Nat : \A x \in S : x.id <= n

(* A mailbox on the server: UIDs are its copies' own, and below UIDNEXT.       *)
Mailbox  == [copies : SUBSET Copy, next : Nat \ {0}, validity : Nat]
Sound(s) ==
    /\ s \in Mailbox
    /\ \A c, d \in s.copies : c.uid = d.uid => c = d
    /\ \A c \in s.copies : c.uid < s.next

ServerShape == server \in [Boxes -> Mailbox] /\ \A b \in Boxes : Sound(server[b])

CursorShape ==
    /\ cursor \in [Boxes -> Cursor \cup {None}]
    /\ \A b \in Boxes : cursor[b] # None =>
          /\ cursor[b].validity <= server[b].validity
          /\ cursor[b].mark # None => cursor[b].mark <= cursor[b].last

AttemptsShape ==
    /\ attempts = [b \in Boxes |-> attempts[b]]
    /\ \A b \in Boxes : attempts[b] \in [DOMAIN attempts[b] -> Nat \ {0}]

(* Row ids are a row's own, and so is a UID of its mailbox it is bound to.     *)
Tidy(S) ==
    /\ S \subseteq Row /\ Bounded(S)
    /\ \A r, t \in S :
          r.id = t.id \/ (r.box = t.box /\ r.uid = t.uid /\ r.uid # Unbound) => r = t

RowsShape == Tidy(rows)

(* The UID an op names is under a UIDVALIDITY the mailbox has had.            *)
OpsShape ==
    /\ ops \subseteq Op /\ Bounded(ops)
    /\ \A o, p \in ops : o.id = p.id => o = p
    /\ \A o \in ops :
          /\ o.copy = None => o.uid = Unbound
          /\ o.copy # None => o.copy.uid = o.uid
          /\ o.copy # None /\ o.copy.validity # None =>
                o.copy.validity <= server[o.from].validity

(* A pass answers for a mailbox within its UIDs, and a mark it leaves is     *)
(* below a message it downloaded, if it downloaded any.                      *)
GoodAnswer(g, validity) ==
    /\ g \in Answer /\ g.validity <= validity
    /\ \A u \in g.listed : u <= g.top
    /\ \A c \in g.msgs : c.uid \in g.listed
    /\ \A c, d \in g.msgs : c.uid = d.uid => c = d
    /\ g.mark # None => g.mark <= g.top /\ (g.msgs # {} => \E c \in g.msgs : g.mark <= c.uid)

HasAnswer(b) == pass.got[b] \notin {None, Failed}

PassShape ==
    /\ pass \in Pass
    /\ \A b \in Boxes : HasAnswer(b) => GoodAnswer(pass.got[b], server[b].validity)
    /\ pass.at \in {"idle", "open"} => pass.got = Idle.got
    /\ pass.at = "fetch" => \A b \in Boxes :
          pass.known[b] \in Skips /\ pass.known[b].cursor = cursor[b]
    /\ pass.at \in {"target", "ingest"} =>
          pass.next \in 1..(Len(Targets) + 1) /\ \A b \in Boxes : pass.got[b] # None
    /\ pass.at = "ingest" =>
          /\ pass.next <= Len(Targets) /\ Got # Failed
          /\ pass.todo \subseteq Got.msgs /\ pass.unmet \subseteq UidsOf(Got.msgs)

Shape ==
    /\ ServerShape /\ CursorShape /\ AttemptsShape /\ RowsShape /\ OpsShape
    /\ PassShape /\ budget \in Budget

-----------------------------------------------------------------------------
(* What is kept of a message nobody else touched and no pass lost track of.   *)

Clear == Msgs \ (touched \cup blurred)
RowsOf(m) == {r \in rows : r.msg = m}
OpsOf(m)  == {o \in ops : o.msg = m}
In(m, b)  == \E c \in server[b].copies : c.msg = m

(* It has one copy and one row, ... *)
OneCopy(m) ==
    \A a, b \in Boxes : \A c \in server[a].copies, d \in server[b].copies :
        c.msg = m /\ d.msg = m => a = b /\ c = d
OneRow(m) == \A r, t \in RowsOf(m) : r = t

(* ... and its ops take the copy from where it is to where the row is.        *)
Oldest(o, S) == \A p \in S : o.id <= p.id
Latest(o, S) == \A p \in S : p.id <= o.id
Follows(p, o, S) == o.id < p.id /\ ~ \E q \in S : o.id < q.id /\ q.id < p.id

Chained(S, R, B) ==
    /\ \A o, p \in S : o.row = p.row
    /\ \A o \in S, r \in R : o.row = r.id
    /\ \A o \in S : Latest(o, S) => \A r \in R : r.box = o.to
    /\ \A o, p \in S : Follows(p, o, S) => o.to = p.from
    /\ \A o \in S : Oldest(o, S) => \A b \in B : b = o.from
    /\ S = {} => \A r \in R, b \in B : b = r.box

Chain(m) == Chained(OpsOf(m), RowsOf(m), {b \in Boxes : In(m, b)})

(* Its ops name no twin, and no UID without a UIDVALIDITY the store has read. *)
Named(m) ==
    \A o \in OpsOf(m) : o.copy # None =>
        /\ o.copy.siblings = {} /\ o.copy.validity # None
        /\ cursor[o.from] # None /\ o.copy.validity <= cursor[o.from].validity

(* A UID of the mailbox as it is numbered now was never another message's.    *)
Its(b, u, m) == u < server[b].next /\ \A c \in server[b].copies : c.uid = u => c.msg = m

RowTrue(m) ==
    \A r \in RowsOf(m) :
        r.uid # Unbound /\ cursor[r.box] # None /\ cursor[r.box].validity = server[r.box].validity
            => Its(r.box, r.uid, m)
OpsTrue(m) ==
    \A o \in OpsOf(m) :
        o.copy # None /\ o.copy.validity = server[o.from].validity => Its(o.from, o.copy.uid, m)

(* A row bound under a numbering the cursor does not record was bound by the   *)
(* pass that is ingesting its mailbox.                                        *)
Ingesting(b) == pass.at = "ingest" /\ Here = b
BoundNow(m) ==
    \A r \in RowsOf(m) :
        /\ r.uid # Unbound /\ cursor[r.box] = None =>
              Ingesting(r.box) /\ [uid |-> r.uid, msg |-> m] \in Got.msgs
        /\ Ingesting(r.box) /\ Got.reset /\ r.uid \in pass.uids =>
              [uid |-> r.uid, msg |-> m] \in Got.msgs

(* The answers a pass has still to ingest, or is ingesting, and the messages  *)
(* of them it has still to write.                                             *)
Unread(b) ==
    /\ HasAnswer(b)
    /\ \/ pass.at = "fetch"
       \/ pass.at \in {"target", "ingest"} /\ \E i \in pass.next..Len(Targets) : Targets[i] = b
Awaited(b) ==
    IF Unread(b) THEN {c \in pass.got[b].msgs : Ingesting(b) => c \in pass.todo} ELSE {}

(* A listed message has departed, or nothing of it has moved since.           *)
DepartsIn(g, copy, uid) ==
    \/ copy = None
    \/ copy # None /\ copy.uid = uid
    \/ copy # None /\ copy.validity # None /\ copy.validity # g.validity
    \/ copy # None /\ ~g.reset /\ g.complete /\ ({copy.uid} \cup copy.siblings) \cap g.listed = {}
Gone(b, c) ==
    \E l \in pass.watch : l.msg = c.msg /\ l.from = b /\ DepartsIn(pass.got[b], l.copy, c.uid)
Tells(b, c, r) ==
    \/ r.uid \in {Unbound, c.uid}
    \/ pass.got[b].reset
    \/ pass.got[b].complete /\ r.uid \notin pass.got[b].listed
Still(b, c) ==
    /\ OpsOf(c.msg) = {}
    /\ \A r \in RowsOf(c.msg) : r.box = b /\ Tells(b, c, r)
    /\ \A a \in Boxes : In(c.msg, a) => a = b

Seen(m) == \A b \in Boxes : \A c \in Awaited(b) : c.msg = m => Gone(b, c) \/ Still(b, c)
SeenOnce(m) ==
    \A a, b \in Boxes : \A c \in Awaited(a), d \in Awaited(b) :
        c.msg = m /\ d.msg = m /\ a # b => Gone(a, c) \/ Gone(b, d)
GotOne(m) ==
    \A b \in Boxes : HasAnswer(b) =>
        \A c, d \in pass.got[b].msgs : c.msg = m /\ d.msg = m => c = d

Kept(m) ==
    /\ OneCopy(m) /\ OneRow(m) /\ Chain(m) /\ Named(m)
    /\ RowTrue(m) /\ OpsTrue(m) /\ BoundNow(m)
    /\ Seen(m) /\ SeenOnce(m) /\ GotOne(m)

(* What a pass knows: the messages it was told of under this numbering, the    *)
(* resets, the ops owed; and a short listing blurs.                           *)
AnswersTrue ==
    \A b \in Boxes : HasAnswer(b) /\ pass.got[b].validity = server[b].validity =>
        \A c \in pass.got[b].msgs : Its(b, c.uid, c.msg)
ShortBlurs ==
    \A b \in Boxes : HasAnswer(b) /\ ~pass.got[b].complete =>
        \A c \in pass.got[b].msgs : c.msg \in blurred
ResetsKnown ==
    \A b \in Boxes : Unread(b) =>
        /\ cursor[b] # None => cursor[b].validity <= pass.got[b].validity
        /\ pass.got[b].reset <=> cursor[b] # None /\ cursor[b].validity # pass.got[b].validity
Watching == pass.at \in {"fetch", "target", "ingest"} => \A o \in ops : Leaving(o) \in pass.watch
UidsListed == pass.at = "ingest" => pass.uids \subseteq Got.listed

Told == AnswersTrue /\ ShortBlurs /\ ResetsKnown /\ Watching /\ UidsListed

Inv == Shape /\ Told /\ \A m \in Clear : Kept(m)

-----------------------------------------------------------------------------
(* Sets of numbers.                                                          *)

(* A set of numbers has a least element, and a greatest when it is bounded.  *)
LEMMA Least ==
    ASSUME NEW S, S \subseteq Nat, S # {}
    PROVE  \E i \in S : \A j \in S : i <= j
<1>1. PICK i \in S : \A j \in S : <<j, i>> \notin OpToRel(<, Nat)
  BY NatLessThanWellFounded, WFMin
<1>2. \A j \in S : ~ (j < i)
  BY <1>1 DEF OpToRel
<1> QED
  BY <1>2

LEMMA Greatest ==
    ASSUME NEW S, S \subseteq Nat, S # {}, NEW n \in Nat, \A x \in S : x <= n
    PROVE  \E i \in S : \A j \in S : j <= i
<1> DEFINE U == {k \in Nat : \A x \in S : x <= k}
<1>1. U \subseteq Nat /\ n \in U
  OBVIOUS
<1>2. PICK k \in U : \A j \in U : k <= j
  BY <1>1, Least
<1>3. k \in S
  <2>1. SUFFICES ASSUME k \notin S PROVE FALSE
    OBVIOUS
  <2>2. k \in Nat /\ \A x \in S : x < k
    BY <2>1
  <2>3. PICK x \in S : x \in Nat
    OBVIOUS
  <2>4. k - 1 \in U
    BY <2>2, <2>3
  <2> QED
    BY <2>4, <1>2, <2>2
<1> QED
  BY <1>3

(* So Max and Min are what their names say.                                  *)
LEMMA MaxOf ==
    ASSUME NEW S, S \subseteq Nat, S # {}, NEW n \in Nat, \A x \in S : x <= n
    PROVE  Max(S) \in S /\ \A x \in S : x <= Max(S)
BY Greatest DEF Max

LEMMA MinOf ==
    ASSUME NEW S, S \subseteq Nat, S # {}
    PROVE  Min(S) \in S /\ \A x \in S : Min(S) <= x
BY Least DEF Min

LEMMA MaxOfTwo ==
    ASSUME NEW a \in Nat, NEW b \in Nat
    PROVE  Max({a, b}) \in {a, b} /\ a <= Max({a, b}) /\ b <= Max({a, b})
<1>1. \A x \in {a, b} : x <= a + b
  OBVIOUS
<1> QED
  BY <1>1, MaxOf

LEMMA MinOfTwo ==
    ASSUME NEW a \in Nat, NEW b \in Nat
    PROVE  Min({a, b}) \in {a, b} /\ Min({a, b}) <= a /\ Min({a, b}) <= b
<1>1. {a, b} # {} /\ {a, b} \subseteq Nat
  OBVIOUS
<1> QED
  BY <1>1, MinOf

(* The newest of a set are above the others.                                 *)
LEMMA NewestAbove ==
    ASSUME NEW S, S \subseteq Nat, IsFiniteSet(S), NEW n \in Nat,
           NEW u \in S \ Newest(S, n), NEW v \in Newest(S, n)
    PROVE  u < v
<1>1. SUFFICES ASSUME v <= u PROVE FALSE
  BY DEF Newest
<1> DEFINE A == {w \in S : w > u}
           B == {w \in S : w > v}
<1>2. v \in S /\ Cardinality(B) < n /\ ~ (Cardinality(A) < n)
  BY DEF Newest
<1>3. A \subseteq B /\ IsFiniteSet(B) /\ IsFiniteSet(A)
  <2>1. u \in Nat /\ v \in Nat /\ A \subseteq Nat
    BY <1>2
  <2>2. A \subseteq B
    BY <2>1, <1>1
  <2>3. IsFiniteSet(A) /\ IsFiniteSet(B)
    BY FS_Subset
  <2> QED
    BY <2>2, <2>3
<1>4. Cardinality(A) <= Cardinality(B) /\ Cardinality(A) \in Nat /\ Cardinality(B) \in Nat
  BY <1>3, FS_Subset, FS_CardinalityType
<1> QED
  BY <1>2, <1>4

(* The next id of a table is not in it.                                      *)
LEMMA NextIdOf ==
    ASSUME NEW S, \A x \in S : x.id \in Nat, Bounded(S)
    PROVE  NextId(S) \in Nat \ {0} /\ \A x \in S : x.id < NextId(S)
<1> DEFINE T == {0} \cup {x.id : x \in S}
<1>1. PICK n \in Nat : \A x \in S : x.id <= n
  BY DEF Bounded
<1>2. T \subseteq Nat /\ T # {} /\ \A x \in T : x <= n
  BY <1>1
<1>3. Max(T) \in T /\ \A x \in T : x <= Max(T)
  BY <1>2, MaxOf
<1>4. NextId(S) = Max(T) + 1
  BY DEF NextId
<1> QED
  BY <1>2, <1>3, <1>4

LEMMA BoundedSubset ==
    ASSUME NEW S, NEW T, Bounded(S), T \subseteq S
    PROVE  Bounded(T)
BY DEF Bounded

LEMMA BoundedAdd ==
    ASSUME NEW S, NEW x, Bounded(S), \A y \in S : y.id \in Nat, x.id \in Nat
    PROVE  Bounded(S \cup {x})
<1>1. PICK n \in Nat : \A y \in S : y.id <= n
  BY DEF Bounded
<1>2. \A y \in S \cup {x} : y.id <= n + x.id
  BY <1>1
<1> QED
  BY <1>2 DEF Bounded

LEMMA HereIsABox ==
    ASSUME NEW i \in 1..Len(Targets) PROVE Targets[i] \in Boxes
BY TargetsAssumption DEF Boxes, ToSet

-----------------------------------------------------------------------------
(* The initial states.                                                       *)

LEMMA NumberedIsInjective ==
    /\ Numbered \in [Msgs -> 1..Cardinality(Msgs)]
    /\ \A m, k \in Msgs : Numbered[m] = Numbered[k] => m = k
    /\ Cardinality(Msgs) \in Nat
<1> DEFINE n == Cardinality(Msgs)
<1>1. n \in Nat /\ ExistsBijection(1..n, Msgs)
  BY MsgsAssumption, FS_CardinalityType
<1>2. PICK g \in Bijection(1..n, Msgs) : TRUE
  BY <1>1 DEF ExistsBijection
<1>3. g \in [1..n -> Msgs] /\ \A m \in Msgs : \E i \in 1..n : g[i] = m
  BY <1>2 DEF Bijection, Injection, Surjection
<1> DEFINE f == [m \in Msgs |-> CHOOSE i \in 1..n : g[i] = m]
<1>4. \A m \in Msgs : f[m] \in 1..n /\ g[f[m]] = m
  BY <1>3
<1>5. f \in [Msgs -> 1..n] /\ \A m, k \in Msgs : f[m] = f[k] => m = k
  BY <1>4
<1>6. \E h \in [Msgs -> 1..n] : \A m, k \in Msgs : h[m] = h[k] => m = k
  BY <1>5
<1> QED
  BY <1>1, <1>6 DEF Numbered

LEMMA IdleShape == Idle \in Pass
BY DEF Idle, Pass

LEMMA InitShape ==
    ASSUME Init PROVE Shape
<1> DEFINE n == Cardinality(Msgs)
           at(b) == IF b = Home THEN {[uid |-> Numbered[m], msg |-> m] : m \in Msgs} ELSE {}
           top(b) == IF b = Home THEN n ELSE 0
<1>1. /\ Numbered \in [Msgs -> 1..n] /\ n \in Nat
      /\ \A m, k \in Msgs : Numbered[m] = Numbered[k] => m = k
  BY NumberedIsInjective
<1>2. \A b \in Boxes : top(b) \in Nat /\ at(b) \subseteq Copy /\ \A c \in at(b) : c.uid <= top(b)
  BY <1>1 DEF Copy
<1>3. \A b \in Boxes : \A c, d \in at(b) : c.uid = d.uid => c = d
  BY <1>1
<1>4. server = [b \in Boxes |-> [copies |-> at(b), next |-> top(b) + 1, validity |-> 0]]
  BY DEF Init
<1>5. ServerShape
  <2>1. \A b \in Boxes : [copies |-> at(b), next |-> top(b) + 1, validity |-> 0] \in Mailbox
    BY <1>2 DEF Mailbox
  <2>2. \A b \in Boxes : \A c \in at(b) : c.uid < top(b) + 1
    BY <1>2 DEF Copy
  <2> HIDE DEF at, top
  <2> QED
    BY <2>1, <2>2, <1>3, <1>4 DEF ServerShape, Sound
<1>6. CursorShape
  <2>1. PICK synced \in {Boxes, {Home}} :
            cursor = [b \in Boxes |-> IF b \in synced
                                      THEN [validity |-> 0, last |-> top(b), mark |-> None]
                                      ELSE None]
    BY DEF Init
  <2>2. \A b \in Boxes : cursor[b] # None => cursor[b] = [validity |-> 0, last |-> top(b), mark |-> None]
    BY <2>1
  <2>3. \A b \in Boxes : server[b].validity = 0
    BY <1>4
  <2> QED
    BY <2>1, <2>2, <2>3, <1>2 DEF CursorShape, Cursor
<1>7. AttemptsShape
  <2>1. attempts = [b \in Boxes |-> <<>>]
    BY DEF Init
  <2>2. DOMAIN <<>> = {}
    OBVIOUS
  <2> QED
    BY <2>1, <2>2 DEF AttemptsShape
<1>8. RowsShape
  <2>1. rows = {[id |-> c.uid, box |-> Home, uid |-> c.uid, msg |-> c.msg] : c \in at(Home)}
    BY DEF Init
  <2>2. Home \in Boxes
    BY TargetsAssumption
  <2>3. rows \subseteq Row /\ \A r \in rows : r.id <= n
    BY <2>1, <2>2, <1>2 DEF Row, Copy
  <2>4. \A r, t \in rows : r.id = t.id \/ r.uid = t.uid => r = t
    BY <2>1, <2>2, <1>3
  <2> QED
    BY <2>3, <2>4, <1>1 DEF RowsShape, Tidy, Bounded
<1>9. OpsShape
  BY DEF Init, OpsShape, Bounded
<1>10. PassShape
  <2>1. pass = Idle
    BY DEF Init
  <2>2. pass.at = "idle" /\ pass.got = Idle.got /\ \A b \in Boxes : pass.got[b] = None
    BY <2>1 DEF Idle
  <2> QED
    BY <2>1, <2>2, IdleShape DEF PassShape, HasAnswer
<1>11. budget \in Budget
  BY BudgetAssumption DEF Init
<1> QED
  BY <1>5, <1>6, <1>7, <1>8, <1>9, <1>10, <1>11 DEF Shape

-----------------------------------------------------------------------------
(* The server.                                                               *)

LEMMA MailboxWith ==
    ASSUME NEW s \in Mailbox, NEW N, NEW k
    PROVE  [s EXCEPT !.copies = N, !.next = k] = [copies |-> N, next |-> k, validity |-> s.validity]
<1> DEFINE t == [copies |-> N, next |-> s.next, validity |-> s.validity]
<1>1. [s EXCEPT !.copies = N] = t
  BY DEF Mailbox
<1>2. [t EXCEPT !.next = k] = [copies |-> N, next |-> k, validity |-> s.validity]
  OBVIOUS
<1>3. [s EXCEPT !.copies = N, !.next = k] = [[s EXCEPT !.copies = N] EXCEPT !.next = k]
  OBVIOUS
<1> QED
  BY <1>1, <1>2, <1>3

LEMMA WithCopySound ==
    ASSUME NEW s, Sound(s), NEW m \in Msgs
    PROVE  /\ Sound(WithCopy(s, m)) /\ WithCopy(s, m).validity = s.validity
           /\ WithCopy(s, m).next = s.next + 1
           /\ WithCopy(s, m).copies = s.copies \cup {[uid |-> s.next, msg |-> m]}
<1>1. s \in Mailbox /\ s.next \in Nat \ {0}
  BY DEF Sound, Mailbox
<1>2. WithCopy(s, m) = [copies |-> s.copies \cup {[uid |-> s.next, msg |-> m]},
                        next |-> s.next + 1, validity |-> s.validity]
  <2>1. WithCopy(s, m) = [s EXCEPT !.copies = s.copies \cup {[uid |-> s.next, msg |-> m]}, !.next = s.next + 1]
    BY DEF WithCopy
  <2> QED
    BY <1>1, <2>1, MailboxWith
<1> DEFINE N == s.copies \cup {[uid |-> s.next, msg |-> m]}
<1>3. N \subseteq Copy
  BY <1>1 DEF Mailbox, Copy
<1>4. \A c \in N : c.uid < s.next + 1
  BY <1>1, <1>3 DEF Sound, Copy
<1>5. \A c, d \in N : c.uid = d.uid => c = d
  <2>1. \A c \in s.copies : c.uid # s.next
    BY <1>1, <1>3 DEF Sound, Copy
  <2> QED
    BY <2>1 DEF Sound
<1>6. WithCopy(s, m) \in Mailbox
  BY <1>1, <1>2, <1>3 DEF Mailbox
<1> QED
  BY <1>2, <1>4, <1>5, <1>6 DEF Sound

LEMMA WithoutSound ==
    ASSUME NEW s, Sound(s), NEW u
    PROVE  /\ Sound(Without(s, u)) /\ Without(s, u).validity = s.validity
           /\ Without(s, u).next = s.next
           /\ Without(s, u).copies = {c \in s.copies : c.uid # u}
<1>1. s \in Mailbox
  BY DEF Sound
<1>2. Without(s, u) = [copies |-> {c \in s.copies : c.uid # u}, next |-> s.next, validity |-> s.validity]
  <2>1. PICK c, n, v : s = [copies |-> c, next |-> n, validity |-> v]
    BY <1>1 DEF Mailbox
  <2> QED
    BY <2>1 DEF Without
<1>3. Without(s, u) \in Mailbox
  BY <1>1, <1>2 DEF Mailbox
<1> QED
  BY <1>2, <1>3 DEF Sound

(* A new copy in a mailbox, and none in another.                             *)
LEMMA CopiedSound ==
    ASSUME ServerShape, NEW op \in Op
    PROVE  /\ Copied(op) \in [Boxes -> Mailbox]
           /\ \A b \in Boxes : Sound(Copied(op)[b]) /\ Copied(op)[b].validity = server[b].validity
           /\ \A b \in Boxes : Copied(op)[b] =
                 IF b = op.to THEN WithCopy(server[b], op.msg) ELSE server[b]
<1>1. op.msg \in Msgs /\ op.to \in Boxes \cup {None} /\ None \notin Boxes
  BY NoneAssumption DEF Op
<1>2. \A b \in Boxes : Copied(op)[b] = IF b = op.to THEN WithCopy(server[b], op.msg) ELSE server[b]
  BY <1>1 DEF Copied, ServerShape
<1>3. \A b \in Boxes : Sound(Copied(op)[b]) /\ Copied(op)[b].validity = server[b].validity
  BY <1>1, <1>2, WithCopySound DEF ServerShape
<1>4. Copied(op) \in [Boxes -> Mailbox]
  <2>1. Copied(op) = [b \in Boxes |-> Copied(op)[b]]
    BY <1>1 DEF Copied, ServerShape
  <2> QED
    BY <2>1, <1>3 DEF Sound
<1> QED
  BY <1>2, <1>3, <1>4

LEMMA LandedSound ==
    ASSUME ServerShape, NEW op \in Op, NEW u
    PROVE  /\ Landed(op, u) \in [Boxes -> Mailbox]
           /\ \A b \in Boxes : Sound(Landed(op, u)[b]) /\ Landed(op, u)[b].validity = server[b].validity
           /\ \A b \in Boxes : Landed(op, u)[b] =
                 IF b = op.from THEN Without(Copied(op)[b], u) ELSE Copied(op)[b]
<1>1. /\ Copied(op) \in [Boxes -> Mailbox]
      /\ \A b \in Boxes : Sound(Copied(op)[b]) /\ Copied(op)[b].validity = server[b].validity
  BY CopiedSound
<1>2. \A b \in Boxes : Landed(op, u)[b] =
          IF b = op.from THEN Without(Copied(op)[b], u) ELSE Copied(op)[b]
  BY <1>1 DEF Landed
<1>3. \A b \in Boxes : Sound(Landed(op, u)[b]) /\ Landed(op, u)[b].validity = server[b].validity
  BY <1>1, <1>2, WithoutSound
<1>4. Landed(op, u) = [b \in Boxes |-> Landed(op, u)[b]]
  BY <1>1 DEF Landed
<1> QED
  BY <1>2, <1>3, <1>4 DEF Sound

(* The UIDs of a mailbox and of what is found in it.                         *)
LEMMA UidsBelowNext ==
    ASSUME ServerShape, NEW b \in Boxes
    PROVE  /\ UidsOf(server[b].copies) \subseteq Nat \ {0} /\ server[b].next \in Nat \ {0}
           /\ \A u \in UidsOf(server[b].copies) : u < server[b].next
           /\ IsFiniteSet(UidsOf(server[b].copies))
<1>1. Sound(server[b])
  BY DEF ServerShape
<1>2. /\ UidsOf(server[b].copies) \subseteq Nat \ {0} /\ server[b].next \in Nat \ {0}
      /\ \A u \in UidsOf(server[b].copies) : u < server[b].next
  BY <1>1 DEF Sound, Mailbox, UidsOf, Copy
<1>3. \A u \in UidsOf(server[b].copies) : u <= server[b].next
  BY <1>2
<1> QED
  BY <1>2, <1>3, FS_BoundedSetOfNaturals

LEMMA ResolveFound ==
    ASSUME ServerShape, NEW op \in Op
    PROVE  Resolve(op) \subseteq Found(op)
<1>1. op.from \in Boxes
  BY DEF Op
<1>2. Found(op) \subseteq UidsOf(server[op.from].copies)
  BY DEF Found, UidsOf
<1>3. Found(op) \subseteq Nat /\ server[op.from].next \in Nat /\ \A u \in Found(op) : u <= server[op.from].next
  BY <1>1, <1>2, UidsBelowNext
<1>4. Found(op) # {} => Max(Found(op)) \in Found(op)
  BY <1>3, MaxOf
<1> QED
  BY <1>4 DEF Resolve

(* Every step leaves mailboxes sound, and their numberings never go back.    *)
LEMMA ServerStep ==
    ASSUME Shape, [Next]_vars
    PROVE  ServerShape' /\ \A b \in Boxes : server[b].validity <= server'[b].validity
<1>1. ServerShape /\ ops \subseteq Op
  BY DEF Shape, OpsShape
<1>2. \A b \in Boxes : server[b].validity \in Nat
  BY <1>1 DEF ServerShape, Mailbox
<1>3. CASE UNCHANGED server
  BY <1>1, <1>2, <1>3 DEF ServerShape
<1>4. ASSUME NEW op \in ops, RunOp(op) PROVE ServerShape' /\ \A b \in Boxes : server[b].validity <= server'[b].validity
  <2>1. CASE \E u \in Resolve(op) : server' = Landed(op, u)
    <3>1. PICK u : server' = Landed(op, u)
      BY <2>1
    <3> QED
      BY <3>1, <1>1, <1>2, LandedSound DEF ServerShape
  <2>2. CASE UNCHANGED server
    BY <2>2, <1>3
  <2> QED
    BY <1>4, <2>1, <2>2 DEF RunOp
<1>5. ASSUME NEW op \in ops, LoseAnswer(op) PROVE ServerShape' /\ \A b \in Boxes : server[b].validity <= server'[b].validity
  <2>1. server' = Copied(op)
    BY <1>5 DEF LoseAnswer, CutOff
  <2> QED
    BY <2>1, <1>1, <1>2, CopiedSound DEF ServerShape
<1>6. ASSUME NEW b \in Boxes, NEW c \in server[b].copies, NEW d \in Boxes, OtherMoves(b, c, d)
      PROVE  ServerShape' /\ \A a \in Boxes : server[a].validity <= server'[a].validity
  <2>1. c.msg \in Msgs
    BY <1>1 DEF ServerShape, Mailbox, Copy
  <2>2. server' = [server EXCEPT ![b] = Without(@, c.uid), ![d] = WithCopy(@, c.msg)] /\ d # b
    BY <1>6 DEF OtherMoves
  <2>3. server' = [a \in Boxes |-> IF a = d THEN WithCopy(server[a], c.msg)
                                   ELSE IF a = b THEN Without(server[a], c.uid) ELSE server[a]]
    BY <2>2, <1>1 DEF ServerShape
  <2>4. \A a \in Boxes : Sound(server'[a]) /\ server'[a].validity = server[a].validity
    BY <2>1, <2>3, <1>1, WithCopySound, WithoutSound DEF ServerShape
  <2> QED
    BY <2>3, <2>4, <1>2 DEF ServerShape, Sound
<1>7. ASSUME NEW b \in Boxes, NEW c \in server[b].copies, OtherDeletes(b, c)
      PROVE  ServerShape' /\ \A a \in Boxes : server[a].validity <= server'[a].validity
  <2>1. server' = [a \in Boxes |-> IF a = b THEN Without(server[a], c.uid) ELSE server[a]]
    BY <1>7, <1>1 DEF OtherDeletes, ServerShape
  <2>2. \A a \in Boxes : Sound(server'[a]) /\ server'[a].validity = server[a].validity
    BY <2>1, <1>1, WithoutSound DEF ServerShape
  <2> QED
    BY <2>1, <2>2, <1>2 DEF ServerShape, Sound
<1>8. ASSUME NEW b \in Boxes, Renumber(b) PROVE ServerShape' /\ \A a \in Boxes : server[a].validity <= server'[a].validity
  <2> DEFINE s == server[b]
             n == Cardinality(s.copies)
  <2>1. PICK f \in [s.copies -> 1..n] :
            /\ \A c, d \in s.copies : f[c] = f[d] => c = d
            /\ server' = [server EXCEPT ![b] =
                  [copies |-> {[c EXCEPT !.uid = f[c]] : c \in s.copies},
                   next |-> n + 1, validity |-> s.validity + 1]]
    BY <1>8 DEF Renumber
  <2>2. n \in Nat /\ n > 0
    <3>1. IsFiniteSet(s.copies)
      <4>1. IsFiniteSet(UidsOf(s.copies))
        BY <1>1, UidsBelowNext
      <4> DEFINE g == [c \in s.copies |-> c.uid]
      <4>2. g \in Injection(s.copies, UidsOf(s.copies))
        <5>1. g \in [s.copies -> UidsOf(s.copies)]
          BY DEF UidsOf
        <5>2. \A c, d \in s.copies : g[c] = g[d] => c = d
          BY <1>1 DEF ServerShape, Sound
        <5> QED
          BY <5>1, <5>2 DEF Injection, IsInjective
      <4> QED
        BY <4>1, <4>2, FS_Injection
    <3> QED
      BY <3>1, FS_CardinalityType, <1>8 DEF Renumber
  <2> DEFINE N == {[c EXCEPT !.uid = f[c]] : c \in s.copies}
  <2>3. s.copies \subseteq Copy
    BY <1>1 DEF ServerShape, Mailbox
  <2>4. N = {[uid |-> f[c], msg |-> c.msg] : c \in s.copies}
    BY <2>3 DEF Copy
  <2>5. N \subseteq Copy /\ \A c \in N : c.uid < n + 1
    BY <2>2, <2>3, <2>4 DEF Copy
  <2>6. \A c, d \in N : c.uid = d.uid => c = d
    BY <2>1, <2>4
  <2>7. [copies |-> N, next |-> n + 1, validity |-> s.validity + 1] \in Mailbox
    BY <2>2, <2>5, <1>2 DEF Mailbox
  <2>8. server' = [a \in Boxes |-> IF a = b THEN [copies |-> N, next |-> n + 1, validity |-> s.validity + 1]
                                  ELSE server[a]]
    BY <2>1, <1>1 DEF ServerShape
  <2> HIDE DEF N, n
  <2>9. Sound([copies |-> N, next |-> n + 1, validity |-> s.validity + 1])
    BY <2>5, <2>6, <2>7 DEF Sound
  <2> QED
    BY <2>7, <2>8, <2>9, <1>1, <1>2 DEF ServerShape
<1> QED
  <2>1. CASE UNCHANGED vars
    BY <2>1, <1>3 DEF vars
  <2>2. CASE User
    BY <2>2, <1>3 DEF User, ApplyDelete, ApplyMove
  <2>3. CASE Drain
    BY <2>3, <1>4 DEF Drain
  <2>4. CASE DrainFaults
    BY <2>4, <1>3, <1>5 DEF DrainFaults, Refuse
  <2>5. CASE Others
    BY <2>5, <1>6, <1>7, <1>8 DEF Others
  <2>6. CASE Open \/ Stop \/ FailIngest
    BY <2>6, <1>3 DEF Open, Stop, FailIngest
  <2>7. CASE PassStep
    BY <2>7, <1>3 DEF PassStep, ReadStore, AllFetched, SkipTarget, StartTarget, Ingest, FinishTarget,
                      Prune, Fetch, Answered
  <2> QED
    BY <2>1, <2>2, <2>3, <2>4, <2>5, <2>6, <2>7 DEF Next

-----------------------------------------------------------------------------
(* What a step does to the copies of a message.                              *)

LEMMA CopiedCopies ==
    ASSUME ServerShape, NEW op \in Op, NEW b \in Boxes
    PROVE  /\ Copied(op)[b].copies =
                 IF b = op.to THEN server[b].copies \cup {[uid |-> server[b].next, msg |-> op.msg]}
                 ELSE server[b].copies
           /\ server[b].copies \subseteq Copied(op)[b].copies
           /\ \A c \in Copied(op)[b].copies :
                 c \in server[b].copies \/ c = [uid |-> server[b].next, msg |-> op.msg]
           /\ server[b].next <= Copied(op)[b].next
<1>1. Sound(server[b]) /\ op.msg \in Msgs /\ server[b].next \in Nat
  BY DEF ServerShape, Op, Mailbox
<1>2. Copied(op)[b] = IF b = op.to THEN WithCopy(server[b], op.msg) ELSE server[b]
  BY CopiedSound
<1>3. /\ WithCopy(server[b], op.msg).copies = server[b].copies \cup {[uid |-> server[b].next, msg |-> op.msg]}
      /\ WithCopy(server[b], op.msg).next = server[b].next + 1
  BY <1>1, WithCopySound
<1>4. CASE b = op.to
  <2>1. /\ Copied(op)[b].copies = server[b].copies \cup {[uid |-> server[b].next, msg |-> op.msg]}
        /\ Copied(op)[b].next = server[b].next + 1
    BY <1>2, <1>3, <1>4
  <2> QED
    BY <1>1, <1>4, <2>1
<1>5. CASE b # op.to
  <2>1. Copied(op)[b] = server[b]
    BY <1>2, <1>5
  <2> QED
    BY <1>1, <1>5, <2>1
<1> QED
  BY <1>4, <1>5

LEMMA LandedCopies ==
    ASSUME ServerShape, NEW op \in Op, NEW u, NEW b \in Boxes
    PROVE  /\ Landed(op, u)[b].copies =
                 IF b = op.from THEN {c \in Copied(op)[b].copies : c.uid # u} ELSE Copied(op)[b].copies
           /\ Landed(op, u)[b].copies \subseteq Copied(op)[b].copies
<1>1. Sound(Copied(op)[b])
  BY CopiedSound
<1>2. Landed(op, u)[b] = IF b = op.from THEN Without(Copied(op)[b], u) ELSE Copied(op)[b]
  BY LandedSound
<1>3. Without(Copied(op)[b], u).copies = {c \in Copied(op)[b].copies : c.uid # u}
  BY <1>1, WithoutSound
<1>4. CASE b = op.from
  <2>1. Landed(op, u)[b].copies = {c \in Copied(op)[b].copies : c.uid # u}
    BY <1>2, <1>3, <1>4
  <2> QED
    BY <1>4, <2>1
<1>5. CASE b # op.from
  <2>1. Landed(op, u)[b] = Copied(op)[b]
    BY <1>2, <1>5
  <2> QED
    BY <1>5, <2>1
<1> QED
  BY <1>4, <1>5

(* The copies it leaves in a mailbox, one by one.                            *)
LEMMA LandedHas ==
    ASSUME ServerShape, NEW op \in Op, NEW u, NEW b \in Boxes, NEW c
    PROVE  c \in Landed(op, u)[b].copies
               <=> c \in Copied(op)[b].copies /\ (b = op.from => c.uid # u)
<1>1. Sound(Copied(op)[b])
  BY CopiedSound
<1>2. Landed(op, u)[b] = IF b = op.from THEN Without(Copied(op)[b], u) ELSE Copied(op)[b]
  BY LandedSound
<1>3. c \in Without(Copied(op)[b], u).copies <=> c \in Copied(op)[b].copies /\ c.uid # u
  <2>1. Without(Copied(op)[b], u).copies = {x \in Copied(op)[b].copies : x.uid # u}
    BY <1>1, WithoutSound
  <2> QED
    BY <2>1
<1> QED
  BY <1>2, <1>3

LEMMA LandedNext ==
    ASSUME ServerShape, NEW op \in Op, NEW u, NEW b \in Boxes
    PROVE  Landed(op, u)[b].next = Copied(op)[b].next
<1>1. Sound(Copied(op)[b])
  BY CopiedSound
<1>2. Landed(op, u)[b] = IF b = op.from THEN Without(Copied(op)[b], u) ELSE Copied(op)[b]
  BY LandedSound
<1>3. Without(Copied(op)[b], u).next = Copied(op)[b].next
  BY <1>1, WithoutSound
<1> QED
  BY <1>2, <1>3

LEMMA RunOpKeeps ==
    ASSUME ServerShape, NEW op \in Op, NEW u \in Resolve(op), NEW m, OnServer(m),
           op.to # None \/ op.msg # m, server' = Landed(op, u)
    PROVE  OnServer(m)'
<1>1. \A b \in Boxes : Sound(server[b])
  BY DEF ServerShape
<1>2. op.msg \in Msgs /\ op.from \in Boxes /\ op.to \in Boxes \cup {None} /\ u \in Found(op)
  BY ResolveFound DEF Op
<1>3. \A b \in Boxes : Copied(op)[b].copies =
          IF b = op.to THEN server[b].copies \cup {[uid |-> server[b].next, msg |-> op.msg]}
          ELSE server[b].copies
  BY CopiedCopies
<1>4. \A b \in Boxes : \A c :
          c \in server'[b].copies <=> c \in Copied(op)[b].copies /\ (b = op.from => c.uid # u)
  BY LandedHas
<1>5. PICK f \in server[op.from].copies : f.msg = op.msg /\ f.uid = u
  BY <1>2 DEF Found
<1>6. CASE op.msg # m
  <2>1. PICK b \in Boxes : \E c \in server[b].copies : c.msg = m
    BY DEF OnServer
  <2>2. PICK c \in server[b].copies : c.msg = m
    BY <2>1
  <2>3. ~ (b = op.from /\ c.uid = u)
    BY <1>1, <1>2, <1>5, <1>6, <2>2 DEF Sound
  <2>4. c \in server'[b].copies
    BY <1>3, <1>4, <2>2, <2>3
  <2> QED
    BY <2>2, <2>4 DEF OnServer
<1>7. CASE op.msg = m
  <2>1. op.to \in Boxes
    BY <1>2, <1>7
  <2> DEFINE n == [uid |-> server[op.to].next, msg |-> op.msg]
  <2>2. n \in Copied(op)[op.to].copies
    BY <1>3, <2>1
  <2>3. ~ (op.to = op.from /\ n.uid = u)
    <3>1. u < server[op.from].next
      BY <1>1, <1>2, <1>5 DEF Sound
    <3>2. server[op.from].next \in Nat /\ u \in Nat
      BY <1>1, <1>2, <1>5 DEF Sound, Mailbox, Copy
    <3> QED
      BY <3>1, <3>2
  <2>4. n \in server'[op.to].copies
    BY <1>4, <2>1, <2>2, <2>3
  <2> QED
    BY <1>7, <2>1, <2>4 DEF OnServer
<1> QED
  BY <1>6, <1>7

LEMMA CopiedKeeps ==
    ASSUME ServerShape, NEW op \in Op, NEW m, OnServer(m), server' = Copied(op)
    PROVE  OnServer(m)'
<1>1. \A b \in Boxes : server[b].copies \subseteq server'[b].copies
  BY CopiedCopies
<1> QED
  BY <1>1 DEF OnServer

LEMMA RenumberKeeps ==
    ASSUME ServerShape, NEW b \in Boxes, Renumber(b), NEW m, OnServer(m)
    PROVE  OnServer(m)'
<1>0. PICK a \in Boxes : \E c \in server[a].copies : c.msg = m
  BY DEF OnServer
<1>1. PICK c \in server[a].copies : c.msg = m
  BY <1>0
<1>2. PICK f \in [server[b].copies -> 1..Cardinality(server[b].copies)] :
          server' = [server EXCEPT ![b] =
              [copies |-> {[k EXCEPT !.uid = f[k]] : k \in server[b].copies},
               next |-> Cardinality(server[b].copies) + 1, validity |-> server[b].validity + 1]]
  BY DEF Renumber
<1>3. server'[b].copies = {[k EXCEPT !.uid = f[k]] : k \in server[b].copies} /\ \A x \in Boxes \ {b} : server'[x] = server[x]
  BY <1>2 DEF ServerShape
<1>4. CASE a = b
  <2>1. c \in Copy
    BY <1>1 DEF ServerShape, Mailbox
  <2>2. [c EXCEPT !.uid = f[c]].msg = m
    BY <1>1, <2>1 DEF Copy
  <2> QED
    BY <1>1, <1>3, <1>4, <2>2 DEF OnServer
<1>5. CASE a # b
  BY <1>1, <1>3, <1>5 DEF OnServer
<1> QED
  BY <1>4, <1>5

(* A step takes a message's last copy by a delete it was owed, or by another *)
(* client.                                                                   *)
LEMMA MoveKeepsStep ==
    ASSUME Shape, [Next]_vars, NEW m \in Msgs, OnServer(m), ~ OnServer(m)'
    PROVE  Deleted(m) \/ budget'.foreign < budget.foreign
<1>1. ServerShape /\ ops \subseteq Op /\ budget \in Budget
  BY DEF Shape, OpsShape
<1>2. server' # server
  BY DEF OnServer
<1>3. ASSUME NEW op \in ops, RunOp(op) PROVE Deleted(m)
  <2>1. PICK u \in Resolve(op) : server' = Landed(op, u)
    BY <1>2, <1>3 DEF RunOp
  <2>2. op.to = None /\ op.msg = m
    BY <1>1, <2>1, RunOpKeeps
  <2> QED
    BY <2>2 DEF Deleted
<1>4. ASSUME NEW op \in ops, LoseAnswer(op) PROVE FALSE
  BY <1>1, <1>4, CopiedKeeps DEF LoseAnswer, CutOff
<1>5. ASSUME NEW b \in Boxes, Renumber(b) PROVE FALSE
  BY <1>1, <1>5, RenumberKeeps
<1>6. ASSUME Spend("foreign") PROVE budget'.foreign < budget.foreign
  BY <1>1, <1>6 DEF Spend, Budget
<1> QED
  <2>1. CASE User
    BY <1>2, <2>1 DEF User, ApplyDelete, ApplyMove
  <2>2. CASE Drain
    BY <1>3, <2>2 DEF Drain
  <2>3. CASE DrainFaults
    BY <1>2, <1>4, <2>3 DEF DrainFaults, Refuse
  <2>4. CASE Others
    BY <1>5, <1>6, <2>4 DEF Others, OtherMoves, OtherDeletes
  <2>5. CASE Open \/ Stop \/ FailIngest
    BY <1>2, <2>5 DEF Open, Stop, FailIngest
  <2>6. CASE PassStep
    BY <1>2, <2>6 DEF PassStep, ReadStore, AllFetched, SkipTarget, StartTarget, Ingest, FinishTarget,
                      Prune, Fetch, Answered
  <2>7. CASE UNCHANGED vars
    BY <1>2, <2>7 DEF vars
  <2> QED
    BY <2>1, <2>2, <2>3, <2>4, <2>5, <2>6, <2>7 DEF Next

-----------------------------------------------------------------------------
(* What a listing tells.                                                     *)

LEMMA HighWaterBelow ==
    ASSUME NEW uids, uids \subseteq Nat, NEW ceiling \in Nat
    PROVE  HighWater(uids, ceiling) \in Nat /\ HighWater(uids, ceiling) <= ceiling
<1> DEFINE S == {0} \cup {u \in uids : u <= ceiling}
<1>1. S \subseteq Nat /\ 0 \in S /\ \A u \in S : u <= ceiling
  <2>1. ASSUME NEW u \in S PROVE u \in Nat /\ u <= ceiling
    <3>1. CASE u = 0
      BY <3>1
    <3>2. CASE u \in uids /\ u <= ceiling
      BY <3>2
    <3> QED
      BY <3>1, <3>2
  <2>2. 0 \in S
    OBVIOUS
  <2> HIDE DEF S
  <2> QED
    BY <2>1, <2>2
<1>2. Max(S) \in S
  <2>1. S # {}
    BY <1>1
  <2> QED
    BY <1>1, <2>1, MaxOf
<1> QED
  BY <1>1, <1>2 DEF HighWater

LEMMA ArrivalMarkBelow ==
    ASSUME NEW uids, uids \subseteq Nat, NEW ceiling \in Nat,
           NEW carried \in Nat \cup {None}, NEW prior \in Nat \cup {None},
           ArrivalMark(uids, ceiling, carried, prior) # None
    PROVE  /\ ArrivalMark(uids, ceiling, carried, prior) \in Nat
           /\ ArrivalMark(uids, ceiling, carried, prior) <= ceiling
<1> DEFINE high  == HighWater(uids, ceiling)
           stored == IF prior = None THEN 0 ELSE Min({prior, ceiling})
           floor == Max({high, stored})
<1>1. high \in Nat /\ high <= ceiling
  BY HighWaterBelow
<1>2. stored \in Nat /\ stored <= ceiling
  BY MinOfTwo
<1> HIDE DEF high, stored
<1>3. floor \in Nat /\ floor <= ceiling
  BY <1>1, <1>2, MaxOfTwo
<1>4. ArrivalMark(uids, ceiling, carried, prior) \in {None, floor}
         \/ (carried # None /\ ArrivalMark(uids, ceiling, carried, prior) = Min({carried, floor}))
  BY DEF ArrivalMark, high, stored
<1> HIDE DEF floor
<1>5. carried # None => Min({carried, floor}) \in Nat /\ Min({carried, floor}) <= floor
  BY <1>3, MinOfTwo
<1> QED
  BY <1>3, <1>4, <1>5

LEMMA FetchedShape ==
    ASSUME ServerShape, NEW b \in Boxes, pass.known[b] \in Skips, pass.limit \in Nat,
           NEW listed, listed \subseteq UidsOf(server[b].copies), NEW k \in Nat
    PROVE  GoodAnswer(Fetched(b, listed, k), server[b].validity)
<1> DEFINE s        == server[b]
           stored   == pass.known[b]
           c        == stored.cursor
           ceiling  == s.next - 1
           complete == Cardinality(listed) >= Cardinality(s.copies)
           reset    == c # None /\ c.validity # s.validity
           uids     == IF reset THEN {} ELSE stored.uids
           history  == c # None /\ ~reset
           carried  == IF history THEN c.mark ELSE None
           prior    == IF history THEN c.last ELSE None
           mark     == ArrivalMark(uids, ceiling, carried, prior)
           wanted   == Newest(listed, pass.limit) \ uids
           got      == Newest(wanted, k)
           missing  == {u \in listed \ (uids \cup got) : mark = None \/ u > mark}
           msgs     == {x \in s.copies : x.uid \in got}
           vanished == IF complete THEN {u \in uids : u <= ceiling} \ listed ELSE {}
           short    == missing # {} \/ got # wanted
           gmark    == IF missing = {} THEN None ELSE mark
           backlog  == IF mark = None THEN {x.msg : x \in {x \in s.copies : x.uid \in missing}} ELSE {}
<1>1. Fetched(b, listed, k) =
          [listed |-> listed, complete |-> complete, reset |-> reset, validity |-> s.validity,
           top |-> ceiling, msgs |-> msgs, vanished |-> vanished, short |-> short,
           mark |-> gmark, backlog |-> backlog]
  BY DEF Fetched
<1>2. /\ s.copies \subseteq Copy /\ s.next \in Nat \ {0} /\ s.validity \in Nat
      /\ \A x, y \in s.copies : x.uid = y.uid => x = y
  BY DEF ServerShape, Sound, Mailbox
<1>3. /\ listed \subseteq Nat \ {0} /\ \A u \in listed : u <= ceiling
      /\ IsFiniteSet(listed) /\ ceiling \in Nat
  <2>1. /\ UidsOf(s.copies) \subseteq Nat \ {0} /\ s.next \in Nat \ {0}
        /\ \A u \in UidsOf(s.copies) : u < s.next
        /\ IsFiniteSet(UidsOf(s.copies))
    BY UidsBelowNext
  <2>2. IsFiniteSet(listed)
    BY <2>1, FS_Subset
  <2> QED
    BY <2>1, <2>2
<1>4. uids \subseteq Nat /\ (c = None \/ c \in Cursor)
  BY DEF Skips
<1>5. carried \in Nat \cup {None} /\ prior \in Nat \cup {None}
  BY <1>4 DEF Cursor
<1> HIDE DEF carried, prior, uids, reset, complete
<1>6. mark = None \/ (mark \in Nat /\ mark <= ceiling)
  BY <1>3, <1>4, <1>5, ArrivalMarkBelow
<1> HIDE DEF mark
<1>7. wanted \subseteq listed /\ got \subseteq wanted
  BY DEF Newest
<1>8. \A u \in missing, v \in got : u < v
  <2> TAKE u \in missing, v \in got
  <2>1. u \in listed \ uids /\ v \in listed \ uids /\ u \notin got
    BY <1>7
  <2>2. CASE u \in wanted
    <3>1. wanted \subseteq Nat /\ IsFiniteSet(wanted)
      BY <1>3, <1>7, FS_Subset
    <3> HIDE DEF wanted
    <3> QED
      BY <2>1, <2>2, <3>1, NewestAbove
  <2>3. CASE u \notin wanted
    <3>1. u \in listed \ Newest(listed, pass.limit) /\ v \in Newest(listed, pass.limit)
      BY <1>7, <2>1, <2>3
    <3> QED
      BY <1>3, <3>1, NewestAbove
  <2> QED
    BY <2>2, <2>3
<1> HIDE DEF got
<1>9. \A x \in msgs : x.uid \in got /\ x \in Copy
  BY <1>2
<1>10. gmark # None => gmark \in Nat /\ gmark <= ceiling /\ \A x \in msgs : gmark <= x.uid
  <2>1. SUFFICES ASSUME gmark # None, NEW x \in msgs PROVE gmark <= x.uid
    BY <1>6
  <2>2. PICK u \in missing : TRUE
    BY <2>1
  <2>3. gmark = mark /\ mark \in Nat /\ u > mark /\ u \in Nat
    BY <1>3, <1>6, <2>1, <2>2
  <2>4. u < x.uid /\ x.uid \in Nat
    BY <1>8, <1>9, <2>2 DEF Copy
  <2> QED
    BY <2>3, <2>4
<1>11. backlog \subseteq Msgs
  BY <1>2 DEF Copy
<1>12. vanished \subseteq Nat /\ msgs \subseteq Copy
  BY <1>2, <1>4
<1>13. \A x \in msgs : x.uid \in listed
  BY <1>7, <1>9
<1>14. reset \in BOOLEAN /\ complete \in BOOLEAN /\ short \in BOOLEAN
  BY DEF reset, complete
<1>15. \A x, y \in msgs : x.uid = y.uid => x = y
  BY <1>2
<1> HIDE DEF msgs, vanished, short, gmark, backlog, missing, wanted
<1>16. Fetched(b, listed, k) \in Answer
  BY <1>1, <1>2, <1>3, <1>10, <1>11, <1>12, <1>14 DEF Answer
<1> DEFINE g == Fetched(b, listed, k)
<1>17. /\ g.validity = s.validity /\ g.listed = listed /\ g.top = ceiling
       /\ g.msgs = msgs /\ g.mark = gmark
  BY <1>1
<1> HIDE DEF g
<1>18. g.mark # None => g.mark <= g.top /\ (g.msgs # {} => \E x \in g.msgs : g.mark <= x.uid)
  BY <1>10, <1>17
<1>19. \A u \in g.listed : u <= g.top
  BY <1>3, <1>17
<1>20. \A x \in g.msgs : x.uid \in g.listed
  BY <1>13, <1>17
<1>21. \A x, y \in g.msgs : x.uid = y.uid => x = y
  BY <1>15, <1>17
<1>22. g.validity <= server[b].validity
  BY <1>2, <1>17
<1>23. g \in Answer
  BY <1>16 DEF g
<1>24. GoodAnswer(g, server[b].validity)
  BY <1>18, <1>19, <1>20, <1>21, <1>22, <1>23 DEF GoodAnswer
<1> QED
  BY <1>24 DEF g

-----------------------------------------------------------------------------
(* The mailbox a pass ingests, and what it is told of it.                    *)

LEMMA IngestingHere ==
    ASSUME PassShape, pass.at \in {"target", "ingest"}, pass.next <= Len(Targets)
    PROVE  /\ pass.next \in 1..Len(Targets) /\ Here \in Boxes /\ Got # None
           /\ Got # Failed => GoodAnswer(Got, server[Here].validity)
<1>1. pass.next \in 1..(Len(Targets) + 1) /\ Len(Targets) \in Nat
  BY TargetsAssumption DEF PassShape
<1>2. pass.next \in 1..Len(Targets)
  BY <1>1
<1>3. Here \in Boxes
  BY <1>2, HereIsABox DEF Here
<1> QED
  BY <1>2, <1>3 DEF PassShape, HasAnswer, Got

(* The cursor a mailbox gets: its mark is below its last UID.                *)
LEMMA CursorOf ==
    ASSUME NEW b \in Boxes, NEW g, GoodAnswer(g, server[b].validity), NEW unmet, unmet \subseteq UidsOf(g.msgs),
           NEW last, last = IF g.msgs = {} THEN g.top ELSE Max(UidsOf(g.msgs)),
           NEW mark, mark = MarkBelowUnmet(g.mark, unmet)
    PROVE  last \in Nat /\ mark \in Nat \cup {None} /\ (mark # None => mark <= last)
<1>1. /\ g.top \in Nat /\ g.mark \in Nat \cup {None} /\ g.msgs \subseteq Copy
      /\ UidsOf(g.msgs) \subseteq Nat \ {0} /\ \A u \in UidsOf(g.msgs) : u <= g.top
  BY DEF GoodAnswer, Answer, UidsOf, Copy
<1>2. last \in Nat /\ (g.msgs # {} => \A u \in UidsOf(g.msgs) : u <= last)
  <2>1. CASE g.msgs = {}
    BY <1>1, <2>1
  <2>2. CASE g.msgs # {}
    <3>1. UidsOf(g.msgs) # {}
      BY <2>2 DEF UidsOf
    <3>2. Max(UidsOf(g.msgs)) \in UidsOf(g.msgs) /\ \A u \in UidsOf(g.msgs) : u <= Max(UidsOf(g.msgs))
      BY <1>1, <3>1, MaxOf
    <3> QED
      BY <1>1, <2>2, <3>2
  <2> QED
    BY <2>1, <2>2
<1>3. g.mark # None => g.mark <= last
  <2>1. CASE g.msgs = {}
    BY <2>1 DEF GoodAnswer
  <2>2. CASE g.msgs # {} /\ g.mark # None
    <3>1. PICK c \in g.msgs : g.mark <= c.uid
      BY <2>2 DEF GoodAnswer
    <3>2. c.uid \in UidsOf(g.msgs)
      BY DEF UidsOf
    <3> QED
      BY <1>1, <1>2, <2>2, <3>1, <3>2
  <2> QED
    BY <2>1, <2>2
<1>4. CASE unmet = {}
  BY <1>1, <1>2, <1>3, <1>4 DEF MarkBelowUnmet
<1>5. CASE unmet # {}
  <2> DEFINE owed == Min(unmet) - 1
  <2>1. Min(unmet) \in unmet
    BY <1>1, <1>5, MinOf
  <2>2. Min(unmet) \in Nat \ {0} /\ g.msgs # {} /\ Min(unmet) <= last
    BY <1>1, <1>2, <2>1 DEF UidsOf
  <2>3. owed \in Nat /\ owed <= last
    BY <1>2, <2>2
  <2>4. mark = IF g.mark = None THEN owed ELSE Min({g.mark, owed})
    BY <1>5 DEF MarkBelowUnmet
  <2> HIDE DEF owed
  <2>5. g.mark # None => Min({g.mark, owed}) \in Nat /\ Min({g.mark, owed}) <= owed
    BY <1>1, <2>3, MinOfTwo
  <2> QED
    BY <1>2, <2>3, <2>4, <2>5
<1> QED
  BY <1>4, <1>5

LEMMA CursorStep ==
    ASSUME Shape, [Next]_vars
    PROVE  CursorShape'
<1>1. CursorShape /\ PassShape /\ ServerShape
  BY DEF Shape
<1>2. /\ \A b \in Boxes : server[b].validity <= server'[b].validity
      /\ \A b \in Boxes : server[b].validity \in Nat /\ server'[b].validity \in Nat
  BY <1>1, ServerStep DEF ServerShape, Mailbox
<1>3. CASE UNCHANGED cursor
  BY <1>1, <1>2, <1>3 DEF CursorShape, Cursor
<1>4. CASE FinishTarget
  <2>1. /\ Here \in Boxes /\ Got # None /\ Got # Failed /\ GoodAnswer(Got, server[Here].validity)
        /\ pass.unmet \subseteq UidsOf(Got.msgs)
    BY <1>1, <1>4, IngestingHere DEF FinishTarget, PassShape
  <2> DEFINE last == IF Got.msgs = {} THEN Got.top ELSE Max(UidsOf(Got.msgs))
             mark == MarkBelowUnmet(Got.mark, pass.unmet)
             new  == [validity |-> Got.validity, last |-> last, mark |-> mark]
  <2>2. cursor' = [cursor EXCEPT ![Here] = new]
    BY <1>4 DEF FinishTarget
  <2>3. last \in Nat /\ mark \in Nat \cup {None} /\ (mark # None => mark <= last)
    BY <2>1, CursorOf
  <2>4. Got.validity \in Nat /\ Got.validity <= server[Here].validity
    BY <2>1 DEF GoodAnswer, Answer
  <2> HIDE DEF last, mark
  <2>5. new \in Cursor /\ new.validity = Got.validity /\ new.last = last /\ new.mark = mark
    BY <2>3, <2>4 DEF Cursor
  <2>6. cursor' = [b \in Boxes |-> IF b = Here THEN new ELSE cursor[b]]
    BY <1>1, <2>2 DEF CursorShape
  <2>7. new.validity <= server'[Here].validity
    BY <1>2, <2>1, <2>4, <2>5
  <2> HIDE DEF new
  <2>8. cursor' \in [Boxes -> Cursor \cup {None}]
    BY <1>1, <2>5, <2>6 DEF CursorShape
  <2>9. ASSUME NEW b \in Boxes, cursor'[b] # None
        PROVE  /\ cursor'[b].validity <= server'[b].validity
               /\ cursor'[b].mark # None => cursor'[b].mark <= cursor'[b].last
    <3>1. CASE b = Here
      BY <2>3, <2>5, <2>6, <2>7, <3>1
    <3>2. CASE b # Here
      <4>1. cursor'[b] = cursor[b] /\ cursor[b] # None /\ cursor[b] \in Cursor
        BY <1>1, <2>6, <2>9, <3>2 DEF CursorShape
      <4> QED
        BY <1>1, <1>2, <4>1 DEF CursorShape, Cursor
    <3> QED
      BY <3>1, <3>2
  <2> QED
    BY <2>8, <2>9 DEF CursorShape
<1> QED
  <2>1. CASE User
    BY <1>3, <2>1 DEF User, ApplyDelete, ApplyMove
  <2>2. CASE Drain
    BY <1>3, <2>2 DEF Drain, RunOp
  <2>3. CASE DrainFaults
    BY <1>3, <2>3 DEF DrainFaults, Refuse, LoseAnswer
  <2>4. CASE Others
    BY <1>3, <2>4 DEF Others, OtherMoves, OtherDeletes, Renumber
  <2>5. CASE Open \/ Stop \/ FailIngest
    BY <1>3, <2>5 DEF Open, Stop, FailIngest
  <2>6. CASE PassStep
    BY <1>3, <1>4, <2>6 DEF PassStep, ReadStore, AllFetched, SkipTarget, StartTarget, Ingest,
                            Prune, Fetch, Answered
  <2>7. CASE UNCHANGED vars
    BY <1>3, <2>7 DEF vars
  <2> QED
    BY <2>1, <2>2, <2>3, <2>4, <2>5, <2>6, <2>7 DEF Next

(* The counts of failed attempts.                                            *)
LEMMA LowestOf ==
    ASSUME NEW S, S \subseteq Copy, S # {}
    PROVE  Lowest(S) \in S /\ \A d \in S : Lowest(S).uid <= d.uid
<1> DEFINE U == UidsOf(S)
<1>1. U \subseteq Nat /\ U # {}
  BY DEF UidsOf, Copy
<1>2. PICK u \in U : \A v \in U : u <= v
  BY <1>1, Least
<1>3. PICK c \in S : c.uid = u
  BY DEF UidsOf
<1>4. \A d \in S : c.uid <= d.uid
  BY <1>2, <1>3 DEF UidsOf
<1> QED
  BY <1>4 DEF Lowest

LEMMA AttemptsStep ==
    ASSUME Shape, [Next]_vars
    PROVE  AttemptsShape'
<1>1. AttemptsShape /\ PassShape
  BY DEF Shape
<1>2. CASE UNCHANGED attempts
  BY <1>1, <1>2 DEF AttemptsShape
<1>3. ASSUME NEW b \in Boxes, NEW f, attempts' = [attempts EXCEPT ![b] = f], f \in [DOMAIN f -> Nat \ {0}]
      PROVE  AttemptsShape'
  <2>1. attempts' = [a \in Boxes |-> IF a = b THEN f ELSE attempts[a]]
    BY <1>1, <1>3 DEF AttemptsShape
  <2>2. \A a \in Boxes : attempts'[a] \in [DOMAIN attempts'[a] -> Nat \ {0}]
    BY <1>1, <1>3, <2>1 DEF AttemptsShape
  <2>3. attempts' = [a \in Boxes |-> attempts'[a]]
    BY <2>1
  <2> QED
    BY <2>2, <2>3 DEF AttemptsShape
<1>4. CASE StartTarget
  <2>1. Here \in Boxes
    BY <1>1, <1>4, IngestingHere DEF StartTarget
  <2>2. <<>> \in [DOMAIN <<>> -> Nat \ {0}]
    <3>1. DOMAIN <<>> = {}
      OBVIOUS
    <3> QED
      BY <3>1
  <2>3. attempts' = [attempts EXCEPT ![Here] = <<>>] \/ UNCHANGED attempts
    BY <1>4 DEF StartTarget
  <2> QED
    BY <1>2, <1>3, <2>1, <2>2, <2>3
<1>5. ASSUME NEW u, Here \in Boxes, attempts' = Cleared(u) PROVE AttemptsShape'
  <2> DEFINE old == attempts[Here]
             f == [v \in DOMAIN old \ {u} |-> old[v]]
  <2>1. old \in [DOMAIN old -> Nat \ {0}]
    BY <1>1, <1>5 DEF AttemptsShape
  <2>2. f \in [DOMAIN f -> Nat \ {0}]
    BY <2>1
  <2>3. attempts' = [attempts EXCEPT ![Here] = f]
    BY <1>5 DEF Cleared
  <2> QED
    BY <1>3, <1>5, <2>2, <2>3
<1>6. CASE Ingest
  <2>1. Here \in Boxes
    BY <1>1, <1>6, IngestingHere DEF Ingest, PassShape
  <2>2. attempts' = Cleared(Lowest(pass.todo).uid) \/ UNCHANGED attempts
    BY <1>6 DEF Ingest, IngestInTx, Written
  <2> QED
    BY <1>2, <1>5, <2>1, <2>2
<1>7. CASE FailIngest
  <2> DEFINE u == Lowest(pass.todo).uid
             n == Tries(u) + 1
             old == attempts[Here]
             f == [v \in DOMAIN old \cup {u} |-> IF v = u THEN n ELSE old[v]]
  <2>1. Here \in Boxes
    BY <1>1, <1>7, IngestingHere DEF FailIngest, PassShape
  <2>2. old \in [DOMAIN old -> Nat \ {0}]
    BY <1>1, <2>1 DEF AttemptsShape
  <2>3. n \in Nat \ {0}
    BY <2>2 DEF Tries
  <2>4. attempts' = [attempts EXCEPT ![Here] = f]
    BY <1>7 DEF FailIngest
  <2> HIDE DEF n, u, old
  <2>5. f \in [DOMAIN f -> Nat \ {0}]
    BY <2>2, <2>3
  <2> QED
    BY <1>3, <2>1, <2>4, <2>5
<1> QED
  <2>1. CASE User
    BY <1>2, <2>1 DEF User, ApplyDelete, ApplyMove
  <2>2. CASE Drain
    BY <1>2, <2>2 DEF Drain, RunOp
  <2>3. CASE DrainFaults
    BY <1>2, <2>3 DEF DrainFaults, Refuse, LoseAnswer
  <2>4. CASE Others
    BY <1>2, <2>4 DEF Others, OtherMoves, OtherDeletes, Renumber
  <2>5. CASE Open \/ Stop \/ FailIngest
    BY <1>2, <1>7, <2>5 DEF Open, Stop
  <2>6. CASE PassStep
    BY <1>2, <1>4, <1>6, <2>6 DEF PassStep, ReadStore, AllFetched, SkipTarget, FinishTarget,
                            Prune, Fetch, Answered
  <2>7. CASE UNCHANGED vars
    BY <1>2, <2>7 DEF vars
  <2> QED
    BY <2>1, <2>2, <2>3, <2>4, <2>5, <2>6, <2>7 DEF Next

-----------------------------------------------------------------------------
(* The rows.                                                                 *)

LEMMA TidySubset ==
    ASSUME NEW S, Tidy(S), NEW T, T \subseteq S
    PROVE  Tidy(T)
BY BoundedSubset DEF Tidy

LEMMA TidyAdd ==
    ASSUME NEW S, Tidy(S), NEW x \in Row, \A r \in S : r.id # x.id,
           \A r \in S : x.uid # Unbound => ~ (r.box = x.box /\ r.uid = x.uid)
    PROVE  Tidy(S \cup {x})
<1>1. Bounded(S \cup {x})
  <2>1. \A r \in S : r.id \in Nat
    BY DEF Tidy, Row
  <2>2. x.id \in Nat
    BY DEF Row
  <2> QED
    BY <2>1, <2>2, BoundedAdd DEF Tidy
<1> QED
  BY <1>1 DEF Tidy

LEMMA UnboundRow ==
    ASSUME NEW r \in Row
    PROVE  /\ [r EXCEPT !.uid = Unbound] \in Row
           /\ [r EXCEPT !.uid = Unbound].id = r.id /\ [r EXCEPT !.uid = Unbound].box = r.box
           /\ [r EXCEPT !.uid = Unbound].uid = Unbound /\ [r EXCEPT !.uid = Unbound].msg = r.msg
BY DEF Row, Unbound

LEMMA TidyUnbind ==
    ASSUME NEW S, Tidy(S), NEW A, NEW T,
           T = {IF r \in A THEN [r EXCEPT !.uid = Unbound] ELSE r : r \in S}
    PROVE  Tidy(T)
<1>1. S \subseteq Row
  BY DEF Tidy
<1>2. ASSUME NEW t \in T
      PROVE  \E r \in S : /\ t = IF r \in A THEN [r EXCEPT !.uid = Unbound] ELSE r
                          /\ t \in Row /\ t.id = r.id /\ t.box = r.box /\ t.uid \in {r.uid, Unbound}
  <2>1. PICK r \in S : t = IF r \in A THEN [r EXCEPT !.uid = Unbound] ELSE r
    OBVIOUS
  <2>2. r \in Row
    BY <1>1
  <2>3. t \in Row /\ t.id = r.id /\ t.box = r.box /\ t.uid \in {r.uid, Unbound}
    <3>1. CASE r \in A
      BY <2>1, <2>2, <3>1, UnboundRow
    <3>2. CASE r \notin A
      BY <2>1, <2>2, <3>2
    <3> QED
      BY <3>1, <3>2
  <2> QED
    BY <2>1, <2>3
<1>3. T \subseteq Row
  BY <1>2
<1>4. Bounded(T)
  BY <1>2 DEF Tidy, Bounded
<1>5. ASSUME NEW t \in T, NEW v \in T,
             t.id = v.id \/ (t.box = v.box /\ t.uid = v.uid /\ t.uid # Unbound)
      PROVE  t = v
  <2>1. PICK r \in S : /\ t = IF r \in A THEN [r EXCEPT !.uid = Unbound] ELSE r
                       /\ t.id = r.id /\ t.box = r.box /\ t.uid \in {r.uid, Unbound}
    BY <1>2
  <2>2. PICK q \in S : /\ v = IF q \in A THEN [q EXCEPT !.uid = Unbound] ELSE q
                       /\ v.id = q.id /\ v.box = q.box /\ v.uid \in {q.uid, Unbound}
    BY <1>2
  <2>3. r = q
    BY <1>5, <2>1, <2>2 DEF Tidy
  <2> QED
    BY <2>1, <2>2, <2>3
<1> QED
  BY <1>3, <1>4, <1>5 DEF Tidy

LEMMA ParkedTidy ==
    ASSUME RowsShape, NEW c
    PROVE  /\ Tidy(Parked(c))
           /\ \A r \in Parked(c) : r.box = Here /\ r.uid = c.uid => r.msg = c.msg \/ r.uid = Unbound
           /\ \A p \in Parked(c) : \E r \in rows : r.id = p.id /\ r.box = p.box /\ r.msg = p.msg
                                    /\ p.uid \in {r.uid, Unbound}
<1> DEFINE A == {r \in rows : r.box = Here /\ r.uid = c.uid /\ r.msg # c.msg}
<1>1. Parked(c) = {IF r \in A THEN [r EXCEPT !.uid = Unbound] ELSE r : r \in rows}
  <2>1. \A r \in rows : r \in A <=> r.box = Here /\ r.uid = c.uid /\ r.msg # c.msg
    OBVIOUS
  <2> HIDE DEF A
  <2> QED
    BY <2>1 DEF Parked
<1>2. rows \subseteq Row
  BY DEF RowsShape, Tidy
<1>3. ASSUME NEW p \in Parked(c)
      PROVE  \E r \in rows : /\ p.id = r.id /\ p.box = r.box /\ p.msg = r.msg
                             /\ p.uid = IF r \in A THEN Unbound ELSE r.uid
  <2>1. PICK r \in rows : p = IF r \in A THEN [r EXCEPT !.uid = Unbound] ELSE r
    BY <1>1
  <2>2. CASE r \in A
    BY <1>2, <2>1, <2>2, UnboundRow
  <2>3. CASE r \notin A
    BY <2>1, <2>3
  <2> QED
    BY <2>2, <2>3
<1>4. Tidy(Parked(c))
  <2> HIDE DEF A
  <2> QED
    BY <1>1, TidyUnbind DEF RowsShape
<1> QED
  BY <1>3, <1>4

LEMMA PreferredOf ==
    ASSUME NEW S, S \subseteq Row, S # {}
    PROVE  Preferred(S) \in S
<1> DEFINE Z == {r \in S : r.uid = Unbound}
           T == IF Z # {} THEN Z ELSE S
           I == {r.id : r \in T}
<1>1. T \subseteq S /\ T # {} /\ I \subseteq Nat
  BY DEF Row
<1>2. PICK i \in I : \A j \in I : i <= j
  <2>1. I # {}
    BY <1>1
  <2> HIDE DEF I
  <2> QED
    BY <1>1, <2>1, Least
<1>3. PICK r \in T : r.id = i
  OBVIOUS
<1>4. \A t \in T : r.id <= t.id
  BY <1>2, <1>3
<1>5. r \in S /\ \A t \in S : \/ r.uid = Unbound /\ t.uid # Unbound
                              \/ (r.uid = Unbound <=> t.uid = Unbound) /\ r.id <= t.id
  BY <1>3, <1>4
<1> QED
  BY <1>5 DEF Preferred

(* A move or the refusal of one leaves the row its id.                       *)
LEMMA MoveTidy ==
    ASSUME RowsShape, NEW r \in rows, NEW x \in Row, x.id = r.id, x.uid = Unbound
    PROVE  Tidy((rows \ {r}) \cup {x})
<1>1. Tidy(rows \ {r})
  BY TidySubset DEF RowsShape
<1>2. \A t \in rows \ {r} : t.id # x.id
  BY DEF RowsShape, Tidy
<1> QED
  BY <1>1, <1>2, TidyAdd

LEMMA RestoredTidy ==
    ASSUME RowsShape, NEW op \in Op
    PROVE  Tidy(Restored(op))
<1> DEFINE rest  == {r \in rows : r.id # op.row}
           same  == {r \in rows : r.id = op.row}
           taken == \E h \in RowsIn(op.from) : h.uid = op.uid /\ h.uid # Unbound /\ h.id # op.row
           back  == [r \in rows |-> [r EXCEPT !.box = op.from, !.uid = op.uid]]
<1>1. Restored(op) = rest \cup (IF taken THEN {} ELSE {back[r] : r \in same})
  BY DEF Restored
<1>2. Tidy(rest)
  BY TidySubset DEF RowsShape
<1>3. CASE taken \/ same = {}
  <2>1. Restored(op) = rest
    BY <1>1, <1>3
  <2> QED
    BY <1>2, <2>1
<1>4. ASSUME ~ taken, NEW r \in same PROVE Tidy(Restored(op))
  <2>1. same = {r}
    BY <1>4 DEF RowsShape, Tidy
  <2> DEFINE x == [r EXCEPT !.box = op.from, !.uid = op.uid]
  <2>2. Restored(op) = rest \cup {x}
    BY <1>1, <1>4, <2>1
  <2>3. r \in Row /\ op.from \in Boxes /\ op.uid \in Nat
    BY DEF RowsShape, Tidy, Op
  <2>4. x \in Row /\ x.id = op.row /\ x.box = op.from /\ x.uid = op.uid
    BY <2>3 DEF Row
  <2>5. \A t \in rest : x.uid # Unbound => ~ (t.box = x.box /\ t.uid = x.uid)
    BY <1>4, <2>4 DEF RowsIn
  <2> HIDE DEF x, rest
  <2>6. \A t \in rest : t.id # x.id
    BY <2>4 DEF rest
  <2> QED
    BY <1>2, <2>2, <2>4, <2>5, <2>6, TidyAdd
<1> QED
  BY <1>3, <1>4

LEMMA WrittenTidy ==
    ASSUME RowsShape, Here \in Boxes, NEW c \in Copy, IngestInTx(c)
    PROVE  RowsShape'
<1>1. /\ Tidy(Parked(c))
      /\ \A r \in Parked(c) : r.box = Here /\ r.uid = c.uid => r.msg = c.msg \/ r.uid = Unbound
      /\ \A p \in Parked(c) : \E r \in rows : r.id = p.id /\ r.box = p.box /\ r.msg = p.msg
                                              /\ p.uid \in {r.uid, Unbound}
  BY ParkedTidy
<1>2. c.uid \in Nat \ {0} /\ c.msg \in Msgs
  BY DEF Copy
<1>3. CASE UNCHANGED rows
  BY <1>3 DEF RowsShape
<1>4. Own(c) = {} => \A r \in Parked(c) : ~ (r.box = Here /\ r.uid = c.uid)
  BY <1>1, <1>2 DEF Own, RowsIn, Unbound
<1>5. CASE Own(c) = {} /\ Rebindable(c) # {}
           /\ LET r == Preferred(Rebindable(c)) IN rows' = (Parked(c) \ {r}) \cup {[r EXCEPT !.uid = c.uid]}
  <2> DEFINE r == Preferred(Rebindable(c))
             x == [r EXCEPT !.uid = c.uid]
  <2>1. Rebindable(c) \subseteq Parked(c) /\ Parked(c) \subseteq Row
    BY <1>1 DEF Rebindable, Tidy
  <2>2. r \in Rebindable(c)
    BY <1>5, <2>1, PreferredOf
  <2>3. rows' = (Parked(c) \ {r}) \cup {x}
    BY <1>5
  <2> HIDE DEF r
  <2>4. r \in Parked(c) /\ r \in Row /\ r.box = Here
    BY <2>1, <2>2 DEF Rebindable
  <2>5. x \in Row /\ x.id = r.id /\ x.box = Here /\ x.uid = c.uid
    BY <1>2, <2>4 DEF Row
  <2> HIDE DEF x
  <2>6. Tidy(Parked(c) \ {r})
    BY <1>1, TidySubset
  <2>7. \A t \in Parked(c) \ {r} : t.id # x.id
    BY <1>1, <2>4, <2>5 DEF Tidy
  <2>8. Tidy((Parked(c) \ {r}) \cup {x})
    BY <1>4, <1>5, <2>5, <2>6, <2>7, TidyAdd
  <2> QED
    BY <2>3, <2>8 DEF RowsShape
<1>6. CASE Own(c) = {}
           /\ rows' = Parked(c) \cup {[id |-> NextId(rows), box |-> Here, uid |-> c.uid, msg |-> c.msg]}
  <2> DEFINE x == [id |-> NextId(rows), box |-> Here, uid |-> c.uid, msg |-> c.msg]
  <2>1. NextId(rows) \in Nat \ {0} /\ \A r \in rows : r.id \in Nat /\ r.id < NextId(rows)
    BY NextIdOf DEF RowsShape, Tidy, Row
  <2>2. x \in Row /\ x.id = NextId(rows) /\ x.box = Here /\ x.uid = c.uid
    BY <1>2, <2>1 DEF Row
  <2>3. rows' = Parked(c) \cup {x}
    BY <1>6
  <2> HIDE DEF x
  <2>4. \A t \in Parked(c) : t.id # x.id
    BY <1>1, <2>1, <2>2
  <2>5. Tidy(Parked(c) \cup {x})
    BY <1>1, <1>4, <1>6, <2>2, <2>4, TidyAdd
  <2> QED
    BY <2>3, <2>5 DEF RowsShape
<1> QED
  BY <1>3, <1>5, <1>6 DEF IngestInTx, Written

LEMMA RowsStep ==
    ASSUME Shape, [Next]_vars
    PROVE  RowsShape'
<1>1. RowsShape /\ PassShape /\ ops \subseteq Op
  BY DEF Shape, OpsShape
<1>2. CASE UNCHANGED rows
  BY <1>1, <1>2 DEF RowsShape
<1>3. ASSUME rows' \subseteq rows PROVE RowsShape'
  BY <1>1, <1>3, TidySubset DEF RowsShape
<1>4. ASSUME NEW r \in rows, NEW b \in Boxes, ApplyMove(r, b) PROVE RowsShape'
  <2> DEFINE x == [r EXCEPT !.box = b, !.uid = Unbound]
  <2>1. r \in Row
    BY <1>1 DEF RowsShape, Tidy
  <2>2. x \in Row /\ x.id = r.id /\ x.uid = Unbound
    BY <2>1 DEF Row, Unbound
  <2>3. rows' = (rows \ {r}) \cup {x}
    BY <1>4 DEF ApplyMove
  <2> HIDE DEF x
  <2> QED
    BY <1>1, <2>2, <2>3, MoveTidy DEF RowsShape
<1>5. ASSUME NEW op \in ops, Refuse(op) PROVE RowsShape'
  BY <1>1, <1>5, RestoredTidy DEF Refuse, RowsShape
<1>6. CASE Ingest
  <2>1. Here \in Boxes /\ GoodAnswer(Got, server[Here].validity) /\ pass.todo \subseteq Got.msgs /\ pass.todo # {}
    BY <1>1, <1>6, IngestingHere DEF Ingest, PassShape
  <2>2. pass.todo \subseteq Copy
    BY <2>1 DEF GoodAnswer, Answer
  <2>3. Lowest(pass.todo) \in Copy
    BY <2>1, <2>2, LowestOf
  <2>4. IngestInTx(Lowest(pass.todo))
    BY <1>6 DEF Ingest
  <2> QED
    BY <1>1, <2>1, <2>3, <2>4, WrittenTidy
<1>7. CASE FinishTarget
  <2> DEFINE A == {r \in rows : Got.reset /\ r.box = Here /\ r.uid \in Got.listed \ pass.uids}
  <2>1. UnboundRows = {IF r \in A THEN [r EXCEPT !.uid = Unbound] ELSE r : r \in rows}
    BY DEF UnboundRows
  <2>2. Tidy(UnboundRows)
    BY <1>1, <2>1, TidyUnbind DEF RowsShape
  <2> QED
    BY <1>7, <2>2 DEF FinishTarget, RowsShape
<1>8. CASE Prune
  <2>1. rows' \subseteq rows
    BY <1>8 DEF Prune, Pruned
  <2> QED
    BY <1>3, <2>1
<1> QED
  <2>1. CASE User
    <3>1. ASSUME NEW r \in rows, ApplyDelete(r) PROVE rows' \subseteq rows
      BY <3>1 DEF ApplyDelete
    <3> QED
      BY <1>3, <1>4, <2>1, <3>1 DEF User
  <2>2. CASE Drain
    BY <1>2, <2>2 DEF Drain, RunOp
  <2>3. CASE DrainFaults
    BY <1>2, <1>5, <2>3 DEF DrainFaults, LoseAnswer
  <2>4. CASE Others
    BY <1>2, <2>4 DEF Others, OtherMoves, OtherDeletes, Renumber
  <2>5. CASE Open \/ Stop \/ FailIngest
    BY <1>2, <2>5 DEF Open, Stop, FailIngest
  <2>6. CASE PassStep
    BY <1>2, <1>6, <1>7, <1>8, <2>6 DEF PassStep, ReadStore, AllFetched, SkipTarget, StartTarget,
                            Fetch, Answered
  <2>7. CASE UNCHANGED vars
    BY <1>2, <2>7 DEF vars
  <2> QED
    BY <2>1, <2>2, <2>3, <2>4, <2>5, <2>6, <2>7 DEF Next

-----------------------------------------------------------------------------
(* The ops owed.                                                             *)

LEMMA ServerCopyNamed ==
    ASSUME RowsShape, CursorShape, NEW r \in rows
    PROVE  /\ ServerCopy(r) \in Name \cup {None}
           /\ ServerCopy(r) = None => r.uid = Unbound
           /\ ServerCopy(r) # None => /\ ServerCopy(r).uid = r.uid
                                      /\ ServerCopy(r).validity # None =>
                                            ServerCopy(r).validity <= server[r.box].validity
<1>1. r \in Row /\ rows \subseteq Row
  BY DEF RowsShape, Tidy
<1>2. r.box \in Boxes /\ r.uid \in Nat
  BY <1>1 DEF Row
<1>3. cursor[r.box] = None \/ (cursor[r.box] \in Cursor /\ cursor[r.box].validity <= server[r.box].validity)
  BY <1>2 DEF CursorShape
<1> DEFINE v == IF cursor[r.box] = None THEN None ELSE cursor[r.box].validity
           s == {t.uid : t \in {t \in RowsIn(r.box) : t.msg = r.msg}} \ {r.uid, Unbound}
           n == [uid |-> r.uid, validity |-> v, siblings |-> s]
<1>4. CASE r.uid = Unbound
  BY <1>4 DEF ServerCopy
<1>5. CASE r.uid # Unbound
  <2>1. ServerCopy(r) = n
    BY <1>5 DEF ServerCopy
  <2>2. v \in Nat \cup {None} /\ (v # None => v <= server[r.box].validity)
    BY <1>3 DEF Cursor
  <2>3. s \subseteq Nat
    BY <1>1 DEF RowsIn, Row
  <2>4. r.uid \in Nat \ {0}
    BY <1>2, <1>5 DEF Unbound
  <2> HIDE DEF v, s
  <2>5. n \in Name
    BY <2>2, <2>3, <2>4 DEF Name
  <2>6. n # None /\ n.uid = r.uid /\ n.validity = v
    BY <2>5, NoneAssumption
  <2> HIDE DEF n
  <2> QED
    BY <2>1, <2>2, <2>5, <2>6
<1> QED
  BY <1>4, <1>5

(* What is queued of a row: a new op, the last.                              *)
LEMMA OwedShape ==
    ASSUME Shape, NEW r \in rows, NEW dest \in Boxes \cup {None}, NEW op,
           op = [id |-> NextId(ops), row |-> r.id, msg |-> r.msg, from |-> r.box, to |-> dest,
                 copy |-> ServerCopy(r), uid |-> r.uid]
    PROVE  /\ op \in Op /\ \A o \in ops : o.id < op.id
           /\ op.id = NextId(ops) /\ op.row = r.id /\ op.msg = r.msg /\ op.from = r.box /\ op.to = dest
           /\ op.copy = ServerCopy(r) /\ op.uid = r.uid
<1>1. r \in Row
  BY DEF Shape, RowsShape, Tidy
<1>2. ServerCopy(r) \in Name \cup {None}
  BY ServerCopyNamed DEF Shape
<1>3. NextId(ops) \in Nat \ {0} /\ \A o \in ops : o.id < NextId(ops)
  BY NextIdOf DEF Shape, OpsShape, Op
<1> QED
  BY <1>1, <1>2, <1>3 DEF Row, Op

LEMMA OpsStep ==
    ASSUME Shape, [Next]_vars
    PROVE  OpsShape'
<1>1. OpsShape /\ RowsShape /\ CursorShape /\ ServerShape
  BY DEF Shape
<1>2. /\ \A b \in Boxes : server[b].validity <= server'[b].validity
      /\ \A b \in Boxes : server[b].validity \in Nat /\ server'[b].validity \in Nat
  BY <1>1, ServerStep DEF ServerShape, Mailbox
<1>3. \A o \in ops : /\ o \in Op /\ o.id \in Nat
                     /\ o.copy = None => o.uid = Unbound
                     /\ o.copy # None => o.copy.uid = o.uid
                     /\ o.copy # None /\ o.copy.validity # None => o.copy.validity <= server'[o.from].validity
  <2> TAKE o \in ops
  <2>1. o \in Op /\ o.from \in Boxes /\ o.copy \in Name \cup {None}
    BY <1>1 DEF OpsShape, Op
  <2>2. o.copy # None /\ o.copy.validity # None => o.copy.validity \in Nat
    BY <2>1 DEF Name
  <2> QED
    BY <1>1, <1>2, <2>1, <2>2 DEF OpsShape, Op
<1>4. ASSUME ops' \subseteq ops PROVE OpsShape'
  <2>1. Bounded(ops')
    BY <1>1, <1>4, BoundedSubset DEF OpsShape
  <2> QED
    BY <1>1, <1>3, <1>4, <2>1 DEF OpsShape
<1>5. ASSUME NEW r \in rows, NEW dest \in Boxes \cup {None}, Owe(r, dest) PROVE OpsShape'
  <2> DEFINE op == [id |-> NextId(ops), row |-> r.id, msg |-> r.msg, from |-> r.box, to |-> dest,
                    copy |-> ServerCopy(r), uid |-> r.uid]
  <2>1. ops' = ops \cup {op}
    BY <1>5 DEF Owe
  <2>2. /\ op \in Op /\ \A o \in ops : o.id < op.id
        /\ op.from = r.box /\ op.copy = ServerCopy(r) /\ op.uid = r.uid
    BY OwedShape
  <2> HIDE DEF op
  <2>3. /\ op.copy = None => op.uid = Unbound
        /\ op.copy # None => op.copy.uid = op.uid
        /\ op.copy # None /\ op.copy.validity # None => op.copy.validity <= server'[op.from].validity
    <3>1. /\ ServerCopy(r) \in Name \cup {None}
          /\ ServerCopy(r) = None => r.uid = Unbound
          /\ ServerCopy(r) # None => /\ ServerCopy(r).uid = r.uid
                                     /\ ServerCopy(r).validity # None =>
                                           ServerCopy(r).validity <= server[r.box].validity
      BY <1>1, ServerCopyNamed
    <3>2. op.from \in Boxes
      BY <2>2 DEF Op
    <3>3. op.copy # None /\ op.copy.validity # None => op.copy.validity \in Nat
      BY <2>2, <3>1 DEF Name
    <3> QED
      BY <1>2, <2>2, <3>1, <3>2, <3>3
  <2>4. op.id \in Nat
    BY <2>2 DEF Op
  <2>5. Bounded(ops')
    BY <1>1, <1>3, <2>1, <2>4, BoundedAdd DEF OpsShape
  <2>6. \A o, p \in ops' : o.id = p.id => o = p
    BY <1>1, <1>3, <2>1, <2>2, <2>4 DEF OpsShape
  <2>7. ops' \subseteq Op
    BY <1>1, <2>1, <2>2 DEF OpsShape
  <2> QED
    BY <1>3, <2>1, <2>3, <2>5, <2>6, <2>7 DEF OpsShape
<1> QED
  <2>1. CASE User
    BY <1>5, <2>1 DEF User, ApplyDelete, ApplyMove
  <2>2. CASE Drain
    BY <1>4, <2>2 DEF Drain, RunOp
  <2>3. CASE DrainFaults
    BY <1>4, <2>3 DEF DrainFaults, Refuse, LoseAnswer
  <2>4. CASE Others
    BY <1>4, <2>4 DEF Others, OtherMoves, OtherDeletes, Renumber
  <2>5. CASE Open \/ Stop \/ FailIngest
    BY <1>4, <2>5 DEF Open, Stop, FailIngest
  <2>6. CASE PassStep
    BY <1>4, <2>6 DEF PassStep, ReadStore, AllFetched, SkipTarget, StartTarget, Ingest, FinishTarget,
                      Prune, Fetch, Answered
  <2>7. CASE UNCHANGED vars
    BY <1>4, <2>7 DEF vars
  <2> QED
    BY <2>1, <2>2, <2>3, <2>4, <2>5, <2>6, <2>7 DEF Next

-----------------------------------------------------------------------------
(* The pass.                                                                 *)

(* An answer stays good whatever the server does.                            *)
LEMMA AnswersStay ==
    ASSUME Shape, [Next]_vars
    PROVE  \A b \in Boxes : HasAnswer(b) => GoodAnswer(pass.got[b], server'[b].validity)
<1>1. TAKE b \in Boxes
<1>2. HAVE HasAnswer(b)
<1>3. GoodAnswer(pass.got[b], server[b].validity)
  BY <1>2 DEF Shape, PassShape
<1>4. pass.got[b].validity <= server[b].validity /\ pass.got[b].validity \in Nat
  BY <1>3 DEF GoodAnswer, Answer
<1>5. server[b].validity <= server'[b].validity /\ server[b].validity \in Nat /\ server'[b].validity \in Nat
  BY ServerStep DEF Shape, ServerShape, Mailbox
<1> QED
  BY <1>3, <1>4, <1>5 DEF GoodAnswer

(* A step that leaves the answers, and ingests nothing.                      *)
LEMMA SameAnswers ==
    ASSUME Shape, [Next]_vars, pass' \in Pass, pass'.got = pass.got,
           pass'.at \in {"idle", "open"} => pass'.got = Idle.got,
           pass'.at = "fetch" => \A b \in Boxes : pass'.known[b] \in Skips /\ pass'.known[b].cursor = cursor'[b],
           pass'.at \in {"target", "ingest"} =>
               pass'.next \in 1..(Len(Targets) + 1) /\ \A b \in Boxes : pass.got[b] # None,
           pass'.at = "ingest" =>
               /\ pass'.next <= Len(Targets) /\ pass.got[Targets[pass'.next]] # Failed
               /\ pass'.todo \subseteq pass.got[Targets[pass'.next]].msgs
               /\ pass'.unmet \subseteq UidsOf(pass.got[Targets[pass'.next]].msgs)
    PROVE  PassShape'
<1>1. \A b \in Boxes : HasAnswer(b)' => GoodAnswer(pass'.got[b], server'[b].validity)
  BY AnswersStay DEF HasAnswer
<1> QED
  BY <1>1 DEF PassShape, Got, Here

LEMMA PassIdle ==
    ASSUME pass' = Idle PROVE PassShape'
<1>1. pass'.at = "idle" /\ pass'.got = Idle.got /\ \A b \in Boxes : pass'.got[b] = None
  BY DEF Idle
<1> QED
  BY <1>1, IdleShape DEF PassShape, HasAnswer

LEMMA PassStepShape ==
    ASSUME Shape, [Next]_vars
    PROVE  PassShape'
<1>1. PassShape /\ pass \in Pass /\ CursorShape /\ OpsShape /\ RowsShape /\ ServerShape
  BY DEF Shape, PassShape
<1>2. /\ pass.at \in {"idle", "open"} => pass.got = Idle.got
      /\ pass.at = "fetch" => \A b \in Boxes : pass.known[b] \in Skips /\ pass.known[b].cursor = cursor[b]
      /\ pass.at \in {"target", "ingest"} =>
            pass.next \in 1..(Len(Targets) + 1) /\ \A b \in Boxes : pass.got[b] # None
      /\ pass.at = "ingest" =>
            /\ pass.next <= Len(Targets) /\ Got # Failed
            /\ pass.todo \subseteq Got.msgs /\ pass.unmet \subseteq UidsOf(Got.msgs)
  BY <1>1 DEF PassShape
<1>3. CASE UNCHANGED <<pass, cursor>>
  BY <1>1, <1>2, <1>3, SameAnswers DEF Got, Here
<1>4. ASSUME NEW r \in rows, NEW dest \in Boxes \cup {None}, Owe(r, dest), UNCHANGED cursor PROVE PassShape'
  <2> DEFINE op == [id |-> NextId(ops), row |-> r.id, msg |-> r.msg, from |-> r.box, to |-> dest,
                    copy |-> ServerCopy(r), uid |-> r.uid]
  <2>1. pass' = Record(op)
    BY <1>4 DEF Owe
  <2>2. op \in Op
    BY OwedShape
  <2> HIDE DEF op
  <2>3. Leaving(op) \in Leave
    BY <2>2 DEF Leaving, Leave, Op
  <2>4. pass' = pass \/ pass' = [pass EXCEPT !.watch = @ \cup {Leaving(op)}]
    BY <2>1 DEF Record
  <2>5. pass' \in Pass /\ pass'.at = pass.at /\ pass'.got = pass.got /\ pass'.known = pass.known
        /\ pass'.next = pass.next /\ pass'.todo = pass.todo /\ pass'.unmet = pass.unmet
    BY <1>1, <2>3, <2>4 DEF Pass
  <2> QED
    BY <1>2, <1>4, <2>5, SameAnswers DEF Got, Here
<1>5. CASE Open
  <2>1. PICK n \in Limits : pass' = [Idle EXCEPT !.at = "open", !.limit = n]
    BY <1>5 DEF Open
  <2>2. n \in Nat
    BY LimitAssumption
  <2>3. pass' \in Pass /\ pass'.at = "open" /\ pass'.got = Idle.got
    BY <2>1, <2>2, IdleShape DEF Pass, Idle
  <2>4. pass.got = Idle.got
    BY <1>2, <1>5 DEF Open
  <2> QED
    BY <2>3, <2>4, SameAnswers
<1>6. CASE ReadStore
  <2> DEFINE seen == pass.watch \cup {Leaving(op) : op \in ops}
             skip == [b \in Boxes |-> [uids |-> KnownUids(b), cursor |-> cursor[b]]]
  <2>1. pass' = [pass EXCEPT !.at = "fetch", !.watch = seen, !.known = skip]
    BY <1>6 DEF ReadStore
  <2>2. seen \subseteq Leave
    BY <1>1 DEF Leaving, Leave, OpsShape, Op, Pass
  <2>3. \A b \in Boxes : skip[b] \in Skips /\ skip[b].cursor = cursor[b]
    <3> TAKE b \in Boxes
    <3>1. KnownUids(b) \subseteq Nat \ {0}
      BY <1>1 DEF KnownUids, RowsIn, RowsShape, Tidy, Row, Unbound
    <3>2. cursor[b] \in Cursor \cup {None}
      BY <1>1 DEF CursorShape
    <3> QED
      BY <3>1, <3>2 DEF Skips
  <2>4. skip \in [Boxes -> Skips]
    BY <2>3
  <2>5. pass.got = Idle.got /\ UNCHANGED cursor
    BY <1>2, <1>6 DEF ReadStore
  <2> HIDE DEF seen, skip
  <2>6. pass' \in Pass /\ pass'.at = "fetch" /\ pass'.got = pass.got /\ pass'.known = skip
    BY <1>1, <2>1, <2>2, <2>4 DEF Pass
  <2> QED
    BY <2>3, <2>5, <2>6, SameAnswers
<1>7. ASSUME NEW b \in Boxes, NEW g, pass.at = "fetch", pass' = [pass EXCEPT !.got[b] = g],
             UNCHANGED <<cursor, server>>, g = Failed \/ GoodAnswer(g, server[b].validity)
      PROVE  PassShape'
  <2>1. g \in Answer \cup {None, Failed}
    BY <1>7 DEF GoodAnswer
  <2>2. pass' \in Pass /\ pass'.at = "fetch" /\ pass'.known = pass.known
    BY <1>1, <1>7, <2>1 DEF Pass
  <2>3. \A a \in Boxes : pass'.got[a] = IF a = b THEN g ELSE pass.got[a]
    BY <1>1, <1>7 DEF Pass
  <2>4. \A a \in Boxes : HasAnswer(a)' => GoodAnswer(pass'.got[a], server'[a].validity)
    BY <1>1, <1>7, <2>3 DEF HasAnswer, PassShape
  <2> QED
    BY <1>2, <1>7, <2>2, <2>4 DEF PassShape
<1>8. ASSUME NEW b \in Boxes, Fetch(b) PROVE PassShape'
  <2> DEFINE all == UidsOf(server[b].copies)
  <2>1. pass.at = "fetch" /\ UNCHANGED <<cursor, server>> /\ pass.known[b] \in Skips /\ pass.limit \in Nat
    BY <1>1, <1>2, <1>8 DEF Fetch, Answered, Pass
  <2>2. IsFiniteSet(all)
    BY <1>1, UidsBelowNext
  <2>3. Cardinality(all) \in Nat
    BY <2>2, FS_CardinalityType
  <2>4. \/ Answered(b, Fetched(b, all, Cardinality(all)))
        \/ \E k \in 1..(Cardinality(all) - 1) : Answered(b, Fetched(b, all, k))
        \/ \E c \in server[b].copies : Answered(b, Fetched(b, all \ {c.uid}, Cardinality(all)))
        \/ Answered(b, Failed)
    BY <1>8 DEF Fetch
  <2>5. ASSUME NEW g, Answered(b, g), g = Failed \/ GoodAnswer(g, server[b].validity) PROVE PassShape'
    BY <1>7, <2>1, <2>5 DEF Answered
  <2>6. CASE Answered(b, Failed)
    BY <2>5, <2>6
  <2>7. ASSUME NEW listed, listed \subseteq all, NEW k \in Nat, Answered(b, Fetched(b, listed, k)) PROVE PassShape'
    BY <1>1, <2>1, <2>5, <2>7, FetchedShape
  <2>8. \A k \in 1..(Cardinality(all) - 1) : k \in Nat
    BY <2>3
  <2> HIDE DEF all
  <2> QED
    BY <2>3, <2>4, <2>6, <2>7, <2>8
<1>9. CASE AllFetched
  <2>1. pass'.at = "target" /\ pass'.next = 1 /\ pass'.got = pass.got /\ pass' \in Pass
    BY <1>1, <1>9 DEF AllFetched, Pass
  <2>2. 1 \in 1..(Len(Targets) + 1)
    BY TargetsAssumption
  <2> QED
    BY <1>9, <2>1, <2>2, SameAnswers DEF AllFetched
<1>10. CASE Stop \/ Prune
  BY <1>10, PassIdle DEF Stop, Prune
<1>11. CASE SkipTarget
  <2> DEFINE n == pass.next + 1
  <2>0. n \in Nat /\ pass' = [pass EXCEPT !.next = n, !.gate = FALSE]
    BY <1>1, <1>11 DEF SkipTarget, Pass
  <2> HIDE DEF n
  <2>1. pass'.at = "target" /\ pass'.next = n /\ pass'.got = pass.got /\ pass' \in Pass
    BY <1>1, <1>11, <2>0 DEF SkipTarget, Pass
  <2>2. n \in 1..(Len(Targets) + 1)
    BY <1>2, <1>11, TargetsAssumption DEF SkipTarget, n
  <2> QED
    BY <1>2, <1>11, <2>1, <2>2, SameAnswers DEF SkipTarget
<1>12. ASSUME pass.at \in {"target", "ingest"}, pass.next <= Len(Targets), Got # Failed
       PROVE  /\ GoodAnswer(Got, server[Here].validity) /\ Here \in Boxes /\ Got.msgs \subseteq Copy
              /\ Got.listed \subseteq Nat /\ Got.vanished \subseteq Nat /\ Got.complete \in BOOLEAN
              /\ Got.short \in BOOLEAN
  <2>1. GoodAnswer(Got, server[Here].validity) /\ Here \in Boxes
    BY <1>1, <1>12, IngestingHere
  <2> QED
    BY <2>1 DEF GoodAnswer, Answer
<1>13. CASE StartTarget
  <2> DEFINE held == IF Got.reset \/ ~Got.complete THEN {} ELSE Got.listed
  <2>1. pass' = [pass EXCEPT !.at = "ingest", !.todo = Got.msgs, !.unmet = {}, !.uids = held]
    BY <1>13 DEF StartTarget
  <2>2. Got.msgs \subseteq Copy /\ held \subseteq Nat
    BY <1>12, <1>13 DEF StartTarget
  <2> HIDE DEF held
  <2>3. /\ pass' \in Pass /\ pass'.at = "ingest" /\ pass'.got = pass.got /\ pass'.next = pass.next
        /\ pass'.todo = Got.msgs /\ pass'.unmet = {}
    BY <1>1, <2>1, <2>2 DEF Pass
  <2> QED
    BY <1>2, <1>13, <2>3, SameAnswers DEF StartTarget, Got, Here
<1>14. ASSUME pass.at = "ingest", NEW todo, todo \subseteq pass.todo, NEW uids, uids \subseteq Nat,
              NEW unmet, unmet \subseteq UidsOf(Got.msgs),
              pass' = [pass EXCEPT !.todo = todo, !.uids = uids, !.unmet = unmet], UNCHANGED cursor
       PROVE  PassShape'
  <2>1. todo \subseteq Copy /\ unmet \subseteq Nat
    <3>1. Got.msgs \subseteq Copy
      BY <1>2, <1>12, <1>14
    <3> QED
      BY <1>1, <1>14, <3>1 DEF Pass, UidsOf, Copy
  <2>2. /\ pass' \in Pass /\ pass'.at = "ingest" /\ pass'.got = pass.got /\ pass'.next = pass.next
        /\ pass'.todo = todo /\ pass'.unmet = unmet
    BY <1>1, <1>14, <2>1 DEF Pass
  <2> QED
    BY <1>2, <1>14, <2>2, SameAnswers DEF Got, Here
<1>15. ASSUME pass.at = "ingest", pass.todo # {}
       PROVE  Lowest(pass.todo) \in pass.todo /\ Lowest(pass.todo).uid \in Nat
              /\ Lowest(pass.todo).uid \in UidsOf(Got.msgs)
  <2>1. pass.todo \subseteq Copy
    BY <1>1 DEF Pass
  <2>2. Lowest(pass.todo) \in pass.todo
    BY <1>15, <2>1, LowestOf
  <2> QED
    BY <1>2, <1>15, <2>1, <2>2 DEF UidsOf, Copy
<1>16. CASE Ingest
  <2> DEFINE c == Lowest(pass.todo)
  <2>1. c \in pass.todo /\ c.uid \in Nat /\ pass.at = "ingest" /\ UNCHANGED cursor
    BY <1>15, <1>16 DEF Ingest
  <2>2. \/ pass' = [pass EXCEPT !.todo = @ \ {c}, !.uids = @ \cup {c.uid}]
        \/ pass' = [pass EXCEPT !.todo = @ \ {c}]
    BY <1>16 DEF Ingest, IngestInTx, Written
  <2>3. pass.uids \subseteq Nat /\ pass.unmet \subseteq UidsOf(Got.msgs)
    BY <1>1, <1>2, <2>1 DEF Pass
  <2> HIDE DEF c
  <2>4. pass.todo \ {c} \subseteq pass.todo
    OBVIOUS
  <2>5. CASE pass' = [pass EXCEPT !.todo = @ \ {c}, !.uids = @ \cup {c.uid}]
    <3> DEFINE uids == pass.uids \cup {c.uid}
    <3>1. pass' = [pass EXCEPT !.todo = pass.todo \ {c}, !.uids = uids]
      BY <2>5
    <3>2. uids \subseteq Nat
      BY <2>1, <2>3
    <3> HIDE DEF uids
    <3>3. pass' = [pass EXCEPT !.todo = pass.todo \ {c}, !.uids = uids, !.unmet = pass.unmet]
      BY <1>1, <3>1 DEF Pass
    <3> QED
      BY <1>14, <2>1, <2>3, <2>4, <3>2, <3>3
  <2>6. CASE pass' = [pass EXCEPT !.todo = @ \ {c}]
    <3>1. pass' = [pass EXCEPT !.todo = pass.todo \ {c}, !.uids = pass.uids, !.unmet = pass.unmet]
      BY <1>1, <2>6 DEF Pass
    <3> QED
      BY <1>14, <2>1, <2>3, <2>4, <3>1
  <2> QED
    BY <2>2, <2>5, <2>6
<1>17. CASE FailIngest
  <2> DEFINE c == Lowest(pass.todo)
             n == Tries(c.uid) + 1
             unmet == IF n < MaxAttempts THEN pass.unmet \cup {c.uid} ELSE pass.unmet
  <2>1. c \in pass.todo /\ c.uid \in UidsOf(Got.msgs) /\ pass.at = "ingest" /\ UNCHANGED cursor
    BY <1>15, <1>17 DEF FailIngest
  <2>2. pass' = [pass EXCEPT !.todo = pass.todo \ {c}, !.unmet = unmet]
    BY <1>17 DEF FailIngest
  <2>3. unmet \subseteq UidsOf(Got.msgs) /\ pass.uids \subseteq Nat
    BY <1>1, <1>2, <2>1 DEF Pass
  <2> HIDE DEF c, n, unmet
  <2>4. pass' = [pass EXCEPT !.todo = pass.todo \ {c}, !.uids = pass.uids, !.unmet = unmet]
    BY <1>1, <2>2 DEF Pass
  <2>5. pass.todo \ {c} \subseteq pass.todo
    OBVIOUS
  <2> QED
    BY <1>14, <2>1, <2>3, <2>4, <2>5
<1>18. CASE FinishTarget
  <2> DEFINE gate == pass.gate /\ Got.complete /\ pass.unmet = {} /\ ~Got.short
             prunes == pass.prunes \cup {<<Here, u>> : u \in Got.vanished}
             n == pass.next + 1
  <2>1. pass' = [pass EXCEPT !.at = "target", !.next = n, !.uids = {}, !.unmet = {},
                             !.gate = gate, !.prunes = prunes]
    BY <1>18 DEF FinishTarget
  <2>2. Here \in Boxes /\ Got.vanished \subseteq Nat
    BY <1>2, <1>12, <1>18 DEF FinishTarget
  <2>3. gate \in BOOLEAN /\ prunes \subseteq Boxes \X Nat /\ n \in Nat
    BY <1>1, <2>2 DEF Pass
  <2>4. n \in 1..(Len(Targets) + 1)
    BY <1>2, <1>18, TargetsAssumption DEF FinishTarget
  <2> HIDE DEF gate, prunes, n
  <2>5. /\ pass' \in Pass /\ pass'.at = "target" /\ pass'.got = pass.got /\ pass'.next = n
    BY <1>1, <2>1, <2>3 DEF Pass
  <2> QED
    BY <1>2, <1>18, <2>4, <2>5, SameAnswers DEF FinishTarget
<1> QED
  <2>1. CASE User
    BY <1>4, <2>1 DEF User, ApplyDelete, ApplyMove
  <2>2. CASE Drain
    BY <1>3, <2>2 DEF Drain, RunOp
  <2>3. CASE DrainFaults
    BY <1>3, <2>3 DEF DrainFaults, Refuse, LoseAnswer
  <2>4. CASE Others
    BY <1>3, <2>4 DEF Others, OtherMoves, OtherDeletes, Renumber
  <2>5. CASE Open \/ Stop \/ FailIngest
    BY <1>5, <1>10, <1>17, <2>5
  <2>6. CASE PassStep
    BY <1>6, <1>8, <1>9, <1>10, <1>11, <1>13, <1>16, <1>18, <2>6 DEF PassStep
  <2>7. CASE UNCHANGED vars
    BY <1>3, <2>7 DEF vars
  <2> QED
    BY <2>1, <2>2, <2>3, <2>4, <2>5, <2>6, <2>7 DEF Next

(* What the environment may still do.                                        *)
LEMMA BudgetStep ==
    ASSUME Shape, [Next]_vars
    PROVE  (budget \in Budget)'
<1>1. budget \in Budget
  BY DEF Shape
<1>2. CASE UNCHANGED budget
  BY <1>1, <1>2
<1>3. ASSUME NEW what \in {"local", "foreign", "faults", "resets"}, Spend(what) PROVE (budget \in Budget)'
  BY <1>1, <1>3 DEF Spend, Budget
<1> QED
  <2>1. CASE User
    BY <1>3, <2>1 DEF User, ApplyDelete, ApplyMove
  <2>2. CASE Drain
    BY <1>2, <2>2 DEF Drain, RunOp
  <2>3. CASE DrainFaults
    BY <1>3, <2>3 DEF DrainFaults, Refuse, LoseAnswer
  <2>4. CASE Others
    BY <1>3, <2>4 DEF Others, OtherMoves, OtherDeletes, Renumber
  <2>5. CASE Open \/ Stop \/ FailIngest
    BY <1>2, <1>3, <2>5 DEF Open, Stop, FailIngest
  <2>6. CASE PassStep
    BY <1>2, <1>3, <2>6 DEF PassStep, ReadStore, AllFetched, SkipTarget, StartTarget, Ingest, FinishTarget,
                            Prune, Fetch
  <2>7. CASE UNCHANGED vars
    BY <1>2, <2>7 DEF vars
  <2> QED
    BY <2>1, <2>2, <2>3, <2>4, <2>5, <2>6, <2>7 DEF Next

-----------------------------------------------------------------------------
(* The theorems.                                                             *)

LEMMA ShapeStep ==
    ASSUME Shape, [Next]_vars PROVE Shape'
BY ServerStep, CursorStep, AttemptsStep, RowsStep, OpsStep, PassStepShape, BudgetStep DEF Shape

LEMMA ShapeAlways == Spec => []Shape
<1>1. Init => Shape
  BY InitShape
<1>2. Shape /\ [Next]_vars => Shape'
  BY ShapeStep
<1> QED
  BY <1>1, <1>2, PTL DEF Spec

LEMMA ShapeTypes ==
    ASSUME Shape PROVE TypeOK
<1>1. ASSUME NEW b \in Boxes
      PROVE  /\ server[b].copies \subseteq Copy /\ server[b].next \in Nat
             /\ \A c, d \in server[b].copies : c.uid = d.uid => c = d
             /\ \A c \in server[b].copies : c.uid < server[b].next
             /\ cursor[b] # None =>
                   /\ cursor[b].validity <= server[b].validity
                   /\ cursor[b].mark # None => cursor[b].mark <= cursor[b].last
             /\ \A u \in DOMAIN attempts[b] : attempts[b][u] \in Nat \ {0}
  BY <1>1 DEF Shape, ServerShape, Sound, Mailbox, CursorShape, AttemptsShape
<1>2. pass.at \in {"idle", "open", "fetch", "target", "ingest"}
  BY DEF Shape, PassShape, Pass
<1>3. /\ rows \subseteq Row
      /\ \A r, t \in rows : r.id = t.id \/ (r.box = t.box /\ r.uid = t.uid /\ r.uid # Unbound) => r = t
  BY DEF Shape, RowsShape, Tidy
<1>4. \A o, p \in ops : o.id = p.id => o = p
  BY DEF Shape, OpsShape
<1> QED
  BY <1>1, <1>2, <1>3, <1>4 DEF TypeOK, Shape

-----------------------------------------------------------------------------
(* What a step does to the copies and UIDs of a mailbox.                     *)

(* Within a numbering, UIDs are handed out in order and never again.         *)
Onward(b) ==
    server'[b].validity = server[b].validity =>
        /\ server[b].next <= server'[b].next
        /\ \A c \in server'[b].copies : c \in server[b].copies \/ server[b].next <= c.uid

LEMMA OnwardFromCopied ==
    ASSUME ServerShape, NEW op \in Op, NEW b \in Boxes,
           server'[b].copies \subseteq Copied(op)[b].copies, server'[b].next = Copied(op)[b].next
    PROVE  Onward(b)
<1>1. server[b].next \in Nat
  BY DEF ServerShape, Mailbox
<1>2. \A c \in Copied(op)[b].copies :
          c \in server[b].copies \/ c = [uid |-> server[b].next, msg |-> op.msg]
  BY CopiedCopies
<1>3. server[b].next <= server'[b].next
  BY <1>1, CopiedCopies
<1> QED
  BY <1>1, <1>2, <1>3 DEF Onward

LEMMA OnwardFromLanded ==
    ASSUME ServerShape, NEW op \in Op, NEW b \in Boxes, NEW u, server' = Landed(op, u)
    PROVE  Onward(b)
<1>1. Landed(op, u)[b].copies \subseteq Copied(op)[b].copies
  BY LandedCopies
<1>2. Landed(op, u)[b].next = Copied(op)[b].next
  BY LandedNext
<1> QED
  BY <1>1, <1>2, OnwardFromCopied

(* A renumbered mailbox has its copies, each once, under another UIDVALIDITY. *)
LEMMA RenumberCopies ==
    ASSUME ServerShape, NEW b \in Boxes, Renumber(b)
    PROVE  /\ server'[b].validity = server[b].validity + 1
           /\ \A a \in Boxes \ {b} : server'[a] = server[a]
           /\ \A c \in server'[b].copies : \E k \in server[b].copies : c.msg = k.msg
           /\ \A c, d \in server'[b].copies : c.msg = d.msg =>
                 c = d \/ \E k, l \in server[b].copies : k # l /\ k.msg = c.msg /\ l.msg = c.msg
<1>1. PICK f \in [server[b].copies -> 1..Cardinality(server[b].copies)] :
          server' = [server EXCEPT ![b] =
              [copies |-> {[k EXCEPT !.uid = f[k]] : k \in server[b].copies},
               next |-> Cardinality(server[b].copies) + 1, validity |-> server[b].validity + 1]]
  BY DEF Renumber
<1>2. /\ server'[b].copies = {[k EXCEPT !.uid = f[k]] : k \in server[b].copies}
      /\ server'[b].validity = server[b].validity + 1
      /\ \A a \in Boxes \ {b} : server'[a] = server[a]
  BY <1>1 DEF ServerShape
<1>3. server[b].copies \subseteq Copy
  BY DEF ServerShape, Mailbox
<1>4. ASSUME NEW c \in server'[b].copies
      PROVE  \E k \in server[b].copies : c = [k EXCEPT !.uid = f[k]] /\ c.msg = k.msg
  BY <1>2, <1>3 DEF Copy
<1>5. ASSUME NEW c \in server'[b].copies, NEW d \in server'[b].copies, c.msg = d.msg
      PROVE  c = d \/ \E k, l \in server[b].copies : k # l /\ k.msg = c.msg /\ l.msg = c.msg
  <2>1. PICK k \in server[b].copies : c = [k EXCEPT !.uid = f[k]] /\ c.msg = k.msg
    BY <1>4
  <2>2. PICK l \in server[b].copies : d = [l EXCEPT !.uid = f[l]] /\ d.msg = l.msg
    BY <1>4
  <2> QED
    BY <1>5, <2>1, <2>2
<1> QED
  BY <1>2, <1>4, <1>5

LEMMA ServerOnward ==
    ASSUME Shape, [Next]_vars
    PROVE  \A b \in Boxes : Onward(b)
<1>1. ServerShape /\ ops \subseteq Op
  BY DEF Shape, OpsShape
<1>2. \A b \in Boxes : server[b].next \in Nat /\ server[b].validity \in Nat /\ Sound(server[b])
  BY <1>1 DEF ServerShape, Mailbox
<1>3. CASE UNCHANGED server
  BY <1>2, <1>3 DEF Onward
<1>4. ASSUME NEW op \in ops, RunOp(op) PROVE \A b \in Boxes : Onward(b)
  <2>1. ASSUME NEW u, server' = Landed(op, u), NEW b \in Boxes PROVE Onward(b)
    BY <1>1, <2>1, OnwardFromLanded
  <2> QED
    BY <1>3, <1>4, <2>1 DEF RunOp
<1>5. ASSUME NEW op \in ops, LoseAnswer(op) PROVE \A b \in Boxes : Onward(b)
  <2>1. server' = Copied(op)
    BY <1>5 DEF LoseAnswer, CutOff
  <2> QED
    BY <1>1, <2>1, OnwardFromCopied
<1>6. ASSUME NEW a \in Boxes, NEW c \in server[a].copies, NEW d \in Boxes, OtherMoves(a, c, d)
      PROVE  \A b \in Boxes : Onward(b)
  <2> TAKE b \in Boxes
  <2>1. c.msg \in Msgs
    BY <1>1 DEF ServerShape, Mailbox, Copy
  <2>2. server'[b] = IF b = d THEN WithCopy(server[b], c.msg)
                     ELSE IF b = a THEN Without(server[b], c.uid) ELSE server[b]
    BY <1>1, <1>6 DEF OtherMoves, ServerShape
  <2>3. /\ WithCopy(server[b], c.msg).next = server[b].next + 1
        /\ WithCopy(server[b], c.msg).copies = server[b].copies \cup {[uid |-> server[b].next, msg |-> c.msg]}
        /\ Without(server[b], c.uid).next = server[b].next
        /\ Without(server[b], c.uid).copies \subseteq server[b].copies
    BY <1>2, <2>1, WithCopySound, WithoutSound
  <2> QED
    BY <1>2, <2>2, <2>3 DEF Onward
<1>7. ASSUME NEW a \in Boxes, NEW c \in server[a].copies, OtherDeletes(a, c)
      PROVE  \A b \in Boxes : Onward(b)
  <2> TAKE b \in Boxes
  <2>1. server'[b] = IF b = a THEN Without(server[b], c.uid) ELSE server[b]
    BY <1>1, <1>7 DEF OtherDeletes, ServerShape
  <2>2. /\ Without(server[b], c.uid).next = server[b].next
        /\ Without(server[b], c.uid).copies \subseteq server[b].copies
    BY <1>2, WithoutSound
  <2> QED
    BY <1>2, <2>1, <2>2 DEF Onward
<1>8. ASSUME NEW a \in Boxes, Renumber(a) PROVE \A b \in Boxes : Onward(b)
  <2> TAKE b \in Boxes
  <2>1. server'[a].validity = server[a].validity + 1 /\ (b # a => server'[b] = server[b])
    BY <1>1, <1>8, RenumberCopies
  <2> QED
    BY <1>2, <2>1 DEF Onward
<1> QED
  <2>1. CASE User
    BY <1>3, <2>1 DEF User, ApplyDelete, ApplyMove
  <2>2. CASE Drain
    BY <1>4, <2>2 DEF Drain
  <2>3. CASE DrainFaults
    BY <1>3, <1>5, <2>3 DEF DrainFaults, Refuse
  <2>4. CASE Others
    BY <1>6, <1>7, <1>8, <2>4 DEF Others
  <2>5. CASE Open \/ Stop \/ FailIngest
    BY <1>3, <2>5 DEF Open, Stop, FailIngest
  <2>6. CASE PassStep
    BY <1>3, <2>6 DEF PassStep, ReadStore, AllFetched, SkipTarget, StartTarget, Ingest, FinishTarget,
                      Prune, Fetch, Answered
  <2>7. CASE UNCHANGED vars
    BY <1>3, <2>7 DEF vars
  <2> QED
    BY <2>1, <2>2, <2>3, <2>4, <2>5, <2>6, <2>7 DEF Next

(* So a UID that never was another message's stays so.                       *)
LEMMA ItsStays ==
    ASSUME Shape, [Next]_vars, NEW b \in Boxes, NEW u \in Nat, NEW m, Its(b, u, m),
           server'[b].validity = server[b].validity
    PROVE  Its(b, u, m)'
<1>1. Onward(b)
  BY ServerOnward
<1>2. /\ server[b].next \in Nat /\ server'[b].next \in Nat
      /\ server'[b].copies \subseteq Copy
  BY ServerStep DEF Shape, ServerShape, Mailbox
<1>3. u < server'[b].next
  BY <1>1, <1>2 DEF Onward, Its
<1>4. ASSUME NEW c \in server'[b].copies, c.uid = u PROVE c.msg = m
  <2>1. c \in server[b].copies
    BY <1>1, <1>2, <1>4 DEF Onward, Its, Copy
  <2> QED
    BY <1>4, <2>1 DEF Its
<1> QED
  BY <1>3, <1>4 DEF Its

(* A message nobody else moves, and no op of which runs, stays where it is.  *)
Fewer(m) == \A b \in Boxes : \A c \in server'[b].copies : c.msg = m => c \in server[b].copies

LEMMA CopiesCalm ==
    ASSUME Shape, [Next]_vars, NEW m, m \notin touched', OneCopy(m),
           \A op \in ops : RunOp(op) /\ ~ UNCHANGED server => op.msg # m
    PROVE  OneCopy(m)' /\ \A b \in Boxes : In(m, b)' => In(m, b)
<1>1. ServerShape /\ ops \subseteq Op
  BY DEF Shape, OpsShape
<1>2. \A b \in Boxes : Sound(server[b])
  BY <1>1 DEF ServerShape
<1>3. ASSUME Fewer(m) PROVE OneCopy(m)' /\ \A b \in Boxes : In(m, b)' => In(m, b)
  BY <1>3 DEF Fewer, OneCopy, In
<1>4. CASE UNCHANGED server
  BY <1>3, <1>4 DEF Fewer
<1>5. ASSUME NEW op \in ops, RunOp(op), ~ UNCHANGED server PROVE Fewer(m)
  <2>1. PICK u : server' = Landed(op, u)
    BY <1>5 DEF RunOp
  <2>2. op.msg # m
    BY <1>5
  <2>3. ASSUME NEW b \in Boxes
        PROVE  /\ Landed(op, u)[b].copies \subseteq Copied(op)[b].copies
               /\ \A c \in Copied(op)[b].copies :
                     c \in server[b].copies \/ c = [uid |-> server[b].next, msg |-> op.msg]
    <3>1. op \in Op
      BY <1>1
    <3> QED
      BY <1>1, <3>1, CopiedCopies, LandedCopies
  <2> QED
    BY <2>1, <2>2, <2>3 DEF Fewer
<1>6. ASSUME NEW op \in ops, LoseAnswer(op) PROVE Fewer(m)
  <2>1. server' = Copied(op) /\ op.msg # m
    BY <1>6 DEF LoseAnswer, CutOff
  <2>2. ASSUME NEW b \in Boxes
        PROVE  \A c \in Copied(op)[b].copies :
                   c \in server[b].copies \/ c = [uid |-> server[b].next, msg |-> op.msg]
    <3>1. op \in Op
      BY <1>1
    <3> QED
      BY <1>1, <3>1, CopiedCopies
  <2> QED
    BY <2>1, <2>2 DEF Fewer
<1>7. ASSUME NEW a \in Boxes, NEW c \in server[a].copies, NEW d \in Boxes, OtherMoves(a, c, d) PROVE Fewer(m)
  <2>1. c.msg \in Msgs
    BY <1>1 DEF ServerShape, Mailbox, Copy
  <2>2. \A b \in Boxes : server'[b] = IF b = d THEN WithCopy(server[b], c.msg)
                                      ELSE IF b = a THEN Without(server[b], c.uid) ELSE server[b]
    BY <1>1, <1>7 DEF OtherMoves, ServerShape
  <2>3. ASSUME NEW b \in Boxes
        PROVE  /\ WithCopy(server[b], c.msg).copies = server[b].copies \cup {[uid |-> server[b].next, msg |-> c.msg]}
               /\ Without(server[b], c.uid).copies \subseteq server[b].copies
    BY <1>2, <2>1, WithCopySound, WithoutSound
  <2>4. c.msg # m
    BY <1>7 DEF OtherMoves
  <2> QED
    BY <2>2, <2>3, <2>4 DEF Fewer
<1>8. ASSUME NEW a \in Boxes, NEW c \in server[a].copies, OtherDeletes(a, c) PROVE Fewer(m)
  <2>1. \A b \in Boxes : server'[b] = IF b = a THEN Without(server[b], c.uid) ELSE server[b]
    BY <1>1, <1>8 DEF OtherDeletes, ServerShape
  <2>2. ASSUME NEW b \in Boxes PROVE Without(server[b], c.uid).copies \subseteq server[b].copies
    BY <1>2, WithoutSound
  <2> QED
    BY <2>1, <2>2 DEF Fewer
<1>9. ASSUME NEW a \in Boxes, Renumber(a) PROVE OneCopy(m)' /\ \A b \in Boxes : In(m, b)' => In(m, b)
  <2>1. /\ \A b \in Boxes \ {a} : server'[b] = server[b]
        /\ \A c \in server'[a].copies : \E k \in server[a].copies : c.msg = k.msg
        /\ \A c, d \in server'[a].copies : c.msg = d.msg =>
              c = d \/ \E k, l \in server[a].copies : k # l /\ k.msg = c.msg /\ l.msg = c.msg
    BY <1>1, <1>9, RenumberCopies
  <2>2. \A b \in Boxes : In(m, b)' => In(m, b)
    BY <2>1 DEF In
  <2>3. \A b, e \in Boxes : In(m, b) /\ In(m, e) => b = e
    BY DEF OneCopy, In
  <2>4. \A c, d \in server'[a].copies : c.msg = m /\ d.msg = m => c = d
    BY <2>1 DEF OneCopy
  <2>5. \A b \in Boxes \ {a} : \A c, d \in server'[b].copies : c.msg = m /\ d.msg = m => c = d
    BY <2>1 DEF OneCopy
  <2>6. \A b, e \in Boxes : In(m, b)' /\ In(m, e)' => b = e
    BY <2>2, <2>3
  <2> QED
    BY <2>2, <2>4, <2>5, <2>6 DEF OneCopy, In
<1> QED
  <2>1. CASE User
    BY <1>4, <2>1 DEF User, ApplyDelete, ApplyMove
  <2>2. CASE Drain
    BY <1>3, <1>4, <1>5, <2>2 DEF Drain
  <2>3. CASE DrainFaults
    BY <1>3, <1>4, <1>6, <2>3 DEF DrainFaults, Refuse
  <2>4. CASE Others
    BY <1>3, <1>7, <1>8, <1>9, <2>4 DEF Others
  <2>5. CASE Open \/ Stop \/ FailIngest
    BY <1>4, <2>5 DEF Open, Stop, FailIngest
  <2>6. CASE PassStep
    BY <1>4, <2>6 DEF PassStep, ReadStore, AllFetched, SkipTarget, StartTarget, Ingest, FinishTarget,
                      Prune, Fetch, Answered
  <2>7. CASE UNCHANGED vars
    BY <1>4, <2>7 DEF vars
  <2> QED
    BY <2>1, <2>2, <2>3, <2>4, <2>5, <2>6, <2>7 DEF Next

-----------------------------------------------------------------------------
(* Chains of ops.                                                            *)

LEMMA ChainedSub ==
    ASSUME NEW S, NEW R, NEW B, Chained(S, R, B), NEW Q, NEW C, C \subseteq B,
           \A t \in Q : \E r \in R : t.id = r.id /\ t.box = r.box
    PROVE  Chained(S, Q, C)
BY DEF Chained

(* A move or a delete of the row adds its op, ...                            *)
LEMMA ChainedOwed ==
    ASSUME NEW S, S \subseteq Op, NEW R, NEW B, Chained(S, R, B), NEW r \in R,
           NEW op \in Op, \A o \in S : o.id < op.id, op.row = r.id, op.from = r.box,
           NEW Q, \A t \in Q : t.id = r.id /\ t.box = op.to, NEW C, C \subseteq B
    PROVE  Chained(S \cup {op}, Q, C)
<1> DEFINE T == S \cup {op}
<1>1. op.id \in Nat /\ \A o \in S : o.id \in Nat
  BY DEF Op
<1>2. \A o \in T : Latest(o, T) => o = op
  BY <1>1 DEF Latest
<1>3. \A o \in T : Oldest(o, T) => \A b \in C : b = o.from
  <2>1. ASSUME NEW o \in S, Oldest(o, T) PROVE \A b \in C : b = o.from
    BY <2>1 DEF Oldest, Chained
  <2>2. ASSUME Oldest(op, T) PROVE S = {}
    BY <1>1, <2>2 DEF Oldest
  <2> QED
    BY <2>1, <2>2 DEF Chained
<1>4. ASSUME NEW o \in T, NEW p \in T, Follows(p, o, T) PROVE o.to = p.from
  <2>1. CASE p = op
    <3>1. o \in S /\ Latest(o, S)
      BY <1>1, <1>4, <2>1 DEF Follows, Latest
    <3> QED
      BY <2>1, <3>1 DEF Chained
  <2>2. CASE p # op
    <3>1. p \in S /\ o \in S
      BY <1>1, <1>4, <2>2 DEF Follows
    <3>2. Follows(p, o, S)
      BY <1>4 DEF Follows
    <3> QED
      BY <3>1, <3>2 DEF Chained
  <2> QED
    BY <2>1, <2>2
<1>5. \A o, p \in T : o.row = p.row
  BY DEF Chained
<1>6. \A o \in T, t \in Q : o.row = t.id
  BY <1>5
<1>7. \A o \in T : Latest(o, T) => \A t \in Q : t.box = o.to
  BY <1>2
<1>8. T # {}
  OBVIOUS
<1> HIDE DEF T
<1>9. Chained(T, Q, C)
  BY <1>3, <1>4, <1>5, <1>6, <1>7, <1>8 DEF Chained
<1> QED
  BY <1>9 DEF T

(* ... and the server half of the oldest takes the copy on.                  *)
LEMMA ChainedRun ==
    ASSUME NEW S, S \subseteq Op, \A o, p \in S : o.id = p.id => o = p,
           NEW R, NEW B, Chained(S, R, B), NEW op \in S, Oldest(op, S), NEW C, C \subseteq {op.to},
           NEW Q, \A t \in Q : \E r \in R : t.id = r.id /\ t.box = r.box
    PROVE  Chained(S \ {op}, Q, C)
<1> DEFINE T == S \ {op}
<1>1. \A o \in S : o.id \in Nat
  BY DEF Op
<1>2. \A o \in T : op.id < o.id
  BY <1>1 DEF Oldest
<1>3. ASSUME NEW o \in T, Oldest(o, T) PROVE \A b \in C : b = o.from
  <2>1. Follows(o, op, S)
    BY <1>1, <1>2, <1>3 DEF Follows, Oldest
  <2> QED
    BY <2>1 DEF Chained
<1>4. ASSUME NEW o \in T, Latest(o, T) PROVE \A r \in R : r.box = o.to
  <2>1. Latest(o, S)
    BY <1>1, <1>2, <1>4 DEF Latest
  <2> QED
    BY <2>1 DEF Chained
<1>5. ASSUME NEW o \in T, NEW p \in T, Follows(p, o, T) PROVE o.to = p.from
  <2>1. Follows(p, o, S)
    BY <1>1, <1>2, <1>5 DEF Follows
  <2> QED
    BY <2>1 DEF Chained
<1>6. ASSUME T = {} PROVE \A r \in R, b \in C : b = r.box
  <2>1. Latest(op, S)
    BY <1>1, <1>6 DEF Latest
  <2> QED
    BY <2>1 DEF Chained
<1>7. \A o, p \in T : o.row = p.row
  BY DEF Chained
<1>8. \A o \in T, r \in R : o.row = r.id
  BY DEF Chained
<1> HIDE DEF T
<1>9. Chained(T, R, C)
  BY <1>3, <1>4, <1>5, <1>6, <1>7, <1>8 DEF Chained
<1>10. Chained(T, Q, C)
  BY <1>9, ChainedSub
<1> QED
  BY <1>10 DEF T

-----------------------------------------------------------------------------
(* What a step does to the rows and ops of a message.                        *)

SubRows(m) ==
    \A t \in RowsOf(m)' : \E r \in RowsOf(m) :
        t.id = r.id /\ t.box = r.box /\ t.uid \in {r.uid, Unbound}

Moving(m)   == \E r \in rows : r.msg = m /\ (ApplyDelete(r) \/ \E b \in Boxes : ApplyMove(r, b))
Running(m)  == \E op \in ops : op.msg = m /\ RunOp(op)
Refusing(m) == \E op \in ops : op.msg = m /\ Refuse(op)
Writing(m)  == Ingest /\ Lowest(pass.todo).msg = m

LEMMA RowsCalm ==
    ASSUME Shape, [Next]_vars, NEW m, m \notin blurred', ~ Moving(m), ~ Refusing(m), ~ Writing(m)
    PROVE  SubRows(m)
<1>1. RowsShape /\ PassShape /\ ops \subseteq Op /\ rows \subseteq Row
  BY DEF Shape, OpsShape, RowsShape, Tidy
<1>2. ASSUME \A t \in rows' : t.msg = m => t \in rows PROVE SubRows(m)
  BY <1>2 DEF SubRows, RowsOf
<1>3. CASE UNCHANGED rows
  BY <1>2, <1>3
<1>4. CASE User
  <2>1. PICK r \in rows : ApplyDelete(r) \/ \E b \in Boxes : ApplyMove(r, b)
    BY <1>4 DEF User
  <2>2. r.msg # m /\ r \in Row
    BY <1>1, <2>1 DEF Moving
  <2>3. CASE ApplyDelete(r)
    BY <1>2, <2>3 DEF ApplyDelete
  <2>4. ASSUME NEW b \in Boxes, ApplyMove(r, b) PROVE SubRows(m)
    <3>1. rows' = (rows \ {r}) \cup {[r EXCEPT !.box = b, !.uid = Unbound]}
      BY <2>4 DEF ApplyMove
    <3>2. [r EXCEPT !.box = b, !.uid = Unbound].msg = r.msg
      BY <2>2 DEF Row
    <3> QED
      BY <1>2, <2>2, <3>1, <3>2
  <2> QED
    BY <2>1, <2>3, <2>4
<1>5. ASSUME NEW op \in ops, Refuse(op) PROVE SubRows(m)
  <2>1. op.msg # m
    BY <1>5 DEF Refusing
  <2>2. \A r \in rows : r.id = op.row => r.msg # m
    BY <1>5, <2>1 DEF Refuse
  <2> DEFINE back == [r \in rows |-> [r EXCEPT !.box = op.from, !.uid = op.uid]]
  <2>3. rows' \subseteq {r \in rows : r.id # op.row} \cup {back[r] : r \in {r \in rows : r.id = op.row}}
    BY <1>5 DEF Refuse, Restored
  <2>4. \A r \in rows : back[r].msg = r.msg
    BY <1>1 DEF Row
  <2> HIDE DEF back
  <2> QED
    BY <1>2, <2>2, <2>3, <2>4
<1>6. CASE Ingest
  <2> DEFINE c == Lowest(pass.todo)
  <2>1. c.msg # m /\ IngestInTx(c)
    BY <1>6 DEF Writing, Ingest
  <2> HIDE DEF c
  <2>2. CASE UNCHANGED rows
    BY <1>3, <2>2
  <2>3. ASSUME \A t \in rows' : t.msg = m => t \in Parked(c) PROVE SubRows(m)
    <3>1. \A p \in Parked(c) : \E r \in rows : r.id = p.id /\ r.box = p.box /\ r.msg = p.msg
                                               /\ p.uid \in {r.uid, Unbound}
      BY <1>1, ParkedTidy
    <3>2. ASSUME NEW t \in RowsOf(m)'
          PROVE  \E r \in RowsOf(m) : t.id = r.id /\ t.box = r.box /\ t.uid \in {r.uid, Unbound}
      <4>1. t \in Parked(c) /\ t.msg = m
        BY <2>3 DEF RowsOf
      <4> QED
        BY <3>1, <4>1 DEF RowsOf
    <3> QED
      BY <3>2 DEF SubRows
  <2>4. CASE Rebindable(c) # {}
             /\ LET r == Preferred(Rebindable(c)) IN rows' = (Parked(c) \ {r}) \cup {[r EXCEPT !.uid = c.uid]}
    <3> DEFINE r == Preferred(Rebindable(c))
    <3>1. Rebindable(c) \subseteq Parked(c) /\ Parked(c) \subseteq Row
      BY <1>1, ParkedTidy DEF Rebindable, Tidy
    <3>2. r \in Rebindable(c)
      BY <2>4, <3>1, PreferredOf
    <3>3. rows' = (Parked(c) \ {r}) \cup {[r EXCEPT !.uid = c.uid]}
      BY <2>4
    <3> HIDE DEF r
    <3>4. [r EXCEPT !.uid = c.uid].msg = c.msg
      BY <3>1, <3>2 DEF Rebindable, Row
    <3> QED
      BY <2>1, <2>3, <3>3, <3>4
  <2>5. CASE rows' = Parked(c) \cup {[id |-> NextId(rows), box |-> Here, uid |-> c.uid, msg |-> c.msg]}
    BY <2>1, <2>3, <2>5
  <2> QED
    BY <2>1, <2>2, <2>4, <2>5 DEF IngestInTx, Written
<1>7. CASE FinishTarget
  <2>1. ASSUME NEW t \in RowsOf(m)'
        PROVE  \E r \in RowsOf(m) : t.id = r.id /\ t.box = r.box /\ t.uid \in {r.uid, Unbound}
    <3>1. t \in UnboundRows /\ t.msg = m
      BY <1>7 DEF FinishTarget, RowsOf
    <3>2. PICK r \in rows : t = r \/ t = [r EXCEPT !.uid = Unbound]
      BY <3>1 DEF UnboundRows
    <3>3. t.id = r.id /\ t.box = r.box /\ t.uid \in {r.uid, Unbound} /\ t.msg = r.msg
      BY <1>1, <3>2, UnboundRow
    <3> QED
      BY <3>1, <3>3 DEF RowsOf
  <2> QED
    BY <2>1 DEF SubRows
<1>8. CASE Prune
  BY <1>2, <1>8 DEF Prune, Pruned
<1> QED
  <2>1. CASE Drain
    BY <1>3, <2>1 DEF Drain, RunOp
  <2>2. CASE DrainFaults
    BY <1>3, <1>5, <2>2 DEF DrainFaults, LoseAnswer
  <2>3. CASE Others
    BY <1>3, <2>3 DEF Others, OtherMoves, OtherDeletes, Renumber
  <2>4. CASE Open \/ Stop \/ FailIngest
    BY <1>3, <2>4 DEF Open, Stop, FailIngest
  <2>5. CASE PassStep
    BY <1>3, <1>6, <1>7, <1>8, <2>5 DEF PassStep, ReadStore, AllFetched, SkipTarget, StartTarget,
                            Fetch, Answered
  <2>6. CASE UNCHANGED vars
    BY <1>3, <2>6 DEF vars
  <2> QED
    BY <1>4, <2>1, <2>2, <2>3, <2>4, <2>5, <2>6 DEF Next

LEMMA OpsCalm ==
    ASSUME Shape, [Next]_vars, NEW m, m \notin blurred', ~ Moving(m), ~ Refusing(m), ~ Running(m)
    PROVE  OpsOf(m)' = OpsOf(m)
<1>1. CASE UNCHANGED ops
  BY <1>1 DEF OpsOf
<1>2. CASE User
  <2>1. PICK r \in rows : ApplyDelete(r) \/ \E b \in Boxes : ApplyMove(r, b)
    BY <1>2 DEF User
  <2>2. r.msg # m
    BY <2>1 DEF Moving
  <2>3. PICK dest : Owe(r, dest)
    BY <2>1 DEF ApplyDelete, ApplyMove
  <2> DEFINE op == [id |-> NextId(ops), row |-> r.id, msg |-> r.msg, from |-> r.box, to |-> dest,
                    copy |-> ServerCopy(r), uid |-> r.uid]
  <2>4. ops' = ops \cup {op}
    BY <2>3 DEF Owe
  <2>5. op.msg = r.msg
    OBVIOUS
  <2> HIDE DEF op
  <2> QED
    BY <2>2, <2>4, <2>5 DEF OpsOf
<1>3. ASSUME NEW op \in ops, RunOp(op) PROVE OpsOf(m)' = OpsOf(m)
  BY <1>3 DEF RunOp, OpsOf, Running
<1>4. ASSUME NEW op \in ops, Refuse(op) PROVE OpsOf(m)' = OpsOf(m)
  <2>1. op.msg # m
    BY <1>4 DEF Refusing
  <2>2. \A o \in ops : o.row = op.row => o.msg # m
    BY <1>4, <2>1 DEF Refuse
  <2>3. ops' = {o \in ops : o.row # op.row}
    BY <1>4 DEF Refuse
  <2> QED
    BY <2>2, <2>3 DEF OpsOf
<1> QED
  <2>1. CASE Drain
    BY <1>3, <2>1 DEF Drain
  <2>2. CASE DrainFaults
    BY <1>1, <1>4, <2>2 DEF DrainFaults, LoseAnswer
  <2>3. CASE Others
    BY <1>1, <2>3 DEF Others, OtherMoves, OtherDeletes, Renumber
  <2>4. CASE Open \/ Stop \/ FailIngest
    BY <1>1, <2>4 DEF Open, Stop, FailIngest
  <2>5. CASE PassStep
    BY <1>1, <2>5 DEF PassStep, ReadStore, AllFetched, SkipTarget, StartTarget, Ingest, FinishTarget,
                      Prune, Fetch, Answered
  <2>6. CASE UNCHANGED vars
    BY <1>1, <2>6 DEF vars
  <2> QED
    BY <1>2, <2>1, <2>2, <2>3, <2>4, <2>5, <2>6 DEF Next

-----------------------------------------------------------------------------
(* What a step does to the pass and the cursors.                             *)

(* It goes on with what it was at, or is over, ...                           *)
Resumes ==
    /\ pass'.at = pass.at /\ pass'.got = pass.got /\ pass'.next = pass.next
    /\ pass'.todo \subseteq pass.todo /\ pass.watch \subseteq pass'.watch
Rests == pass.at # "ingest" /\ pass'.at \in {"idle", "open"} /\ pass'.got = Idle.got

LEMMA PassMoves ==
    ASSUME Shape, [Next]_vars
    PROVE  \/ Resumes /\ UNCHANGED cursor /\ (pass'.uids = pass.uids \/ Ingest)
           \/ Rests /\ UNCHANGED cursor
           \/ ReadStore \/ AllFetched \/ SkipTarget \/ StartTarget \/ FinishTarget
           \/ \E b \in Boxes : Fetch(b)
<1>1. pass \in Pass
  BY DEF Shape, PassShape
<1>2. CASE UNCHANGED <<pass, cursor>>
  BY <1>2 DEF Resumes
<1>3. ASSUME NEW r \in rows, NEW dest, Owe(r, dest), UNCHANGED cursor
      PROVE  Resumes /\ UNCHANGED cursor /\ pass'.uids = pass.uids
  <2>1. PICK op : pass' = Record(op)
    BY <1>3 DEF Owe
  <2>2. pass' = pass \/ pass' = [pass EXCEPT !.watch = @ \cup {Leaving(op)}]
    BY <2>1 DEF Record
  <2> QED
    BY <1>1, <1>3, <2>2 DEF Resumes, Pass
<1>4. CASE Ingest
  <2>1. pass.at = "ingest" /\ UNCHANGED cursor /\ IngestInTx(Lowest(pass.todo))
    BY <1>4 DEF Ingest
  <2> DEFINE c == Lowest(pass.todo)
  <2>2. \/ pass' = [pass EXCEPT !.todo = @ \ {c}, !.uids = @ \cup {c.uid}]
        \/ pass' = [pass EXCEPT !.todo = @ \ {c}]
    BY <2>1 DEF IngestInTx, Written
  <2> HIDE DEF c
  <2>3. ASSUME pass' = [pass EXCEPT !.todo = @ \ {c}, !.uids = @ \cup {c.uid}] PROVE Resumes
    BY <1>1, <2>3 DEF Resumes, Pass
  <2>4. ASSUME pass' = [pass EXCEPT !.todo = @ \ {c}] PROVE Resumes
    BY <1>1, <2>4 DEF Resumes, Pass
  <2> QED
    BY <1>4, <2>1, <2>2, <2>3, <2>4
<1>5. CASE FailIngest
  <2>1. PICK c, unmet : pass' = [pass EXCEPT !.todo = @ \ {c}, !.unmet = unmet]
    BY <1>5 DEF FailIngest
  <2>2. Resumes /\ pass'.uids = pass.uids
    BY <1>1, <2>1 DEF Resumes, Pass
  <2> QED
    BY <1>5, <2>2 DEF FailIngest
<1>6. CASE Open
  <2>1. PICK n : pass' = [Idle EXCEPT !.at = "open", !.limit = n]
    BY <1>6 DEF Open
  <2>2. pass.at = "idle"
    BY <1>6 DEF Open
  <2>3. Rests
    BY <2>1, <2>2 DEF Rests, Idle
  <2> QED
    BY <1>6, <2>3 DEF Open
<1>7. CASE Stop \/ Prune
  <2>1. pass.at # "ingest"
    <3>1. ASSUME pass = [pass EXCEPT !.at = "fetch", !.got = Idle.got] PROVE pass.at = "fetch"
      BY <1>1, <3>1 DEF Pass
    <3> QED
      BY <1>7, <3>1 DEF Stop, Prune
  <2> QED
    BY <1>7, <2>1 DEF Stop, Prune, Rests, Idle
<1> QED
  <2>1. CASE User
    BY <1>3, <2>1 DEF User, ApplyDelete, ApplyMove
  <2>2. CASE Drain
    BY <1>2, <2>2 DEF Drain, RunOp
  <2>3. CASE DrainFaults
    BY <1>2, <2>3 DEF DrainFaults, Refuse, LoseAnswer
  <2>4. CASE Others
    BY <1>2, <2>4 DEF Others, OtherMoves, OtherDeletes, Renumber
  <2>5. CASE Open \/ Stop \/ FailIngest
    BY <1>5, <1>6, <1>7, <2>5
  <2>6. CASE PassStep
    BY <1>4, <1>7, <2>6 DEF PassStep
  <2>7. CASE UNCHANGED vars
    BY <1>2, <2>7 DEF vars
  <2> QED
    BY <2>1, <2>2, <2>3, <2>4, <2>5, <2>6, <2>7 DEF Next

(* ... reads the store, lists a mailbox, ...                                 *)
LEMMA ReadStoreDoes ==
    ASSUME Shape, ReadStore
    PROVE  /\ pass'.at = "fetch" /\ UNCHANGED cursor /\ \A b \in Boxes : pass'.got[b] = None
           /\ \A op \in ops : Leaving(op) \in pass'.watch
           /\ pass.at = "open"
<1>1. pass \in Pass /\ pass.at = "open" /\ pass.got = Idle.got
  BY DEF Shape, PassShape, ReadStore
<1>2. PICK w, k : /\ pass' = [pass EXCEPT !.at = "fetch", !.watch = w, !.known = k]
                  /\ w = pass.watch \cup {Leaving(op) : op \in ops}
  BY DEF ReadStore
<1>3. pass'.at = "fetch" /\ pass'.watch = w /\ pass'.got = pass.got
  BY <1>1, <1>2 DEF Pass
<1> QED
  BY <1>1, <1>2, <1>3 DEF ReadStore, Idle

Answers(b, g) ==
    /\ g.validity = server[b].validity
    /\ g.reset <=> cursor[b] # None /\ cursor[b].validity # server[b].validity
    /\ g.listed \subseteq UidsOf(server[b].copies) /\ g.msgs \subseteq server[b].copies

LEMMA FetchedAnswers ==
    ASSUME NEW b \in Boxes, pass.known[b].cursor = cursor[b],
           NEW listed \in SUBSET UidsOf(server[b].copies), NEW k
    PROVE  Answers(b, Fetched(b, listed, k))
<1> DEFINE s        == server[b]
           stored   == pass.known[b]
           c        == stored.cursor
           ceiling  == s.next - 1
           complete == Cardinality(listed) >= Cardinality(s.copies)
           reset    == c # None /\ c.validity # s.validity
           uids     == IF reset THEN {} ELSE stored.uids
           history  == c # None /\ ~reset
           mark     == ArrivalMark(uids, ceiling, IF history THEN c.mark ELSE None,
                                   IF history THEN c.last ELSE None)
           wanted   == Newest(listed, pass.limit) \ uids
           got      == Newest(wanted, k)
           missing  == {u \in listed \ (uids \cup got) : mark = None \/ u > mark}
           msgs     == {x \in s.copies : x.uid \in got}
           vanished == IF complete THEN {u \in uids : u <= ceiling} \ listed ELSE {}
           short    == missing # {} \/ got # wanted
           gmark    == IF missing = {} THEN None ELSE mark
           backlog  == IF mark = None THEN {x.msg : x \in {x \in s.copies : x.uid \in missing}} ELSE {}
<1>1. Fetched(b, listed, k) =
          [listed |-> listed, complete |-> complete, reset |-> reset, validity |-> s.validity,
           top |-> ceiling, msgs |-> msgs, vanished |-> vanished, short |-> short,
           mark |-> gmark, backlog |-> backlog]
  BY DEF Fetched
<1>2. msgs \subseteq server[b].copies
  OBVIOUS
<1>3. reset <=> cursor[b] # None /\ cursor[b].validity # server[b].validity
  OBVIOUS
<1> HIDE DEF complete, reset, ceiling, msgs, vanished, short, gmark, backlog
<1>4. /\ Fetched(b, listed, k).validity = server[b].validity
      /\ Fetched(b, listed, k).reset = reset /\ Fetched(b, listed, k).listed = listed
      /\ Fetched(b, listed, k).msgs = msgs
  BY <1>1
<1> QED
  BY <1>2, <1>3, <1>4 DEF Answers

LEMMA FetchDoes ==
    ASSUME Shape, NEW b \in Boxes, Fetch(b)
    PROVE  /\ pass.at = "fetch" /\ pass'.at = "fetch" /\ pass'.watch = pass.watch
           /\ UNCHANGED <<server, rows, cursor, ops>>
           /\ \A a \in Boxes \ {b} : pass'.got[a] = pass.got[a]
           /\ HasAnswer(b)' =>
                 /\ Answers(b, pass'.got[b])
                 /\ ~ pass'.got[b].complete => \A c \in pass'.got[b].msgs : c.msg \in blurred'
<1>1. pass \in Pass /\ pass.at = "fetch" /\ pass.known[b].cursor = cursor[b]
  BY DEF Shape, PassShape, Fetch
<1> DEFINE all == UidsOf(server[b].copies)
<1>2. \/ Answered(b, Fetched(b, all, Cardinality(all)))
      \/ \E k \in 1..(Cardinality(all) - 1) : Answered(b, Fetched(b, all, k))
      \/ \E c \in server[b].copies : Answered(b, Fetched(b, all \ {c.uid}, Cardinality(all)))
      \/ Answered(b, Failed)
  BY DEF Fetch
<1>3. PICK g : Answered(b, g) /\ (g = Failed \/ Answers(b, g))
  <2>1. ASSUME NEW listed \in SUBSET all, NEW k, Answered(b, Fetched(b, listed, k))
        PROVE  \E g : Answered(b, g) /\ (g = Failed \/ Answers(b, g))
    BY <1>1, <2>1, FetchedAnswers
  <2>2. ASSUME Answered(b, Failed)
        PROVE  \E g : Answered(b, g) /\ (g = Failed \/ Answers(b, g))
    BY <2>2
  <2> HIDE DEF all
  <2> QED
    BY <1>2, <2>1, <2>2
<1>4. pass' = [pass EXCEPT !.got[b] = g] /\ UNCHANGED <<server, rows, cursor, ops>>
  BY <1>3 DEF Answered
<1>5. /\ pass'.at = "fetch" /\ pass'.watch = pass.watch /\ pass'.got[b] = g
      /\ \A a \in Boxes \ {b} : pass'.got[a] = pass.got[a]
  BY <1>1, <1>4 DEF Pass
<1>6. g # Failed /\ ~ g.complete => \A c \in g.msgs : c.msg \in blurred'
  BY <1>3 DEF Answered
<1> QED
  BY <1>1, <1>3, <1>4, <1>5, <1>6 DEF HasAnswer

(* ... or goes on to a mailbox and from one to the next.                     *)
LEMMA TargetDoes ==
    ASSUME Shape, AllFetched \/ SkipTarget \/ StartTarget \/ FinishTarget
    PROVE  /\ pass'.got = pass.got /\ pass'.watch = pass.watch
           /\ AllFetched => pass.at = "fetch" /\ pass'.at = "target" /\ pass'.next = 1
           /\ SkipTarget => pass.at = "target" /\ pass'.at = "target" /\ pass'.next = pass.next + 1
           /\ StartTarget => /\ pass.at = "target" /\ pass'.at = "ingest" /\ pass'.next = pass.next
                             /\ pass'.todo = Got.msgs
                             /\ pass'.uids = IF Got.reset \/ ~Got.complete THEN {} ELSE Got.listed
           /\ FinishTarget => pass.at = "ingest" /\ pass'.at = "target" /\ pass'.next = pass.next + 1
<1>1. pass \in Pass
  BY DEF Shape, PassShape
<1>2. CASE AllFetched
  BY <1>1, <1>2 DEF AllFetched, SkipTarget, StartTarget, FinishTarget, Pass
<1>3. CASE SkipTarget
  <2>1. pass' = [pass EXCEPT !.next = @ + 1, !.gate = FALSE] /\ pass.at = "target"
    BY <1>3 DEF SkipTarget
  <2>2. pass'.got = pass.got /\ pass'.watch = pass.watch /\ pass'.at = "target" /\ pass'.next = pass.next + 1
    BY <1>1, <2>1 DEF Pass
  <2>3. ~ AllFetched /\ ~ StartTarget /\ ~ FinishTarget
    BY <1>3, <2>1 DEF AllFetched, SkipTarget, StartTarget, FinishTarget
  <2> QED
    BY <2>1, <2>2, <2>3
<1>4. CASE StartTarget
  <2> DEFINE held == IF Got.reset \/ ~Got.complete THEN {} ELSE Got.listed
  <2>1. pass' = [pass EXCEPT !.at = "ingest", !.todo = Got.msgs, !.unmet = {}, !.uids = held] /\ pass.at = "target"
    BY <1>4 DEF StartTarget
  <2> HIDE DEF held
  <2>2. /\ pass'.got = pass.got /\ pass'.watch = pass.watch /\ pass'.at = "ingest" /\ pass'.next = pass.next
        /\ pass'.todo = Got.msgs /\ pass'.uids = held
    BY <1>1, <2>1 DEF Pass
  <2>3. ~ AllFetched /\ ~ FinishTarget
    BY <2>1 DEF AllFetched, FinishTarget
  <2>4. ~ SkipTarget
    BY <1>4 DEF StartTarget, SkipTarget
  <2> QED
    BY <2>1, <2>2, <2>3, <2>4 DEF held
<1>5. CASE FinishTarget
  <2>1. PICK gate, prunes :
            pass' = [pass EXCEPT !.at = "target", !.next = @ + 1, !.uids = {}, !.unmet = {},
                                 !.gate = gate, !.prunes = prunes] /\ pass.at = "ingest"
    BY <1>5 DEF FinishTarget
  <2>2. pass'.got = pass.got /\ pass'.watch = pass.watch /\ pass'.at = "target" /\ pass'.next = pass.next + 1
    BY <1>1, <2>1 DEF Pass
  <2>3. ~ AllFetched /\ ~ SkipTarget /\ ~ StartTarget
    BY <2>1 DEF AllFetched, SkipTarget, StartTarget
  <2> QED
    BY <2>1, <2>2, <2>3
<1> QED
  BY <1>2, <1>3, <1>4, <1>5

(* An answer a pass has still to use is the one it had, about as much of it, *)
(* under the cursor it was got with.                                         *)
LEMMA AnswersOnward ==
    ASSUME Shape, [Next]_vars, NEW b \in Boxes, ~ Fetch(b)
    PROVE  /\ HasAnswer(b)' => /\ HasAnswer(b) /\ pass'.got[b] = pass.got[b]
                               /\ pass.watch \subseteq pass'.watch
           /\ Unread(b)' => Unread(b) /\ cursor'[b] = cursor[b] /\ Awaited(b)' \subseteq Awaited(b)
<1>1. Unread(b)' => HasAnswer(b)'
  BY DEF Unread
<1>2. CASE Resumes /\ UNCHANGED cursor
  <2>1. Unread(b)' => Unread(b)
    BY <1>2 DEF Resumes, Unread, HasAnswer
  <2>2. Unread(b)' => Awaited(b)' \subseteq Awaited(b)
    BY <1>2, <2>1 DEF Resumes, Awaited, Ingesting, Here
  <2> QED
    BY <1>2, <2>1, <2>2 DEF Resumes, HasAnswer
<1>3. CASE Rests \/ ReadStore
  <2>1. pass'.got[b] = None
    BY <1>3, ReadStoreDoes DEF Rests, Idle
  <2> QED
    BY <1>1, <2>1 DEF HasAnswer
<1>4. CASE \E a \in Boxes : Fetch(a)
  <2>1. PICK a \in Boxes : Fetch(a) /\ a # b
    BY <1>4
  <2>2. /\ pass.at = "fetch" /\ pass'.at = "fetch" /\ pass'.watch = pass.watch /\ UNCHANGED cursor
        /\ pass'.got[b] = pass.got[b]
    BY <2>1, FetchDoes
  <2>3. Unread(b)' => Unread(b)
    BY <2>2 DEF Unread, HasAnswer
  <2>4. Unread(b)' => Awaited(b)' \subseteq Awaited(b)
    BY <2>2, <2>3 DEF Awaited, Ingesting
  <2> QED
    BY <2>2, <2>3, <2>4 DEF HasAnswer
<1>5. Len(Targets) \in Nat /\ pass.next \in Nat
  BY TargetsAssumption DEF Shape, PassShape, Pass
<1>6. CASE AllFetched
  <2>1. pass'.got = pass.got /\ pass'.watch = pass.watch /\ pass.at = "fetch" /\ pass'.at = "target"
    BY <1>6, TargetDoes
  <2>2. UNCHANGED cursor
    BY <1>6 DEF AllFetched
  <2>3. Unread(b)' => Unread(b)
    BY <2>1 DEF Unread, HasAnswer
  <2>4. Unread(b)' => Awaited(b)' \subseteq Awaited(b)
    BY <2>1, <2>3 DEF Awaited, Ingesting
  <2> QED
    BY <2>1, <2>2, <2>3, <2>4 DEF HasAnswer
<1>7. CASE SkipTarget
  <2>1. /\ pass'.got = pass.got /\ pass'.watch = pass.watch /\ pass.at = "target" /\ pass'.at = "target"
        /\ pass'.next = pass.next + 1
    BY <1>7, TargetDoes
  <2>2. UNCHANGED cursor
    BY <1>7 DEF SkipTarget
  <2>3. Unread(b)' => Unread(b)
    BY <1>5, <2>1 DEF Unread, HasAnswer
  <2>4. Unread(b)' => Awaited(b)' \subseteq Awaited(b)
    BY <2>1, <2>3 DEF Awaited, Ingesting
  <2> QED
    BY <2>1, <2>2, <2>3, <2>4 DEF HasAnswer
<1>8. CASE StartTarget
  <2>1. /\ pass'.got = pass.got /\ pass'.watch = pass.watch /\ pass.at = "target" /\ pass'.at = "ingest"
        /\ pass'.next = pass.next
    BY <1>8, TargetDoes
  <2>2. UNCHANGED cursor
    BY <1>8 DEF StartTarget
  <2>3. Unread(b)' => Unread(b)
    BY <2>1 DEF Unread, HasAnswer
  <2>4. Unread(b)' => Awaited(b)' \subseteq Awaited(b)
    BY <2>1, <2>3 DEF Awaited, Ingesting
  <2> QED
    BY <2>1, <2>2, <2>3, <2>4 DEF HasAnswer
<1>9. CASE FinishTarget
  <2>1. /\ pass'.got = pass.got /\ pass'.watch = pass.watch /\ pass.at = "ingest" /\ pass'.at = "target"
        /\ pass'.next = pass.next + 1
    BY <1>9, TargetDoes
  <2>2. pass.next \in 1..Len(Targets)
    <3>1. PassShape /\ pass.next <= Len(Targets)
      BY <2>1 DEF Shape, PassShape
    <3> QED
      BY <2>1, <3>1, IngestingHere
  <2>3. Unread(b)' => \E i \in (pass.next + 1)..Len(Targets) : Targets[i] = b
    BY <2>1 DEF Unread
  <2>4. Unread(b)' => Here # b
    BY <1>5, <2>2, <2>3, TargetsAssumption DEF Here
  <2>5. Unread(b)' => Unread(b)
    BY <1>5, <2>1, <2>3 DEF Unread, HasAnswer
  <2>6. Unread(b)' => Awaited(b)' \subseteq Awaited(b)
    BY <2>1, <2>4, <2>5 DEF Awaited, Ingesting
  <2>7. \A a \in Boxes : a # Here => cursor'[a] = cursor[a]
    BY <1>9 DEF Shape, CursorShape, FinishTarget
  <2> QED
    BY <2>1, <2>4, <2>5, <2>6, <2>7 DEF HasAnswer
<1> QED
  BY <1>2, <1>3, <1>4, <1>6, <1>7, <1>8, <1>9, PassMoves

(* An ingest is under way of a mailbox that answered.                        *)
LEMMA IngestingUnread ==
    ASSUME Shape, pass.at = "ingest"
    PROVE  /\ Here \in Boxes /\ HasAnswer(Here) /\ Unread(Here) /\ pass.got[Here] = Got
           /\ GoodAnswer(Got, server[Here].validity) /\ Got.validity \in Nat
           /\ Got.validity <= server[Here].validity
           /\ pass.todo \subseteq Got.msgs /\ Got.msgs \subseteq Copy /\ Got.listed \subseteq Nat \ {0}
           /\ Awaited(Here) = pass.todo
<1>1. PassShape /\ pass.next <= Len(Targets) /\ Got # Failed /\ pass.todo \subseteq Got.msgs
  BY DEF Shape, PassShape
<1>2. /\ pass.next \in 1..Len(Targets) /\ Here \in Boxes /\ Got # None
      /\ GoodAnswer(Got, server[Here].validity)
  BY <1>1, IngestingHere
<1>3. pass.next \in pass.next..Len(Targets)
  BY <1>2, TargetsAssumption
<1>4. HasAnswer(Here) /\ pass.got[Here] = Got
  BY <1>1, <1>2 DEF HasAnswer, Got
<1>5. Unread(Here)
  BY <1>3, <1>4 DEF Unread, Here
<1>6. Awaited(Here) = pass.todo
  BY <1>1, <1>4, <1>5 DEF Awaited, Ingesting
<1> QED
  BY <1>1, <1>2, <1>4, <1>5, <1>6 DEF GoodAnswer, Answer

LEMMA FinishCursor ==
    ASSUME Shape, FinishTarget
    PROVE  /\ cursor'[Here] # None /\ cursor'[Here].validity = Got.validity
           /\ \A a \in Boxes \ {Here} : cursor'[a] = cursor[a]
<1>1. /\ Here \in Boxes /\ GoodAnswer(Got, server[Here].validity) /\ Got.validity \in Nat
      /\ pass.unmet \subseteq UidsOf(Got.msgs)
  BY IngestingUnread DEF FinishTarget, Shape, PassShape
<1> DEFINE last == IF Got.msgs = {} THEN Got.top ELSE Max(UidsOf(Got.msgs))
           mark == MarkBelowUnmet(Got.mark, pass.unmet)
           new  == [validity |-> Got.validity, last |-> last, mark |-> mark]
<1>2. cursor' = [cursor EXCEPT ![Here] = new]
  BY DEF FinishTarget
<1>3. last \in Nat /\ mark \in Nat \cup {None}
  BY <1>1, CursorOf
<1> HIDE DEF last, mark
<1>4. new \in Cursor /\ new.validity = Got.validity
  BY <1>1, <1>3 DEF Cursor
<1> HIDE DEF new
<1> QED
  BY <1>1, <1>2, <1>4, NoneAssumption DEF Shape, CursorShape

LEMMA CursorMoves ==
    ASSUME Shape, [Next]_vars
    PROVE  UNCHANGED cursor \/ FinishTarget
<1>1. AllFetched \/ SkipTarget \/ StartTarget \/ ReadStore \/ (\E a \in Boxes : Fetch(a)) => UNCHANGED cursor
  BY FetchDoes DEF AllFetched, SkipTarget, StartTarget, ReadStore
<1> QED
  BY <1>1, PassMoves

(* A cursor is never lost, nor set back to an earlier UIDVALIDITY.           *)
LEMMA CursorOnward ==
    ASSUME Shape, Told, [Next]_vars, NEW b \in Boxes, cursor[b] # None
    PROVE  cursor'[b] # None /\ cursor[b].validity <= cursor'[b].validity
<1>1. cursor[b] \in Cursor /\ cursor[b].validity \in Nat
  BY DEF Shape, CursorShape, Cursor
<1>2. CASE UNCHANGED cursor
  BY <1>1, <1>2
<1>3. CASE FinishTarget /\ b # Here
  BY <1>1, <1>3, FinishCursor
<1>4. CASE FinishTarget /\ b = Here
  <2>1. Unread(b) /\ pass.got[b] = Got
    BY <1>4, IngestingUnread DEF FinishTarget
  <2> QED
    BY <1>4, <2>1, FinishCursor DEF Told, ResetsKnown
<1> QED
  BY <1>2, <1>3, <1>4, CursorMoves

-----------------------------------------------------------------------------
(* What a pass knows stays true.                                             *)

LEMMA AnswersTrueStep ==
    ASSUME Shape, Told, [Next]_vars PROVE AnswersTrue'
<1> SUFFICES ASSUME NEW b \in Boxes, HasAnswer(b)', pass'.got[b].validity = server'[b].validity,
                    NEW c \in pass'.got[b].msgs
             PROVE  Its(b, c.uid, c.msg)'
  BY DEF AnswersTrue
<1>1. CASE ~ Fetch(b)
  <2>1. HasAnswer(b) /\ pass'.got[b] = pass.got[b]
    BY <1>1, AnswersOnward
  <2>2. GoodAnswer(pass.got[b], server[b].validity)
    BY <2>1 DEF Shape, PassShape
  <2>3. pass.got[b].validity \in Nat /\ pass.got[b].validity <= server[b].validity /\ c \in Copy
    BY <2>1, <2>2 DEF GoodAnswer, Answer
  <2>4. server[b].validity <= server'[b].validity /\ server[b].validity \in Nat /\ server'[b].validity \in Nat
    BY ServerStep DEF Shape, ServerShape, Mailbox
  <2>5. server'[b].validity = server[b].validity /\ pass.got[b].validity = server[b].validity
    BY <2>1, <2>3, <2>4
  <2>6. Its(b, c.uid, c.msg)
    BY <2>1, <2>5 DEF Told, AnswersTrue
  <2> QED
    BY <2>3, <2>5, <2>6, ItsStays DEF Copy
<1>2. CASE Fetch(b)
  <2>1. UNCHANGED server /\ c \in server[b].copies
    BY <1>2, FetchDoes DEF Answers
  <2>2. Sound(server[b])
    BY DEF Shape, ServerShape
  <2>3. Its(b, c.uid, c.msg)
    BY <2>1, <2>2 DEF Its, Sound
  <2> QED
    BY <2>1, <2>3 DEF Its
<1> QED
  BY <1>1, <1>2

LEMMA BlurredGrows ==
    ASSUME [Next]_vars PROVE blurred \subseteq blurred' /\ touched \subseteq touched'
<1>1. CASE User
  <2>1. ASSUME NEW r, NEW dest, Owe(r, dest) PROVE blurred \subseteq blurred'
    BY <2>1 DEF Owe
  <2> QED
    BY <1>1, <2>1 DEF User, ApplyDelete, ApplyMove
<1>2. CASE Drain
  BY <1>2 DEF Drain, RunOp
<1>3. CASE DrainFaults
  BY <1>3 DEF DrainFaults, LoseAnswer, Refuse
<1>4. CASE Others
  BY <1>4 DEF Others, OtherMoves, OtherDeletes, Renumber, noted
<1>5. CASE Open \/ Stop \/ FailIngest
  BY <1>5 DEF Open, Stop, FailIngest, noted
<1>6. CASE PassStep
  <2>1. ASSUME NEW b, NEW g, Answered(b, g) PROVE blurred \subseteq blurred' /\ touched \subseteq touched'
    BY <2>1 DEF Answered
  <2>2. ASSUME NEW b, Fetch(b) PROVE blurred \subseteq blurred' /\ touched \subseteq touched'
    BY <2>1, <2>2 DEF Fetch
  <2> QED
    BY <1>6, <2>2 DEF PassStep, ReadStore, AllFetched, SkipTarget, StartTarget, Ingest, FinishTarget,
                      Prune, noted
<1>7. CASE UNCHANGED vars
  BY <1>7 DEF vars, noted
<1> QED
  BY <1>1, <1>2, <1>3, <1>4, <1>5, <1>6, <1>7 DEF Next

LEMMA ShortBlursStep ==
    ASSUME Shape, Told, [Next]_vars PROVE ShortBlurs'
<1> SUFFICES ASSUME NEW b \in Boxes, HasAnswer(b)', ~ pass'.got[b].complete, NEW c \in pass'.got[b].msgs
             PROVE  c.msg \in blurred'
  BY DEF ShortBlurs
<1>1. CASE ~ Fetch(b)
  BY <1>1, AnswersOnward, BlurredGrows DEF Told, ShortBlurs
<1>2. CASE Fetch(b)
  BY <1>2, FetchDoes
<1> QED
  BY <1>1, <1>2

LEMMA ResetsKnownStep ==
    ASSUME Shape, Told, [Next]_vars PROVE ResetsKnown'
<1> SUFFICES ASSUME NEW b \in Boxes, Unread(b)'
             PROVE  /\ cursor'[b] # None => cursor'[b].validity <= pass'.got[b].validity
                    /\ pass'.got[b].reset <=> cursor'[b] # None /\ cursor'[b].validity # pass'.got[b].validity
  BY DEF ResetsKnown
<1>1. CASE ~ Fetch(b)
  <2>1. HasAnswer(b)'
    BY DEF Unread
  <2>2. Unread(b) /\ cursor'[b] = cursor[b] /\ pass'.got[b] = pass.got[b]
    BY <1>1, <2>1, AnswersOnward
  <2>3. /\ cursor[b] # None => cursor[b].validity <= pass.got[b].validity
        /\ pass.got[b].reset <=> cursor[b] # None /\ cursor[b].validity # pass.got[b].validity
    BY <2>2 DEF Told, ResetsKnown
  <2> QED
    BY <2>2, <2>3
<1>2. CASE Fetch(b)
  <2>1. HasAnswer(b)'
    BY DEF Unread
  <2>2. UNCHANGED cursor /\ Answers(b, pass'.got[b])
    BY <1>2, <2>1, FetchDoes
  <2>3. cursor[b] # None => cursor[b].validity <= server[b].validity
    BY DEF Shape, CursorShape
  <2> QED
    BY <2>2, <2>3 DEF Answers
<1> QED
  BY <1>1, <1>2

LEMMA WatchingStep ==
    ASSUME Shape, Told, [Next]_vars PROVE Watching'
<1> SUFFICES ASSUME pass'.at \in {"fetch", "target", "ingest"}, NEW o \in ops'
             PROVE  Leaving(o) \in pass'.watch
  BY DEF Watching, Leaving
<1>1. CASE ReadStore
  BY <1>1, ReadStoreDoes DEF ReadStore
<1>2. CASE pass.at \in {"fetch", "target", "ingest"} /\ pass.watch \subseteq pass'.watch /\ ops' \subseteq ops
  BY <1>2 DEF Told, Watching
<1>3. ASSUME NEW r \in rows, NEW dest, Owe(r, dest) PROVE Leaving(o) \in pass'.watch
  <2>1. PICK op : ops' = ops \cup {op} /\ pass' = Record(op)
    BY <1>3 DEF Owe
  <2>2. pass \in Pass
    BY DEF Shape, PassShape
  <2>3. pass.at # "idle"
    BY <2>1 DEF Record
  <2>4. pass' = [pass EXCEPT !.watch = @ \cup {Leaving(op)}]
    BY <2>1, <2>3 DEF Record
  <2>5. pass'.at = pass.at /\ pass'.watch = pass.watch \cup {Leaving(op)}
    BY <2>2, <2>4 DEF Pass
  <2> QED
    BY <2>1, <2>5 DEF Told, Watching
<1>4. CASE User
  BY <1>3, <1>4 DEF User, ApplyDelete, ApplyMove
<1>5. CASE ~ User
  <2>1. ops' \subseteq ops
    <3>1. CASE Drain
      BY <3>1 DEF Drain, RunOp
    <3>2. CASE DrainFaults
      BY <3>2 DEF DrainFaults, LoseAnswer, Refuse
    <3>3. CASE Others
      BY <3>3 DEF Others, OtherMoves, OtherDeletes, Renumber
    <3>4. CASE Open \/ Stop \/ FailIngest
      BY <3>4 DEF Open, Stop, FailIngest
    <3>5. CASE PassStep
      BY <3>5 DEF PassStep, ReadStore, AllFetched, SkipTarget, StartTarget, Ingest, FinishTarget,
                  Prune, Fetch, Answered
    <3>6. CASE UNCHANGED vars
      BY <3>6 DEF vars
    <3> QED
      BY <1>5, <3>1, <3>2, <3>3, <3>4, <3>5, <3>6 DEF Next
  <2>2. CASE Resumes
    BY <1>2, <2>1, <2>2 DEF Resumes
  <2>3. ~ Rests
    BY DEF Rests
  <2>4. CASE AllFetched \/ SkipTarget \/ StartTarget \/ FinishTarget
    <3>1. pass.at \in {"fetch", "target", "ingest"} /\ pass'.watch = pass.watch
      BY <2>4, TargetDoes
    <3> QED
      BY <1>2, <2>1, <3>1
  <2>5. CASE \E b \in Boxes : Fetch(b)
    <3>1. pass.at = "fetch" /\ pass'.watch = pass.watch
      BY <2>5, FetchDoes
    <3> QED
      BY <1>2, <2>1, <3>1
  <2> QED
    BY <1>1, <2>2, <2>3, <2>4, <2>5, PassMoves
<1> QED
  BY <1>4, <1>5

(* What is ingested is on its UID, unless it is withheld.                    *)
LEMMA IngestedRow ==
    ASSUME Shape, NEW c \in Copy, IngestInTx(c)
    PROVE  \/ /\ pass' = [pass EXCEPT !.todo = @ \ {c}, !.uids = @ \cup {c.uid}]
              /\ \E x \in rows' : x.box = Here /\ x.uid = c.uid /\ x.msg = c.msg
           \/ /\ pass' = [pass EXCEPT !.todo = @ \ {c}]
              /\ Own(c) = {} /\ Rebindable(c) = {} /\ Departed(c) /\ UNCHANGED rows
<1>1. CASE Own(c) # {} /\ Written(c, rows)
  BY <1>1 DEF Written, Own, RowsIn
<1>2. CASE /\ Rebindable(c) # {}
           /\ LET r == Preferred(Rebindable(c)) IN
              Written(c, (Parked(c) \ {r}) \cup {[r EXCEPT !.uid = c.uid]})
  <2> DEFINE r == Preferred(Rebindable(c))
             x == [r EXCEPT !.uid = c.uid]
  <2>1. RowsShape
    BY DEF Shape
  <2>2. Rebindable(c) \subseteq Parked(c) /\ Parked(c) \subseteq Row
    BY <2>1, ParkedTidy DEF Rebindable, Tidy
  <2>3. r \in Rebindable(c)
    BY <1>2, <2>2, PreferredOf
  <2>4. Written(c, (Parked(c) \ {r}) \cup {x})
    BY <1>2
  <2> HIDE DEF r
  <2>5. x.box = Here /\ x.uid = c.uid /\ x.msg = c.msg
    BY <2>2, <2>3 DEF Rebindable, Row
  <2> HIDE DEF x
  <2> QED
    BY <2>4, <2>5 DEF Written
<1>3. CASE Written(c, Parked(c) \cup {[id |-> NextId(rows), box |-> Here, uid |-> c.uid, msg |-> c.msg]})
  <2> DEFINE x == [id |-> NextId(rows), box |-> Here, uid |-> c.uid, msg |-> c.msg]
  <2>1. Written(c, Parked(c) \cup {x})
    BY <1>3
  <2>2. x.box = Here /\ x.uid = c.uid /\ x.msg = c.msg
    OBVIOUS
  <2> HIDE DEF x
  <2> QED
    BY <2>1, <2>2 DEF Written
<1> QED
  BY <1>1, <1>2, <1>3 DEF IngestInTx

(* The UIDs an ingest has verified grow by the one it writes.                *)
LEMMA IngestDoes ==
    ASSUME Shape, Ingest, NEW c, c = Lowest(pass.todo)
    PROVE  /\ pass.at = "ingest" /\ c \in pass.todo /\ c \in Copy /\ c \in Got.msgs /\ IngestInTx(c)
           /\ pass'.at = "ingest" /\ pass'.got = pass.got /\ pass'.watch = pass.watch
           /\ pass'.next = pass.next /\ pass'.todo = pass.todo \ {c}
           /\ UNCHANGED <<server, cursor, ops>>
           /\ \/ /\ pass'.uids = pass.uids \cup {c.uid}
                 /\ \E x \in rows' : x.box = Here /\ x.uid = c.uid /\ x.msg = c.msg
              \/ pass'.uids = pass.uids /\ Own(c) = {} /\ Rebindable(c) = {} /\ Departed(c) /\ UNCHANGED rows
<1>1. pass.at = "ingest" /\ pass.todo # {} /\ IngestInTx(c) /\ UNCHANGED <<server, cursor, ops>>
  BY DEF Ingest
<1>2. pass.todo \subseteq Copy /\ pass.todo \subseteq Got.msgs /\ pass \in Pass
  BY <1>1 DEF Shape, PassShape, Pass
<1>3. c \in pass.todo
  BY <1>1, <1>2, LowestOf
<1>4. \/ /\ pass' = [pass EXCEPT !.todo = @ \ {c}, !.uids = @ \cup {c.uid}]
         /\ \E x \in rows' : x.box = Here /\ x.uid = c.uid /\ x.msg = c.msg
      \/ /\ pass' = [pass EXCEPT !.todo = @ \ {c}]
         /\ Own(c) = {} /\ Rebindable(c) = {} /\ Departed(c) /\ UNCHANGED rows
  BY <1>1, <1>2, <1>3, IngestedRow
<1>5. CASE /\ pass' = [pass EXCEPT !.todo = @ \ {c}, !.uids = @ \cup {c.uid}]
           /\ \E x \in rows' : x.box = Here /\ x.uid = c.uid /\ x.msg = c.msg
  <2>1. /\ pass'.at = pass.at /\ pass'.got = pass.got /\ pass'.watch = pass.watch
        /\ pass'.next = pass.next /\ pass'.todo = pass.todo \ {c} /\ pass'.uids = pass.uids \cup {c.uid}
    BY <1>2, <1>5 DEF Pass
  <2> QED
    BY <1>1, <1>2, <1>3, <1>5, <2>1
<1>6. CASE /\ pass' = [pass EXCEPT !.todo = @ \ {c}]
           /\ Own(c) = {} /\ Rebindable(c) = {} /\ Departed(c) /\ UNCHANGED rows
  <2>1. /\ pass'.at = pass.at /\ pass'.got = pass.got /\ pass'.watch = pass.watch
        /\ pass'.next = pass.next /\ pass'.todo = pass.todo \ {c} /\ pass'.uids = pass.uids
    BY <1>2, <1>6 DEF Pass
  <2> QED
    BY <1>1, <1>2, <1>3, <1>6, <2>1
<1> QED
  BY <1>4, <1>5, <1>6

LEMMA UidsListedStep ==
    ASSUME Shape, Told, [Next]_vars PROVE UidsListed'
<1> SUFFICES ASSUME pass'.at = "ingest" PROVE pass'.uids \subseteq Got'.listed
  BY DEF UidsListed
<1>1. CASE Ingest
  <2> DEFINE c == Lowest(pass.todo)
  <2>1. /\ pass.at = "ingest" /\ c \in Got.msgs /\ pass'.got = pass.got /\ pass'.next = pass.next
        /\ pass'.uids \in {pass.uids \cup {c.uid}, pass.uids}
    BY <1>1, IngestDoes
  <2>2. c.uid \in Got.listed
    BY <2>1, IngestingUnread DEF GoodAnswer
  <2> HIDE DEF c
  <2> QED
    BY <2>1, <2>2 DEF Told, UidsListed, Got, Here
<1>2. CASE Resumes /\ pass'.uids = pass.uids
  BY <1>2 DEF Resumes, Told, UidsListed, Got, Here
<1>3. CASE StartTarget
  BY <1>3, TargetDoes DEF Got, Here
<1>4. CASE ReadStore \/ AllFetched \/ SkipTarget \/ FinishTarget \/ Rests \/ \E b \in Boxes : Fetch(b)
  <2>1. pass'.at # "ingest"
    BY <1>4, ReadStoreDoes, TargetDoes, FetchDoes DEF Rests
  <2> QED
    BY <2>1
<1> QED
  BY <1>1, <1>2, <1>3, <1>4, PassMoves

LEMMA ToldStep ==
    ASSUME Shape, Told, [Next]_vars PROVE Told'
BY AnswersTrueStep, ShortBlursStep, ResetsKnownStep, WatchingStep, UidsListedStep DEF Told

-----------------------------------------------------------------------------
(* The copy, the row and the ops of a message.                               *)

LEMMA OweDoes ==
    ASSUME Shape, NEW r \in rows, NEW dest \in Boxes \cup {None}, Owe(r, dest)
    PROVE  \E op \in Op :
              /\ ops' = ops \cup {op} /\ \A o \in ops : o.id < op.id
              /\ op.row = r.id /\ op.msg = r.msg /\ op.from = r.box /\ op.to = dest
              /\ op.copy = ServerCopy(r) /\ pass' = Record(op)
              /\ r.uid # Unbound /\ cursor[r.box] = None => r.msg \in blurred'
<1> DEFINE op == [id |-> NextId(ops), row |-> r.id, msg |-> r.msg, from |-> r.box, to |-> dest,
                  copy |-> ServerCopy(r), uid |-> r.uid]
<1>1. /\ ops' = ops \cup {op} /\ pass' = Record(op)
      /\ r.uid # Unbound /\ cursor[r.box] = None => r.msg \in blurred'
  BY DEF Owe
<1>2. /\ op \in Op /\ \A o \in ops : o.id < op.id
      /\ op.row = r.id /\ op.msg = r.msg /\ op.from = r.box /\ op.to = dest /\ op.copy = ServerCopy(r)
  BY OwedShape
<1> HIDE DEF op
<1> QED
  BY <1>1, <1>2

LEMMA MovingDoes ==
    ASSUME Shape, NEW r \in rows, NEW act, act = (ApplyDelete(r) \/ \E b \in Boxes : ApplyMove(r, b)), act
    PROVE  \E op \in Op :
              /\ ops' = ops \cup {op} /\ \A o \in ops : o.id < op.id
              /\ op.row = r.id /\ op.msg = r.msg /\ op.from = r.box
              /\ op.copy = ServerCopy(r) /\ pass' = Record(op)
              /\ r.uid # Unbound /\ cursor[r.box] = None => r.msg \in blurred'
              /\ UNCHANGED <<server, cursor>>
              /\ \A t \in rows' \ rows : t.id = r.id /\ t.box = op.to /\ t.uid = Unbound /\ t.msg = r.msg
              /\ r \notin rows'
<1>1. r \in Row
  BY DEF Shape, RowsShape, Tidy
<1>2. CASE ApplyDelete(r)
  <2>1. Owe(r, None) /\ rows' = rows \ {r} /\ UNCHANGED <<server, cursor>>
    BY <1>2 DEF ApplyDelete
  <2>2. PICK op \in Op :
              /\ ops' = ops \cup {op} /\ \A o \in ops : o.id < op.id
              /\ op.row = r.id /\ op.msg = r.msg /\ op.from = r.box /\ op.to = None
              /\ op.copy = ServerCopy(r) /\ pass' = Record(op)
              /\ r.uid # Unbound /\ cursor[r.box] = None => r.msg \in blurred'
    BY <2>1, OweDoes
  <2> QED
    BY <2>1, <2>2
<1>3. ASSUME NEW b \in Boxes, ApplyMove(r, b)
      PROVE  \E op \in Op :
              /\ ops' = ops \cup {op} /\ \A o \in ops : o.id < op.id
              /\ op.row = r.id /\ op.msg = r.msg /\ op.from = r.box
              /\ op.copy = ServerCopy(r) /\ pass' = Record(op)
              /\ r.uid # Unbound /\ cursor[r.box] = None => r.msg \in blurred'
              /\ UNCHANGED <<server, cursor>>
              /\ \A t \in rows' \ rows : t.id = r.id /\ t.box = op.to /\ t.uid = Unbound /\ t.msg = r.msg
              /\ r \notin rows'
  <2> DEFINE x == [r EXCEPT !.box = b, !.uid = Unbound]
  <2>1. Owe(r, b) /\ rows' = (rows \ {r}) \cup {x} /\ UNCHANGED <<server, cursor>>
    BY <1>3 DEF ApplyMove
  <2>2. x.id = r.id /\ x.box = b /\ x.uid = Unbound /\ x.msg = r.msg /\ b # r.box
    BY <1>1, <1>3 DEF Row, ApplyMove
  <2> HIDE DEF x
  <2>3. PICK op \in Op :
              /\ ops' = ops \cup {op} /\ \A o \in ops : o.id < op.id
              /\ op.row = r.id /\ op.msg = r.msg /\ op.from = r.box /\ op.to = b
              /\ op.copy = ServerCopy(r) /\ pass' = Record(op)
              /\ r.uid # Unbound /\ cursor[r.box] = None => r.msg \in blurred'
    BY <2>1, OweDoes
  <2> QED
    BY <2>1, <2>2, <2>3
<1> QED
  BY <1>2, <1>3

LEMMA OldestOf ==
    ASSUME Shape, NEW m, OpsOf(m) # {}
    PROVE  \E o \in OpsOf(m) : Oldest(o, OpsOf(m))
<1> DEFINE I == {o.id : o \in OpsOf(m)}
<1>1. I \subseteq Nat /\ I # {}
  BY DEF Shape, OpsShape, Op, OpsOf
<1>2. PICK i \in I : \A j \in I : i <= j
  BY <1>1, Least
<1> QED
  BY <1>2 DEF Oldest

(* The op that runs, or is refused, is the oldest of its message.            *)
LEMMA RunsOldest ==
    ASSUME NEW m, Chain(m), NEW op \in ops, op.msg = m, Runnable(op)
    PROVE  /\ op \in OpsOf(m) /\ Oldest(op, OpsOf(m)) /\ \A o \in OpsOf(m) : o.row = op.row
           /\ \A r \in RowsOf(m) : r.id = op.row
           /\ \A b \in Boxes : In(m, b) => b = op.from
<1>1. op \in OpsOf(m)
  BY DEF OpsOf
<1>2. /\ \A o \in OpsOf(m) : o.row = op.row
      /\ \A r \in RowsOf(m) : r.id = op.row
  BY <1>1 DEF Chain, Chained
<1>3. Oldest(op, OpsOf(m))
  BY <1>2 DEF Runnable, Oldest, OpsOf
<1> QED
  BY <1>1, <1>2, <1>3 DEF Chain, Chained

LEMMA RunningCopies ==
    ASSUME Shape, NEW m, OneCopy(m), Chain(m), Named(m), NEW op \in ops, op.msg = m, RunOp(op)
    PROVE  OneCopy(m)' /\ \A b \in Boxes : In(m, b)' => b = op.to
<1>1. ServerShape /\ op \in Op /\ op.from \in Boxes
  BY DEF Shape, OpsShape, Op
<1>2. op \in OpsOf(m) /\ \A b \in Boxes : In(m, b) => b = op.from
  BY RunsOldest DEF RunOp
<1>3. CASE Converged(op) /\ UNCHANGED server
  <2>1. Found(op) = {}
    BY <1>2, <1>3 DEF Converged, SameValidity, Named
  <2>2. ~ In(m, op.from)
    BY <2>1 DEF Found, In
  <2>3. \A b \in Boxes : ~ In(m, b)
    BY <1>2, <2>2
  <2> QED
    BY <1>3, <2>3 DEF In, OneCopy
<1>4. ASSUME NEW u \in Resolve(op), server' = Landed(op, u)
      PROVE  OneCopy(m)' /\ \A b \in Boxes : In(m, b)' => b = op.to
  <2>1. PICK k \in server[op.from].copies : k.msg = m /\ k.uid = u
    BY <1>1, <1>4, ResolveFound DEF Found
  <2>2. ASSUME NEW b \in Boxes, NEW c \in server'[b].copies, c.msg = m
        PROVE  b = op.to /\ c = [uid |-> server[b].next, msg |-> op.msg]
    <3>1. c \in Copied(op)[b].copies /\ (b = op.from => c.uid # u)
      <4>1. c \in Landed(op, u)[b].copies
        BY <1>4, <2>2
      <4> QED
        BY <1>1, <4>1, LandedHas
    <3>2. c \notin server[b].copies
      BY <1>1, <2>1, <2>2, <3>1 DEF OneCopy
    <3> QED
      BY <1>1, <3>1, <3>2, CopiedCopies
  <2>3. \A b \in Boxes : In(m, b)' => b = op.to
    BY <2>2 DEF In
  <2>4. OneCopy(m)'
    BY <2>2 DEF OneCopy
  <2> QED
    BY <2>3, <2>4
<1> QED
  BY <1>3, <1>4 DEF RunOp

LEMMA CopyStep ==
    ASSUME Shape, [Next]_vars, NEW m, m \notin touched', OneCopy(m), Chain(m), Named(m)
    PROVE  OneCopy(m)' /\ (~ Running(m) => \A b \in Boxes : In(m, b)' => In(m, b))
<1>1. CASE Running(m)
  BY <1>1, RunningCopies DEF Running
<1>2. CASE ~ Running(m)
  BY <1>2, CopiesCalm DEF Running
<1> QED
  BY <1>1, <1>2

(* What is written of a message: its row is bound to the copy, or, when the  *)
(* message has neither row nor op, it gets one.                              *)
LEMMA WritingRows ==
    ASSUME Shape, Told, NEW m, Kept(m), Ingest, NEW c, c = Lowest(pass.todo), c.msg = m
    PROVE  \/ \A t \in RowsOf(m)' : \E r \in RowsOf(m) :
                  /\ t.id = r.id /\ t.box = r.box
                  /\ t.uid = r.uid \/ (t.box = Here /\ t.uid = c.uid)
           \/ /\ RowsOf(m) = {} /\ OpsOf(m) = {} /\ \A b \in Boxes : In(m, b) => b = Here
              /\ \E x : RowsOf(m)' = {x} /\ x.box = Here /\ x.uid = c.uid
<1>1. /\ c \in Got.msgs /\ c \in pass.todo /\ c \in Copy /\ IngestInTx(c) /\ pass.at = "ingest"
  BY IngestDoes
<1>2. rows \subseteq Row /\ RowsShape
  BY DEF Shape, RowsShape, Tidy
<1>3. /\ Tidy(Parked(c)) /\ Parked(c) \subseteq Row
      /\ \A p \in Parked(c) : \E r \in rows : r.id = p.id /\ r.box = p.box /\ r.msg = p.msg
                                              /\ p.uid \in {r.uid, Unbound}
  BY <1>2, ParkedTidy DEF Tidy
<1>4. ASSUME NEW p \in Parked(c), p.msg = m PROVE p \in RowsOf(m)
  <2>1. PICK r \in rows : p = IF r.box = Here /\ r.uid = c.uid /\ r.msg # c.msg
                              THEN [r EXCEPT !.uid = Unbound] ELSE r
    BY DEF Parked
  <2>2. p.msg = r.msg
    BY <1>2, <2>1, UnboundRow
  <2> QED
    BY <1>4, <2>1, <2>2 DEF RowsOf
<1>5. CASE UNCHANGED rows
  BY <1>5 DEF RowsOf
<1>6. CASE Rebindable(c) # {}
           /\ LET r == Preferred(Rebindable(c)) IN rows' = (Parked(c) \ {r}) \cup {[r EXCEPT !.uid = c.uid]}
  <2> DEFINE r == Preferred(Rebindable(c))
             x == [r EXCEPT !.uid = c.uid]
  <2>1. Rebindable(c) \subseteq Parked(c)
    BY DEF Rebindable
  <2>2. r \in Rebindable(c)
    BY <1>3, <1>6, <2>1, PreferredOf
  <2>3. rows' = (Parked(c) \ {r}) \cup {x}
    BY <1>6
  <2> HIDE DEF r
  <2>4. r \in Parked(c) /\ r \in Row /\ r.box = Here /\ r.msg = m
    BY <1>3, <2>2 DEF Rebindable
  <2>5. x.id = r.id /\ x.box = Here /\ x.uid = c.uid
    BY <2>4 DEF Row
  <2> HIDE DEF x
  <2>6. r \in RowsOf(m)
    BY <1>4, <2>4
  <2>7. \A t \in RowsOf(m)' : t = x \/ t \in RowsOf(m)
    BY <1>4, <2>3 DEF RowsOf
  <2> QED
    BY <2>4, <2>5, <2>6, <2>7
<1>7. CASE Own(c) = {} /\ Rebindable(c) = {} /\ ~Departed(c)
           /\ rows' = Parked(c) \cup {[id |-> NextId(rows), box |-> Here, uid |-> c.uid, msg |-> c.msg]}
  <2> DEFINE x == [id |-> NextId(rows), box |-> Here, uid |-> c.uid, msg |-> c.msg]
  <2>1. Here \in Boxes /\ c \in Awaited(Here) /\ HasAnswer(Here) /\ pass.got[Here] = Got
        /\ Got.listed \subseteq Nat \ {0}
    BY <1>1, IngestingUnread
  <2>2. ~ Gone(Here, c)
    BY <1>7 DEF Departed, Gone, Departs, DepartsIn, Got
  <2>3. Still(Here, c)
    BY <2>1, <2>2 DEF Kept, Seen
  <2>4. OpsOf(m) = {} /\ \A b \in Boxes : In(m, b) => b = Here
    BY <2>3 DEF Still
  <2>5. RowsOf(m) = {}
    <3> SUFFICES ASSUME NEW r \in RowsOf(m) PROVE FALSE
      OBVIOUS
    <3>1. r.box = Here /\ r \in rows /\ r.msg = m /\ r \in Row
      BY <1>2, <2>3 DEF Still, RowsOf
    <3>2. r.uid # c.uid
      BY <1>7, <3>1 DEF Own, RowsIn
    <3>3. r \in Parked(c)
      BY <3>1 DEF Parked
    <3>4. r.uid \in pass.uids
      BY <1>7, <3>1, <3>3 DEF Rebindable
    <3>5. r.uid \in Got.listed
      BY <1>1, <3>4 DEF Told, UidsListed
    <3>6. r.uid # Unbound
      BY <2>1, <3>5 DEF Unbound
    <3>7. Tells(Here, c, r)
      BY <2>3 DEF Still
    <3>8. Got.reset
      BY <2>1, <3>2, <3>5, <3>6, <3>7 DEF Tells
    <3>9. [uid |-> r.uid, msg |-> m] \in Got.msgs
      BY <1>1, <3>1, <3>4, <3>8 DEF Kept, BoundNow, Ingesting
    <3>10. [uid |-> r.uid, msg |-> m] = c
      BY <1>1, <2>1, <3>9 DEF Kept, GotOne
    <3> QED
      BY <3>2, <3>10
  <2>6. x.box = Here /\ x.uid = c.uid /\ x.msg = m /\ rows' = Parked(c) \cup {x}
    BY <1>7
  <2> HIDE DEF x
  <2>7. RowsOf(m)' = {x}
    BY <1>4, <2>5, <2>6 DEF RowsOf
  <2> QED
    BY <2>4, <2>5, <2>6, <2>7
<1> QED
  BY <1>1, <1>5, <1>6, <1>7 DEF IngestInTx, Written

-----------------------------------------------------------------------------
(* The row and the ops of a message stay a chain.                            *)

LEMMA MovingAfter ==
    ASSUME Shape, NEW m, OneRow(m), m \notin blurred', Moving(m)
    PROVE  \E r \in RowsOf(m), op \in Op :
              /\ OpsOf(m)' = OpsOf(m) \cup {op} /\ \A o \in ops : o.id < op.id
              /\ op.row = r.id /\ op.msg = m /\ op.from = r.box /\ op.copy = ServerCopy(r)
              /\ pass' = Record(op)
              /\ r.uid # Unbound => cursor[r.box] # None
              /\ UNCHANGED <<server, cursor>>
              /\ \A t \in RowsOf(m)' : t.id = r.id /\ t.box = op.to /\ t.uid = Unbound
<1>1. PICK r \in rows : r.msg = m /\ (ApplyDelete(r) \/ \E b \in Boxes : ApplyMove(r, b))
  BY DEF Moving
<1>2. PICK op \in Op :
          /\ ops' = ops \cup {op} /\ \A o \in ops : o.id < op.id
          /\ op.row = r.id /\ op.msg = r.msg /\ op.from = r.box
          /\ op.copy = ServerCopy(r) /\ pass' = Record(op)
          /\ r.uid # Unbound /\ cursor[r.box] = None => r.msg \in blurred'
          /\ UNCHANGED <<server, cursor>>
          /\ \A t \in rows' \ rows : t.id = r.id /\ t.box = op.to /\ t.uid = Unbound /\ t.msg = r.msg
          /\ r \notin rows'
  BY <1>1, MovingDoes
<1>3. r \in RowsOf(m)
  BY <1>1 DEF RowsOf
<1>4. OpsOf(m)' = OpsOf(m) \cup {op}
  BY <1>1, <1>2 DEF OpsOf
<1>5. ASSUME NEW t \in RowsOf(m)' PROVE t.id = r.id /\ t.box = op.to /\ t.uid = Unbound
  <2>1. t \in rows' /\ t.msg = m
    BY DEF RowsOf
  <2>2. t \notin rows
    BY <1>2, <1>3, <2>1 DEF OneRow, RowsOf
  <2> QED
    BY <1>2, <2>1, <2>2
<1> QED
  BY <1>1, <1>2, <1>3, <1>4, <1>5

LEMMA RefusingAfter ==
    ASSUME Shape, NEW m, Chain(m), Refusing(m)
    PROVE  \E op \in OpsOf(m) :
              /\ Refuse(op) /\ OpsOf(m)' = {}
              /\ \A t \in RowsOf(m)' : t.id = op.row /\ t.box = op.from /\ t.uid = op.uid
              /\ \A b \in Boxes : In(m, b) => b = op.from
              /\ UNCHANGED <<server, cursor, pass>>
<1>1. PICK op \in ops : op.msg = m /\ Refuse(op)
  BY DEF Refusing
<1>2. /\ op \in OpsOf(m) /\ \A o \in OpsOf(m) : o.row = op.row
      /\ \A r \in RowsOf(m) : r.id = op.row
      /\ \A b \in Boxes : In(m, b) => b = op.from
  BY <1>1, RunsOldest DEF Refuse
<1>3. OpsOf(m)' = {}
  BY <1>1, <1>2 DEF Refuse, OpsOf
<1> DEFINE back == [r \in rows |-> [r EXCEPT !.box = op.from, !.uid = op.uid]]
<1>4. rows' \subseteq {r \in rows : r.id # op.row} \cup {back[r] : r \in {r \in rows : r.id = op.row}}
  BY <1>1 DEF Refuse, Restored
<1>5. rows \subseteq Row
  BY DEF Shape, RowsShape, Tidy
<1>6. \A r \in rows : /\ back[r].id = r.id /\ back[r].box = op.from
                      /\ back[r].uid = op.uid /\ back[r].msg = r.msg
  BY <1>5 DEF Row
<1> HIDE DEF back
<1>7. ASSUME NEW t \in RowsOf(m)' PROVE t.id = op.row /\ t.box = op.from /\ t.uid = op.uid
  <2>1. t \in rows' /\ t.msg = m
    BY DEF RowsOf
  <2>2. ~ (t \in rows /\ t.id # op.row)
    BY <1>2, <2>1 DEF RowsOf
  <2> QED
    BY <1>4, <1>6, <2>1, <2>2
<1> QED
  BY <1>1, <1>2, <1>3, <1>7 DEF Refuse

LEMMA WritingAfter ==
    ASSUME Shape, Told, NEW m, Kept(m), Writing(m)
    PROVE  \E c \in pass.todo :
              /\ c = Lowest(pass.todo) /\ c.msg = m /\ Ingest
              /\ OpsOf(m)' = OpsOf(m) /\ UNCHANGED <<server, cursor>>
              /\ \A t \in RowsOf(m)' :
                    \/ t.box = Here /\ t.uid = c.uid
                    \/ \E r \in RowsOf(m) : t.box = r.box /\ t.uid = r.uid
              /\ \/ \A t \in RowsOf(m)' : \E r \in RowsOf(m) : t.id = r.id /\ t.box = r.box
                 \/ /\ OpsOf(m) = {} /\ \A b \in Boxes : In(m, b) => b = Here
                    /\ \E x : RowsOf(m)' = {x} /\ x.box = Here
<1> DEFINE c == Lowest(pass.todo)
<1>1. c.msg = m /\ Ingest
  BY DEF Writing
<1>2. c \in pass.todo /\ UNCHANGED <<server, cursor, ops>>
  BY <1>1, IngestDoes
<1>3. \/ \A t \in RowsOf(m)' : \E r \in RowsOf(m) :
            /\ t.id = r.id /\ t.box = r.box
            /\ t.uid = r.uid \/ (t.box = Here /\ t.uid = c.uid)
      \/ /\ RowsOf(m) = {} /\ OpsOf(m) = {} /\ \A b \in Boxes : In(m, b) => b = Here
         /\ \E x : RowsOf(m)' = {x} /\ x.box = Here /\ x.uid = c.uid
  BY <1>1, WritingRows
<1>4. OpsOf(m)' = OpsOf(m)
  BY <1>2 DEF OpsOf
<1> HIDE DEF c
<1>5. \A t \in RowsOf(m)' :
          \/ t.box = Here /\ t.uid = c.uid
          \/ \E r \in RowsOf(m) : t.box = r.box /\ t.uid = r.uid
  BY <1>3
<1>6. \/ \A t \in RowsOf(m)' : \E r \in RowsOf(m) : t.id = r.id /\ t.box = r.box
      \/ /\ OpsOf(m) = {} /\ \A b \in Boxes : In(m, b) => b = Here
         /\ \E x : RowsOf(m)' = {x} /\ x.box = Here
  BY <1>3
<1> QED
  BY <1>1, <1>2, <1>4, <1>5, <1>6 DEF c

LEMMA OneRowFrom ==
    ASSUME Shape', NEW m, \A t, u \in RowsOf(m)' : t.id = u.id
    PROVE  OneRow(m)'
BY DEF OneRow, RowsOf, Shape, RowsShape, Tidy

LEMMA ChainStep ==
    ASSUME Shape, Shape', Told, [Next]_vars, NEW m, m \notin touched' \cup blurred', Kept(m)
    PROVE  OneRow(m)' /\ Chain(m)'
<1> DEFINE S == OpsOf(m)
           R == RowsOf(m)
           B == {b \in Boxes : In(m, b)}
           C == {b \in Boxes : In(m, b)'}
<1>1. /\ OneCopy(m) /\ OneRow(m) /\ Named(m) /\ Chain(m)
      /\ Chained(S, R, B) /\ (Chain(m)' <=> Chained(OpsOf(m)', RowsOf(m)', C))
  BY DEF Kept, Chain
<1>2. S \subseteq Op /\ (\A o, p \in S : o.id = p.id => o = p) /\ S \subseteq ops
  BY DEF Shape, OpsShape, OpsOf
<1>3. \A r, t \in R : r = t
  BY <1>1 DEF OneRow
<1> HIDE DEF S, R, B, C
<1>4. CASE Moving(m)
  <2>1. PICK r \in R, op \in Op :
            /\ OpsOf(m)' = S \cup {op} /\ \A o \in ops : o.id < op.id
            /\ op.row = r.id /\ op.from = r.box /\ UNCHANGED server
            /\ \A t \in RowsOf(m)' : t.id = r.id /\ t.box = op.to
    BY <1>1, <1>4, MovingAfter DEF S, R
  <2>2. C \subseteq B
    BY <2>1 DEF B, C, In
  <2>3. Chained(S \cup {op}, RowsOf(m)', C)
    BY <1>1, <1>2, <2>1, <2>2, ChainedOwed
  <2> QED
    BY <1>1, <2>1, <2>3, OneRowFrom
<1>5. CASE Running(m)
  <2>1. PICK op \in ops : op.msg = m /\ RunOp(op)
    BY <1>5 DEF Running
  <2>2. op \in S /\ Oldest(op, S)
    BY <1>1, <2>1, RunsOldest DEF RunOp, S
  <2>3. \A b \in Boxes : In(m, b)' => b = op.to
    BY <1>1, <2>1, RunningCopies
  <2>4. OpsOf(m)' = S \ {op} /\ RowsOf(m)' = R
    BY <2>1 DEF RunOp, OpsOf, RowsOf, S, R
  <2>5. C \subseteq {op.to}
    BY <2>3 DEF C
  <2>6. \A t \in RowsOf(m)' : \E r \in R : t.id = r.id /\ t.box = r.box
    BY <2>4
  <2>7. Chained(S \ {op}, RowsOf(m)', C)
    BY <1>1, <1>2, <2>2, <2>5, <2>6, ChainedRun
  <2> QED
    BY <1>1, <1>3, <2>4, <2>7 DEF OneRow
<1>6. CASE Refusing(m)
  <2>1. PICK op \in S :
            /\ OpsOf(m)' = {} /\ UNCHANGED server
            /\ \A t \in RowsOf(m)' : t.id = op.row /\ t.box = op.from
            /\ \A b \in Boxes : In(m, b) => b = op.from
    BY <1>1, <1>6, RefusingAfter DEF S
  <2>2. \A b \in C : b = op.from
    BY <2>1 DEF C, In
  <2>3. Chained({}, RowsOf(m)', C)
    <3>1. \A t \in RowsOf(m)' : t.box = op.from
      BY <2>1
    <3> QED
      BY <2>2, <3>1 DEF Chained
  <2> QED
    BY <1>1, <2>1, <2>3, OneRowFrom
<1>7. CASE Writing(m)
  <2>1. /\ OpsOf(m)' = S /\ UNCHANGED server
        /\ \/ \A t \in RowsOf(m)' : \E r \in R : t.id = r.id /\ t.box = r.box
           \/ /\ S = {} /\ \A b \in Boxes : In(m, b) => b = Here
              /\ \E x : RowsOf(m)' = {x} /\ x.box = Here
    BY <1>7, WritingAfter DEF S, R
  <2>2. C \subseteq B
    BY <2>1 DEF B, C, In
  <2>3. CASE \A t \in RowsOf(m)' : \E r \in R : t.id = r.id /\ t.box = r.box
    <3>1. Chained(S, RowsOf(m)', C)
      BY <1>1, <2>2, <2>3, ChainedSub
    <3>2. \A t, u \in RowsOf(m)' : t.id = u.id
      BY <1>3, <2>3
    <3> QED
      BY <1>1, <2>1, <3>1, <3>2, OneRowFrom
  <2>4. CASE /\ S = {} /\ \A b \in Boxes : In(m, b) => b = Here
             /\ \E x : RowsOf(m)' = {x} /\ x.box = Here
    <3>1. \A b \in C : b = Here
      BY <2>1, <2>4 DEF C, In
    <3>2. Chained({}, RowsOf(m)', C)
      <4>1. \A t \in RowsOf(m)' : t.box = Here
        BY <2>4
      <4> HIDE DEF Here
      <4> QED
        BY <3>1, <4>1 DEF Chained
    <3> QED
      BY <1>1, <2>1, <2>4, <3>2 DEF OneRow
  <2> QED
    BY <2>1, <2>3, <2>4
<1>8. CASE ~ Moving(m) /\ ~ Running(m) /\ ~ Refusing(m) /\ ~ Writing(m)
  <2>1. OpsOf(m)' = S
    BY <1>8, OpsCalm DEF S
  <2>2. \A t \in RowsOf(m)' : \E r \in R : t.id = r.id /\ t.box = r.box
    BY <1>8, RowsCalm DEF SubRows, R
  <2>3. C \subseteq B
    BY <1>1, <1>8, CopyStep DEF B, C
  <2>4. Chained(S, RowsOf(m)', C)
    BY <1>1, <2>2, <2>3, ChainedSub
  <2>5. \A t, u \in RowsOf(m)' : t.id = u.id
    BY <1>3, <2>2
  <2> QED
    BY <1>1, <2>1, <2>4, <2>5, OneRowFrom
<1> QED
  BY <1>4, <1>5, <1>6, <1>7, <1>8

(* The ops a step adds are the one of a move or a delete.                    *)
LEMMA OpsGrow ==
    ASSUME Shape, [Next]_vars, NEW m, m \notin blurred', Chain(m), ~ Moving(m)
    PROVE  OpsOf(m)' \subseteq OpsOf(m)
<1>1. CASE Running(m)
  BY <1>1 DEF Running, RunOp, OpsOf
<1>2. CASE Refusing(m)
  BY <1>2 DEF Refusing, Refuse, OpsOf
<1>3. CASE ~ Running(m) /\ ~ Refusing(m)
  BY <1>3, OpsCalm
<1> QED
  BY <1>1, <1>2, <1>3

(* The copy a move or a delete names is bound as its row is.                 *)
LEMMA CopyNamed ==
    ASSUME Shape, NEW m, OneRow(m), NEW r \in RowsOf(m), NEW copy, copy = ServerCopy(r),
           r.uid # Unbound => cursor[r.box] # None
    PROVE  /\ copy = None <=> r.uid = Unbound
           /\ copy # None => /\ copy.uid = r.uid /\ copy.siblings = {} /\ copy.validity # None
                             /\ cursor[r.box] # None /\ copy.validity = cursor[r.box].validity
<1>1. r \in rows /\ r.msg = m /\ r \in Row /\ r.box \in Boxes
  BY DEF Shape, RowsShape, Tidy, Row, RowsOf
<1>2. CASE r.uid = Unbound
  BY <1>2 DEF ServerCopy
<1>3. CASE r.uid # Unbound
  <2>1. cursor[r.box] # None /\ cursor[r.box] \in Cursor
    BY <1>1, <1>3 DEF Shape, CursorShape
  <2>2. cursor[r.box].validity # None
    BY <2>1, NoneAssumption DEF Cursor
  <2> DEFINE sib == {t.uid : t \in {t \in RowsIn(r.box) : t.msg = r.msg}} \ {r.uid, Unbound}
  <2>3. sib = {}
    <3>1. \A t \in RowsIn(r.box) : t.msg = r.msg => t = r
      BY <1>1 DEF OneRow, RowsOf, RowsIn
    <3> QED
      BY <3>1
  <2>4. copy = [uid |-> r.uid, validity |-> cursor[r.box].validity, siblings |-> sib]
    BY <1>3, <2>1 DEF ServerCopy
  <2>5. copy \in Name \cup {None} /\ (copy = None => r.uid = Unbound)
    BY <1>1, ServerCopyNamed DEF Shape
  <2> HIDE DEF sib
  <2> QED
    BY <1>3, <2>1, <2>2, <2>3, <2>4, <2>5
<1> QED
  BY <1>2, <1>3

LEMMA NamedStep ==
    ASSUME Shape, Told, [Next]_vars, NEW m, m \notin blurred', Kept(m)
    PROVE  Named(m)'
<1>1. OneRow(m) /\ Chain(m) /\ Named(m)
  BY DEF Kept
<1> SUFFICES ASSUME NEW o \in OpsOf(m)', o.copy # None
             PROVE  /\ o.copy.siblings = {} /\ o.copy.validity # None
                    /\ cursor'[o.from] # None /\ o.copy.validity <= cursor'[o.from].validity
  BY DEF Named
<1>2. CASE o \in OpsOf(m)
  <2>1. /\ o.copy.siblings = {} /\ o.copy.validity # None
        /\ cursor[o.from] # None /\ o.copy.validity <= cursor[o.from].validity
    BY <1>1, <1>2 DEF Named
  <2>2. o \in Op /\ o.copy \in Name /\ o.copy.validity \in Nat /\ o.from \in Boxes
    BY <1>2, <2>1 DEF Shape, OpsShape, OpsOf, Op, Name
  <2>3. /\ cursor'[o.from] # None /\ cursor[o.from].validity <= cursor'[o.from].validity
        /\ cursor[o.from] \in Cursor
    BY <2>1, <2>2, CursorOnward DEF Shape, CursorShape
  <2>4. cursor'[o.from].validity \in Nat /\ cursor[o.from].validity \in Nat
    BY <2>2, <2>3, CursorStep DEF CursorShape, Cursor
  <2> QED
    BY <2>1, <2>2, <2>3, <2>4
<1>3. CASE o \notin OpsOf(m)
  <2>1. Moving(m)
    BY <1>1, <1>3, OpsGrow
  <2>2. PICK r \in RowsOf(m), op \in Op :
            /\ OpsOf(m)' = OpsOf(m) \cup {op} /\ op.from = r.box /\ op.copy = ServerCopy(r)
            /\ r.uid # Unbound => cursor[r.box] # None
            /\ UNCHANGED cursor
    BY <1>1, <2>1, MovingAfter
  <2>3. o = op
    BY <1>3, <2>2
  <2>4. /\ op.copy.siblings = {} /\ op.copy.validity # None
        /\ cursor[r.box] # None /\ op.copy.validity = cursor[r.box].validity
    BY <1>1, <2>2, <2>3, CopyNamed
  <2>5. cursor[r.box].validity \in Nat
    <3>1. r.box \in Boxes
      BY DEF Shape, RowsShape, Tidy, Row, RowsOf
    <3> QED
      BY <2>4, <3>1 DEF Shape, CursorShape, Cursor
  <2> QED
    BY <2>2, <2>3, <2>4, <2>5
<1> QED
  BY <1>2, <1>3

-----------------------------------------------------------------------------
(* A bound UID, a row's or an op's, is the message's own.                    *)

(* A UIDVALIDITY a mailbox has had, and has, it had.                         *)
LEMMA SameNumbering ==
    ASSUME Shape, [Next]_vars, NEW b \in Boxes, NEW v \in Nat, v <= server[b].validity,
           v = server'[b].validity
    PROVE  v = server[b].validity /\ server'[b].validity = server[b].validity
<1>1. server[b].validity \in Nat /\ server'[b].validity \in Nat /\ server[b].validity <= server'[b].validity
  BY ServerStep DEF Shape, ServerShape, Mailbox
<1> QED
  BY <1>1

(* The refused op named a copy under the UIDVALIDITY its mailbox still has.  *)
LEMMA RefusedNamed ==
    ASSUME ~ StaleRollbacks, Shape, NEW m, Named(m), NEW op \in OpsOf(m), Refuse(op), op.uid # Unbound
    PROVE  /\ op \in Op /\ op.copy # None /\ op.copy.uid = op.uid
           /\ op.copy.validity = server[op.from].validity
           /\ cursor[op.from] # None /\ op.copy.validity = cursor[op.from].validity
<1>1. op \in ops /\ op \in Op /\ op.from \in Boxes
  BY DEF Shape, OpsShape, Op, OpsOf
<1>2. op.copy # None /\ op.copy.uid = op.uid
  BY <1>1 DEF Shape, OpsShape
<1>3. op.copy.validity # None /\ cursor[op.from] # None /\ op.copy.validity <= cursor[op.from].validity
  BY <1>2 DEF Named
<1>4. SameValidity(op)
  BY <1>2 DEF Refuse
<1>5. op.copy.validity = server[op.from].validity
  BY <1>3, <1>4 DEF SameValidity
<1>6. /\ cursor[op.from] \in Cursor /\ cursor[op.from].validity <= server[op.from].validity
      /\ server[op.from].validity \in Nat
  BY <1>1, <1>3 DEF Shape, CursorShape, ServerShape, Mailbox
<1>7. cursor[op.from].validity \in Nat
  BY <1>6 DEF Cursor
<1> QED
  BY <1>1, <1>2, <1>3, <1>5, <1>6, <1>7

(* What the pass is ingesting is true, if the numbering is the one it listed. *)
LEMMA GotTrue ==
    ASSUME Shape, Told, pass.at = "ingest", NEW c \in Got.msgs, Got.validity = server[Here].validity
    PROVE  Its(Here, c.uid, c.msg)
BY IngestingUnread DEF Told, AnswersTrue

LEMMA RowTrueStep ==
    ASSUME ~ StaleRollbacks, Shape, Told, [Next]_vars, NEW m, m \notin blurred', Kept(m)
    PROVE  RowTrue(m)'
<1>1. /\ OneRow(m) /\ Chain(m) /\ Named(m) /\ RowTrue(m) /\ OpsTrue(m) /\ BoundNow(m)
  BY DEF Kept
<1> SUFFICES ASSUME NEW t \in RowsOf(m)', t.uid # Unbound, cursor'[t.box] # None,
                    cursor'[t.box].validity = server'[t.box].validity
             PROVE  Its(t.box, t.uid, m)'
  BY DEF RowTrue
<1>2. t.box \in Boxes /\ t.uid \in Nat
  BY RowsStep DEF RowsShape, Tidy, Row, RowsOf
<1>3. ~ Moving(m)
  BY <1>1, MovingAfter
<1>4. CASE Refusing(m)
  <2>1. PICK op \in OpsOf(m) :
            /\ Refuse(op) /\ \A x \in RowsOf(m)' : x.id = op.row /\ x.box = op.from /\ x.uid = op.uid
            /\ UNCHANGED <<server, cursor, pass>>
    BY <1>1, <1>4, RefusingAfter
  <2>2. t.box = op.from /\ t.uid = op.uid
    BY <2>1
  <2>3. /\ op.copy # None /\ op.copy.uid = op.uid /\ op.copy.validity = server[op.from].validity
    BY <1>1, <2>1, <2>2, RefusedNamed
  <2>4. Its(t.box, t.uid, m)
    BY <1>1, <2>2, <2>3 DEF OpsTrue
  <2> QED
    BY <2>1, <2>4 DEF Its
<1>5. CASE Writing(m)
  <2>1. PICK c \in pass.todo :
              /\ c.msg = m /\ Ingest /\ UNCHANGED <<server, cursor>>
              /\ \A x \in RowsOf(m)' :
                    \/ x.box = Here /\ x.uid = c.uid
                    \/ \E r \in RowsOf(m) : x.box = r.box /\ x.uid = r.uid
    BY <1>5, WritingAfter
  <2>2. CASE \E r \in RowsOf(m) : t.box = r.box /\ t.uid = r.uid
    <3>1. Its(t.box, t.uid, m)
      BY <1>1, <2>1, <2>2 DEF RowTrue
    <3> QED
      BY <2>1, <3>1 DEF Its
  <2>3. CASE t.box = Here /\ t.uid = c.uid
    <3>1. pass.at = "ingest"
      BY <2>1 DEF Ingest
    <3>2. /\ Unread(Here) /\ pass.got[Here] = Got /\ Got.validity \in Nat /\ Here \in Boxes
          /\ Got.validity <= server[Here].validity /\ c \in Got.msgs
      BY <2>1, <3>1, IngestingUnread
    <3>3. cursor[Here].validity <= Got.validity /\ cursor[Here].validity = server[Here].validity
      BY <2>1, <2>3, <3>2 DEF Told, ResetsKnown
    <3>4. Got.validity = server[Here].validity
      <4>1. server[Here].validity \in Nat
        BY <3>2 DEF Shape, ServerShape, Mailbox
      <4> QED
        BY <3>2, <3>3, <4>1
    <3>5. Its(Here, c.uid, c.msg)
      BY <3>1, <3>2, <3>4, GotTrue
    <3> QED
      BY <2>1, <2>3, <3>5 DEF Its
  <2> QED
    BY <2>1, <2>2, <2>3
<1>6. CASE FinishTarget
  <2>1. UNCHANGED server /\ rows' = UnboundRows /\ pass.at = "ingest"
        /\ blurred' = blurred \cup {r.msg : r \in LeftBound}
    BY <1>6 DEF FinishTarget
  <2>2. PICK r \in rows : t = IF Got.reset /\ r.box = Here /\ r.uid \in Got.listed \ pass.uids
                              THEN [r EXCEPT !.uid = Unbound] ELSE r
    BY <2>1 DEF UnboundRows, RowsOf
  <2>3. r \in Row
    BY DEF Shape, RowsShape, Tidy
  <2>4. t = r /\ ~ (Got.reset /\ r.box = Here /\ r.uid \in Got.listed \ pass.uids)
    BY <2>2, <2>3, UnboundRow
  <2>5. t \in RowsOf(m)
    BY <2>4 DEF RowsOf
  <2>6. CASE t.box # Here
    <3>1. cursor'[t.box] = cursor[t.box]
      BY <1>2, <1>6, <2>6, FinishCursor
    <3>2. Its(t.box, t.uid, m)
      BY <1>1, <2>1, <2>5, <3>1 DEF RowTrue
    <3> QED
      BY <2>1, <3>2 DEF Its
  <2>7. CASE t.box = Here
    <3>1. /\ Unread(Here) /\ pass.got[Here] = Got /\ Got.validity = server[Here].validity /\ Here \in Boxes
      BY <1>6, <2>1, <2>7, FinishCursor, IngestingUnread
    <3>2. Got.reset <=> cursor[Here] # None /\ cursor[Here].validity # Got.validity
      BY <3>1 DEF Told, ResetsKnown
    <3>3. ASSUME [uid |-> t.uid, msg |-> m] \in Got.msgs PROVE Its(t.box, t.uid, m)
      <4> DEFINE c == [uid |-> t.uid, msg |-> m]
      <4>1. Its(Here, c.uid, c.msg)
        BY <2>1, <3>1, <3>3, GotTrue
      <4> QED
        BY <2>7, <4>1
    <3>4. Its(t.box, t.uid, m)
      <4>1. CASE cursor[Here] = None
        BY <1>1, <2>5, <2>7, <3>3, <4>1 DEF BoundNow
      <4>2. CASE cursor[Here] # None /\ ~ Got.reset
        BY <1>1, <2>5, <2>7, <3>1, <3>2, <4>2 DEF RowTrue
      <4>3. CASE Got.reset
        <5>1. t.uid \in pass.uids
          <6>1. SUFFICES ASSUME t.uid \notin pass.uids PROVE FALSE
            OBVIOUS
          <6>2. t \in LeftBound
            BY <2>4, <2>7, <4>3, <6>1 DEF LeftBound, RowsIn
          <6>3. t.msg = m
            BY <2>5 DEF RowsOf
          <6> QED
            BY <2>1, <6>2, <6>3
        <5> QED
          BY <1>1, <2>1, <2>5, <2>7, <3>3, <4>3, <5>1 DEF BoundNow, Ingesting
      <4> QED
        BY <4>1, <4>2, <4>3
    <3> QED
      BY <2>1, <3>4 DEF Its
  <2> QED
    BY <2>6, <2>7
<1>7. CASE ~ Refusing(m) /\ ~ Writing(m) /\ ~ FinishTarget
  <2>1. PICK r \in RowsOf(m) : t.id = r.id /\ t.box = r.box /\ t.uid \in {r.uid, Unbound}
    BY <1>3, <1>7, RowsCalm DEF SubRows
  <2>2. cursor[t.box] # None /\ cursor[t.box].validity = server'[t.box].validity
    BY <1>7, CursorMoves
  <2>3. cursor[t.box].validity \in Nat /\ cursor[t.box].validity <= server[t.box].validity
    BY <1>2, <2>2 DEF Shape, CursorShape, Cursor
  <2>4. cursor[t.box].validity = server[t.box].validity /\ server'[t.box].validity = server[t.box].validity
    BY <1>2, <2>2, <2>3, SameNumbering
  <2>5. Its(t.box, t.uid, m)
    BY <1>1, <2>1, <2>2, <2>4 DEF RowTrue
  <2> QED
    BY <1>2, <2>4, <2>5, ItsStays
<1> QED
  BY <1>4, <1>5, <1>6, <1>7

LEMMA OpsTrueStep ==
    ASSUME Shape, Told, [Next]_vars, NEW m, m \notin blurred', Kept(m)
    PROVE  OpsTrue(m)'
<1>1. OneRow(m) /\ Chain(m) /\ Named(m) /\ RowTrue(m) /\ OpsTrue(m)
  BY DEF Kept
<1> SUFFICES ASSUME NEW o \in OpsOf(m)', o.copy # None, o.copy.validity = server'[o.from].validity
             PROVE  Its(o.from, o.copy.uid, m)'
  BY DEF OpsTrue
<1>2. CASE o \in OpsOf(m)
  <2>1. o.copy.validity # None /\ o \in ops /\ o \in Op
    BY <1>1, <1>2 DEF Named, Shape, OpsShape, OpsOf
  <2>2. /\ o.from \in Boxes /\ o.copy.validity \in Nat /\ o.copy.uid \in Nat
        /\ o.copy.validity <= server[o.from].validity
    BY <2>1 DEF Shape, OpsShape, Op, Name
  <2>3. o.copy.validity = server[o.from].validity /\ server'[o.from].validity = server[o.from].validity
    BY <2>2, SameNumbering
  <2>4. Its(o.from, o.copy.uid, m)
    BY <1>1, <1>2, <2>3 DEF OpsTrue
  <2> QED
    BY <2>2, <2>3, <2>4, ItsStays
<1>3. CASE o \notin OpsOf(m)
  <2>1. Moving(m)
    BY <1>1, <1>3, OpsGrow
  <2>2. PICK r \in RowsOf(m), op \in Op :
            /\ OpsOf(m)' = OpsOf(m) \cup {op} /\ op.from = r.box /\ op.copy = ServerCopy(r)
            /\ r.uid # Unbound => cursor[r.box] # None
            /\ UNCHANGED <<server, cursor>>
    BY <1>1, <2>1, MovingAfter
  <2>3. o = op
    BY <1>3, <2>2
  <2>4. /\ op.copy.uid = r.uid /\ r.uid # Unbound
        /\ cursor[r.box] # None /\ op.copy.validity = cursor[r.box].validity
    BY <1>1, <2>2, <2>3, CopyNamed
  <2>5. Its(r.box, r.uid, m)
    BY <1>1, <2>2, <2>3, <2>4 DEF RowTrue
  <2> QED
    BY <2>2, <2>3, <2>4, <2>5 DEF Its
<1> QED
  BY <1>2, <1>3

LEMMA BoundNowStep ==
    ASSUME ~ StaleRollbacks, Shape, Shape', Told, Told', [Next]_vars, NEW m, m \notin blurred', Kept(m)
    PROVE  BoundNow(m)'
<1>1. /\ OneRow(m) /\ Chain(m) /\ Named(m) /\ BoundNow(m)
  BY DEF Kept
<1> SUFFICES ASSUME NEW t \in RowsOf(m)', t.uid # Unbound
             PROVE  /\ cursor'[t.box] = None =>
                          Ingesting(t.box)' /\ [uid |-> t.uid, msg |-> m] \in Got'.msgs
                    /\ Ingesting(t.box)' /\ Got'.reset /\ t.uid \in pass'.uids =>
                          [uid |-> t.uid, msg |-> m] \in Got'.msgs
  <2>1. pass'.at = "ingest" => Unbound \notin pass'.uids
    <3> SUFFICES ASSUME pass'.at = "ingest" PROVE Unbound \notin pass'.uids
      OBVIOUS
    <3>1. /\ pass'.next \in 1..Len(Targets) /\ pass' \in Pass /\ Got' # Failed
          /\ \A b \in Boxes : pass'.got[b] # None
      BY TargetsAssumption DEF Shape, PassShape
    <3>2. Here' \in Boxes /\ pass'.uids \subseteq Got'.listed
      BY <3>1, HereIsABox DEF Here, Told, UidsListed
    <3>3. Got' \in Answer
      BY <3>1, <3>2 DEF Got, Pass
    <3>4. Got'.listed \subseteq Nat \ {0}
      BY <3>3 DEF Answer
    <3> QED
      BY <3>2, <3>4 DEF Unbound
  <2> QED
    BY <2>1 DEF BoundNow, Ingesting
<1>2. t.box \in Boxes
  BY RowsStep DEF RowsShape, Tidy, Row, RowsOf
<1>3. ~ Moving(m)
  BY <1>1, MovingAfter
<1>4. cursor'[t.box] = None => cursor[t.box] = None
  BY <1>2, CursorOnward
<1>5. CASE Refusing(m)
  <2>1. PICK op \in OpsOf(m) :
            /\ Refuse(op) /\ \A x \in RowsOf(m)' : x.id = op.row /\ x.box = op.from /\ x.uid = op.uid
            /\ UNCHANGED <<server, cursor, pass>>
    BY <1>1, <1>5, RefusingAfter
  <2>2. t.box = op.from /\ t.uid = op.uid
    BY <2>1
  <2>3. /\ op.copy.validity = server[t.box].validity
        /\ cursor[t.box] # None /\ op.copy.validity = cursor[t.box].validity
    BY <1>1, <2>1, <2>2, RefusedNamed
  <2>4. ASSUME Ingesting(t.box) PROVE ~ Got.reset
    <3>1. /\ Unread(Here) /\ pass.got[Here] = Got /\ Got.validity \in Nat
          /\ Got.validity <= server[Here].validity /\ Here = t.box
      BY <2>4, IngestingUnread DEF Ingesting
    <3>2. /\ cursor[Here].validity <= Got.validity
          /\ Got.reset => cursor[Here].validity # Got.validity
      BY <1>2, <2>3, <3>1 DEF Told, ResetsKnown
    <3>3. server[Here].validity \in Nat
      BY <1>2, <3>1 DEF Shape, ServerShape, Mailbox
    <3>4. cursor[Here].validity = server[Here].validity
      BY <2>3, <3>1
    <3>5. cursor[Here].validity = Got.validity
      BY <3>1, <3>2, <3>3, <3>4
    <3> QED
      BY <3>2, <3>5
  <2>5. Ingesting(t.box)' = Ingesting(t.box) /\ Got' = Got
    BY <2>1 DEF Ingesting, Got, Here
  <2> QED
    BY <1>4, <2>3, <2>4, <2>5
<1>6. CASE Ingest
  <2> DEFINE c == Lowest(pass.todo)
  <2>1. /\ pass.at = "ingest" /\ c \in Got.msgs /\ c \in Copy
        /\ pass'.at = "ingest" /\ pass'.got = pass.got /\ pass'.next = pass.next
        /\ \/ /\ pass'.uids = pass.uids \cup {c.uid}
              /\ \E x \in rows' : x.box = Here /\ x.uid = c.uid /\ x.msg = c.msg
           \/ pass'.uids = pass.uids
    BY <1>6, IngestDoes
  <2>2. Got' = Got /\ Here' = Here /\ (Ingesting(t.box)' <=> Ingesting(t.box))
    BY <2>1 DEF Ingesting, Got, Here
  <2>3. ASSUME NEW r \in RowsOf(m), t.box = r.box, t.uid = r.uid, t.uid \in pass'.uids => t.uid \in pass.uids
        PROVE  /\ cursor'[t.box] = None =>
                     Ingesting(t.box)' /\ [uid |-> t.uid, msg |-> m] \in Got'.msgs
               /\ Ingesting(t.box)' /\ Got'.reset /\ t.uid \in pass'.uids =>
                     [uid |-> t.uid, msg |-> m] \in Got'.msgs
    BY <1>1, <1>4, <2>2, <2>3 DEF BoundNow
  <2>4. CASE Writing(m)
    <3>1. c.msg = m
      BY <2>4 DEF Writing
    <3>2. \/ t.box = Here /\ t.uid = c.uid
          \/ \E r \in RowsOf(m) : t.box = r.box /\ t.uid = r.uid
      BY <2>4, WritingAfter
    <3>3. CASE t.uid = c.uid
      <4>1. [uid |-> t.uid, msg |-> m] = c
        BY <2>1, <3>1, <3>3 DEF Copy
      <4> HIDE DEF c
      <4>2. [uid |-> t.uid, msg |-> m] \in Got'.msgs
        BY <2>1, <2>2, <4>1
      <4>3. cursor'[t.box] = None => Ingesting(t.box)'
        <5>1. CASE t.box = Here
          BY <2>1, <2>2, <5>1 DEF Ingesting
        <5>2. ASSUME NEW r \in RowsOf(m), t.box = r.box, t.uid = r.uid
              PROVE  cursor'[t.box] = None => Ingesting(t.box)'
          BY <1>1, <1>4, <2>2, <5>2 DEF BoundNow
        <5> QED
          BY <3>2, <5>1, <5>2
      <4> QED
        BY <4>2, <4>3
    <3>4. CASE t.uid # c.uid
      <4>1. t.uid \in pass'.uids => t.uid \in pass.uids
        BY <2>1, <3>4
      <4> QED
        BY <2>3, <3>2, <3>4, <4>1
    <3> QED
      BY <3>3, <3>4
  <2>5. CASE ~ Writing(m)
    <3>1. PICK r \in RowsOf(m) : t.box = r.box /\ t.uid = r.uid
      <4>1. ~ Refusing(m)
        BY <1>6 DEF Refusing, Refuse, Ingest
      <4> QED
        BY <1>3, <2>5, <4>1, RowsCalm DEF SubRows
    <3>2. c.msg # m
      BY <1>6, <2>5 DEF Writing
    <3> HIDE DEF c
    <3>3. CASE t.uid \in pass'.uids => t.uid \in pass.uids
      BY <2>3, <3>1, <3>3
    <3>4. CASE t.box # Here
      <4>1. ~ Ingesting(t.box)
        BY <3>4 DEF Ingesting
      <4> QED
        BY <1>1, <1>4, <2>2, <3>1, <4>1 DEF BoundNow
    <3>5. CASE t.box = Here /\ t.uid \in pass'.uids /\ t.uid \notin pass.uids
      <4>1. t.uid = c.uid
        BY <2>1, <3>5
      <4>2. PICK x \in rows' : x.box = Here /\ x.uid = c.uid /\ x.msg = c.msg
        BY <2>1, <3>5
      <4>3. x = t
        BY <3>5, <4>1, <4>2 DEF Shape, RowsShape, Tidy, RowsOf
      <4> QED
        BY <3>2, <4>2, <4>3 DEF RowsOf
    <3> QED
      BY <3>3, <3>4, <3>5
  <2> QED
    BY <2>4, <2>5
<1>7. CASE ~ Refusing(m) /\ ~ Ingest
  <2>1. PICK r \in RowsOf(m) : t.box = r.box /\ t.uid = r.uid
    <3>1. ~ Writing(m)
      BY <1>7 DEF Writing
    <3> QED
      BY <1>3, <1>7, <3>1, RowsCalm DEF SubRows
  <2>2. CASE Resumes /\ pass'.uids = pass.uids
    <3>1. Got' = Got /\ (Ingesting(t.box)' <=> Ingesting(t.box))
      BY <2>2 DEF Resumes, Ingesting, Got, Here
    <3> QED
      BY <1>1, <1>4, <2>1, <2>2, <3>1 DEF BoundNow
  <2>3. CASE pass.at # "ingest"
    <3>1. cursor'[t.box] # None
      BY <1>1, <1>4, <2>1, <2>3 DEF BoundNow, Ingesting
    <3>2. CASE StartTarget
      <4>1. pass'.got = pass.got /\ pass'.next = pass.next
            /\ pass'.uids = IF Got.reset \/ ~Got.complete THEN {} ELSE Got.listed
        BY <3>2, TargetDoes
      <4>2. Got' = Got
        BY <4>1 DEF Got, Here
      <4> QED
        BY <3>1, <4>1, <4>2
    <3>3. CASE Rests \/ ReadStore \/ AllFetched \/ SkipTarget \/ \E b \in Boxes : Fetch(b)
      <4>1. pass'.at # "ingest"
        BY <3>3, ReadStoreDoes, TargetDoes, FetchDoes DEF Rests
      <4> QED
        BY <3>1, <4>1 DEF Ingesting
    <3>4. CASE Resumes
      <4>1. pass'.at # "ingest"
        BY <2>3, <3>4 DEF Resumes
      <4> QED
        BY <3>1, <4>1 DEF Ingesting
    <3>5. ~ FinishTarget
      BY <2>3 DEF FinishTarget
    <3> QED
      BY <3>2, <3>3, <3>4, <3>5, PassMoves
  <2>4. CASE FinishTarget
    <3>1. pass'.at # "ingest" /\ pass.at = "ingest"
      BY <2>4, TargetDoes
    <3>2. cursor'[t.box] # None
      <4>1. CASE t.box = Here
        BY <2>4, <4>1, FinishCursor
      <4>2. CASE t.box # Here
        BY <1>1, <1>4, <2>1, <4>2 DEF BoundNow, Ingesting
      <4> QED
        BY <4>1, <4>2
    <3> QED
      BY <3>1, <3>2 DEF Ingesting
  <2>5. pass.at = "ingest" => FinishTarget \/ (Resumes /\ pass'.uids = pass.uids)
    BY <1>7, PassMoves, ReadStoreDoes, TargetDoes, FetchDoes DEF Rests
  <2> QED
    BY <2>2, <2>3, <2>4, <2>5
<1> QED
  BY <1>5, <1>6, <1>7

-----------------------------------------------------------------------------
(* What a pass has listed of a message is gone, or nothing of it has moved.  *)

(* A departure the watch has heard of, it has heard of for good.             *)
LEMMA GoneStays ==
    ASSUME Shape, [Next]_vars, NEW b \in Boxes, ~ Fetch(b), HasAnswer(b)', NEW c, Gone(b, c)
    PROVE  Gone(b, c)'
<1>1. pass'.got[b] = pass.got[b] /\ pass.watch \subseteq pass'.watch
  BY AnswersOnward
<1>2. PICK l \in pass.watch : l.msg = c.msg /\ l.from = b /\ DepartsIn(pass.got[b], l.copy, c.uid)
  BY DEF Gone
<1>3. l \in pass'.watch /\ DepartsIn(pass'.got[b], l.copy, c.uid)
  BY <1>1, <1>2
<1> QED
  BY <1>2, <1>3 DEF Gone

(* The user moves or deletes the row of a message a pass has listed.         *)
LEMMA MovingIsGone ==
    ASSUME Shape, Told, [Next]_vars, NEW m, m \notin blurred', Kept(m), Moving(m),
           NEW b \in Boxes, Unread(b), NEW c, c.msg = m, Still(b, c)
    PROVE  Gone(b, c)'
<1>1. OneRow(m)
  BY DEF Kept
<1>2. PICK r \in RowsOf(m), op \in Op :
          /\ op.msg = m /\ op.from = r.box /\ op.copy = ServerCopy(r) /\ pass' = Record(op)
          /\ r.uid # Unbound => cursor[r.box] # None
  BY <1>1, MovingAfter
<1>3. r.box = b /\ Tells(b, c, r)
  BY <1>2 DEF Still
<1>4. pass \in Pass /\ pass.at # "idle"
  BY DEF Shape, PassShape, Unread
<1>5. pass' = [pass EXCEPT !.watch = @ \cup {Leaving(op)}]
  BY <1>2, <1>4 DEF Record
<1>6. Leaving(op) \in pass'.watch /\ pass'.got = pass.got
  BY <1>4, <1>5 DEF Pass
<1>7. DepartsIn(pass.got[b], op.copy, c.uid)
  <2> DEFINE copy == ServerCopy(r)
             g == pass.got[b]
  <2>1. /\ copy = None <=> r.uid = Unbound
        /\ copy # None => /\ copy.uid = r.uid /\ copy.siblings = {} /\ copy.validity # None
                          /\ cursor[r.box] # None /\ copy.validity = cursor[r.box].validity
    BY <1>1, <1>2, CopyNamed
  <2>2. g.reset => cursor[b] # None /\ cursor[b].validity # g.validity
    BY DEF Told, ResetsKnown
  <2>3. copy = None \/ copy.uid = c.uid \/ g.reset \/ (g.complete /\ copy.uid \notin g.listed)
    BY <1>3, <2>1 DEF Tells
  <2> HIDE DEF copy, g
  <2>4. DepartsIn(g, copy, c.uid)
    BY <1>3, <2>1, <2>2, <2>3 DEF DepartsIn
  <2> QED
    BY <1>2, <2>4 DEF copy, g
<1>8. Leaving(op).msg = c.msg /\ Leaving(op).from = b /\ Leaving(op).copy = op.copy
  BY <1>2, <1>3 DEF Leaving
<1> QED
  BY <1>6, <1>7, <1>8 DEF Gone

(* A pass writes a message it has listed in two mailboxes once: what it      *)
(* listed in the other one departed, and is withheld.                        *)
LEMMA WritingWithholds ==
    ASSUME Shape, Told, [Next]_vars, NEW m, Kept(m), Writing(m), NEW b \in Boxes, ~ Fetch(b),
           NEW c, c \in Awaited(b)', c \in Awaited(b), c.msg = m, Still(b, c), ~ Gone(b, c)
    PROVE  UNCHANGED <<server, rows, ops>>
<1> DEFINE d == Lowest(pass.todo)
<1>1. d.msg = m /\ Ingest
  BY DEF Writing
<1>2. /\ pass.at = "ingest" /\ d \in pass.todo /\ d \in Got.msgs /\ IngestInTx(d)
      /\ pass'.at = "ingest" /\ pass'.got = pass.got /\ pass'.next = pass.next
      /\ pass'.todo = pass.todo \ {d} /\ UNCHANGED <<server, ops>>
  BY <1>1, IngestDoes
<1>3. /\ Here \in Boxes /\ HasAnswer(Here) /\ pass.got[Here] = Got /\ d \in Awaited(Here)
  BY <1>2, IngestingUnread
<1> HIDE DEF d
<1>4. b # Here
  <2> SUFFICES ASSUME b = Here PROVE FALSE
    OBVIOUS
  <2>1. c \in Got.msgs
    BY <1>3 DEF Awaited
  <2>2. c = d
    BY <1>1, <1>2, <1>3, <2>1 DEF Kept, GotOne
  <2>3. c \in pass'.todo
    BY <1>2 DEF Awaited, Ingesting, Here
  <2> QED
    BY <1>2, <2>2, <2>3
<1>5. Gone(Here, d)
  BY <1>1, <1>3, <1>4 DEF Kept, SeenOnce
<1>6. Departed(d)
  BY <1>3, <1>5 DEF Gone, Departed, DepartsIn, Departs
<1>7. \A r \in RowsOf(m) : r.box = b
  BY DEF Still
<1>8. Own(d) = {}
  BY <1>1, <1>4, <1>7 DEF Own, RowsIn, RowsOf
<1>9. Rebindable(d) = {}
  <2>1. RowsShape
    BY DEF Shape
  <2>2. \A p \in Parked(d) : \E r \in rows : r.id = p.id /\ r.box = p.box /\ r.msg = p.msg
    BY <2>1, ParkedTidy
  <2> QED
    BY <1>1, <1>4, <1>7, <2>2 DEF Rebindable, RowsOf
<1>10. UNCHANGED rows
  BY <1>2, <1>6, <1>8, <1>9 DEF IngestInTx
<1> QED
  BY <1>2, <1>10

(* A pass lists a message: its departure is owed, or nothing of it moves.    *)
LEMMA FetchedIsSeen ==
    ASSUME Shape, Told, [Next]_vars, NEW m, m \notin blurred', Kept(m), NEW b \in Boxes, Fetch(b),
           NEW c \in Awaited(b)', c.msg = m
    PROVE  Gone(b, c)' \/ Still(b, c)'
<1> DEFINE g == pass'.got[b]
<1>1. /\ OneCopy(m) /\ OneRow(m) /\ Chain(m) /\ Named(m) /\ RowTrue(m) /\ OpsTrue(m) /\ BoundNow(m)
  BY DEF Kept
<1>2. HasAnswer(b)' /\ c \in g.msgs
  BY DEF Awaited, Unread
<1>3. /\ pass.at = "fetch" /\ pass'.watch = pass.watch /\ UNCHANGED <<server, rows, cursor, ops>>
      /\ g.validity = server[b].validity
      /\ g.reset <=> cursor[b] # None /\ cursor[b].validity # server[b].validity
      /\ g.listed \subseteq UidsOf(server[b].copies) /\ g.msgs \subseteq server[b].copies
      /\ g.complete
  BY <1>2, FetchDoes DEF Answers
<1> HIDE DEF g
<1>4. c \in server[b].copies /\ In(m, b)
  BY <1>2, <1>3 DEF In
<1>5. ASSUME NEW u \in g.listed, Its(b, u, m) PROVE u = c.uid
  <2>1. PICK d \in server[b].copies : d.uid = u
    BY <1>3 DEF UidsOf
  <2>2. d.msg = m
    BY <1>5, <2>1 DEF Its
  <2> QED
    BY <1>1, <1>4, <2>1, <2>2 DEF OneCopy
<1>6. CASE OpsOf(m) # {}
  <2>1. PICK o \in OpsOf(m) : Oldest(o, OpsOf(m))
    BY <1>6, OldestOf
  <2>2. o.from = b /\ o \in ops /\ o.msg = m
    BY <1>1, <1>4, <2>1 DEF Chain, Chained, OpsOf
  <2>3. Leaving(o) \in pass'.watch
    BY <1>3, <2>2 DEF Told, Watching
  <2>4. DepartsIn(g, o.copy, c.uid)
    <3>1. CASE o.copy = None
      BY <3>1 DEF DepartsIn
    <3>2. CASE o.copy # None
      <4>1. /\ o.copy.siblings = {} /\ o.copy.validity # None
            /\ cursor[b] # None /\ o.copy.validity <= cursor[b].validity
        BY <1>1, <2>2, <3>2 DEF Named, OpsOf
      <4>2. CASE o.copy.validity # server[b].validity
        BY <1>3, <3>2, <4>1, <4>2 DEF DepartsIn
      <4>3. CASE o.copy.validity = server[b].validity
        <5>1. Its(b, o.copy.uid, m)
          BY <1>1, <2>1, <2>2, <3>2, <4>3 DEF OpsTrue
        <5>2. ~ g.reset
          <6>1. /\ cursor[b] \in Cursor /\ cursor[b].validity <= server[b].validity
                /\ server[b].validity \in Nat
            BY <4>1 DEF Shape, CursorShape, ServerShape, Mailbox
          <6>2. cursor[b].validity \in Nat
            BY <6>1 DEF Cursor
          <6>3. cursor[b].validity = server[b].validity
            BY <4>1, <4>3, <6>1, <6>2
          <6> QED
            BY <1>3, <6>3
        <5>3. CASE o.copy.uid = c.uid
          BY <3>2, <5>3 DEF DepartsIn
        <5>4. CASE o.copy.uid \notin g.listed
          BY <1>3, <3>2, <4>1, <5>2, <5>4 DEF DepartsIn
        <5> QED
          BY <1>5, <5>1, <5>3, <5>4
      <4> QED
        BY <4>2, <4>3
    <3> QED
      BY <3>1, <3>2
  <2>5. Leaving(o).msg = c.msg /\ Leaving(o).from = b /\ Leaving(o).copy = o.copy
    BY <2>2 DEF Leaving
  <2> QED
    BY <2>3, <2>4, <2>5 DEF Gone, g
<1>7. CASE OpsOf(m) = {}
  <2>1. \A a \in Boxes : In(m, a) => a = b
    BY <1>1, <1>4 DEF OneCopy, In
  <2>2. ASSUME NEW r \in RowsOf(m) PROVE r.box = b /\ Tells(b, c, r)'
    <3>1. r.box = b
      BY <1>1, <1>4, <1>7 DEF Chain, Chained
    <3>2. CASE r.uid # Unbound /\ ~ g.reset /\ r.uid \in g.listed
      <4>1. cursor[b] # None /\ cursor[b].validity = server[b].validity
        BY <1>1, <1>3, <3>1, <3>2 DEF BoundNow, Ingesting
      <4>2. Its(b, r.uid, m)
        BY <1>1, <3>1, <3>2, <4>1 DEF RowTrue
      <4>3. r.uid = c.uid
        BY <1>5, <3>2, <4>2
      <4> QED
        BY <3>1, <4>3 DEF Tells
    <3> QED
      BY <1>3, <3>1, <3>2 DEF Tells, g
  <2>3. OpsOf(m)' = {} /\ RowsOf(m)' = RowsOf(m) /\ \A a \in Boxes : In(m, a)' <=> In(m, a)
    BY <1>3, <1>7 DEF OpsOf, RowsOf, In
  <2> QED
    BY <2>1, <2>2, <2>3 DEF Still
<1> QED
  BY <1>6, <1>7

LEMMA SeenStep ==
    ASSUME Shape, Told, [Next]_vars, NEW m, m \notin touched' \cup blurred', Kept(m)
    PROVE  Seen(m)'
<1>1. OneCopy(m) /\ OneRow(m) /\ Chain(m) /\ Named(m) /\ Seen(m)
  BY DEF Kept
<1> SUFFICES ASSUME NEW b \in Boxes, NEW c \in Awaited(b)', c.msg = m
             PROVE  Gone(b, c)' \/ Still(b, c)'
  BY DEF Seen
<1>2. Unread(b)' /\ HasAnswer(b)'
  BY DEF Awaited, Unread
<1>3. CASE Fetch(b)
  BY <1>3, FetchedIsSeen
<1>4. CASE ~ Fetch(b)
  <2>1. Unread(b) /\ c \in Awaited(b) /\ pass'.got[b] = pass.got[b]
    BY <1>2, <1>4, AnswersOnward
  <2>2. CASE Gone(b, c)
    BY <1>2, <1>4, <2>2, GoneStays
  <2>3. CASE ~ Gone(b, c)
    <3>1. Still(b, c)
      BY <1>1, <2>1, <2>3 DEF Seen
    <3>2. OpsOf(m) = {} /\ (\A r \in RowsOf(m) : r.box = b /\ Tells(b, c, r))
          /\ \A a \in Boxes : In(m, a) => a = b
      BY <3>1 DEF Still
    <3>3. CASE Moving(m)
      BY <2>1, <3>1, <3>3, MovingIsGone
    <3>4. ~ Running(m) /\ ~ Refusing(m)
      BY <3>2 DEF Running, Refusing, OpsOf
    <3>5. CASE Writing(m)
      <4>1. UNCHANGED <<server, rows, ops>>
        BY <1>4, <2>1, <2>3, <3>1, <3>5, WritingWithholds
      <4>2. OpsOf(m)' = OpsOf(m) /\ RowsOf(m)' = RowsOf(m) /\ \A a \in Boxes : In(m, a)' <=> In(m, a)
        BY <4>1 DEF OpsOf, RowsOf, In
      <4>3. \A r \in RowsOf(m) : Tells(b, c, r)'
        BY <2>1, <3>2 DEF Tells
      <4> QED
        BY <3>2, <4>2, <4>3 DEF Still
    <3>6. CASE ~ Moving(m) /\ ~ Writing(m)
      <4>1. OpsOf(m)' = {}
        BY <3>2, <3>4, <3>6, OpsCalm
      <4>2. \A a \in Boxes : In(m, a)' => a = b
        BY <1>1, <3>2, <3>4, CopyStep
      <4>3. ASSUME NEW t \in RowsOf(m)' PROVE t.box = b /\ Tells(b, c, t)'
        <5>1. PICK r \in RowsOf(m) : t.id = r.id /\ t.box = r.box /\ t.uid \in {r.uid, Unbound}
          BY <3>4, <3>6, RowsCalm DEF SubRows
        <5>2. r.box = b /\ Tells(b, c, r)
          BY <3>2, <5>1
        <5> QED
          BY <2>1, <5>1, <5>2 DEF Tells
      <4> QED
        BY <4>1, <4>2, <4>3 DEF Still
    <3> QED
      BY <3>3, <3>5, <3>6
  <2> QED
    BY <2>2, <2>3
<1> QED
  BY <1>3, <1>4

(* Of two mailboxes a pass listed a message in, it has departed from one.    *)
LEMMA ListedTwice ==
    ASSUME Shape, [Next]_vars, NEW m, Kept(m), NEW a \in Boxes, NEW b \in Boxes, a # b, Fetch(b),
           NEW c \in Awaited(a)', NEW d \in Awaited(b)', c.msg = m, d.msg = m
    PROVE  Gone(a, c)'
<1>1. HasAnswer(a)' /\ HasAnswer(b)' /\ Unread(a)' /\ d \in pass'.got[b].msgs
  BY DEF Awaited, Unread
<1>2. /\ pass'.got[a] = pass.got[a] /\ pass'.got[b].msgs \subseteq server[b].copies
  BY <1>1, FetchDoes DEF Answers
<1>3. ~ Fetch(a)
  BY <1>1, <1>2 DEF Fetch, HasAnswer
<1>4. c \in Awaited(a)
  BY <1>1, <1>3, AnswersOnward
<1>5. In(m, b)
  BY <1>1, <1>2 DEF In
<1>6. ~ Still(a, c)
  BY <1>5 DEF Still
<1>7. Gone(a, c)
  BY <1>4, <1>6 DEF Kept, Seen
<1> QED
  BY <1>1, <1>3, <1>7, GoneStays

LEMMA SeenOnceStep ==
    ASSUME Shape, [Next]_vars, NEW m, Kept(m)
    PROVE  SeenOnce(m)'
<1> SUFFICES ASSUME NEW a \in Boxes, NEW b \in Boxes, NEW c \in Awaited(a)', NEW d \in Awaited(b)',
                    c.msg = m, d.msg = m, a # b
             PROVE  Gone(a, c)' \/ Gone(b, d)'
  BY DEF SeenOnce
<1>1. CASE Fetch(a) \/ Fetch(b)
  BY <1>1, ListedTwice
<1>2. CASE ~ Fetch(a) /\ ~ Fetch(b)
  <2>1. HasAnswer(a)' /\ HasAnswer(b)' /\ Unread(a)' /\ Unread(b)'
    BY DEF Awaited, Unread
  <2>2. c \in Awaited(a) /\ d \in Awaited(b)
    BY <1>2, <2>1, AnswersOnward
  <2>3. Gone(a, c) \/ Gone(b, d)
    BY <2>2 DEF Kept, SeenOnce
  <2> QED
    BY <1>2, <2>1, <2>3, GoneStays
<1> QED
  BY <1>1, <1>2

LEMMA GotOneStep ==
    ASSUME Shape, [Next]_vars, NEW m, Kept(m)
    PROVE  GotOne(m)'
<1> SUFFICES ASSUME NEW b \in Boxes, HasAnswer(b)'
             PROVE  \A c, d \in pass'.got[b].msgs : c.msg = m /\ d.msg = m => c = d
  BY DEF GotOne
<1>1. CASE Fetch(b)
  BY <1>1, FetchDoes DEF Answers, Kept, OneCopy
<1>2. CASE ~ Fetch(b)
  BY <1>2, AnswersOnward DEF Kept, GotOne
<1> QED
  BY <1>1, <1>2

-----------------------------------------------------------------------------
(* It all holds at first, and always.                                        *)

LEMMA InitTold ==
    ASSUME Init PROVE Told
<1>1. \A b \in Boxes : pass.got[b] = None
  BY DEF Init, Idle
<1>2. \A b \in Boxes : ~ HasAnswer(b) /\ ~ Unread(b)
  BY <1>1 DEF HasAnswer, Unread
<1>3. pass.at = "idle"
  BY DEF Init, Idle
<1> QED
  BY <1>2, <1>3 DEF Told, AnswersTrue, ShortBlurs, ResetsKnown, Watching, UidsListed

LEMMA InitKept ==
    ASSUME Init, NEW m \in Msgs PROVE Kept(m)
<1> DEFINE n == Cardinality(Msgs)
           at(b) == IF b = Home THEN {[uid |-> Numbered[k], msg |-> k] : k \in Msgs} ELSE {}
           top(b) == IF b = Home THEN n ELSE 0
<1>1. /\ server = [b \in Boxes |-> [copies |-> at(b), next |-> top(b) + 1, validity |-> 0]]
      /\ rows = {[id |-> c.uid, box |-> Home, uid |-> c.uid, msg |-> c.msg] : c \in at(Home)}
      /\ ops = {} /\ pass = Idle
  BY DEF Init
<1>2. \A b \in Boxes : server[b].copies = at(b) /\ server[b].next = top(b) + 1
  <2> HIDE DEF at, top
  <2> QED
    BY <1>1
<1>3. Numbered \in [Msgs -> 1..n] /\ n \in Nat /\ \A k, l \in Msgs : Numbered[k] = Numbered[l] => k = l
  BY NumberedIsInjective
<1>4. \A b \in Boxes : \A c \in at(b) : b = Home /\ c = [uid |-> Numbered[c.msg], msg |-> c.msg] /\ c.msg \in Msgs
  OBVIOUS
<1>5. \A r \in RowsOf(m) : r = [id |-> Numbered[m], box |-> Home, uid |-> Numbered[m], msg |-> m]
  BY <1>1 DEF RowsOf
<1>6. OpsOf(m) = {}
  BY <1>1 DEF OpsOf
<1>7. \A b \in Boxes : pass.got[b] = None
  BY <1>1 DEF Idle
<1>8. \A b \in Boxes : ~ HasAnswer(b) /\ Awaited(b) = {}
  BY <1>7 DEF HasAnswer, Awaited, Unread
<1>9. \A b \in Boxes : ~ Ingesting(b)
  BY <1>1 DEF Ingesting, Idle
<1>10. OneCopy(m)
  BY <1>2, <1>4 DEF OneCopy
<1>11. OneRow(m) /\ \A r \in RowsOf(m) : r.box = Home /\ r.uid = Numbered[m]
  BY <1>5 DEF OneRow
<1>12. Chain(m)
  <2>1. \A b \in Boxes : In(m, b) => b = Home
    BY <1>2, <1>4 DEF In
  <2> QED
    BY <1>6, <1>11, <2>1 DEF Chain, Chained
<1>13. Its(Home, Numbered[m], m)
  <2>1. /\ server[Home].copies = {[uid |-> Numbered[k], msg |-> k] : k \in Msgs}
        /\ server[Home].next = n + 1
    BY <1>2, TargetsAssumption
  <2> HIDE DEF n
  <2>2. Numbered[m] < server[Home].next
    BY <1>3, <2>1
  <2>3. \A c \in server[Home].copies : c.uid = Numbered[m] => c.msg = m
    BY <1>3, <2>1
  <2> QED
    BY <2>2, <2>3 DEF Its
<1>14. RowTrue(m)
  BY <1>11, <1>13 DEF RowTrue
<1>15. BoundNow(m)
  <2>1. cursor[Home] # None
    <3>1. PICK synced \in {Boxes, {Home}} :
              cursor = [b \in Boxes |-> IF b \in synced
                                        THEN [validity |-> 0, last |-> top(b), mark |-> None]
                                        ELSE None]
      BY DEF Init
    <3>2. cursor[Home] = [validity |-> 0, last |-> top(Home), mark |-> None]
      BY <3>1, TargetsAssumption
    <3>3. top(Home) \in Nat
      BY <1>3
    <3> HIDE DEF top
    <3>4. cursor[Home] \in Cursor
      BY <3>2, <3>3 DEF Cursor
    <3> QED
      BY <3>4, NoneAssumption
  <2> QED
    BY <1>9, <1>11, <2>1, TargetsAssumption DEF BoundNow
<1> QED
  BY <1>6, <1>8, <1>10, <1>11, <1>12, <1>14, <1>15 DEF Kept, Named, OpsTrue, Seen, SeenOnce, GotOne

LEMMA KeptStep ==
    ASSUME ~ StaleRollbacks, Shape, Told, [Next]_vars, NEW m, m \notin touched' \cup blurred', Kept(m)
    PROVE  Kept(m)'
<1>1. Shape' /\ Told'
  BY ShapeStep, ToldStep
<1>2. OneCopy(m)'
  BY CopyStep DEF Kept
<1>3. OneRow(m)' /\ Chain(m)'
  BY <1>1, ChainStep
<1>4. Named(m)' /\ RowTrue(m)' /\ OpsTrue(m)' /\ BoundNow(m)'
  BY <1>1, NamedStep, RowTrueStep, OpsTrueStep, BoundNowStep
<1>5. Seen(m)' /\ SeenOnce(m)' /\ GotOne(m)'
  BY SeenStep, SeenOnceStep, GotOneStep
<1> QED
  BY <1>2, <1>3, <1>4, <1>5 DEF Kept

LEMMA KeptAlways == ~ StaleRollbacks /\ Spec => []Inv
<1> SUFFICES ASSUME ~ StaleRollbacks PROVE Spec => []Inv
  OBVIOUS
<1>1. Init => Inv
  BY InitShape, InitTold, InitKept DEF Inv, Clear
<1>2. Inv /\ [Next]_vars => Inv'
  <2> SUFFICES ASSUME Inv, [Next]_vars PROVE Inv'
    OBVIOUS
  <2>1. Shape /\ Told /\ Shape' /\ Told'
    BY ShapeStep, ToldStep DEF Inv
  <2>2. ASSUME NEW m \in Clear' PROVE Kept(m)'
    <3>1. m \notin touched' \cup blurred' /\ Kept(m)
      BY BlurredGrows DEF Inv, Clear
    <3> QED
      BY <2>1, <3>1, KeptStep
  <2> QED
    BY <2>1, <2>2 DEF Inv
<1> QED
  BY <1>1, <1>2, PTL DEF Spec

LEMMA NoTwinOf ==
    ASSUME Inv PROVE NoTwin
<1> SUFFICES ASSUME NEW m \in Clear PROVE Cardinality(RowsOf(m)) <= 1
  BY DEF NoTwin, Clear, RowsOf
<1>1. \A r, t \in RowsOf(m) : r = t
  BY DEF Inv, Kept, OneRow
<1>2. CASE RowsOf(m) = {}
  BY <1>2, FS_EmptySet
<1>3. ASSUME NEW r \in RowsOf(m) PROVE Cardinality(RowsOf(m)) <= 1
  <2>1. RowsOf(m) = {r}
    BY <1>1, <1>3
  <2> QED
    BY <2>1, FS_Singleton
<1> QED
  BY <1>2, <1>3

(* The types of a sync, whatever the mailboxes, messages and budgets: UIDs   *)
(* below UIDNEXT and one to a copy, a cursor whose mark is below its last    *)
(* UID and whose UIDVALIDITY the mailbox has had, and one row to a bound UID *)
(* (src/sync/engine.rs, src/ingest.rs).                                      *)
THEOREM SyncTyping == Spec => []TypeOK
<1>1. Shape => TypeOK
  BY ShapeTypes
<1> QED
  BY <1>1, ShapeAlways, PTL

(* A move keeps a copy on the server wherever its connection breaks, with    *)
(* recycled and renumbered UIDs, twins and other clients: only a delete the  *)
(* user asked for, or another client, takes the last one                     *)
(* (src/imap_client/ops.rs).                                                 *)
THEOREM SyncMoveKeepsACopy == Spec => MoveKeepsACopy
<1>1. Shape /\ [Next]_vars
         => [\A m \in Msgs : OnServer(m) /\ ~OnServer(m)'
                => Deleted(m) \/ budget'.foreign < budget.foreign]_vars
  BY MoveKeepsStep
<1> QED
  BY <1>1, ShapeAlways, PTL DEF Spec, MoveKeepsACopy

(* A message the user moved or deletes leaves no twin behind: nothing but    *)
(* another client's move, a lost answer, or a departure a pass cannot tell   *)
(* gives it two rows, however passes, ops, resets and moves interleave, if    *)
(* no move is rolled back after its mailbox was renumbered                   *)
(* (src/sync/departures.rs, src/ingest.rs).                                  *)
THEOREM SyncNoTwin == ~ StaleRollbacks /\ Spec => []NoTwin
<1>1. Inv => NoTwin
  BY NoTwinOf
<1> QED
  BY <1>1, KeptAlways, PTL

=============================================================================

------------------------- MODULE AccountRuntimeProofs -------------------------
(***************************************************************************)
(* What holds of an account's runtimes for any number of runtimes, passes,   *)
(* mutations and callers, and however often a retirement hits its bound: the *)
(* types, that the lock covers the work, that drains exclude each other, and  *)
(* that no request for a drain is lost.                                       *)
(***************************************************************************)
EXTENDS AccountRuntime, FiniteSetTheorems, TLAPS

(* What the assumptions on the constants give every proof below. *)
LEMMA Constants ==
    /\ Gens \subseteq Nat /\ 1 \in Gens
    /\ BusyRetries \in Nat /\ 0 \in 0..BusyRetries
    /\ \A g \in Gens : g # None /\ g \notin Passes
    /\ \A p \in Passes : p # None
    /\ None \notin Work /\ None \notin Slots
<1>1. Gens \subseteq Nat
  BY GensAssumption, FS_CardinalityType DEF GensAssumption
<1> QED
  BY <1>1, GensAssumption, BoundAssumption, HoldersDiffer, NoWorkIsNone
     DEF GensAssumption, BoundAssumption, HoldersDiffer, NoWorkIsNone

USE Constants

-----------------------------------------------------------------------------
(* The records: what a step writes leaves them of their type. *)

(* The values of the fields, by name.                                        *)
Runs == {"none", "queued", "slots", "over"}
Drainers == Idle \cup {"off", "quiet", "drain", "draining", "retry"}
States == {"unborn", "ready", "blocked"}

(* What a step writes into a runtime leaves it a runtime.                    *)
LEMMA RuntimeUpdates ==
    /\ \A r \in Runtime, run \in Runs : [r EXCEPT !.run = run] \in Runtime
    /\ \A r \in Runtime, w \in Work \cup {None} : [r EXCEPT !.turn = w] \in Runtime
    /\ \A r \in Runtime, run \in Runs, w \in Work \cup {None} : [r EXCEPT !.run = run, !.turn = w] \in Runtime
    /\ \A r \in Runtime, b \in BOOLEAN : [r EXCEPT !.gate = b] \in Runtime
    /\ \A r \in Runtime, b \in BOOLEAN, w \in Work \cup {None} : [r EXCEPT !.gate = b, !.turn = w] \in Runtime
    /\ \A r \in Runtime, b \in BOOLEAN : [r EXCEPT !.mark = b] \in Runtime
    /\ \A r \in Runtime, b \in BOOLEAN : [r EXCEPT !.retired = b] \in Runtime
    /\ \A r \in Runtime, b \in BOOLEAN : [r EXCEPT !.lock = b] \in Runtime
    /\ \A r \in Runtime, d \in Drainers : [r EXCEPT !.drainer = d] \in Runtime
    /\ \A r \in Runtime, d \in Drainers, w \in Work \cup {None} : [r EXCEPT !.drainer = d, !.turn = w] \in Runtime
    /\ \A r \in Runtime, d \in Drainers, b \in BOOLEAN : [r EXCEPT !.drainer = d, !.mark = b] \in Runtime
    /\ \A r \in Runtime, d \in Drainers, b \in BOOLEAN, n \in 0..BusyRetries : [r EXCEPT !.drainer = d, !.mark = b, !.refused = n] \in Runtime
    /\ \A r \in Runtime, d \in Drainers, n \in 0..BusyRetries : [r EXCEPT !.drainer = d, !.refused = n] \in Runtime
    /\ \A r \in Runtime, st \in States : [r EXCEPT !.state = st] \in Runtime
    /\ \A r \in Runtime, st \in States, b \in BOOLEAN : [r EXCEPT !.state = st, !.lock = b] \in Runtime
<1>1. \A r \in Runtime, run \in Runs : [r EXCEPT !.run = run] \in Runtime
  BY DEF Runtime, Runs, Drainers, States
<1>2. \A r \in Runtime, w \in Work \cup {None} : [r EXCEPT !.turn = w] \in Runtime
  BY DEF Runtime, Runs, Drainers, States
<1>3. \A r \in Runtime, run \in Runs, w \in Work \cup {None} : [r EXCEPT !.run = run, !.turn = w] \in Runtime
  BY DEF Runtime, Runs, Drainers, States
<1>4. \A r \in Runtime, b \in BOOLEAN : [r EXCEPT !.gate = b] \in Runtime
  BY DEF Runtime, Runs, Drainers, States
<1>5. \A r \in Runtime, b \in BOOLEAN, w \in Work \cup {None} : [r EXCEPT !.gate = b, !.turn = w] \in Runtime
  BY DEF Runtime, Runs, Drainers, States
<1>6. \A r \in Runtime, b \in BOOLEAN : [r EXCEPT !.mark = b] \in Runtime
  BY DEF Runtime, Runs, Drainers, States
<1>7. \A r \in Runtime, b \in BOOLEAN : [r EXCEPT !.retired = b] \in Runtime
  BY DEF Runtime, Runs, Drainers, States
<1>8. \A r \in Runtime, b \in BOOLEAN : [r EXCEPT !.lock = b] \in Runtime
  BY DEF Runtime, Runs, Drainers, States
<1>9. \A r \in Runtime, d \in Drainers : [r EXCEPT !.drainer = d] \in Runtime
  BY DEF Runtime, Runs, Drainers, States
<1>10. \A r \in Runtime, d \in Drainers, w \in Work \cup {None} : [r EXCEPT !.drainer = d, !.turn = w] \in Runtime
  BY DEF Runtime, Runs, Drainers, States
<1>11. \A r \in Runtime, d \in Drainers, b \in BOOLEAN : [r EXCEPT !.drainer = d, !.mark = b] \in Runtime
  BY DEF Runtime, Runs, Drainers, States
<1>12. \A r \in Runtime, d \in Drainers, b \in BOOLEAN, n \in 0..BusyRetries : [r EXCEPT !.drainer = d, !.mark = b, !.refused = n] \in Runtime
  BY DEF Runtime, Runs, Drainers, States
<1>13. \A r \in Runtime, d \in Drainers, n \in 0..BusyRetries : [r EXCEPT !.drainer = d, !.refused = n] \in Runtime
  BY DEF Runtime, Runs, Drainers, States
<1>14. \A r \in Runtime, st \in States : [r EXCEPT !.state = st] \in Runtime
  BY DEF Runtime, Runs, Drainers, States
<1>15. \A r \in Runtime, st \in States, b \in BOOLEAN : [r EXCEPT !.state = st, !.lock = b] \in Runtime
  BY DEF Runtime, Runs, Drainers, States
<1> QED
  BY <1>1, <1>2, <1>3, <1>4, <1>5, <1>6, <1>7, <1>8, <1>9, <1>10, <1>11, <1>12, <1>13, <1>14, <1>15

(* What a commit, a look-up, a request and a drain write into an op.         *)
LEMMA OpUpdates ==
    /\ \A p \in Op : [p EXCEPT !.owed = TRUE, !.ask = "lookup"] \in Op
    /\ \A p \in Op, ask \in {"asked", "request"}, f \in Gens \cup {None} :
           [p EXCEPT !.ask = ask, !.of = f] \in Op
    /\ \A p \in Op : [p EXCEPT !.ask = "asked"] \in Op
    /\ \A p \in Op : [p EXCEPT !.backed = TRUE] \in Op
    /\ \A p \in Op : [p EXCEPT !.owed = FALSE, !.done = TRUE, !.backed = FALSE] \in Op
<1>1. \A p \in Op : [p EXCEPT !.owed = TRUE, !.ask = "lookup"] \in Op
  BY DEF Op
<1>2. \A p \in Op, ask \in {"asked", "request"}, f \in Gens \cup {None} :
          [p EXCEPT !.ask = ask, !.of = f] \in Op
  BY DEF Op
<1>3. \A p \in Op : [p EXCEPT !.ask = "asked"] \in Op
  BY DEF Op
<1>4. \A p \in Op : [p EXCEPT !.backed = TRUE] \in Op
  BY DEF Op
<1>5. \A p \in Op : [p EXCEPT !.owed = FALSE, !.done = TRUE, !.backed = FALSE] \in Op
  BY DEF Op
<1> QED
  BY <1>1, <1>2, <1>3, <1>4, <1>5

(* Work that moves on from slot to slot stays work.                          *)
LEMMA WorkUpdates ==
    /\ \A w \in Work : [w EXCEPT !.in = None, !.gate = None, !.todo = {}] \in Work
    /\ \A w \in Work : w.left # <<>> =>
           /\ [w EXCEPT !.left = Tail(w.left)] \in Work
           /\ Busied(w) \in Work
           /\ Entered(w) \in Work
           /\ Head(w.left) \in Slots
    /\ \A w \in Work, f \in Gens, S \in SUBSET Ops :
           w.left # <<>> => [Entered(w) EXCEPT !.gate = f, !.todo = S] \in Work
<1>1. \A w \in Work : [w EXCEPT !.in = None, !.gate = None, !.todo = {}] \in Work
  BY DEF Work
<1>2. ASSUME NEW w \in Work, w.left # <<>>
      PROVE  /\ Head(w.left) \in Slots /\ Tail(w.left) \in Seq(Slots)
             /\ [w EXCEPT !.left = Tail(w.left)] \in Work
             /\ Busied(w) \in Work
             /\ Entered(w) \in Work
  <2>1. w.left \in Seq(Slots)
    BY DEF Work
  <2>2. Head(w.left) \in Slots /\ Tail(w.left) \in Seq(Slots)
    BY <1>2, <2>1, SMTT(20)
  <2>3. \A s \in Seq(Slots) : [w EXCEPT !.left = s] \in Work
    BY DEF Work
  <2>4. \A s \in Seq(Slots), b \in BOOLEAN : [w EXCEPT !.left = s, !.busy = b] \in Work
    BY DEF Work
  <2>5. \A s \in Seq(Slots), x \in Slots : [w EXCEPT !.in = x, !.left = s] \in Work
    BY DEF Work
  <2>6. (w.busy \/ Head(w.left) = "mutations") \in BOOLEAN
    BY DEF Work
  <2> QED
    BY <2>2, <2>3, <2>4, <2>5, <2>6 DEF Busied, Entered
<1>3. \A w \in Work, f \in Gens, S \in SUBSET Ops : [w EXCEPT !.gate = f, !.todo = S] \in Work
  BY DEF Work
<1> QED
  BY <1>1, <1>2, <1>3

(* Work that starts has neither slot nor gate.                               *)
LEMMA StartingTyped ==
    /\ \A who \in {"tick", "drain"}, s \in {TickSlots, DrainSlots} :
         /\ Starting(who, s) \in Work /\ Starting(who, s).who = who
         /\ Starting(who, s).in = None /\ Starting(who, s).gate = None
  BY DEF Starting, TickSlots, DrainSlots, Work, Slots

-----------------------------------------------------------------------------
(* The steps: what each leaves of the runtimes. *)

(* A step that rewrites the record of g only, to s. *)
Rewritten(g, s) == s \in Runtime /\ rt' = [rt EXCEPT ![g] = s]

(* What only a swap or the gate changes of a runtime, what only its tick and   *)
(* its drainer do.                                                             *)
SameLock(r, s) ==
    s.state = r.state /\ s.retired = r.retired /\ s.lock = r.lock /\ s.gate = r.gate
SameWork(r, s) == s.turn = r.turn /\ s.run = r.run /\ s.drainer = r.drainer

(* A runtime whose tick or drainer is at it.                                   *)
Active(r) == r.run # "none" \/ r.drainer # "off"

(* What the types say of one runtime.                                        *)
LEMMA RuntimeOf ==
    ASSUME TypeOK, NEW g \in Gens
    PROVE  /\ rt \in [Gens -> Runtime] /\ rt[g] \in Runtime
           /\ Agrees(rt[g]) /\ (rt[g].lock <=> flock = g)
           /\ rt[g].turn \in Work \cup {None}
           /\ rt[g].lock \in BOOLEAN /\ rt[g].gate \in BOOLEAN /\ rt[g].retired \in BOOLEAN
<1>1. rt \in [Gens -> Runtime] /\ Agrees(rt[g]) /\ (rt[g].lock <=> flock = g)
  BY DEF TypeOK
<1>2. rt[g] \in Runtime
  BY <1>1
<1> QED
  BY <1>1, <1>2 DEF Runtime

LEMMA RewrittenTyping ==
    ASSUME TypeOK, NEW g \in Gens, NEW s, Rewritten(g, s), Agrees(s), s.lock = rt[g].lock,
           UNCHANGED flock
    PROVE  /\ rt' \in [Gens -> Runtime]
           /\ \A h \in Gens : Agrees(rt'[h]) /\ (rt'[h].lock <=> flock' = h)
  BY DEF TypeOK, Rewritten

(* A quiet step: it takes no work up, and moves no lock.                       *)
Quiet(r, s) ==
    /\ s \in Runtime /\ Agrees(s) /\ SameLock(r, s) /\ s.turn = r.turn
    /\ Active(s) => Active(r) \/ r.state = "ready"
    /\ r.drainer = "off" => s.drainer = "off"

(* A request that is not a no-op marks one runtime.                          *)
LEMMA RequestDrainStep ==
    ASSUME TypeOK, NEW o \in Ops, RequestDrain(o), rt' # rt
    PROVE  \E g \in Gens : Rewritten(g, [rt[g] EXCEPT !.mark = TRUE]) /\ Quiet(rt[g], rt'[g])
<1>1. ops[o].of \in Gens /\ rt' = [rt EXCEPT ![ops[o].of].mark = TRUE]
  BY DEF TypeOK, RequestDrain, AskedOf
<1>2. PICK g \in Gens : rt' = [rt EXCEPT ![g].mark = TRUE]
  BY <1>1
<1> DEFINE s == [rt[g] EXCEPT !.mark = TRUE]
<1>3. rt' = [rt EXCEPT ![g] = s] /\ rt'[g] = s
  BY <1>2, RuntimeOf
<1>4. s \in Runtime
  BY RuntimeOf, RuntimeUpdates
<1>5. Quiet(rt[g], s)
  BY <1>4, RuntimeOf DEF Quiet, SameLock, Active, Agrees, Runtime
<1> QED
  BY <1>3, <1>4, <1>5 DEF Rewritten

(* The tick and the drainer, outside the turn.                                *)
LEMMA QuietSteps ==
    ASSUME TypeOK, NEW g \in Gens,
           \/ Schedule(g) \/ RunEnds(g)
           \/ Wake(g) \/ DelayOver(g) \/ DrainerStops(g)
           \/ rt[g].retired /\ (RunTakesTurn(g) \/ DrainTakesTurn(g))
           \/ \E c \in Callers : rt[g].run = "none" /\ Tick(c, g)
    PROVE  \E s : Rewritten(g, s) /\ Quiet(rt[g], s)
<1>0. rt \in [Gens -> Runtime] /\ rt[g] \in Runtime /\ Agrees(rt[g])
  BY RuntimeOf
<1>1. CASE Schedule(g) \/ \E c \in Callers : rt[g].run = "none" /\ Tick(c, g)
  <2> DEFINE s == [rt[g] EXCEPT !.run = "queued"]
  <2>1. rt' = [rt EXCEPT ![g] = s] /\ rt[g].run = "none" /\ rt[g].state = "ready"
    BY <1>1 DEF Schedule, Tick
  <2>2. s \in Runtime
    BY <1>0, RuntimeUpdates DEF Runs
  <2>3. Quiet(rt[g], s)
    BY <1>0, <2>1, <2>2 DEF Quiet, SameLock, Active, Agrees, Runtime
  <2> QED
    BY <2>1, <2>2, <2>3 DEF Rewritten
<1>2. CASE RunEnds(g)
  <2> DEFINE s == [rt[g] EXCEPT !.run = "none"]
  <2>1. rt' = [rt EXCEPT ![g] = s] /\ rt[g].run = "over"
    BY <1>2 DEF RunEnds
  <2>2. s \in Runtime
    BY <1>0, RuntimeUpdates DEF Runs
  <2>3. Quiet(rt[g], s)
    BY <1>0, <2>1, <2>2 DEF Quiet, SameLock, Active, Agrees, Runtime
  <2> QED
    BY <2>1, <2>2, <2>3 DEF Rewritten
<1>3. CASE Wake(g)
  <2> DEFINE s == [rt[g] EXCEPT !.drainer = "quiet", !.mark = FALSE, !.refused = 0]
  <2>1. rt' = [rt EXCEPT ![g] = s] /\ rt[g].drainer \in Idle \cup {"retry", "quiet"}
    BY <1>0, <1>3 DEF Wake
  <2>2. s \in Runtime
    BY <1>0, RuntimeUpdates DEF Drainers
  <2>3. Quiet(rt[g], s)
    BY <1>0, <2>1, <2>2 DEF Quiet, SameLock, Active, Agrees, Runtime, Idle
  <2> QED
    BY <2>1, <2>2, <2>3 DEF Rewritten
<1>4. CASE DelayOver(g)
  <2> DEFINE s == [rt[g] EXCEPT !.drainer = "drain"]
  <2>1. rt' = [rt EXCEPT ![g] = s] /\ rt[g].drainer \in {"quiet", "retry"}
    BY <1>4 DEF DelayOver
  <2>2. s \in Runtime
    BY <1>0, RuntimeUpdates DEF Drainers
  <2>3. Quiet(rt[g], s)
    BY <1>0, <2>1, <2>2 DEF Quiet, SameLock, Active, Agrees, Runtime, Idle
  <2> QED
    BY <2>1, <2>2, <2>3 DEF Rewritten
<1>5. CASE DrainerStops(g)
  <2> DEFINE s == [rt[g] EXCEPT !.drainer = "off"]
  <2>1. rt' = [rt EXCEPT ![g] = s] /\ rt[g].drainer \in Idle \cup {"quiet", "retry"}
    BY <1>5 DEF DrainerStops
  <2>2. s \in Runtime
    BY <1>0, RuntimeUpdates DEF Drainers
  <2>3. Quiet(rt[g], s)
    BY <1>0, <2>1, <2>2 DEF Quiet, SameLock, Active, Agrees, Runtime, Idle
  <2> QED
    BY <2>1, <2>2, <2>3 DEF Rewritten
<1>6. CASE rt[g].retired /\ RunTakesTurn(g)
  <2> DEFINE s == [rt[g] EXCEPT !.run = "over"]
  <2>1. rt' = [rt EXCEPT ![g] = s] /\ rt[g].run = "queued"
    BY <1>6 DEF RunTakesTurn
  <2>2. s \in Runtime
    BY <1>0, RuntimeUpdates DEF Runs
  <2>3. Quiet(rt[g], s)
    BY <1>0, <2>1, <2>2 DEF Quiet, SameLock, Active, Agrees, Runtime
  <2> QED
    BY <2>1, <2>2, <2>3 DEF Rewritten
<1>7. CASE rt[g].retired /\ DrainTakesTurn(g)
  <2> DEFINE s == [rt[g] EXCEPT !.drainer = "wait", !.refused = 0]
  <2>1. rt' = [rt EXCEPT ![g] = s] /\ rt[g].drainer = "drain"
    BY <1>0, <1>7 DEF DrainTakesTurn
  <2>2. s \in Runtime
    BY <1>0, RuntimeUpdates DEF Drainers, Idle
  <2>3. Quiet(rt[g], s)
    BY <1>0, <2>1, <2>2 DEF Quiet, SameLock, Active, Agrees, Runtime
  <2> QED
    BY <2>1, <2>2, <2>3 DEF Rewritten
<1> QED
  BY <1>1, <1>2, <1>3, <1>4, <1>5, <1>6, <1>7

-----------------------------------------------------------------------------
(* The invariant. *)

(* Work, and whatever may take it up, is covered by the lock; the registered   *)
(* gate is the lock's; and a turn takes no gate but its own runtime's.         *)
LockUnderWork(g) ==
    /\ rt[g].turn # None => rt[g].lock
    /\ (rt[g].state = "ready" \/ Active(rt[g])) /\ ~rt[g].retired => rt[g].lock
    /\ rt[g].lock => engine = g

(* A turn takes no gate but its own runtime's, and no pass has it then.      *)
GateOfTurn(g) ==
    rt[g].turn # None =>
        /\ rt[g].turn.gate \in {None, g}
        /\ rt[g].turn.in = None => rt[g].turn.gate = None
        /\ rt[g].turn.in = "mutations" => rt[g].turn.gate = g
        /\ rt[g].turn.gate = g => rt[g].gate /\ \A p \in Passes : passes[p].gate # g

(* A pass holds its gate alone, or the flock.                                  *)
GateOfPass(p) ==
    /\ passes[p].gate # None =>
          /\ rt[passes[p].gate].gate
          /\ \A q \in Passes : passes[q].gate = passes[p].gate => q = p
    /\ passes[p].at = "running" /\ passes[p].gate = None => flock = p
    /\ passes[p].at # "running" => passes[p].gate = None

(* A retirement drops the lock of a runtime that has retired, behind its turn. *)
Retiring ==
    /\ swap.at = "flag" => swap.of \in Gens
    /\ swap.at \in {"run", "turn", "drop"} => swap.of \in Gens /\ rt[swap.of].retired
    /\ swap.at = "drop" => rt[swap.of].turn = None
    /\ swap.at # "idle" => swap.of \in Nat /\ swap.of + 1 \in Gens

(* The runtimes that are still to come have no drainer.                       *)
Ahead(h) == IF swap.at = "idle" THEN table # None /\ h > table ELSE h > swap.of

(* They are spawned by the swap that brings them in.                         *)
Unspawned == \A h \in Gens : Ahead(h) => rt[h].drainer = "off"

(* The inductive invariant.                                                  *)
Inv ==
    /\ TypeOK
    /\ \A g \in Gens : LockUnderWork(g) /\ GateOfTurn(g)
    /\ \A p \in Passes : GateOfPass(p)
    /\ engine # None => rt[engine].lock
    /\ Retiring /\ Unspawned

-----------------------------------------------------------------------------
(* The steps of a tick and a drainer. *)

(* A quiet step keeps the invariant, ...                                     *)
LEMMA QuietInv ==
    ASSUME Inv, NEW g \in Gens, NEW s, Rewritten(g, s), Quiet(rt[g], s),
           TypeOK', UNCHANGED <<table, engine, flock, passes, swap>>
    PROVE  Inv'
<1>1. rt \in [Gens -> Runtime] /\ rt'[g] = s /\ \A h \in Gens : h # g => rt'[h] = rt[h]
  BY RuntimeOf DEF Inv, Rewritten
<1>2. \A h \in Gens : SameLock(rt[h], rt'[h]) /\ rt'[h].turn = rt[h].turn
                      /\ (Active(rt'[h]) => Active(rt[h]) \/ rt[h].state = "ready")
                      /\ (rt[h].drainer = "off" => rt'[h].drainer = "off")
  BY <1>1 DEF Quiet, SameLock
<1>3. \A h \in Gens : LockUnderWork(h)' /\ GateOfTurn(h)'
  BY <1>2 DEF Inv, LockUnderWork, GateOfTurn, SameLock
<1>4. \A p \in Passes : GateOfPass(p)'
  <2> SUFFICES ASSUME NEW p \in Passes PROVE GateOfPass(p)'
    OBVIOUS
  <2>1. passes[p].gate \in Gens \cup {None}
    BY DEF Inv, TypeOK, Pass
  <2> QED
    BY <1>2, <2>1 DEF Inv, GateOfPass, SameLock
<1>5. Retiring' /\ (engine' # None => rt'[engine'].lock)
  BY <1>2 DEF Inv, Retiring, SameLock, TypeOK
<1>6. Unspawned'
  BY <1>2 DEF Inv, Unspawned, Ahead
<1> QED
  BY <1>3, <1>4, <1>5, <1>6 DEF Inv

(* ... and the types.                                                        *)
LEMMA QuietTyping ==
    ASSUME TypeOK, NEW g \in Gens, NEW s, Rewritten(g, s), Quiet(rt[g], s),
           UNCHANGED <<table, engine, flock, passes, swap>>,
           ops' \in [Ops -> Op], waiting' \in [Callers -> Gens \cup {None}]
    PROVE  TypeOK'
<1>1. Agrees(s) /\ s.lock = rt[g].lock
  BY DEF Quiet, SameLock
<1>2. /\ rt' \in [Gens -> Runtime]
      /\ \A h \in Gens : Agrees(rt'[h]) /\ (rt'[h].lock <=> flock' = h)
  BY <1>1, RewrittenTyping
<1> QED
  BY <1>2 DEF TypeOK

(* A mutation's commit, look-up and request.                                 *)
LEMMA MutationsStep ==
    ASSUME Inv, NEW o \in Ops, Commit(o) \/ LookUp(o) \/ RequestDrain(o)
    PROVE  Inv'
<1>0. TypeOK
  BY DEF Inv
<1>1. ops' \in [Ops -> Op]
  <2>1. CASE Commit(o)
    <3>1. ops' = [ops EXCEPT ![o] = [ops[o] EXCEPT !.owed = TRUE, !.ask = "lookup"]]
      BY <1>0, <2>1 DEF TypeOK, Commit
    <3> QED
      BY <1>0, <3>1, OpUpdates DEF TypeOK
  <2>2. CASE LookUp(o)
    <3> DEFINE ask == IF table = None THEN "asked" ELSE "request"
    <3>1. ops' = [ops EXCEPT ![o] = [ops[o] EXCEPT !.ask = ask, !.of = table]]
      BY <1>0, <2>2 DEF TypeOK, LookUp
    <3>2. ask \in {"asked", "request"} /\ table \in Gens \cup {None}
      BY <1>0 DEF TypeOK
    <3> HIDE DEF ask
    <3> QED
      BY <1>0, <3>1, <3>2, OpUpdates DEF TypeOK
  <2>3. CASE RequestDrain(o)
    BY <1>0, <2>3, OpUpdates DEF TypeOK, RequestDrain
  <2> QED
    BY <2>1, <2>2, <2>3
<1>2. UNCHANGED <<table, engine, flock, passes, swap, waiting>>
  BY DEF Commit, LookUp, RequestDrain
<1>3. CASE rt' = rt
  <2>1. TypeOK'
    BY <1>0, <1>1, <1>2, <1>3 DEF TypeOK
  <2> QED
    BY <1>2, <1>3, <2>1 DEF Inv, LockUnderWork, GateOfTurn, GateOfPass, Retiring, Unspawned, Ahead
<1>4. CASE rt' # rt
  <2>1. RequestDrain(o)
    BY <1>4 DEF Commit, LookUp
  <2>2. PICK g \in Gens : Rewritten(g, [rt[g] EXCEPT !.mark = TRUE]) /\ Quiet(rt[g], rt'[g])
    BY <1>0, <1>4, <2>1, RequestDrainStep
  <2>3. Rewritten(g, rt'[g])
    BY <1>0, <2>2, RuntimeOf DEF Rewritten
  <2>4. TypeOK'
    BY <1>0, <1>1, <1>2, <2>2, <2>3, QuietTyping DEF TypeOK
  <2> QED
    BY <1>2, <2>2, <2>3, <2>4, QuietInv
<1> QED
  BY <1>3, <1>4

(* The tick and the drainer, outside the turn.                               *)
LEMMA TickerStep ==
    ASSUME Inv, NEW g \in Gens,
           \/ Schedule(g) \/ RunEnds(g)
           \/ Wake(g) \/ DelayOver(g) \/ DrainerStops(g)
           \/ rt[g].retired /\ (RunTakesTurn(g) \/ DrainTakesTurn(g))
           \/ \E c \in Callers : Tick(c, g)
    PROVE  Inv'
<1>0. TypeOK
  BY DEF Inv
<1>1. UNCHANGED <<table, engine, flock, passes, swap, ops>>
  BY DEF Schedule, RunEnds, Wake, DelayOver, DrainerStops, RunTakesTurn, DrainTakesTurn, Tick
<1>2. waiting' \in [Callers -> Gens \cup {None}]
  BY <1>0 DEF TypeOK, Schedule, RunEnds, Wake, DelayOver, DrainerStops, RunTakesTurn,
              DrainTakesTurn, Tick
<1>3. CASE rt' = rt
  <2>1. TypeOK'
    BY <1>0, <1>1, <1>2, <1>3 DEF TypeOK
  <2> QED
    BY <1>1, <1>3, <2>1 DEF Inv, LockUnderWork, GateOfTurn, GateOfPass, Retiring, Unspawned, Ahead
<1>4. CASE rt' # rt
  <2>1. PICK s : Rewritten(g, s) /\ Quiet(rt[g], s)
    BY <1>0, <1>4, QuietSteps DEF Tick
  <2>2. TypeOK'
    BY <1>0, <1>1, <1>2, <2>1, QuietTyping DEF TypeOK
  <2> QED
    BY <1>1, <2>1, <2>2, QuietInv
<1> QED
  BY <1>3, <1>4

-----------------------------------------------------------------------------
(* The steps under the turn. *)

(* A step that hands the turn over, or moves the work under it.                *)
LEMMA TurnInv ==
    ASSUME Inv, NEW g \in Gens, NEW s, Rewritten(g, s), TypeOK',
           UNCHANGED <<table, engine, flock, passes, swap>>,
           rt[g].drainer = "off" => s.drainer = "off",
           s.state = rt[g].state, s.retired = rt[g].retired, s.lock = rt[g].lock,
           Active(s) => Active(rt[g]),
           s.turn # None => rt[g].lock,
           swap.at = "drop" /\ swap.of = g => s.turn = None,
           s.turn # None =>
               /\ s.turn.gate \in {None, g}
               /\ s.turn.in = None => s.turn.gate = None
               /\ s.turn.in = "mutations" => s.turn.gate = g
               /\ s.turn.gate = g => s.gate /\ \A p \in Passes : passes[p].gate # g,
           s.gate \/ s.gate = rt[g].gate \/ \A p \in Passes : passes[p].gate # g
    PROVE  Inv'
<1>0. rt \in [Gens -> Runtime] /\ rt'[g] = s /\ \A h \in Gens : h # g => rt'[h] = rt[h]
  BY RuntimeOf DEF Inv, Rewritten
<1>1. \A h \in Gens : LockUnderWork(h)'
  BY <1>0 DEF Inv, LockUnderWork, Active
<1>2. \A h \in Gens : GateOfTurn(h)'
  <2>1. GateOfTurn(g)'
    BY <1>0 DEF GateOfTurn
  <2>2. \A h \in Gens : h # g => GateOfTurn(h)'
    BY <1>0 DEF Inv, GateOfTurn
  <2> QED
    BY <2>1, <2>2
<1>3. ASSUME NEW p \in Passes PROVE GateOfPass(p)'
  <2>1. passes[p].gate \in Gens \cup {None} /\ GateOfPass(p)
    BY DEF Inv, TypeOK, Pass
  <2>2. CASE passes[p].gate = g
    BY <1>0, <2>1, <2>2 DEF GateOfPass
  <2>3. CASE passes[p].gate # g
    BY <1>0, <2>1, <2>3 DEF GateOfPass
  <2> QED
    BY <2>2, <2>3
<1>4. engine' # None => rt'[engine'].lock
  BY <1>0 DEF Inv, TypeOK
<1>5. Retiring'
  BY <1>0 DEF Inv, Retiring
<1>6. Unspawned'
  BY <1>0 DEF Inv, Unspawned, Ahead
<1> QED
  BY <1>1, <1>2, <1>3, <1>4, <1>5, <1>6 DEF Inv

(* The types, where the queue may change too.                                *)
LEMMA RewrittenTypeOK ==
    ASSUME TypeOK, NEW g \in Gens, NEW s, Rewritten(g, s), Agrees(s), s.lock = rt[g].lock,
           UNCHANGED <<table, engine, flock, passes, swap, waiting>>, ops' \in [Ops -> Op]
    PROVE  TypeOK'
<1>1. /\ rt' \in [Gens -> Runtime]
      /\ \A h \in Gens : Agrees(rt'[h]) /\ (rt'[h].lock <=> flock' = h)
  BY RewrittenTyping
<1> QED
  BY <1>1 DEF TypeOK

(* The turn is taken on a runtime that has not retired, so its lock is held. *)
LEMMA TakesTurnStep ==
    ASSUME Inv, NEW g \in Gens, RunTakesTurn(g) \/ DrainTakesTurn(g)
    PROVE  Inv'
<1>0. TypeOK /\ rt \in [Gens -> Runtime] /\ rt[g] \in Runtime /\ Agrees(rt[g])
      /\ LockUnderWork(g)
  BY RuntimeOf DEF Inv
<1>1. CASE rt[g].retired
  BY <1>1, TickerStep
<1>2. CASE ~rt[g].retired
  <2>1. ~(swap.at = "drop" /\ swap.of = g)
    BY <1>2 DEF Inv, Retiring
  <2>2. UNCHANGED <<table, engine, flock, passes, swap, ops, waiting>>
    BY DEF RunTakesTurn, DrainTakesTurn
  <2>3. CASE RunTakesTurn(g)
    <3> DEFINE s == [rt[g] EXCEPT !.run = "slots", !.turn = Starting("tick", TickSlots)]
    <3>1. rt' = [rt EXCEPT ![g] = s] /\ rt[g].run = "queued" /\ rt[g].turn = None
      BY <1>0, <1>2, <2>3 DEF RunTakesTurn
    <3>2. s \in Runtime
      BY <1>0, StartingTyped, RuntimeUpdates DEF Runs
    <3>3. /\ s.state = rt[g].state /\ s.retired = rt[g].retired /\ s.lock = rt[g].lock
          /\ s.gate = rt[g].gate /\ s.drainer = rt[g].drainer
          /\ s.run = "slots" /\ s.turn = Starting("tick", TickSlots)
      BY <1>0 DEF Runtime
    <3>4. s.turn # None /\ s.turn.who = "tick" /\ s.turn.in = None /\ s.turn.gate = None
      BY <3>3, StartingTyped
    <3> HIDE DEF s
    <3>5. Agrees(s) /\ Active(s) /\ Active(rt[g]) /\ rt[g].lock
      BY <1>0, <1>2, <3>1, <3>3, <3>4 DEF Agrees, Active, LockUnderWork
    <3>6. Rewritten(g, s)
      BY <3>1, <3>2 DEF Rewritten
    <3>7. TypeOK'
      BY <1>0, <2>2, <3>3, <3>5, <3>6, RewrittenTypeOK DEF TypeOK
    <3> QED
      <4>1. s.turn.gate \in {None, g} /\ s.turn.gate # g /\ s.turn.in # "mutations"
        BY <3>4 DEF Slots
      <4> QED
        BY <2>1, <2>2, <3>1, <3>3, <3>4, <3>5, <3>6, <3>7, <4>1, TurnInv
  <2>4. CASE DrainTakesTurn(g)
    <3> DEFINE s == [rt[g] EXCEPT !.drainer = "draining", !.turn = Starting("drain", DrainSlots)]
    <3>1. rt' = [rt EXCEPT ![g] = s] /\ rt[g].drainer = "drain" /\ rt[g].turn = None
      BY <1>0, <1>2, <2>4 DEF DrainTakesTurn
    <3>2. s \in Runtime
      BY <1>0, StartingTyped, RuntimeUpdates DEF Drainers
    <3>3. /\ s.state = rt[g].state /\ s.retired = rt[g].retired /\ s.lock = rt[g].lock
          /\ s.gate = rt[g].gate /\ s.run = rt[g].run
          /\ s.drainer = "draining" /\ s.turn = Starting("drain", DrainSlots)
      BY <1>0 DEF Runtime
    <3>4. s.turn # None /\ s.turn.who = "drain" /\ s.turn.in = None /\ s.turn.gate = None
      BY <3>3, StartingTyped
    <3> HIDE DEF s
    <3>5. Agrees(s) /\ Active(s) /\ Active(rt[g]) /\ rt[g].lock
      BY <1>0, <1>2, <3>1, <3>3, <3>4 DEF Agrees, Active, LockUnderWork
    <3>6. Rewritten(g, s)
      BY <3>1, <3>2 DEF Rewritten
    <3>7. TypeOK'
      BY <1>0, <2>2, <3>3, <3>5, <3>6, RewrittenTypeOK DEF TypeOK
    <3> QED
      <4>1. s.turn.gate \in {None, g} /\ s.turn.gate # g /\ s.turn.in # "mutations"
        BY <3>4 DEF Slots
      <4> QED
        BY <2>1, <2>2, <3>1, <3>3, <3>4, <3>5, <3>6, <3>7, <4>1, TurnInv
  <2> QED
    BY <2>3, <2>4
<1> QED
  BY <1>1, <1>2

(* What a runtime with work under its turn is known to have.                   *)
LEMMA AtWork ==
    ASSUME Inv, NEW g \in Gens, rt[g].turn # None
    PROVE  /\ rt \in [Gens -> Runtime] /\ rt[g] \in Runtime /\ Agrees(rt[g])
           /\ rt[g].turn \in Work /\ rt[g].lock /\ engine = g
           /\ ~(swap.at = "drop" /\ swap.of = g) /\ GateOfTurn(g)
<1>1. rt \in [Gens -> Runtime] /\ rt[g] \in Runtime /\ Agrees(rt[g]) /\ rt[g].turn \in Work
  BY RuntimeOf DEF Inv
<1>2. LockUnderWork(g) /\ GateOfTurn(g) /\ Retiring
  BY DEF Inv
<1> QED
  BY <1>1, <1>2 DEF LockUnderWork, Retiring

(* The work moves on within the turn: from w to v, and nothing else.           *)
LEMMA WorkMoves ==
    ASSUME Inv, NEW g \in Gens, rt[g].turn # None, NEW v \in Work,
           rt' = [rt EXCEPT ![g].turn = v], v.who = rt[g].turn.who, v.gate = rt[g].turn.gate,
           v.in = None => v.gate = None, v.in = "mutations" => v.gate = g,
           UNCHANGED <<table, engine, flock, passes, swap, waiting>>, ops' \in [Ops -> Op]
    PROVE  Inv'
<1>0. TypeOK
  BY DEF Inv
<1> DEFINE s == [rt[g] EXCEPT !.turn = v]
<1>1. rt' = [rt EXCEPT ![g] = s]
  BY AtWork
<1>2. s \in Runtime
  BY AtWork, RuntimeUpdates
<1>3. /\ s.state = rt[g].state /\ s.retired = rt[g].retired /\ s.lock = rt[g].lock
      /\ s.gate = rt[g].gate /\ s.run = rt[g].run /\ s.drainer = rt[g].drainer /\ s.turn = v
  BY AtWork DEF Runtime
<1> HIDE DEF s
<1>4. Agrees(s) /\ (Active(s) => Active(rt[g])) /\ v # None
  BY <1>3, AtWork DEF Agrees, Active
<1>5. Rewritten(g, s)
  BY <1>1, <1>2 DEF Rewritten
<1>6. TypeOK'
  BY <1>0, <1>3, <1>4, <1>5, RewrittenTypeOK
<1>7. /\ s.turn.gate \in {None, g}
      /\ s.turn.in = None => s.turn.gate = None
      /\ s.turn.in = "mutations" => s.turn.gate = g
      /\ s.turn.gate = g => s.gate /\ \A p \in Passes : passes[p].gate # g
  BY <1>3, AtWork DEF GateOfTurn
<1> QED
  BY <1>3, <1>4, <1>5, <1>6, <1>7, AtWork, TurnInv

(* The gate a slot takes is the one of the runtime that has the turn.        *)
LEMMA EnterSlotStep ==
    ASSUME Inv, NEW g \in Gens, EnterSlot(g)
    PROVE  Inv'
<1> DEFINE w == rt[g].turn
<1>0. w \in Work /\ w # None /\ w.in = None /\ w.gate = None /\ w.left # <<>> /\ engine = g
      /\ rt \in [Gens -> Runtime] /\ rt[g] \in Runtime /\ TypeOK
  BY AtWork DEF EnterSlot, GateOfTurn, Inv
<1>1. UNCHANGED <<table, engine, flock, passes, swap, ops, waiting>> /\ ops' \in [Ops -> Op]
  BY <1>0 DEF EnterSlot, TypeOK
<1>2. CASE Head(w.left) \notin Guarded /\ rt' = [rt EXCEPT ![g].turn = Entered(w)]
  <2>1. Entered(w) \in Work /\ Entered(w).who = w.who /\ Entered(w).gate = w.gate
        /\ Entered(w).in = Head(w.left) /\ Head(w.left) \in Slots
    BY <1>0, WorkUpdates DEF Entered, Work
  <2>2. Entered(w).in # None /\ Entered(w).in # "mutations"
    BY <1>2, <2>1 DEF Guarded
  <2> QED
    BY <1>0, <1>1, <1>2, <2>1, <2>2, WorkMoves
<1>3. CASE NothingQueued(w) /\ rt' = [rt EXCEPT ![g].turn.left = Tail(@)]
  <2> DEFINE v == [w EXCEPT !.left = Tail(w.left)]
  <2>1. rt' = [rt EXCEPT ![g].turn = v]
    BY <1>0, <1>3
  <2>2. v \in Work /\ v.who = w.who /\ v.gate = None /\ v.in = None
    BY <1>0, WorkUpdates DEF Work
  <2> HIDE DEF v
  <2>3. v.in # "mutations"
    BY <2>2 DEF Slots
  <2> QED
    BY <1>0, <1>1, <2>1, <2>2, <2>3, WorkMoves
<1>4. CASE rt' = [rt EXCEPT ![g].turn = Busied(w)]
  <2>0. Busied(w) \in Work
    BY <1>0, WorkUpdates
  <2>1. Busied(w).who = w.who /\ Busied(w).gate = None /\ Busied(w).in = None
    BY <1>0 DEF Busied, Work
  <2>2. Busied(w).in # "mutations"
    BY <2>1 DEF Slots
  <2> QED
    BY <1>0, <1>1, <1>4, <2>0, <2>1, <2>2, WorkMoves
<1>5. ASSUME NEW todo \in SUBSET Ops, ~rt[g].gate,
             rt' = [rt EXCEPT ![engine].gate = TRUE,
                              ![g].turn = [Entered(w) EXCEPT !.gate = engine, !.todo = todo]]
      PROVE  Inv'
  <2> DEFINE v == [Entered(w) EXCEPT !.gate = g, !.todo = todo]
  <2> DEFINE s == [rt[g] EXCEPT !.gate = TRUE, !.turn = v]
  <2>1. Entered(w) \in Work /\ Entered(w).who = w.who
        /\ Entered(w).in = Head(w.left) /\ Head(w.left) \in Slots
    BY <1>0, WorkUpdates DEF Entered, Work
  <2>2. v \in Work /\ v.who = w.who /\ v.gate = g /\ v.in \in Slots /\ v # None /\ v.in # None
    <3>1. v \in Work
      BY <1>0, WorkUpdates
    <3>2. v.who = w.who /\ v.gate = g /\ v.in = Head(w.left)
      BY <2>1 DEF Work
    <3> QED
      BY <2>1, <3>1, <3>2
  <2> HIDE DEF v
  <2>3. rt' = [rt EXCEPT ![g] = s]
    BY <1>0, <1>5 DEF v
  <2>4. s \in Runtime
    BY <1>0, <2>2, RuntimeUpdates
  <2>5. /\ s.state = rt[g].state /\ s.retired = rt[g].retired /\ s.lock = rt[g].lock
        /\ s.gate = TRUE /\ s.run = rt[g].run /\ s.drainer = rt[g].drainer /\ s.turn = v
    BY <1>0 DEF Runtime
  <2> HIDE DEF s
  <2>6. Agrees(s) /\ (Active(s) => Active(rt[g]))
    BY <1>0, <2>2, <2>5, AtWork DEF Agrees, Active
  <2>7. Rewritten(g, s)
    BY <2>3, <2>4 DEF Rewritten
  <2>8. TypeOK'
    BY <1>0, <1>1, <2>5, <2>6, <2>7, RewrittenTypeOK
  <2>9. \A p \in Passes : passes[p].gate # g
    BY <1>5 DEF Inv, GateOfPass
  <2> QED
    BY <1>0, <1>1, <2>2, <2>5, <2>6, <2>7, <2>8, <2>9, AtWork, TurnInv
<1>6. CASE /\ ~rt[engine].gate
           /\ rt' = [rt EXCEPT ![engine].gate = TRUE,
                               ![g].turn = [Entered(w) EXCEPT !.gate = engine,
                                   !.todo = IF Head(w.left) = "mutations" THEN Owed ELSE {}]]
  <2>1. (IF Head(w.left) = "mutations" THEN Owed ELSE {}) \in SUBSET Ops
    BY DEF Owed
  <2> QED
    BY <1>0, <1>5, <1>6, <2>1
<1> QED
  BY <1>2, <1>3, <1>4, <1>6 DEF EnterSlot, GateFree

(* A drain leaves ops of their type.                                         *)
LEMMA DrainedTyped ==
    ASSUME TypeOK, NEW todo \in SUBSET Ops, Drained(todo)
    PROVE  ops' \in [Ops -> Op]
<1>1. \A o \in Ops : ops[o] \in Op /\ Gone(o) \in Op /\ [ops[o] EXCEPT !.backed = TRUE] \in Op
  BY OpUpdates DEF TypeOK, Gone
<1> QED
  BY <1>1 DEF Drained

(* A slot gives back the gate it took.                                       *)
LEMMA LeaveSlotStep ==
    ASSUME Inv, NEW g \in Gens, LeaveSlot(g)
    PROVE  Inv'
<1> DEFINE w == rt[g].turn
<1> DEFINE v == [w EXCEPT !.in = None, !.gate = None, !.todo = {}]
<1> DEFINE s == [rt[g] EXCEPT !.turn = v, !.gate = IF w.gate = None THEN rt[g].gate ELSE FALSE]
<1>0. w \in Work /\ w # None /\ w.gate \in {None, g} /\ engine = g
      /\ rt \in [Gens -> Runtime] /\ rt[g] \in Runtime /\ Agrees(rt[g]) /\ TypeOK
  BY AtWork DEF LeaveSlot, GateOfTurn, Inv
<1>1. v \in Work /\ v.who = w.who /\ v.gate = None /\ v.in = None /\ v # None
      /\ w.todo \in SUBSET Ops
  <2>1. v \in Work
    BY <1>0, WorkUpdates
  <2>2. v.who = w.who /\ v.gate = None /\ v.in = None /\ w.todo \in SUBSET Ops
    BY <1>0 DEF Work
  <2> QED
    BY <2>1, <2>2
<1>2. UNCHANGED <<table, engine, flock, passes, swap, waiting>> /\ ops' \in [Ops -> Op]
  BY <1>0, <1>1, DrainedTyped DEF LeaveSlot
<1> HIDE DEF v
<1>3. rt' = [rt EXCEPT ![g] = s]
  <2>1. CASE w.gate = None
    <3>1. rt' = [rt EXCEPT ![g].turn = v]
      BY <2>1 DEF LeaveSlot, v
    <3>2. s = [rt[g] EXCEPT !.turn = v]
      BY <1>0, <2>1 DEF Runtime
    <3> QED
      BY <1>0, <3>1, <3>2
  <2>2. CASE w.gate = g
    <3>1. rt' = [[rt EXCEPT ![g].turn = v] EXCEPT ![g].gate = FALSE]
      BY <2>2 DEF LeaveSlot, v
    <3>2. s = [rt[g] EXCEPT !.turn = v, !.gate = FALSE]
      BY <2>2
    <3> QED
      BY <1>0, <3>1, <3>2
  <2> QED
    BY <1>0, <2>1, <2>2
<1>4. s \in Runtime
  BY <1>0, <1>1 DEF Runtime
<1>5. /\ s.state = rt[g].state /\ s.retired = rt[g].retired /\ s.lock = rt[g].lock
      /\ s.run = rt[g].run /\ s.drainer = rt[g].drainer /\ s.turn = v
      /\ s.gate = IF w.gate = None THEN rt[g].gate ELSE FALSE
  BY <1>0 DEF Runtime
<1> HIDE DEF s
<1>6. Agrees(s) /\ (Active(s) => Active(rt[g]))
  BY <1>0, <1>1, <1>5 DEF Agrees, Active
<1>7. Rewritten(g, s)
  BY <1>3, <1>4 DEF Rewritten
<1>8. TypeOK'
  BY <1>0, <1>2, <1>5, <1>6, <1>7, RewrittenTypeOK
<1>9. s.gate = rt[g].gate \/ \A p \in Passes : passes[p].gate # g
  BY <1>0, <1>5, AtWork DEF GateOfTurn
<1>10. v.in # "mutations" /\ v.gate # g
  BY <1>1 DEF Slots
<1> QED
  BY <1>0, <1>1, <1>2, <1>5, <1>6, <1>7, <1>8, <1>9, <1>10, AtWork, TurnInv

(* The turn is let go of with no gate taken.                                 *)
LEMMA FinishWorkStep ==
    ASSUME Inv, NEW g \in Gens, FinishWork(g)
    PROVE  Inv'
<1> DEFINE w == rt[g].turn
<1>0. w \in Work /\ w # None /\ w.gate = None /\ w.who \in {"tick", "drain"}
      /\ rt \in [Gens -> Runtime] /\ rt[g] \in Runtime /\ Agrees(rt[g]) /\ TypeOK
  BY AtWork DEF FinishWork, GateOfTurn, Inv, Work
<1>1. UNCHANGED <<table, engine, flock, passes, swap, ops, waiting>> /\ ops' \in [Ops -> Op]
  BY <1>0 DEF FinishWork, TypeOK
<1>2. ASSUME NEW s \in Runtime, rt' = [rt EXCEPT ![g] = s], s.turn = None,
             s.state = rt[g].state, s.retired = rt[g].retired, s.lock = rt[g].lock,
             s.gate = rt[g].gate, Agrees(s), Active(s) => Active(rt[g]),
             rt[g].drainer = "off" => s.drainer = "off"
      PROVE  Inv'
  <2>1. Rewritten(g, s)
    BY <1>2 DEF Rewritten
  <2>2. TypeOK'
    BY <1>0, <1>1, <1>2, <2>1, RewrittenTypeOK
  <2> QED
    BY <1>1, <1>2, <2>1, <2>2, TurnInv
<1>3. CASE w.who = "tick"
  <2> DEFINE s == [rt[g] EXCEPT !.turn = None, !.run = "over"]
  <2>1. rt' = [[rt EXCEPT ![g].turn = None] EXCEPT ![g].run = "over"]
    BY <1>3 DEF FinishWork
  <2>2. rt' = [rt EXCEPT ![g] = s]
    BY <1>0, <2>1
  <2>3. /\ s \in Runtime /\ s.turn = None /\ s.run = "over" /\ s.drainer = rt[g].drainer
        /\ s.state = rt[g].state /\ s.retired = rt[g].retired /\ s.lock = rt[g].lock
        /\ s.gate = rt[g].gate
    BY <1>0 DEF Runtime
  <2> HIDE DEF s
  <2>4. Agrees(s) /\ Active(rt[g])
    BY <1>0, <1>3, <2>3 DEF Agrees, Active
  <2> QED
    BY <1>2, <2>2, <2>3, <2>4
<1>4. ASSUME NEW d \in {"wait", "retry", "gave up"}, NEW n \in 0..BusyRetries,
             w.who = "drain",
             rt' = [[rt EXCEPT ![g].turn = None] EXCEPT ![g].drainer = d, ![g].refused = n]
      PROVE  Inv'
  <2> DEFINE s == [rt[g] EXCEPT !.turn = None, !.drainer = d, !.refused = n]
  <2>1. rt' = [rt EXCEPT ![g] = s]
    BY <1>0, <1>4
  <2>2. /\ s \in Runtime /\ s.turn = None /\ s.run = rt[g].run /\ s.drainer = d
        /\ s.state = rt[g].state /\ s.retired = rt[g].retired /\ s.lock = rt[g].lock
        /\ s.gate = rt[g].gate
    BY <1>0 DEF Runtime, Idle
  <2> HIDE DEF s
  <2>3. Agrees(s) /\ Active(rt[g]) /\ rt[g].drainer = "draining"
    BY <1>0, <1>4, <2>2 DEF Agrees, Active
  <2> QED
    BY <1>2, <2>1, <2>2, <2>3
<1>5. CASE w.who = "drain"
  <2>1. CASE ~w.busy
    BY <1>4, <1>5, <2>1 DEF FinishWork
  <2>2. CASE w.busy
    <3>1. rt[g].refused + 1 \in Nat
      BY <1>0 DEF Runtime
    <3>2. CASE rt[g].refused + 1 <= BusyRetries
      <4>0. ~(rt[g].refused + 1 > BusyRetries)
        BY <3>1, <3>2
      <4>1. rt[g].refused + 1 \in 0..BusyRetries
        BY <3>1, <3>2
      <4>2. rt' = [[rt EXCEPT ![g].turn = None]
                       EXCEPT ![g].drainer = "retry", ![g].refused = rt[g].refused + 1]
        BY <1>5, <2>2, <3>2, <4>0 DEF FinishWork
      <4> QED
        BY <1>4, <1>5, <4>1, <4>2
    <3>3. CASE rt[g].refused + 1 > BusyRetries
      <4>1. ~(rt[g].refused + 1 <= BusyRetries)
        BY <3>1, <3>3
      <4>2. rt' = [[rt EXCEPT ![g].turn = None]
                       EXCEPT ![g].drainer = "gave up", ![g].refused = 0]
        BY <1>5, <2>2, <3>3, <4>1 DEF FinishWork
      <4> QED
        BY <1>4, <1>5, <4>2
    <3> QED
      BY <3>1, <3>2, <3>3
  <2> QED
    BY <2>1, <2>2
<1> QED
  BY <1>0, <1>3, <1>5

-----------------------------------------------------------------------------
(* The steps of a swap. *)

(* A swap that moves on keeps its runtime.                                   *)
LEMMA SwapUpdates ==
    \A w \in Swap, at \in {"run", "turn", "drop", "start", "insert"} :
        LET v == [w EXCEPT !.at = at] IN v \in Swap /\ v.at = at /\ v.of = w.of
  BY DEF Swap

(* A swap that only moves on.                                                  *)
LEMMA SwapMoves ==
    ASSUME Inv, Reload \/ RunWaitedOut \/ TurnWaitedOut \/ Overrun
    PROVE  Inv'
<1>0. TypeOK /\ swap \in Swap /\ Retiring
  BY DEF Inv, TypeOK
<1>1. UNCHANGED <<rt, engine, flock, passes, ops, waiting>>
  BY DEF Reload, RunWaitedOut, TurnWaitedOut, Overrun
<1>2. table' \in Gens \cup {None} /\ swap' \in Swap /\ Retiring'
  <2>1. CASE Reload
    <3>1. table \in Gens /\ table \in Nat
      BY <1>0, <2>1 DEF TypeOK, Reload
    <3> QED
      BY <2>1, <3>1 DEF Reload, Swap, Retiring
  <2>2. CASE RunWaitedOut
    BY <1>0, <2>2, SwapUpdates DEF RunWaitedOut, Retiring, TypeOK
  <2>3. CASE TurnWaitedOut
    BY <1>0, <2>3, SwapUpdates DEF TurnWaitedOut, Retiring, TypeOK
  <2>4. CASE Overrun
    BY <1>0, <2>4, SwapUpdates DEF Overrun, Retiring, TypeOK
  <2> QED
    BY <2>1, <2>2, <2>3, <2>4
<1>3. TypeOK'
  BY <1>0, <1>1, <1>2 DEF TypeOK
<1>4. Unspawned'
  <2>1. CASE Reload
    <3>1. swap'.of = table /\ swap'.at = "flag" /\ swap.at = "idle" /\ table # None
      BY <2>1 DEF Reload
    <3>2. \A h \in Gens : Ahead(h)' => Ahead(h)
      BY <3>1 DEF Ahead
    <3> QED
      BY <1>1, <3>2 DEF Inv, Unspawned
  <2>2. CASE RunWaitedOut \/ TurnWaitedOut \/ Overrun
    <3>0. swap.at # "idle" /\ \E at \in {"turn", "drop", "start"} : swap' = [swap EXCEPT !.at = at]
      BY <2>2 DEF RunWaitedOut, TurnWaitedOut, Overrun
    <3>1. swap'.of = swap.of /\ swap.at # "idle" /\ swap'.at # "idle"
      BY <1>0, <3>0, SwapUpdates
    <3> QED
      BY <1>1, <3>1 DEF Inv, Unspawned, Ahead
  <2> QED
    BY <2>1, <2>2
<1> QED
  BY <1>1, <1>2, <1>3, <1>4 DEF Inv, LockUnderWork, GateOfTurn, GateOfPass

(* The flag stops what would take the turn.                                  *)
LEMMA FlagStep ==
    ASSUME Inv, Flag
    PROVE  Inv'
<1>1. PICK g \in Gens : g = swap.of
  BY DEF Inv, Retiring, Flag
<1> DEFINE s == [rt[g] EXCEPT !.retired = TRUE]
<1>2. rt \in [Gens -> Runtime] /\ rt[g] \in Runtime /\ Agrees(rt[g]) /\ TypeOK
  BY RuntimeOf DEF Inv
<1>3. rt' = [rt EXCEPT ![g] = s] /\ swap' = [swap EXCEPT !.at = "run"] /\ swap.at = "flag"
      /\ UNCHANGED <<table, engine, flock, passes, ops, waiting>>
  BY <1>1, <1>2 DEF Flag
<1>4. /\ s \in Runtime /\ s.retired /\ s.state = rt[g].state /\ s.lock = rt[g].lock
      /\ s.gate = rt[g].gate /\ SameWork(rt[g], s)
  BY <1>2 DEF Runtime, SameWork
<1> HIDE DEF s
<1>5. Agrees(s) /\ Rewritten(g, s)
  BY <1>2, <1>3, <1>4 DEF Agrees, SameWork, Rewritten
<1>6. swap' \in Swap /\ swap'.at = "run" /\ swap'.of = g
  BY <1>1, <1>2, <1>3, SwapUpdates DEF TypeOK
<1>7. TypeOK'
  BY <1>2, <1>3, <1>4, <1>5, <1>6, RewrittenTyping DEF TypeOK
<1>8. rt'[g] = s /\ \A h \in Gens : h # g => rt'[h] = rt[h]
  BY <1>2, <1>3
<1>9. \A h \in Gens : /\ rt'[h].lock = rt[h].lock /\ rt'[h].gate = rt[h].gate
                      /\ rt'[h].turn = rt[h].turn
  BY <1>4, <1>8 DEF SameWork
<1>10. \A h \in Gens : LockUnderWork(h)'
  <2>1. LockUnderWork(g)'
    BY <1>3, <1>4, <1>8 DEF Inv, LockUnderWork, SameWork
  <2>2. \A h \in Gens : h # g => LockUnderWork(h)'
    BY <1>3, <1>8 DEF Inv, LockUnderWork, Active
  <2> QED
    BY <2>1, <2>2
<1>11. \A h \in Gens : GateOfTurn(h)'
  BY <1>3, <1>9 DEF Inv, GateOfTurn
<1>12. \A p \in Passes : GateOfPass(p)'
  <2> SUFFICES ASSUME NEW p \in Passes PROVE GateOfPass(p)'
    OBVIOUS
  <2>1. passes[p].gate \in Gens \cup {None}
    BY DEF Inv, TypeOK, Pass
  <2> QED
    BY <1>3, <1>9, <2>1 DEF Inv, GateOfPass
<1>13. Retiring' /\ (engine' # None => rt'[engine'].lock)
  BY <1>2, <1>3, <1>4, <1>6, <1>8, <1>9 DEF Inv, Retiring, TypeOK
<1>14. Unspawned'
  <2>1. \A h \in Gens : Ahead(h)' = Ahead(h) /\ rt'[h].drainer = rt[h].drainer
    BY <1>1, <1>3, <1>4, <1>6, <1>8 DEF Ahead, SameWork
  <2> QED
    BY <2>1 DEF Inv, Unspawned
<1> QED
  BY <1>7, <1>10, <1>11, <1>12, <1>13, <1>14 DEF Inv

(* A lock is dropped when no work is left under it, and with it goes the gate. *)
LEMMA LockDroppedInv ==
    ASSUME Inv, NEW g \in Gens, LockDropped(g), rt[g].turn = None, rt[g].retired,
           UNCHANGED <<table, passes, ops, waiting>>,
           swap' \in Swap, swap'.of = swap.of,
           swap'.at = swap.at \/ (swap'.at = "start" /\ swap.at # "idle")
    PROVE  Inv'
<1> DEFINE s == [rt[g] EXCEPT !.lock = FALSE]
<1>0. rt \in [Gens -> Runtime] /\ rt[g] \in Runtime /\ Agrees(rt[g]) /\ TypeOK
  BY RuntimeOf DEF Inv
<1>1. rt' = [rt EXCEPT ![g] = s]
  BY DEF LockDropped
<1>2. /\ s \in Runtime /\ ~s.lock /\ s.state = rt[g].state /\ s.retired = rt[g].retired
      /\ s.gate = rt[g].gate /\ SameWork(rt[g], s)
  BY <1>0 DEF Runtime, SameWork
<1> HIDE DEF s
<1>3. rt'[g] = s /\ \A h \in Gens : h # g => rt'[h] = rt[h]
  BY <1>0, <1>1
<1>4. /\ rt[g].lock => flock = g /\ engine = g /\ flock' = None /\ engine' = None
      /\ ~rt[g].lock => flock # g /\ engine # g /\ flock' = flock /\ engine' = engine
  <2>1. (rt[g].lock <=> flock = g) /\ (rt[g].lock => engine = g) /\ (engine = g => rt[g].lock)
    BY RuntimeOf DEF Inv, LockUnderWork
  <2> QED
    BY <2>1 DEF LockDropped
<1>5. \A h \in Gens : /\ Agrees(rt'[h]) /\ (rt'[h].lock <=> flock' = h)
                      /\ (rt'[h].lock => rt[h].lock)
  <2>1. Agrees(s)
    BY <1>0, <1>2 DEF Agrees, SameWork
  <2>2. /\ Agrees(rt'[g]) /\ (rt'[g].lock <=> flock' = g)
        /\ (rt'[g].lock => rt[g].lock)
    BY <1>2, <1>3, <1>4, <2>1
  <2>3. ASSUME NEW h \in Gens, h # g
        PROVE  /\ Agrees(rt'[h]) /\ (rt'[h].lock <=> flock' = h)
               /\ (rt'[h].lock => rt[h].lock)
    <3>1. rt'[h] = rt[h] /\ Agrees(rt[h]) /\ (rt[h].lock <=> flock = h)
      BY <1>0, <1>3, <2>3 DEF TypeOK
    <3>2. flock' = h <=> flock = h
      BY <1>4, <2>3
    <3> QED
      BY <3>1, <3>2
  <2> QED
    BY <2>2, <2>3
<1>6. TypeOK'
  <2>1. rt' \in [Gens -> Runtime]
    BY <1>0, <1>1, <1>2
  <2>2. flock' \in Gens \cup Passes \cup {None} /\ engine' \in Gens \cup {None}
    BY <1>0, <1>4 DEF TypeOK
  <2> QED
    BY <1>0, <1>5, <2>1, <2>2 DEF TypeOK
<1>7. \A h \in Gens : LockUnderWork(h)'
  <2>1. LockUnderWork(g)'
    BY <1>2, <1>3 DEF LockUnderWork, SameWork
  <2>2. ASSUME NEW h \in Gens, h # g PROVE LockUnderWork(h)'
    <3>1. LockUnderWork(h) /\ (rt[h].lock => flock = h)
      BY RuntimeOf DEF Inv
    <3>2. rt[h].lock => engine' = h
      BY <1>4, <2>2, <3>1 DEF LockUnderWork
    <3> QED
      BY <1>3, <2>2, <3>1, <3>2 DEF LockUnderWork, Active
  <2> QED
    BY <2>1, <2>2
<1>8. \A h \in Gens : rt'[h].turn = rt[h].turn /\ rt'[h].gate = rt[h].gate
                      /\ rt'[h].retired = rt[h].retired
  BY <1>2, <1>3 DEF SameWork
<1>9. \A h \in Gens : GateOfTurn(h)'
  BY <1>8 DEF Inv, GateOfTurn
<1>10. ASSUME NEW p \in Passes PROVE GateOfPass(p)'
  <2>1. passes[p].gate \in Gens \cup {None} /\ GateOfPass(p)
    BY DEF Inv, TypeOK, Pass
  <2>2. flock = p => flock' = p
    BY <1>4
  <2> QED
    BY <1>8, <2>1, <2>2 DEF GateOfPass
<1>11. engine' # None => rt'[engine'].lock
  BY <1>0, <1>3, <1>4 DEF Inv, TypeOK
<1>12. Retiring'
  BY <1>8 DEF Inv, Retiring
<1>13. Unspawned'
  <2>1. \A h \in Gens : (Ahead(h)' => Ahead(h)) /\ rt'[h].drainer = rt[h].drainer
    BY <1>2, <1>3 DEF Ahead, SameWork
  <2> QED
    BY <2>1 DEF Inv, Unspawned
<1> QED
  BY <1>6, <1>7, <1>9, <1>10, <1>11, <1>12, <1>13 DEF Inv

(* Both drops find the turn free and the runtime retired.                    *)
LEMMA DropSteps ==
    ASSUME Inv, DropLock \/ \E g \in Gens : DropLast(g)
    PROVE  Inv'
<1>0. swap \in Swap /\ Retiring
  BY DEF Inv, TypeOK
<1>1. CASE DropLock
  <2>1. PICK g \in Gens : g = swap.of
    BY <1>0, <1>1 DEF Retiring, DropLock
  <2>2. LockDropped(g) /\ rt[g].turn = None /\ rt[g].retired
        /\ UNCHANGED <<table, passes, ops, waiting>>
    BY <1>0, <1>1, <2>1 DEF Retiring, DropLock
  <2>3. swap' \in Swap /\ swap'.at = "start" /\ swap'.of = swap.of /\ swap.at # "idle"
    BY <1>0, <1>1, SwapUpdates DEF DropLock
  <2> QED
    BY <2>2, <2>3, LockDroppedInv
<1>2. ASSUME NEW g \in Gens, DropLast(g) PROVE Inv'
  <2>1. LockDropped(g) /\ rt[g].turn = None /\ rt[g].retired
        /\ UNCHANGED <<table, passes, ops, waiting>> /\ swap' = swap
    BY <1>2 DEF DropLast
  <2>2. swap' \in Swap
    BY <1>0, <2>1
  <2>3. swap'.of = swap.of /\ swap'.at = swap.at
    BY <2>1
  <2> QED
    BY <2>1, <2>2, <2>3, LockDroppedInv
<1> QED
  BY <1>1, <1>2

(* The replacement gets the lock only when nobody has it.                    *)
LEMMA StartStep ==
    ASSUME Inv, Start
    PROVE  Inv'
<1>1. swap.of + 1 \in Gens /\ swap.at = "start" /\ TypeOK
  BY DEF Inv, Retiring, Start
<1>2. PICK g \in Gens : g = swap.of + 1
  BY <1>1
<1>3. rt \in [Gens -> Runtime] /\ rt[g] \in Runtime /\ Agrees(rt[g]) /\ TypeOK
  BY RuntimeOf DEF Inv
<1>4. swap' \in Swap /\ swap'.at = "insert" /\ swap'.of = swap.of
      /\ UNCHANGED <<table, passes, ops, waiting>>
  BY <1>3, SwapUpdates DEF TypeOK, Start
<1>5. Retiring' /\ \A h \in Gens : Ahead(h)' = Ahead(h)
  BY <1>1, <1>4 DEF Inv, Retiring, Ahead
<1>6. CASE flock # None
  <2> DEFINE s == [rt[g] EXCEPT !.state = "blocked"]
  <2>1. rt' = [rt EXCEPT ![g] = s] /\ UNCHANGED <<flock, engine>>
    BY <1>2, <1>3, <1>6 DEF Start
  <2>2. /\ s \in Runtime /\ s.state = "blocked" /\ s.lock = rt[g].lock
        /\ s.retired = rt[g].retired /\ s.gate = rt[g].gate /\ SameWork(rt[g], s)
    BY <1>3 DEF Runtime, SameWork
  <2> HIDE DEF s
  <2>3. Agrees(s) /\ Rewritten(g, s) /\ rt'[g] = s /\ \A h \in Gens : h # g => rt'[h] = rt[h]
    BY <1>3, <2>1, <2>2 DEF Agrees, SameWork, Rewritten
  <2>4. TypeOK'
    BY <1>3, <1>4, <2>1, <2>2, <2>3, RewrittenTyping DEF TypeOK
  <2>5. \A h \in Gens : rt'[h].lock = rt[h].lock /\ rt'[h].gate = rt[h].gate
                        /\ rt'[h].turn = rt[h].turn
    BY <2>2, <2>3 DEF SameWork
  <2>6. \A h \in Gens : LockUnderWork(h)'
    <3>1. LockUnderWork(g)'
      BY <2>1, <2>2, <2>3 DEF Inv, LockUnderWork, SameWork, Active
    <3>2. \A h \in Gens : h # g => LockUnderWork(h)'
      BY <2>1, <2>3 DEF Inv, LockUnderWork, Active
    <3> QED
      BY <3>1, <3>2
  <2>7. \A h \in Gens : GateOfTurn(h)'
    BY <1>4, <2>5 DEF Inv, GateOfTurn
  <2>8. ASSUME NEW p \in Passes PROVE GateOfPass(p)'
    <3>1. passes[p].gate \in Gens \cup {None}
      BY <1>3 DEF TypeOK, Pass
    <3> QED
      BY <1>4, <2>1, <2>5, <3>1 DEF Inv, GateOfPass
  <2>9. engine' # None => rt'[engine'].lock
    BY <1>3, <2>1, <2>5 DEF Inv, TypeOK
  <2>10. Unspawned'
    BY <1>5, <2>2, <2>3 DEF Inv, Unspawned, SameWork
  <2> QED
    BY <1>5, <2>4, <2>6, <2>7, <2>8, <2>9, <2>10 DEF Inv
<1>7. CASE flock = None
  <2> DEFINE s == [rt[g] EXCEPT !.state = "ready", !.lock = TRUE]
  <2>1. rt' = [rt EXCEPT ![g] = s] /\ flock' = g /\ engine' = g
    BY <1>2, <1>3, <1>7 DEF Start
  <2>2. /\ s \in Runtime /\ s.state = "ready" /\ s.lock
        /\ s.retired = rt[g].retired /\ s.gate = rt[g].gate /\ SameWork(rt[g], s)
    BY <1>3 DEF Runtime, SameWork
  <2> HIDE DEF s
  <2>3. Agrees(s) /\ rt'[g] = s /\ \A h \in Gens : h # g => rt'[h] = rt[h]
    BY <1>3, <2>1, <2>2 DEF Agrees, SameWork
  <2>4. \A h \in Gens : ~rt[h].lock /\ rt[h].turn = None
    BY <1>7, RuntimeOf DEF Inv, LockUnderWork
  <2>5. TypeOK'
    <3>1. rt' \in [Gens -> Runtime]
      BY <1>3, <2>1, <2>2
    <3>2. \A h \in Gens : Agrees(rt'[h]) /\ (rt'[h].lock <=> flock' = h)
      BY <1>3, <2>1, <2>2, <2>3, <2>4 DEF TypeOK
    <3> QED
      BY <1>3, <1>4, <2>1, <3>1, <3>2 DEF TypeOK
  <2>6. \A h \in Gens : rt'[h].gate = rt[h].gate /\ rt'[h].turn = None
    BY <2>2, <2>3, <2>4 DEF SameWork
  <2>7. \A h \in Gens : LockUnderWork(h)'
    <3>1. LockUnderWork(g)'
      BY <2>1, <2>2, <2>3 DEF LockUnderWork
    <3>2. \A h \in Gens : h # g => LockUnderWork(h)'
      BY <2>1, <2>3, <2>4 DEF Inv, LockUnderWork, Active
    <3> QED
      BY <3>1, <3>2
  <2>8. \A h \in Gens : GateOfTurn(h)'
    BY <2>6 DEF GateOfTurn
  <2>9. ASSUME NEW p \in Passes PROVE GateOfPass(p)'
    <3>1. passes[p].gate \in Gens \cup {None} /\ GateOfPass(p) /\ p # None
      BY <1>3 DEF Inv, TypeOK, Pass
    <3> QED
      BY <1>4, <1>7, <2>6, <3>1 DEF GateOfPass
  <2>10. engine' # None => rt'[engine'].lock
    BY <2>1, <2>2, <2>3
  <2>11. Unspawned'
    BY <1>5, <2>2, <2>3 DEF Inv, Unspawned, SameWork
  <2> QED
    BY <1>5, <2>5, <2>7, <2>8, <2>9, <2>10, <2>11 DEF Inv
<1> QED
  BY <1>6, <1>7

(* Its drainer is spawned with the lock held.                                *)
LEMMA InsertStep ==
    ASSUME Inv, Insert
    PROVE  Inv'
<1>1. swap.of + 1 \in Gens /\ TypeOK
  BY DEF Inv, Retiring, Insert
<1>2. PICK g \in Gens : g = swap.of + 1
  BY <1>1
<1>3. rt \in [Gens -> Runtime] /\ rt[g] \in Runtime /\ Agrees(rt[g]) /\ LockUnderWork(g)
  BY RuntimeOf DEF Inv
<1>4. /\ swap' = [at |-> "idle", of |-> None] /\ table' = g
      /\ UNCHANGED <<engine, flock, passes, ops, waiting>>
      /\ rt' = IF rt[g].state = "ready" THEN Spawned(g) ELSE rt
  BY <1>2 DEF Insert
<1>5. swap' \in Swap /\ swap'.at = "idle" /\ Retiring'
  BY <1>4 DEF Swap, Retiring
<1>8. swap.of \in Nat /\ \A h \in Gens : h \in Nat /\ (Ahead(h)' => Ahead(h) /\ h # g)
  <2>1. swap.at = "insert" /\ swap.of \in Nat
    BY DEF Insert, Inv, Retiring
  <2>2. g \in Nat /\ g \in Gens /\ g # None
    BY <1>2
  <2>3. ASSUME NEW h \in Gens PROVE h \in Nat /\ (Ahead(h)' => Ahead(h) /\ h # g)
    <3>1. h \in Nat
      OBVIOUS
    <3>2. Ahead(h)' => h > g
      BY <1>4, <1>5 DEF Ahead
    <3>3. Ahead(h) <=> h > swap.of
      BY <2>1 DEF Ahead
    <3>4. h > g => h > swap.of /\ h # g
      BY <1>2, <2>1, <2>2, <3>1
    <3> QED
      BY <3>1, <3>2, <3>3, <3>4
  <2> QED
    BY <2>1, <2>3
<1>9. rt[g].drainer = "off"
  <2>1. Ahead(g)
    BY <1>2, <1>8 DEF Ahead, Insert
  <2> QED
    BY <2>1 DEF Inv, Unspawned
<1>6. CASE rt[g].state # "ready"
  <2>1. rt' = rt
    BY <1>4, <1>6
  <2>2. TypeOK'
    BY <1>1, <1>4, <1>5, <2>1 DEF TypeOK
  <2> QED
    BY <1>4, <1>5, <1>8, <2>1, <2>2 DEF Inv, LockUnderWork, GateOfTurn, GateOfPass, Unspawned
<1>7. CASE rt[g].state = "ready"
  <2> DEFINE s == [rt[g] EXCEPT !.drainer = "wait", !.mark = TRUE]
  <2>1. rt' = [rt EXCEPT ![g] = s]
    BY <1>3, <1>4, <1>7 DEF Spawned
  <2>2. /\ s \in Runtime /\ SameLock(rt[g], s) /\ s.turn = rt[g].turn /\ s.run = rt[g].run
        /\ s.drainer = "wait"
    BY <1>3 DEF Runtime, SameLock, Idle
  <2> HIDE DEF s
  <2>3. Agrees(s)
    BY <1>3, <1>9, <2>2 DEF Agrees
  <2>4. Rewritten(g, s) /\ rt'[g] = s /\ \A h \in Gens : h # g => rt'[h] = rt[h]
    BY <1>3, <2>1, <2>2 DEF Rewritten
  <2>5. TypeOK'
    BY <1>1, <1>4, <1>5, <2>2, <2>3, <2>4, RewrittenTyping DEF TypeOK, SameLock
  <2>6. \A h \in Gens : SameLock(rt[h], rt'[h]) /\ rt'[h].turn = rt[h].turn
                        /\ (Active(rt'[h]) => Active(rt[h]) \/ rt[h].state = "ready")
    BY <1>7, <2>2, <2>4 DEF SameLock
  <2>7. \A h \in Gens : LockUnderWork(h)' /\ GateOfTurn(h)'
    <3>1. ASSUME NEW h \in Gens PROVE LockUnderWork(h)'
      <4>1. LockUnderWork(h)
        BY DEF Inv
      <4> QED
        BY <1>4, <2>6, <4>1 DEF LockUnderWork, SameLock
    <3>2. ASSUME NEW h \in Gens PROVE GateOfTurn(h)'
      <4>1. GateOfTurn(h)
        BY DEF Inv
      <4> QED
        BY <1>4, <2>6, <4>1 DEF GateOfTurn, SameLock
    <3> QED
      BY <3>1, <3>2
  <2>8. ASSUME NEW p \in Passes PROVE GateOfPass(p)'
    <3>1. passes[p].gate \in Gens \cup {None}
      BY <1>1 DEF TypeOK, Pass
    <3> QED
      BY <1>4, <2>6, <3>1 DEF Inv, GateOfPass, SameLock
  <2>9. engine' # None => rt'[engine'].lock
    BY <1>1, <1>4, <2>6 DEF Inv, TypeOK, SameLock
  <2>10. Unspawned'
    BY <1>8, <2>4 DEF Inv, Unspawned
  <2> QED
    BY <1>5, <2>5, <2>7, <2>8, <2>9, <2>10 DEF Inv
<1> QED
  BY <1>6, <1>7

-----------------------------------------------------------------------------
(* The steps of the other passes. *)

(* A step that opens or closes gates and touches nothing else of a runtime.    *)
LEMMA GatesTyping ==
    ASSUME TypeOK, NEW g \in Gens, NEW b \in BOOLEAN, rt' = [rt EXCEPT ![g].gate = b]
    PROVE  /\ rt' \in [Gens -> Runtime]
           /\ rt'[g].gate = b /\ \A h \in Gens : h # g => rt'[h].gate = rt[h].gate
           /\ \A h \in Gens : /\ SameWork(rt[h], rt'[h]) /\ rt'[h].state = rt[h].state
                              /\ rt'[h].retired = rt[h].retired /\ rt'[h].lock = rt[h].lock
<1> DEFINE s == [rt[g] EXCEPT !.gate = b]
<1>1. rt \in [Gens -> Runtime] /\ rt[g] \in Runtime /\ rt' = [rt EXCEPT ![g] = s]
  BY RuntimeOf
<1>2. /\ s \in Runtime /\ s.gate = b /\ SameWork(rt[g], s) /\ s.state = rt[g].state
      /\ s.retired = rt[g].retired /\ s.lock = rt[g].lock
  BY <1>1 DEF Runtime, SameWork
<1> QED
  BY <1>1, <1>2 DEF SameWork

(* Such a step keeps what does not read a gate or a pass.                      *)
LEMMA PassesInv ==
    ASSUME Inv, rt' \in [Gens -> Runtime], passes' \in [Passes -> Pass],
           \A h \in Gens : /\ SameWork(rt[h], rt'[h]) /\ rt'[h].state = rt[h].state
                           /\ rt'[h].retired = rt[h].retired /\ rt'[h].lock = rt[h].lock,
           ops' \in [Ops -> Op], flock' \in Passes \cup {None, flock},
           \A h \in Gens : flock' = h <=> flock = h,
           UNCHANGED <<table, engine, swap, waiting>>,
           \A h \in Gens : rt[h].turn # None /\ rt[h].turn.gate = h =>
               rt'[h].gate /\ \A p \in Passes : passes'[p].gate # h,
           \A p \in Passes : GateOfPass(p)'
    PROVE  Inv'
<1>0. TypeOK
  BY DEF Inv
<1>1. TypeOK'
  <2>1. \A h \in Gens : Agrees(rt'[h]) /\ (rt'[h].lock <=> flock' = h)
    BY <1>0 DEF TypeOK, SameWork, Agrees
  <2> QED
    BY <1>0, <2>1 DEF TypeOK
<1>2. \A h \in Gens : LockUnderWork(h)'
  <2> TAKE h \in Gens
  <2>1. LockUnderWork(h)
    BY DEF Inv
  <2>2. Active(rt'[h]) <=> Active(rt[h])
    BY DEF Active, SameWork
  <2> QED
    BY <2>1, <2>2 DEF LockUnderWork, SameWork
<1>3. \A h \in Gens : GateOfTurn(h)'
  BY DEF Inv, GateOfTurn, SameWork
<1>4. (engine' # None => rt'[engine'].lock) /\ Retiring'
  BY <1>0 DEF Inv, Retiring, SameWork, TypeOK
<1>5. Unspawned'
  BY DEF Inv, Unspawned, Ahead, SameWork
<1> QED
  BY <1>1, <1>2, <1>3, <1>4, <1>5 DEF Inv

(* The records of the passes.                                                *)
LEMMA PassUpdates ==
    /\ Over \in Pass /\ Over.at = "over" /\ Over.gate = None
    /\ \A slot \in Slots, f \in Gens \cup {None} :
           /\ Running(slot, f) \in Pass
           /\ Running(slot, f).at = "running" /\ Running(slot, f).gate = f
<1>1. Owed \in SUBSET Ops
  BY DEF Owed
<1> QED
  BY <1>1 DEF Over, Running, Pass

(* A pass enters by the registered gate, or by the flock when none is.       *)
LEMMA PassEntersStep ==
    ASSUME Inv, NEW p \in Passes, NEW slot \in Slots, PassEnters(p, slot)
    PROVE  Inv'
<1>0. /\ TypeOK /\ passes \in [Passes -> Pass] /\ passes[p].at = "fresh" /\ passes[p].gate = None
      /\ \A q \in Passes : GateOfPass(q) /\ passes[q].gate \in Gens \cup {None}
      /\ UNCHANGED <<table, engine, swap, ops, waiting>>
  BY DEF Inv, TypeOK, Pass, GateOfPass, PassEnters
<1>1. CASE /\ GateFree
           /\ rt' = [rt EXCEPT ![engine].gate = TRUE]
           /\ passes' = [passes EXCEPT ![p] = Running(slot, engine)]
           /\ UNCHANGED flock
  <2>1. PICK f \in Gens : f = engine
    BY <1>0, <1>1 DEF GateFree, TypeOK
  <2>2. rt' = [rt EXCEPT ![f].gate = TRUE] /\ ~rt[f].gate
    BY <1>1, <2>1 DEF GateFree
  <2>3. /\ passes' \in [Passes -> Pass] /\ passes'[p].at = "running" /\ passes'[p].gate = f
        /\ \A q \in Passes : q # p => passes'[q] = passes[q]
    BY <1>0, <1>1, <2>1, PassUpdates
  <2>4. \A q \in Passes : passes[q].gate # f
    BY <1>0, <2>2 DEF GateOfPass
  <2>5. \A q \in Passes : GateOfPass(q)'
    <3> SUFFICES ASSUME NEW q \in Passes PROVE GateOfPass(q)'
      OBVIOUS
    <3>1. \A h \in Gens : rt[h].gate => rt'[h].gate
      BY <1>0, <2>2, GatesTyping
    <3>2. rt'[f].gate
      BY <1>0, <2>2, GatesTyping
    <3>3. CASE q = p
      BY <2>3, <2>4, <3>2, <3>3 DEF GateOfPass
    <3>4. CASE q # p
      BY <1>0, <1>1, <2>3, <2>4, <3>1, <3>4 DEF GateOfPass
    <3> QED
      BY <3>3, <3>4
  <2>6. \A h \in Gens : rt[h].turn # None /\ rt[h].turn.gate = h =>
               rt'[h].gate /\ \A q \in Passes : passes'[q].gate # h
    <3> SUFFICES ASSUME NEW h \in Gens, rt[h].turn # None, rt[h].turn.gate = h
                 PROVE  rt'[h].gate /\ \A q \in Passes : passes'[q].gate # h
      OBVIOUS
    <3>1. rt[h].gate /\ \A q \in Passes : passes[q].gate # h
      BY DEF Inv, GateOfTurn
    <3>2. h # f
      BY <2>2, <3>1
    <3> QED
      BY <1>0, <2>2, <2>3, <3>1, <3>2, GatesTyping
  <2>7. rt' \in [Gens -> Runtime]
        /\ \A h \in Gens : /\ SameWork(rt[h], rt'[h]) /\ rt'[h].state = rt[h].state
                           /\ rt'[h].retired = rt[h].retired /\ rt'[h].lock = rt[h].lock
    BY <1>0, <2>2, GatesTyping
  <2>8. ops' \in [Ops -> Op] /\ flock' = flock
    BY <1>0, <1>1 DEF TypeOK
  <2> QED
    BY <1>0, <2>3, <2>5, <2>6, <2>7, <2>8, PassesInv
<1>2. CASE /\ engine = None /\ flock = None
           /\ flock' = p
           /\ passes' = [passes EXCEPT ![p] = Running(slot, None)]
           /\ UNCHANGED rt
  <2>1. /\ passes' \in [Passes -> Pass] /\ passes'[p].at = "running" /\ passes'[p].gate = None
        /\ \A q \in Passes : q # p => passes'[q] = passes[q]
    <3>1. LET r == Running(slot, None) IN r \in Pass /\ r.at = "running" /\ r.gate = None
      BY PassUpdates
    <3> QED
      BY <1>0, <1>2, <3>1
  <2>2. \A q \in Passes : GateOfPass(q)'
    <3> SUFFICES ASSUME NEW q \in Passes PROVE GateOfPass(q)'
      OBVIOUS
    <3>1. CASE q = p
      BY <1>2, <2>1, <3>1 DEF GateOfPass
    <3>2. q # None
      OBVIOUS
    <3>3. CASE q # p
      BY <1>0, <1>2, <2>1, <3>2, <3>3 DEF GateOfPass
    <3> QED
      BY <3>1, <3>3
  <2>3. \A h \in Gens : rt[h].turn = None
    <3>1. \A h \in Gens : ~rt[h].lock
      BY <1>2, RuntimeOf DEF Inv
    <3> QED
      BY <3>1 DEF Inv, LockUnderWork
  <2>4. rt' \in [Gens -> Runtime]
        /\ \A h \in Gens : /\ SameWork(rt[h], rt'[h]) /\ rt'[h].state = rt[h].state
                           /\ rt'[h].retired = rt[h].retired /\ rt'[h].lock = rt[h].lock
    BY <1>0, <1>2 DEF TypeOK, SameWork
  <2>5. ops' \in [Ops -> Op] /\ flock' = p /\ \A h \in Gens : h # p /\ flock # h
    BY <1>0, <1>2 DEF TypeOK
  <2> QED
    BY <1>0, <2>1, <2>2, <2>3, <2>4, <2>5, PassesInv
<1> QED
  BY <1>1, <1>2 DEF PassEnters

(* A pass leaves, and opens no gate but its own.                             *)
LEMMA PassLeavesStep ==
    ASSUME Inv, NEW p \in Passes, PassLeaves(p)
    PROVE  Inv'
<1>0. /\ TypeOK /\ passes \in [Passes -> Pass] /\ passes[p].at = "running"
      /\ \A q \in Passes : GateOfPass(q) /\ passes[q].gate \in Gens \cup {None}
      /\ passes[p].todo \in SUBSET Ops
      /\ flock' = (IF flock = p THEN None ELSE flock)
      /\ passes' = [passes EXCEPT ![p] = Over]
      /\ UNCHANGED <<table, engine, swap, waiting>>
  BY DEF Inv, TypeOK, Pass, PassLeaves
<1>1. /\ passes' \in [Passes -> Pass] /\ passes'[p].at = "over" /\ passes'[p].gate = None
      /\ \A q \in Passes : q # p => passes'[q] = passes[q]
  BY <1>0, PassUpdates
<1>2. ops' \in [Ops -> Op]
  BY <1>0, DrainedTyped DEF PassLeaves
<1>3. flock' \in Passes \cup {None, flock} /\ \A h \in Gens : flock' = h <=> flock = h
  BY <1>0
<1>4. CASE passes[p].gate = None
  <2>1. rt' = rt
    BY <1>4 DEF PassLeaves
  <2>2. \A q \in Passes : GateOfPass(q)'
    <3> SUFFICES ASSUME NEW q \in Passes PROVE GateOfPass(q)'
      OBVIOUS
    <3>1. CASE q = p
      BY <1>1, <3>1 DEF GateOfPass
    <3>2. CASE q # p
      BY <1>0, <1>1, <2>1, <3>2 DEF GateOfPass
    <3> QED
      BY <3>1, <3>2
  <2>3. rt' \in [Gens -> Runtime]
        /\ \A h \in Gens : /\ SameWork(rt[h], rt'[h]) /\ rt'[h].state = rt[h].state
                           /\ rt'[h].retired = rt[h].retired /\ rt'[h].lock = rt[h].lock
    BY <1>0, <2>1 DEF TypeOK, SameWork
  <2>4. \A h \in Gens : rt[h].turn # None /\ rt[h].turn.gate = h =>
               rt'[h].gate /\ \A q \in Passes : passes'[q].gate # h
    <3> SUFFICES ASSUME NEW h \in Gens, rt[h].turn # None, rt[h].turn.gate = h
                 PROVE  rt'[h].gate /\ \A q \in Passes : passes'[q].gate # h
      OBVIOUS
    <3>1. rt[h].gate /\ (\A q \in Passes : passes[q].gate # h) /\ h # None
      BY DEF Inv, GateOfTurn
    <3> QED
      BY <1>1, <2>1, <3>1
  <2> QED
    BY <1>0, <1>1, <1>2, <1>3, <2>2, <2>3, <2>4, PassesInv
<1>5. CASE passes[p].gate # None
  <2>1. PICK f \in Gens : f = passes[p].gate
    BY <1>0, <1>5
  <2>2. rt' = [rt EXCEPT ![f].gate = FALSE]
    BY <1>5, <2>1 DEF PassLeaves
  <2>3. \A h \in Gens : h # f => rt'[h].gate = rt[h].gate
    BY <1>0, <2>2, GatesTyping
  <2>4. \A q \in Passes : passes[q].gate = f => q = p
    BY <1>0, <1>5, <2>1 DEF GateOfPass
  <2>5. \A q \in Passes : GateOfPass(q)'
    <3> SUFFICES ASSUME NEW q \in Passes PROVE GateOfPass(q)'
      OBVIOUS
    <3>1. CASE q = p
      BY <1>1, <3>1 DEF GateOfPass
    <3>2. CASE q # p
      <4>1. passes'[q] = passes[q] /\ passes[q].gate # f
        BY <1>1, <2>4, <3>2
      <4>2. flock = q => flock' = q
        BY <1>0, <3>2
      <4>3. \A r \in Passes : passes'[r].gate # None => passes'[r].gate = passes[r].gate
        BY <1>1
      <4>4. GateOfPass(q) /\ passes[q].gate \in Gens \cup {None}
        BY <1>0
      <4>5. passes[q].gate # None => rt'[passes[q].gate].gate
        BY <2>3, <4>1, <4>4 DEF GateOfPass
      <4> QED
        BY <4>1, <4>2, <4>3, <4>4, <4>5 DEF GateOfPass
    <3> QED
      BY <3>1, <3>2
  <2>6. \A h \in Gens : rt[h].turn # None /\ rt[h].turn.gate = h =>
               rt'[h].gate /\ \A q \in Passes : passes'[q].gate # h
    <3> SUFFICES ASSUME NEW h \in Gens, rt[h].turn # None, rt[h].turn.gate = h
                 PROVE  rt'[h].gate /\ \A q \in Passes : passes'[q].gate # h
      OBVIOUS
    <3>1. rt[h].gate /\ \A q \in Passes : passes[q].gate # h
      BY DEF Inv, GateOfTurn
    <3>2. h # f
      BY <2>1, <3>1
    <3> QED
      BY <1>1, <2>3, <3>1, <3>2
  <2>7. rt' \in [Gens -> Runtime]
        /\ \A h \in Gens : /\ SameWork(rt[h], rt'[h]) /\ rt'[h].state = rt[h].state
                           /\ rt'[h].retired = rt[h].retired /\ rt'[h].lock = rt[h].lock
    BY <1>0, <2>2, GatesTyping
  <2> QED
    BY <1>0, <1>1, <1>2, <1>3, <2>5, <2>6, <2>7, PassesInv
<1> QED
  BY <1>4, <1>5

-----------------------------------------------------------------------------
(* The theorems. *)

(* The account is not running.                                               *)
LEMMA InitInv == Init => Inv
<1> SUFFICES ASSUME Init PROVE Inv
  OBVIOUS
<1>1. Unborn \in Runtime /\ Agrees(Unborn) /\ ~Unborn.lock /\ Unborn.turn = None
      /\ ~Active(Unborn) /\ Unborn.state = "unborn" /\ Unborn.drainer = "off"
  BY DEF Unborn, Runtime, Agrees, Active
<1>2. [Over EXCEPT !.at = "fresh"] \in Pass
      /\ [Over EXCEPT !.at = "fresh"].at = "fresh" /\ [Over EXCEPT !.at = "fresh"].gate = None
  BY DEF Over, Pass
<1>3. TypeOK
  <2>1. rt \in [Gens -> Runtime] /\ passes \in [Passes -> Pass]
    BY <1>1, <1>2 DEF Init
  <2>2. swap \in Swap /\ ops \in [Ops -> Op]
    BY DEF Init, Swap, Op
  <2>3. \A g \in Gens : Agrees(rt[g]) /\ (rt[g].lock <=> flock = g)
    BY <1>1 DEF Init
  <2> QED
    BY <2>1, <2>2, <2>3 DEF Init, TypeOK
<1>4. \A g \in Gens : LockUnderWork(g) /\ GateOfTurn(g) /\ rt[g].drainer = "off"
  BY <1>1 DEF Init, LockUnderWork, GateOfTurn
<1>5. \A p \in Passes : GateOfPass(p)
  BY <1>2 DEF Init, GateOfPass
<1>6. engine = None /\ Retiring
  BY DEF Init, Retiring
<1> QED
  BY <1>3, <1>4, <1>5, <1>6 DEF Inv, Unspawned

(* Every step keeps the invariant.                                           *)
LEMMA NextInv ==
    ASSUME Inv, [Next]_vars
    PROVE  Inv'
<1>1. CASE Mutations
  BY <1>1, MutationsStep DEF Mutations
<1>2. CASE Swapping
  BY <1>2, SwapMoves, FlagStep, DropSteps, StartStep, InsertStep DEF Swapping
<1>3. CASE Others
  BY <1>3, PassEntersStep, PassLeavesStep DEF Others
<1>4. ASSUME NEW g \in Gens, Ticks(g) PROVE Inv'
  BY <1>4, TickerStep, TakesTurnStep DEF Ticks
<1>5. ASSUME NEW g \in Gens, Working(g) PROVE Inv'
  BY <1>5, EnterSlotStep, LeaveSlotStep, FinishWorkStep DEF Working
<1>6. ASSUME NEW g \in Gens, Drainer(g) PROVE Inv'
  BY <1>6, TickerStep, TakesTurnStep DEF Drainer
<1>7. ASSUME NEW g \in Gens, DropLast(g) PROVE Inv'
  BY <1>7, DropSteps
<1>8. CASE UNCHANGED vars
  BY <1>8 DEF vars, Inv, TypeOK, LockUnderWork, GateOfTurn, GateOfPass, Retiring, Unspawned, Ahead
<1> QED
  BY <1>1, <1>2, <1>3, <1>4, <1>5, <1>6, <1>7, <1>8 DEF Next

(* The invariant holds of every behaviour of the specification.              *)
THEOREM Invariance == Spec => []Inv
  BY InitInv, NextInv, PTL DEF Spec

(* Types, and that a tick and a drainer agree with the turn on who is at work, *)
(* for any number of runtimes, passes, mutations and callers.                  *)
THEOREM RuntimeTyping == Spec => []TypeOK
<1>1. Inv => TypeOK
  BY DEF Inv
<1> QED
  BY <1>1, Invariance, PTL

(* Whatever runs under a turn runs while its runtime holds the account's lock  *)
(* and registers the gate, however a retirement ends.                          *)
THEOREM WorkIsCovered == Spec => []LockCoversWork
<1>1. Inv => LockCoversWork
  BY RuntimeOf DEF Inv, LockUnderWork, LockCoversWork
<1> QED
  BY <1>1, Invariance, PTL

(* Two drains that both answer to the engine there is do not exist.          *)
LEMMA TwoDrainers ==
    ASSUME Inv, NEW d \in Draining, NEW e \in Draining, d # e,
           \A f \in {d, e} : f[3] = None \/ f[3] = engine
    PROVE  FALSE
<1>0. TypeOK /\ (engine # None => engine \in Gens /\ flock = engine)
  BY RuntimeOf DEF Inv, TypeOK
<1>1. ASSUME NEW f \in Draining, f[3] = None \/ f[3] = engine
      PROVE  \/ \E g \in Gens : /\ f = <<"runtime", g, g>> /\ engine = g
                                /\ rt[g].turn # None /\ rt[g].turn.gate = g
             \/ \E p \in Passes : /\ f = <<"pass", p, passes[p].gate>>
                                  /\ passes[p].at = "running"
                                  /\ (passes[p].gate = None \/ passes[p].gate = engine)
  <2>1. ASSUME NEW g \in Gens, rt[g].turn # None, rt[g].turn.in = "mutations",
               f = <<"runtime", g, rt[g].turn.gate>>
        PROVE  f = <<"runtime", g, g>> /\ engine = g /\ rt[g].turn.gate = g
    <3>1. engine = g /\ rt[g].turn.gate = g
      BY <2>1, AtWork DEF GateOfTurn
    <3> QED
      BY <2>1, <3>1
  <2>2. ASSUME NEW p \in Passes, f = <<"pass", p, passes[p].gate>>
        PROVE  passes[p].gate = None \/ passes[p].gate = engine
    BY <1>1, <2>2
  <2> QED
    BY <2>1, <2>2 DEF Draining
<1>2. ASSUME NEW g \in Gens, NEW p \in Passes, engine = g,
             rt[g].turn # None, rt[g].turn.gate = g, passes[p].at = "running",
             passes[p].gate = None \/ passes[p].gate = engine
      PROVE  FALSE
  <2>1. flock = g /\ passes[p].gate # g /\ g # p
    BY <1>0, <1>2 DEF Inv, GateOfTurn
  <2> QED
    BY <1>2, <2>1 DEF Inv, GateOfPass
<1>3. ASSUME NEW p \in Passes, NEW q \in Passes, p # q,
             passes[p].at = "running", passes[q].at = "running",
             passes[p].gate = None \/ passes[p].gate = engine,
             passes[q].gate = None \/ passes[q].gate = engine
      PROVE  FALSE
  <2>1. GateOfPass(p) /\ GateOfPass(q)
    BY DEF Inv
  <2> QED
    BY <1>0, <1>3, <2>1 DEF GateOfPass
<1> QED
  BY <1>1, <1>2, <1>3

(* Two drains of the queue run at once only when one of them holds the gate of *)
(* an engine that has left.                                                    *)
THEOREM DrainsExclude == Spec => []DrainsAlone
<1>1. Inv => DrainsAlone
  BY TwoDrainers DEF DrainsAlone
<1> QED
  BY <1>1, Invariance, PTL

-----------------------------------------------------------------------------
(* That no request is lost: what is due to the runtime the table has, and how *)
(* its drainer has taken it on.                                                *)

(* The mutations that drainer answers for: those whose request was made, or    *)
(* will go to a runtime the table had before.                                  *)
Due == {o \in Owed : /\ ~ops[o].backed
                     /\ \/ ops[o].ask = "asked"
                        \/ ops[o].ask = "request" /\ ops[o].of # table}

(* A drainer that has a drain to come.                                         *)
Coming == {"quiet", "drain", "retry", "gave up"}

(* The drain that a drainer is in will read the queue, has read what is due,   *)
(* or was refused and comes again.                                             *)
ReadsDue(w) == w.left # <<>> \/ w.busy \/ Due \subseteq w.todo

(* The drainer of h answers for what is due.                                   *)
Answers(h) ==
    \/ rt[h].drainer \in Coming \cup {"off"} \/ rt[h].mark
    \/ rt[h].drainer = "draining" /\ ReadsDue(rt[h].turn)
    \/ Due = {}

(* A drain ends with the mutations' slot; work between slots has nothing read. *)
Draws(r) ==
    r.turn # None =>
        /\ r.turn.who = "drain" => r.turn.left \in {DrainSlots, <<"mutations">>, <<>>}
        /\ r.turn.in = None => r.turn.todo = {}

(* The table has a runtime outside a swap, one that has not retired; only a    *)
(* ready runtime has a drainer.                                                *)
Seated ==
    /\ swap.at = "idle" <=> table # None
    /\ table # None => ~rt[table].retired
    /\ \A h \in Gens : Ahead(h) => ~rt[h].retired
    /\ \A h \in Gens : rt[h].drainer # "off" => rt[h].state = "ready"

RestInv ==
    /\ Seated
    /\ \A h \in Gens : Draws(rt[h])
    /\ table # None => Answers(table)

(* The runtimes start with no drainer, and nothing is owed.                  *)
LEMMA RestInit == Init => RestInv
<1> SUFFICES ASSUME Init PROVE RestInv
  OBVIOUS
<1>1. \A h \in Gens : rt[h].turn = None /\ rt[h].drainer = "off" /\ ~rt[h].retired
  BY DEF Init, Unborn
<1>2. table = None /\ swap.at # "idle"
  BY DEF Init
<1> QED
  BY <1>1, <1>2 DEF RestInv, Seated, Draws

(* A step that leaves the seats as they are: what remains to be shown of it.   *)
LEMMA SeatsKept ==
    ASSUME RestInv, TypeOK, UNCHANGED <<table, swap>>,
           \A h \in Gens : /\ rt'[h].state = rt[h].state /\ rt'[h].retired = rt[h].retired
                           /\ rt[h].drainer = "off" => rt'[h].drainer = "off"
                           /\ Draws(rt[h]) => Draws(rt'[h]),
           table # None /\ Answers(table) => Answers(table)'
    PROVE  RestInv'
<1>1. \A h \in Gens : Ahead(h)' = Ahead(h)
  BY DEF Ahead
<1>2. table \in Gens \cup {None}
  BY DEF TypeOK
<1>3. Seated'
  BY <1>1, <1>2 DEF RestInv, Seated
<1> QED
  BY <1>3 DEF RestInv

(* A drainer that a step does not concern.                                   *)
SameDrainer(r, s) ==
    /\ s.drainer = r.drainer
    /\ r.mark => s.mark
    /\ r.turn # None /\ r.turn.who = "drain" => s.turn = r.turn

LEMMA AnswersKept ==
    ASSUME TypeOK, NEW h \in Gens, Answers(h), SameDrainer(rt[h], rt'[h]), Due' \subseteq Due
    PROVE  Answers(h)'
<1>1. rt[h].drainer = "draining" => rt'[h].turn = rt[h].turn
  BY RuntimeOf DEF Agrees, SameDrainer
<1>2. rt'[h].drainer = rt[h].drainer /\ (rt[h].mark => rt'[h].mark)
  BY DEF SameDrainer
<1> QED
  BY <1>1, <1>2 DEF Answers, ReadsDue

(* What a drain of the queue leaves of what is due was not read.             *)
LEMMA DrainedDue ==
    ASSUME TypeOK, NEW todo \in SUBSET Ops, Drained(todo), UNCHANGED table
    PROVE  Due' \subseteq Due \ todo
<1>1. \A o \in Ops : ops[o] \in Op
  BY DEF TypeOK
<1>2. \A o \in Ops : ~Gone(o).owed
  BY <1>1 DEF Gone, Op
<1>3. \A o \in Ops : [ops[o] EXCEPT !.backed = TRUE].backed
  BY <1>1 DEF Op
<1>4. ASSUME NEW o \in Ops, o \in todo PROVE ~ops'[o].owed \/ ops'[o].backed
  BY <1>2, <1>3, <1>4 DEF Drained
<1>5. ASSUME NEW o \in Ops, o \notin todo PROVE ops'[o] = ops[o]
  BY <1>5 DEF Drained
<1> QED
  BY <1>4, <1>5 DEF Due, Owed

(* A commit and a look-up make nothing due; a request marks the drainer that   *)
(* has to answer it.                                                           *)
LEMMA MutationsRest ==
    ASSUME Inv, RestInv, NEW o \in Ops, Commit(o) \/ LookUp(o) \/ RequestDrain(o)
    PROVE  RestInv'
<1>0. TypeOK /\ rt \in [Gens -> Runtime] /\ ops[o] \in Op /\ table \in Gens \cup {None}
      /\ \A p \in Ops : ops[p] \in Op
  BY DEF Inv, TypeOK
<1>1. UNCHANGED <<table, swap>> /\ \A p \in Ops : p # o => ops'[p] = ops[p]
  BY <1>0 DEF Commit, LookUp, RequestDrain, TypeOK
<1>2. \A h \in Gens : /\ rt'[h].state = rt[h].state /\ rt'[h].retired = rt[h].retired
                      /\ rt'[h].turn = rt[h].turn /\ rt'[h].drainer = rt[h].drainer
                      /\ rt[h].mark => rt'[h].mark
  <2>1. CASE Commit(o) \/ LookUp(o)
    BY <2>1 DEF Commit, LookUp
  <2>2. CASE RequestDrain(o)
    <3>1. rt' = rt \/ rt' = [rt EXCEPT ![ops[o].of].mark = TRUE]
      BY <2>2 DEF RequestDrain, AskedOf
    <3> QED
      BY <1>0, <3>1 DEF Runtime
  <2> QED
    BY <2>1, <2>2
<1>3. ASSUME table # None, Answers(table) PROVE Answers(table)'
  <2>1. CASE Due' \subseteq Due
    <3>1. PICK g \in Gens : g = table
      BY <1>0, <1>3
    <3>2. Answers(g)'
      BY <1>0, <1>2, <1>3, <2>1, <3>1, AnswersKept DEF SameDrainer
    <3> QED
      BY <1>1, <3>1, <3>2 DEF Answers, ReadsDue
  <2>2. CASE ~(Due' \subseteq Due)
    <3>1. o \in Due' /\ o \notin Due
      BY <1>1, <2>2 DEF Due, Owed
    <3>2. ops' = [ops EXCEPT ![o].ask = "asked"] /\ ops[o].ask = "request" /\ RequestDrain(o)
      <4>1. ~Commit(o)
        <5>1. SUFFICES ASSUME Commit(o) PROVE ops'[o].ask = "lookup"
          BY <3>1 DEF Due
        <5> QED
          BY <1>0, <5>1 DEF Commit, Op, TypeOK
      <4>2. ~LookUp(o)
        <5>1. SUFFICES ASSUME LookUp(o) PROVE ops'[o].ask = "request" /\ ops'[o].of = table
          BY <1>1, <3>1 DEF Due
        <5> QED
          BY <1>0, <1>3, <5>1 DEF LookUp, Op, TypeOK
      <4> QED
        BY <4>1, <4>2 DEF RequestDrain
    <3>3. ops'[o] = [ops[o] EXCEPT !.ask = "asked"]
      BY <1>0, <3>2 DEF TypeOK
    <3>4. ops[o].owed /\ ~ops[o].backed
      BY <1>0, <3>1, <3>3 DEF Due, Owed, Op
    <3>5. ops[o].of = table
      BY <3>1, <3>2, <3>4 DEF Due, Owed
    <3>6. CASE rt[table].drainer # "off"
      <4>1. rt[table].state = "ready" /\ ~rt[table].retired
        BY <1>0, <1>3, <3>6 DEF RestInv, Seated
      <4>2. rt' = [rt EXCEPT ![table].mark = TRUE]
        BY <3>2, <3>5, <4>1 DEF RequestDrain, AskedOf
      <4>3. rt'[table].mark
        BY <1>0, <1>3, <4>2 DEF Runtime
      <4> QED
        BY <1>1, <4>3 DEF Answers
    <3>7. CASE rt[table].drainer = "off"
      BY <1>0, <1>1, <1>2, <1>3, <3>7 DEF Answers
    <3> QED
      BY <3>6, <3>7
  <2> QED
    BY <2>1, <2>2
<1> QED
  BY <1>0, <1>1, <1>2, <1>3, SeatsKept DEF Draws

(* A step of others: the runtimes keep their drainers and what a drain is at.  *)
LEMMA OthersKeep ==
    ASSUME Inv, RestInv, UNCHANGED <<table, swap>>, Due' \subseteq Due,
           \A h \in Gens : /\ rt'[h].state = rt[h].state /\ rt'[h].retired = rt[h].retired
                           /\ SameDrainer(rt[h], rt'[h]) /\ (Draws(rt[h]) => Draws(rt'[h]))
    PROVE  RestInv'
<1>0. TypeOK /\ table \in Gens \cup {None}
  BY DEF Inv, TypeOK
<1>1. ASSUME table # None, Answers(table) PROVE Answers(table)'
  <2>1. PICK g \in Gens : g = table
    BY <1>0, <1>1
  <2>2. Answers(g)'
    BY <1>0, <1>1, <2>1, AnswersKept
  <2> QED
    BY <2>1, <2>2 DEF Answers, ReadsDue
<1> QED
  BY <1>0, <1>1, SeatsKept DEF SameDrainer

(* The tick, and the last drop of a lock.                                    *)
LEMMA TickerRest ==
    ASSUME Inv, RestInv, NEW g \in Gens, Ticks(g) \/ DropLast(g)
    PROVE  RestInv'
<1>0. TypeOK /\ rt \in [Gens -> Runtime]
  BY DEF Inv, TypeOK
<1>1. UNCHANGED <<table, swap, ops>>
  BY DEF Ticks, Schedule, RunTakesTurn, RunEnds, Tick, DropLast
<1>2. Due' = Due
  BY <1>1 DEF Due, Owed
<1>3. \/ rt' = rt
      \/ \E run \in Runs : rt' = [rt EXCEPT ![g].run = run]
      \/ rt' = [rt EXCEPT ![g].lock = FALSE]
      \/ rt[g].turn = None /\ rt' = [rt EXCEPT ![g].run = "slots", ![g].turn = Starting("tick", TickSlots)]
  BY DEF Ticks, Schedule, RunTakesTurn, RunEnds, Tick, DropLast, LockDropped, Runs
<1>4. Starting("tick", TickSlots).who = "tick" /\ Starting("tick", TickSlots).todo = {}
  BY DEF Starting
<1>5. \A h \in Gens : /\ rt'[h].state = rt[h].state /\ rt'[h].retired = rt[h].retired
                      /\ rt'[h].drainer = rt[h].drainer /\ rt'[h].mark = rt[h].mark
                      /\ \/ rt'[h].turn = rt[h].turn
                         \/ rt[h].turn = None /\ rt'[h].turn = Starting("tick", TickSlots)
  BY <1>0, <1>3 DEF Runtime
<1>6. \A h \in Gens : SameDrainer(rt[h], rt'[h]) /\ (Draws(rt[h]) => Draws(rt'[h]))
  BY <1>4, <1>5 DEF SameDrainer, Draws
<1> QED
  BY <1>1, <1>2, <1>5, <1>6, OthersKeep

(* The other passes drain what they read, and touch gates only.              *)
LEMMA OthersRest ==
    ASSUME Inv, RestInv, NEW p \in Passes, PassLeaves(p) \/ \E slot \in Slots : PassEnters(p, slot)
    PROVE  RestInv'
<1>0. TypeOK /\ rt \in [Gens -> Runtime] /\ passes[p].todo \in SUBSET Ops
  BY DEF Inv, TypeOK, Pass
<1>1. UNCHANGED <<table, swap>>
  BY DEF PassLeaves, PassEnters
<1>2. Due' \subseteq Due
  <2>1. CASE PassLeaves(p)
    BY <1>0, <1>1, <2>1, DrainedDue DEF PassLeaves
  <2>2. CASE \E slot \in Slots : PassEnters(p, slot)
    BY <2>2 DEF PassEnters, Due, Owed
  <2> QED
    BY <2>1, <2>2
<1>3. rt' = rt \/ \E f, b : rt' = [rt EXCEPT ![f].gate = b]
  BY DEF PassLeaves, PassEnters
<1>4. \A h \in Gens : /\ rt'[h].state = rt[h].state /\ rt'[h].retired = rt[h].retired
                      /\ rt'[h].drainer = rt[h].drainer /\ rt'[h].mark = rt[h].mark
                      /\ rt'[h].turn = rt[h].turn
  BY <1>0, <1>3 DEF Runtime
<1> QED
  BY <1>1, <1>2, <1>4, OthersKeep DEF SameDrainer, Draws

(* The drainer: it rests only behind a retirement, and a drain that starts has *)
(* the queue to read.                                                          *)
LEMMA DrainerRest ==
    ASSUME Inv, RestInv, NEW g \in Gens, Drainer(g)
    PROVE  RestInv'
<1>0. TypeOK /\ rt \in [Gens -> Runtime] /\ rt[g] \in Runtime /\ table \in Gens \cup {None}
  BY RuntimeOf DEF Inv, TypeOK
<1>1. UNCHANGED <<table, swap, ops>> /\ rt[g].drainer # "off"
  BY <1>0 DEF Drainer, Wake, DelayOver, DrainTakesTurn, DrainerStops, Idle
<1>2. Due' = Due
  BY <1>1 DEF Due, Owed
<1>3. \/ rt' = [rt EXCEPT ![g].drainer = "quiet", ![g].mark = FALSE, ![g].refused = 0]
      \/ rt' = [rt EXCEPT ![g].drainer = "drain"]
      \/ rt[g].retired /\ rt' = [rt EXCEPT ![g].drainer = "wait", ![g].refused = 0]
      \/ rt[g].retired /\ rt' = [rt EXCEPT ![g].drainer = "off"]
      \/ rt' = [rt EXCEPT ![g].drainer = "draining", ![g].turn = Starting("drain", DrainSlots)]
  BY DEF Drainer, Wake, DelayOver, DrainTakesTurn, DrainerStops
<1>4. Starting("drain", DrainSlots).left = DrainSlots /\ Starting("drain", DrainSlots).todo = {}
      /\ DrainSlots # <<>>
  BY DEF Starting, DrainSlots
<1>5. \A h \in Gens : h # g => rt'[h] = rt[h]
  BY <1>0, <1>3
<1>6. /\ rt'[g].state = rt[g].state /\ rt'[g].retired = rt[g].retired
      /\ rt'[g].turn = rt[g].turn \/ rt'[g].turn = Starting("drain", DrainSlots)
      /\ \/ rt'[g].drainer \in Coming \cup {"off"}
         \/ rt[g].retired
         \/ rt'[g].drainer = "draining" /\ rt'[g].turn = Starting("drain", DrainSlots)
  <2>1. CASE rt' = [rt EXCEPT ![g].drainer = "quiet", ![g].mark = FALSE, ![g].refused = 0]
    BY <1>0, <2>1 DEF Runtime, Coming
  <2>2. CASE rt' = [rt EXCEPT ![g].drainer = "drain"]
    BY <1>0, <2>2 DEF Runtime, Coming
  <2>3. CASE rt[g].retired /\ rt' = [rt EXCEPT ![g].drainer = "wait", ![g].refused = 0]
    BY <1>0, <2>3 DEF Runtime
  <2>4. CASE rt[g].retired /\ rt' = [rt EXCEPT ![g].drainer = "off"]
    BY <1>0, <2>4 DEF Runtime
  <2>5. CASE rt' = [rt EXCEPT ![g].drainer = "draining", ![g].turn = Starting("drain", DrainSlots)]
    <3> DEFINE s == [rt[g] EXCEPT !.drainer = "draining", !.turn = Starting("drain", DrainSlots)]
    <3>1. rt'[g] = s
      BY <1>0, <2>5
    <3>2. /\ s.state = rt[g].state /\ s.retired = rt[g].retired
          /\ s.drainer = "draining" /\ s.turn = Starting("drain", DrainSlots)
      BY <1>0 DEF Runtime
    <3> QED
      BY <3>1, <3>2
  <2> QED
    BY <1>3, <2>1, <2>2, <2>3, <2>4, <2>5
<1>7. \A h \in Gens : Draws(rt[h]) => Draws(rt'[h])
  BY <1>4, <1>5, <1>6 DEF Draws
<1>8. ASSUME table # None, Answers(table) PROVE Answers(table)'
  <2>1. CASE table = g
    <3>1. ~rt[g].retired
      BY <1>8, <2>1 DEF RestInv, Seated
    <3> QED
      BY <1>1, <1>4, <1>6, <2>1, <3>1 DEF Answers, ReadsDue
  <2>2. CASE table # g
    BY <1>0, <1>1, <1>2, <1>5, <1>8, <2>2 DEF Answers, ReadsDue
  <2> QED
    BY <2>1, <2>2
<1> QED
  BY <1>0, <1>1, <1>5, <1>6, <1>7, <1>8, SeatsKept

(* A step of the work of g, whose other fields stay: what is to be shown when  *)
(* the work is a drain.                                                        *)
LEMMA WorkKeeps ==
    ASSUME Inv, RestInv, NEW g \in Gens, rt[g].turn # None, UNCHANGED <<table, swap>>,
           Due' \subseteq Due,
           \A h \in Gens : h # g => SameDrainer(rt[h], rt'[h]) /\ rt'[h].turn = rt[h].turn,
           \A h \in Gens : rt'[h].state = rt[h].state /\ rt'[h].retired = rt[h].retired,
           rt'[g].drainer = rt[g].drainer, rt'[g].mark = rt[g].mark,
           rt'[g].turn.who = rt[g].turn.who, rt'[g].turn.in = None => rt'[g].turn.todo = {},
           rt'[g].turn.who = "drain" =>
               /\ rt'[g].turn.left \in {DrainSlots, <<"mutations">>, <<>>}
               /\ ReadsDue(rt[g].turn) =>
                     \/ rt'[g].turn.left # <<>> \/ rt'[g].turn.busy
                     \/ Due' \subseteq rt'[g].turn.todo
    PROVE  RestInv'
<1> DEFINE v == rt'[g].turn
<1>0. TypeOK /\ table \in Gens \cup {None}
  BY DEF Inv, TypeOK
<1>1. \A h \in Gens : Draws(rt[h]) => Draws(rt'[h])
  BY DEF Draws
<1>2. ASSUME table # None, Answers(table) PROVE Answers(table)'
  <2>1. PICK h \in Gens : h = table
    BY <1>0, <1>2
  <2>2. CASE h # g
    <3>1. Answers(h)'
      BY <1>0, <1>2, <2>1, <2>2, AnswersKept
    <3> QED
      BY <2>1, <3>1 DEF Answers, ReadsDue
  <2>3. CASE h = g
    <3>1. rt[g].drainer = "draining" => v.who = "drain"
      BY <1>0, RuntimeOf DEF Agrees
    <3> QED
      BY <1>2, <2>1, <2>3, <3>1 DEF Answers, ReadsDue
  <2> QED
    BY <2>2, <2>3
<1> QED
  BY <1>0, <1>1, <1>2, SeatsKept DEF SameDrainer

(* The slots of a drain, one by one.                                         *)
LEMMA DrainSlotsOf ==
    /\ Head(DrainSlots) = "outbox" /\ Tail(DrainSlots) = <<"mutations">>
    /\ Head(<<"mutations">>) = "mutations" /\ Tail(<<"mutations">>) = <<>>
    /\ <<"mutations">> # <<>>
  BY DEF DrainSlots

(* A slot that is entered: the mutations' reads the queue; one that is refused *)
(* leaves the drain busy.                                                      *)
LEMMA EnterSlotRest ==
    ASSUME Inv, RestInv, NEW g \in Gens, EnterSlot(g)
    PROVE  RestInv'
<1> DEFINE w == rt[g].turn
<1>0. w \in Work /\ w # None /\ w.in = None /\ w.left # <<>> /\ engine = g
      /\ rt \in [Gens -> Runtime] /\ rt[g] \in Runtime /\ TypeOK
  BY AtWork DEF EnterSlot, Inv
<1>1. UNCHANGED <<table, swap, ops>>
  BY DEF EnterSlot
<1>2. Due' = Due /\ Due \subseteq Owed
  BY <1>1 DEF Due, Owed
<1>3. Draws(rt[g]) /\ w.todo = {}
  BY <1>0 DEF RestInv, Draws
<1>4. Head(w.left) \in Slots /\ Tail(w.left) \in Seq(Slots)
  <2>1. w.left \in Seq(Slots)
    BY <1>0 DEF Work
  <2> QED
    BY <1>0, <2>1, SMTT(20)
<1>5. w.who = "drain" =>
        /\ w.left \in {DrainSlots, <<"mutations">>}
        /\ Head(w.left) \in Guarded
        /\ Tail(w.left) \in {DrainSlots, <<"mutations">>, <<>>}
        /\ Tail(w.left) # <<>> \/ Head(w.left) = "mutations"
  <2> SUFFICES ASSUME w.who = "drain"
               PROVE  /\ w.left \in {DrainSlots, <<"mutations">>}
                      /\ Head(w.left) \in Guarded
                      /\ Tail(w.left) \in {DrainSlots, <<"mutations">>, <<>>}
                      /\ Tail(w.left) # <<>> \/ Head(w.left) = "mutations"
    OBVIOUS
  <2>1. w.left \in {DrainSlots, <<"mutations">>}
    BY <1>0, <1>3 DEF Draws
  <2> QED
    BY <2>1, DrainSlotsOf DEF Guarded
<1>6. ASSUME NEW v \in Work, rt' = [rt EXCEPT ![g].turn = v],
             v.who = w.who, v.in = None => v.todo = {}, v.left = Tail(w.left),
             w.who = "drain" => Tail(w.left) # <<>> \/ v.busy \/ Due \subseteq v.todo
      PROVE  RestInv'
  <2>1. /\ \A h \in Gens : h # g => rt'[h] = rt[h]
        /\ rt'[g].turn = v /\ rt'[g].drainer = rt[g].drainer /\ rt'[g].mark = rt[g].mark
        /\ rt'[g].state = rt[g].state /\ rt'[g].retired = rt[g].retired
    BY <1>0, <1>6 DEF Runtime
  <2>2. \A h \in Gens : h # g => SameDrainer(rt[h], rt'[h]) /\ rt'[h].turn = rt[h].turn
    BY <2>1 DEF SameDrainer
  <2>3. \A h \in Gens : rt'[h].state = rt[h].state /\ rt'[h].retired = rt[h].retired
    BY <2>1
  <2>4. v.who = "drain" => /\ v.left \in {DrainSlots, <<"mutations">>, <<>>}
                           /\ ReadsDue(w) => v.left # <<>> \/ v.busy \/ Due' \subseteq v.todo
    BY <1>2, <1>5, <1>6
  <2>5. /\ rt[g].turn # None /\ UNCHANGED <<table, swap>> /\ Due' \subseteq Due
        /\ v.who = rt[g].turn.who /\ (v.in = None => v.todo = {})
    BY <1>0, <1>1, <1>2, <1>6
  <2> QED
    BY <2>1, <2>2, <2>3, <2>4, <2>5, WorkKeeps
<1>7. CASE Head(w.left) \notin Guarded /\ rt' = [rt EXCEPT ![g].turn = Entered(w)]
  <2>1. Entered(w) \in Work
    BY <1>0, WorkUpdates
  <2>2. Entered(w).who = w.who /\ Entered(w).in = Head(w.left) /\ Entered(w).left = Tail(w.left)
    BY <1>0 DEF Entered, Work
  <2>3. Entered(w).in # None
    BY <1>4, <2>2
  <2> QED
    BY <1>5, <1>6, <1>7, <2>1, <2>2, <2>3
<1>8. CASE NothingQueued(w) /\ rt' = [rt EXCEPT ![g].turn.left = Tail(@)]
  <2> DEFINE v == [w EXCEPT !.left = Tail(w.left)]
  <2>1. rt' = [rt EXCEPT ![g].turn = v]
    BY <1>0, <1>8
  <2>2. v \in Work
    BY <1>0, WorkUpdates
  <2>4. v.who = w.who /\ v.todo = {} /\ v.left = Tail(w.left)
    BY <1>0, <1>3 DEF Work
  <2>3. Due = {}
    BY <1>2, <1>8 DEF NothingQueued
  <2> HIDE DEF v
  <2> QED
    BY <1>6, <2>1, <2>2, <2>3, <2>4
<1>9. CASE rt' = [rt EXCEPT ![g].turn = Busied(w)]
  <2>1. Busied(w) \in Work
    BY <1>0, WorkUpdates
  <2>2. /\ Busied(w).who = w.who /\ Busied(w).todo = {} /\ Busied(w).left = Tail(w.left)
        /\ Head(w.left) = "mutations" => Busied(w).busy
    BY <1>0, <1>3 DEF Busied, Work
  <2> QED
    BY <1>5, <1>6, <1>9, <2>1, <2>2
<1>10. CASE /\ Head(w.left) \in Guarded
            /\ rt' = [rt EXCEPT ![engine].gate = TRUE,
                                ![g].turn = [Entered(w) EXCEPT !.gate = engine,
                                    !.todo = IF Head(w.left) = "mutations" THEN Owed ELSE {}]]
  <2> DEFINE todo == IF Head(w.left) = "mutations" THEN Owed ELSE {}
  <2> DEFINE v == [Entered(w) EXCEPT !.gate = g, !.todo = todo]
  <2>1. todo \in SUBSET Ops /\ (Head(w.left) = "mutations" => todo = Owed)
    BY DEF Owed
  <2> HIDE DEF todo
  <2>9. Entered(w) \in Work
    BY <1>0, WorkUpdates
  <2>2. Entered(w).who = w.who /\ Entered(w).in = Head(w.left) /\ Entered(w).left = Tail(w.left)
    BY <1>0 DEF Entered, Work
  <2>3. v.who = w.who /\ v.in = Head(w.left) /\ v.left = Tail(w.left) /\ v.todo = todo
    BY <2>2, <2>9 DEF Work
  <2>4. rt' = [rt EXCEPT ![g].gate = TRUE, ![g].turn = v]
    BY <1>0, <1>10 DEF todo
  <2> HIDE DEF v
  <2>5. /\ \A h \in Gens : h # g => rt'[h] = rt[h]
        /\ rt'[g].turn = v /\ rt'[g].drainer = rt[g].drainer /\ rt'[g].mark = rt[g].mark
        /\ rt'[g].state = rt[g].state /\ rt'[g].retired = rt[g].retired
    BY <1>0, <2>4 DEF Runtime
  <2>6. v.in # None
    BY <1>4, <2>3
  <2>7. w.who = "drain" => v.left # <<>> \/ Due' \subseteq v.todo
    BY <1>2, <1>5, <2>1, <2>3
  <2>8. \A h \in Gens : h # g => SameDrainer(rt[h], rt'[h]) /\ rt'[h].turn = rt[h].turn
    BY <2>5 DEF SameDrainer
  <2>10. \A h \in Gens : rt'[h].state = rt[h].state /\ rt'[h].retired = rt[h].retired
    BY <2>5
  <2>11. v.who = "drain" => /\ v.left \in {DrainSlots, <<"mutations">>, <<>>}
                            /\ ReadsDue(w) => v.left # <<>> \/ v.busy \/ Due' \subseteq v.todo
    BY <1>5, <2>3, <2>7
  <2>12. /\ rt[g].turn # None /\ UNCHANGED <<table, swap>> /\ Due' \subseteq Due
         /\ v.who = rt[g].turn.who /\ (v.in = None => v.todo = {})
    BY <1>0, <1>1, <1>2, <2>3, <2>6
  <2> QED
    BY <2>5, <2>8, <2>10, <2>11, <2>12, WorkKeeps
<1> QED
  BY <1>7, <1>8, <1>9, <1>10 DEF EnterSlot, GateFree

(* A slot that is left leaves nothing it read.                               *)
LEMMA LeaveSlotRest ==
    ASSUME Inv, RestInv, NEW g \in Gens, LeaveSlot(g)
    PROVE  RestInv'
<1> DEFINE w == rt[g].turn
<1> DEFINE v == [w EXCEPT !.in = None, !.gate = None, !.todo = {}]
<1>0. w \in Work /\ w # None /\ w.gate \in {None, g}
      /\ rt \in [Gens -> Runtime] /\ rt[g] \in Runtime /\ TypeOK
  BY AtWork DEF LeaveSlot, GateOfTurn, Inv
<1>1. UNCHANGED <<table, swap>> /\ Drained(w.todo) /\ w.todo \in SUBSET Ops
  BY <1>0 DEF LeaveSlot, Work
<1>2. Due' \subseteq Due \ w.todo
  BY <1>0, <1>1, DrainedDue
<1>3. v.who = w.who /\ v.left = w.left /\ v.busy = w.busy /\ v.todo = {}
  BY <1>0 DEF Work
<1>4. \/ rt' = [rt EXCEPT ![g].turn = v]
      \/ rt' = [[rt EXCEPT ![g].turn = v] EXCEPT ![g].gate = FALSE]
  BY <1>0 DEF LeaveSlot
<1> HIDE DEF v
<1>5. /\ \A h \in Gens : h # g => rt'[h] = rt[h]
      /\ rt'[g].turn = v /\ rt'[g].drainer = rt[g].drainer /\ rt'[g].mark = rt[g].mark
      /\ rt'[g].state = rt[g].state /\ rt'[g].retired = rt[g].retired
  BY <1>0, <1>4 DEF Runtime
<1>6. w.who = "drain" => w.left \in {DrainSlots, <<"mutations">>, <<>>}
  BY <1>0 DEF RestInv, Draws
<1>7. ReadsDue(w) => v.left # <<>> \/ v.busy \/ Due' \subseteq v.todo
  BY <1>2, <1>3 DEF ReadsDue
<1> QED
  BY <1>0, <1>1, <1>2, <1>3, <1>5, <1>6, <1>7, WorkKeeps DEF SameDrainer

(* A drain that is over and was not refused has left nothing due; one that was *)
(* refused is not the last.                                                    *)
LEMMA FinishWorkRest ==
    ASSUME Inv, RestInv, NEW g \in Gens, FinishWork(g)
    PROVE  RestInv'
<1> DEFINE w == rt[g].turn
<1>0. w \in Work /\ w # None /\ w.in = None /\ w.left = <<>> /\ w.who \in {"tick", "drain"}
      /\ w.busy \in BOOLEAN /\ rt \in [Gens -> Runtime] /\ rt[g] \in Runtime /\ Agrees(rt[g])
      /\ TypeOK /\ table \in Gens \cup {None}
  BY AtWork DEF FinishWork, Inv, Work, TypeOK
<1>1. UNCHANGED <<table, swap, ops>>
  BY DEF FinishWork
<1>2. Due' = Due
  BY <1>1 DEF Due, Owed
<1>3. w.todo = {}
  BY <1>0 DEF RestInv, Draws
<1>4. /\ w.who = "tick" => rt' = [rt EXCEPT ![g].turn = None, ![g].run = "over"]
      /\ w.who = "drain" /\ ~w.busy =>
            rt' = [rt EXCEPT ![g].turn = None, ![g].drainer = "wait", ![g].refused = 0]
      /\ w.who = "drain" /\ w.busy =>
            \E d \in {"retry", "gave up"}, n \in Nat :
                rt' = [rt EXCEPT ![g].turn = None, ![g].drainer = d, ![g].refused = n]
  <2>1. CASE w.who = "tick"
    BY <2>1 DEF FinishWork
  <2>2. CASE w.who = "drain" /\ ~w.busy
    BY <2>2 DEF FinishWork
  <2>3. CASE w.who = "drain" /\ w.busy
    <3>0. rt[g].refused + 1 \in Nat
      BY <1>0 DEF Runtime
    <3>1. CASE rt[g].refused + 1 <= BusyRetries
      <4>1. ~(rt[g].refused + 1 > BusyRetries)
        BY <3>0, <3>1
      <4> QED
        BY <2>3, <3>0, <3>1, <4>1 DEF FinishWork
    <3>2. CASE rt[g].refused + 1 > BusyRetries
      <4>1. ~(rt[g].refused + 1 <= BusyRetries)
        BY <3>0, <3>2
      <4> QED
        BY <2>3, <3>2, <4>1 DEF FinishWork
    <3>3. rt[g].refused + 1 <= BusyRetries \/ rt[g].refused + 1 > BusyRetries
      BY <3>0
    <3> QED
      BY <3>1, <3>2, <3>3
  <2> QED
    BY <1>0, <2>1, <2>2, <2>3
<1>5. /\ \A h \in Gens : h # g => rt'[h] = rt[h]
      /\ rt'[g].turn = None /\ rt'[g].mark = rt[g].mark
      /\ rt'[g].state = rt[g].state /\ rt'[g].retired = rt[g].retired
      /\ w.who = "tick" => rt'[g].drainer = rt[g].drainer
      /\ w.who = "drain" /\ w.busy => rt'[g].drainer \in Coming
  <2>1. CASE w.who = "tick"
    BY <1>0, <1>4, <2>1 DEF Runtime
  <2>2. ASSUME NEW d, NEW n, w.who = "drain",
               rt' = [rt EXCEPT ![g].turn = None, ![g].drainer = d, ![g].refused = n]
        PROVE  /\ \A h \in Gens : h # g => rt'[h] = rt[h]
               /\ rt'[g].turn = None /\ rt'[g].mark = rt[g].mark /\ rt'[g].drainer = d
               /\ rt'[g].state = rt[g].state /\ rt'[g].retired = rt[g].retired
    BY <1>0, <2>2 DEF Runtime
  <2>3. CASE w.who = "drain" /\ w.busy
    BY <1>4, <2>2, <2>3 DEF Coming
  <2>4. CASE w.who = "drain" /\ ~w.busy
    BY <1>4, <2>2, <2>4
  <2> QED
    BY <1>0, <2>1, <2>3, <2>4
<1>6. ASSUME table # None, Answers(table) PROVE Answers(table)'
  <2>1. CASE table # g
    BY <1>0, <1>1, <1>2, <1>5, <1>6, <2>1 DEF Answers, ReadsDue
  <2>2. CASE table = g /\ w.who = "tick"
    BY <1>0, <1>1, <1>2, <1>5, <1>6, <2>2 DEF Answers, Agrees
  <2>3. CASE table = g /\ w.who = "drain"
    <3>1. rt[g].drainer = "draining"
      BY <1>0, <2>3 DEF Agrees
    <3>2. rt[g].mark \/ ReadsDue(w) \/ Due = {}
      BY <1>6, <2>3, <3>1 DEF Answers, Coming
    <3>3. rt[g].mark \/ w.busy \/ Due = {}
      BY <1>0, <1>3, <3>2 DEF ReadsDue
    <3> QED
      BY <1>1, <1>2, <1>5, <2>3, <3>3 DEF Answers
  <2> QED
    BY <1>0, <2>1, <2>2, <2>3
<1>7. rt[g].drainer # "off" \/ rt'[g].drainer = rt[g].drainer
  BY <1>0, <1>5 DEF Agrees
<1> QED
  BY <1>0, <1>1, <1>5, <1>6, <1>7, SeatsKept DEF Draws

(* A swap empties the table's seat, and seats a runtime that has not retired   *)
(* with a request to answer.                                                   *)
LEMMA SwappingRest ==
    ASSUME Inv, RestInv, Swapping
    PROVE  RestInv'
<1>0. /\ TypeOK /\ rt \in [Gens -> Runtime] /\ table \in Gens \cup {None}
      /\ Retiring /\ Unspawned /\ Seated /\ swap \in Swap
      /\ \A h \in Gens : Draws(rt[h]) /\ h \in Nat /\ h # None
  BY DEF Inv, RestInv, TypeOK
<1>1. ASSUME table' = None, swap'.at # "idle",
             \A h \in Gens : Ahead(h)' => Ahead(h),
             \A h \in Gens : /\ Ahead(h)' => rt'[h].retired = rt[h].retired
                             /\ rt'[h].turn = rt[h].turn /\ rt'[h].drainer = rt[h].drainer
                             /\ rt[h].drainer # "off" => rt'[h].state = rt[h].state
      PROVE  RestInv'
  BY <1>0, <1>1 DEF RestInv, Seated, Draws
<1>2. CASE Reload
  <2>1. swap.at = "idle" /\ swap'.at = "flag" /\ swap'.of = table /\ table' = None /\ rt' = rt
        /\ table # None
    BY <1>2 DEF Reload
  <2>2. \A h \in Gens : Ahead(h)' => Ahead(h)
    BY <2>1 DEF Ahead
  <2> QED
    BY <1>1, <2>1, <2>2
<1>3. CASE RunWaitedOut \/ TurnWaitedOut \/ Overrun
  <2>0. swap.at # "idle" /\ rt' = rt /\ table' = table
        /\ \E at \in {"turn", "drop", "start"} : swap' = [swap EXCEPT !.at = at]
    BY <1>3 DEF RunWaitedOut, TurnWaitedOut, Overrun
  <2>1. swap'.of = swap.of /\ swap'.at # "idle" /\ table' = None
    BY <1>0, <2>0, SwapUpdates DEF Seated
  <2>2. \A h \in Gens : Ahead(h)' => Ahead(h)
    BY <2>0, <2>1 DEF Ahead
  <2> QED
    BY <1>1, <2>0, <2>1, <2>2
<1>4. CASE Flag \/ DropLock
  <2>1. swap.at # "idle" /\ table' = table /\ \E at \in {"run", "start"} : swap' = [swap EXCEPT !.at = at]
    BY <1>4 DEF Flag, DropLock
  <2>2. swap'.of = swap.of /\ swap'.at # "idle" /\ table' = None
    BY <1>0, <2>1, SwapUpdates DEF Seated
  <2>3. swap.of \in Gens
    BY <1>0, <1>4 DEF Retiring, Flag, DropLock
  <2>4. PICK g \in Gens : g = swap.of
    BY <2>3
  <2>5. rt' = [rt EXCEPT ![g].retired = TRUE] \/ rt' = [rt EXCEPT ![g].lock = FALSE]
    BY <1>4, <2>4 DEF Flag, DropLock, LockDropped
  <2>6. \A h \in Gens : /\ rt'[h].turn = rt[h].turn /\ rt'[h].drainer = rt[h].drainer
                        /\ rt'[h].state = rt[h].state
                        /\ h # g => rt'[h].retired = rt[h].retired
    BY <1>0, <2>5 DEF Runtime
  <2>7. \A h \in Gens : Ahead(h)' => Ahead(h) /\ h # g
    BY <1>0, <2>1, <2>2, <2>4 DEF Ahead
  <2> QED
    BY <1>1, <2>2, <2>6, <2>7
<1>5. CASE Start
  <2>1. swap.at = "start" /\ table' = table /\ swap' = [swap EXCEPT !.at = "insert"]
        /\ swap.of \in Nat /\ swap.of + 1 \in Gens
    BY <1>0, <1>5 DEF Start, Retiring
  <2>2. swap'.of = swap.of /\ swap'.at # "idle" /\ table' = None
    BY <1>0, <2>1, SwapUpdates DEF Seated
  <2>3. PICK g \in Gens : g = swap.of + 1
    BY <2>1
  <2>4. rt[g].drainer = "off"
    BY <1>0, <2>1, <2>3 DEF Unspawned, Ahead
  <2>5. rt' = [rt EXCEPT ![g].state = "ready", ![g].lock = TRUE] \/ rt' = [rt EXCEPT ![g].state = "blocked"]
    BY <1>5, <2>3 DEF Start
  <2>6. \A h \in Gens : /\ rt'[h].turn = rt[h].turn /\ rt'[h].drainer = rt[h].drainer
                        /\ rt'[h].retired = rt[h].retired
                        /\ h # g => rt'[h].state = rt[h].state
    BY <1>0, <2>5 DEF Runtime
  <2>7. \A h \in Gens : Ahead(h)' => Ahead(h)
    BY <2>1, <2>2 DEF Ahead
  <2> QED
    BY <1>1, <2>2, <2>4, <2>6, <2>7
<1>6. CASE Insert
  <2>1. swap.at = "insert" /\ swap.of \in Nat /\ swap.of + 1 \in Gens
        /\ swap' = [at |-> "idle", of |-> None] /\ table' = swap.of + 1
    BY <1>0, <1>6 DEF Insert, Retiring
  <2>2. PICK g \in Gens : g = swap.of + 1
    BY <2>1
  <2>3. swap'.at = "idle" /\ table' = g /\ table' # None
    BY <1>0, <2>1, <2>2
  <2>4. Ahead(g) /\ rt[g].drainer = "off" /\ ~rt[g].retired
    BY <1>0, <2>1, <2>2 DEF Unspawned, Ahead, Seated
  <2>5. \A h \in Gens : Ahead(h)' => Ahead(h)
    BY <1>0, <2>1, <2>2, <2>3 DEF Ahead
  <2>6. rt' = IF rt[g].state = "ready"
              THEN [rt EXCEPT ![g].drainer = "wait", ![g].mark = TRUE] ELSE rt
    BY <1>6, <2>2 DEF Insert, Spawned
  <2>7. /\ \A h \in Gens : /\ rt'[h].turn = rt[h].turn /\ rt'[h].state = rt[h].state
                           /\ rt'[h].retired = rt[h].retired
                           /\ h # g => rt'[h].drainer = rt[h].drainer
        /\ rt'[g].drainer = "off" \/ (rt'[g].mark /\ rt[g].state = "ready")
    <3>1. CASE rt[g].state = "ready"
      <4>1. rt' = [rt EXCEPT ![g].drainer = "wait", ![g].mark = TRUE]
        BY <2>6, <3>1
      <4> QED
        BY <1>0, <3>1, <4>1 DEF Runtime
    <3>2. CASE rt[g].state # "ready"
      <4>1. rt' = rt
        BY <2>6, <3>2
      <4> QED
        BY <2>4, <4>1
    <3> QED
      BY <3>1, <3>2
  <2>8. Seated'
    BY <1>0, <2>3, <2>4, <2>5, <2>7 DEF Seated
  <2>9. Answers(table)'
    BY <2>3, <2>7 DEF Answers
  <2> QED
    BY <1>0, <2>7, <2>8, <2>9 DEF RestInv, Draws
<1> QED
  BY <1>2, <1>3, <1>4, <1>5, <1>6 DEF Swapping

(* Every step keeps what the drainer answers for.                            *)
LEMMA RestNext ==
    ASSUME Inv, RestInv, [Next]_vars
    PROVE  RestInv'
<1>1. CASE Mutations
  BY <1>1, MutationsRest DEF Mutations
<1>2. CASE Swapping
  BY <1>2, SwappingRest
<1>3. CASE Others
  BY <1>3, OthersRest DEF Others
<1>4. ASSUME NEW g \in Gens, Ticks(g) \/ DropLast(g) PROVE RestInv'
  BY <1>4, TickerRest
<1>5. ASSUME NEW g \in Gens, Working(g) PROVE RestInv'
  BY <1>5, EnterSlotRest, LeaveSlotRest, FinishWorkRest DEF Working
<1>6. ASSUME NEW g \in Gens, Drainer(g) PROVE RestInv'
  BY <1>6, DrainerRest
<1>7. CASE UNCHANGED vars
  BY <1>7 DEF vars, RestInv, Seated, Ahead, Draws, Answers, ReadsDue, Due, Owed
<1> QED
  BY <1>1, <1>2, <1>3, <1>4, <1>5, <1>6, <1>7 DEF Next

(* No request for a drain is lost: when the drainer of the account's runtime   *)
(* rests with no request marked, every mutation that asked has left the queue  *)
(* or has backed off, whatever swaps, refusals and other passes came between.  *)
THEOREM NoRequestIsLost == Spec => []RestsWithNothingOwed
<1>1. Inv /\ RestInv => RestsWithNothingOwed
  <2> SUFFICES ASSUME Inv, RestInv, table # None, rt[table].drainer = "wait", ~rt[table].mark
               PROVE  \A o \in Owed : ops[o].backed \/ ops[o].ask # "asked"
    BY DEF RestsWithNothingOwed
  <2>1. Due = {}
    BY DEF RestInv, Answers, Coming
  <2> QED
    BY <2>1 DEF Due
<1>2. Spec => []RestInv
  BY Invariance, RestInit, RestNext, PTL DEF Spec
<1> QED
  BY <1>1, <1>2, Invariance, PTL
=============================================================================

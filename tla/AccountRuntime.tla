---------------------------- MODULE AccountRuntime ----------------------------
(***************************************************************************)
(* Who may run an engine pass over one account, and what makes an owed op    *)
(* reach the server.  A runtime (src/daemon/runtime/account.rs) holds the     *)
(* account's flock for its lifetime and registers a gate for this process's   *)
(* other passes (src/engine_lock.rs).  Its ticks, drains and guarded sends     *)
(* take one async turn; its drainer (src/daemon/runtime/drainer.rs) answers   *)
(* drain requests.  A configuration swap (src/daemon/config.rs) retires a     *)
(* runtime, within a bound, and starts its replacement.  Meanwhile other      *)
(* passes (a sync of one mailbox, the drain after a send, another process)     *)
(* ask for the same lock.                                                      *)
(*                                                                          *)
(* Timers are nondeterministic: a wait may end at any time.                   *)
(***************************************************************************)
EXTENDS Naturals, Sequences, FiniteSets

CONSTANTS
    Gens,         \* the runtimes of the account, numbered as they are started
    Ops,          \* the mutations
    Callers,      \* the clients that ask for a tick
    Passes,       \* guarded passes (take_turn), of this process or of another
    BusyRetries,  \* BUSY_RETRIES
    Overruns,     \* whether a retirement may hit its bound
    None

ASSUME GensAssumption == IsFiniteSet(Gens) /\ Gens = 1..Cardinality(Gens) /\ 1 \in Gens
ASSUME BoundAssumption == BusyRetries \in Nat /\ Overruns \in BOOLEAN
ASSUME HoldersDiffer == Gens \cap Passes = {} /\ None \notin Gens \cup Passes

VARIABLES
    rt,       \* the runtimes
    table,    \* the runtime the table has for the account, None between two
    engine,   \* PROCESS_ENGINES: the runtime whose gate is registered
    flock,    \* the holder of the advisory lock on store.lock
    passes,   \* what each guarded pass runs and what it holds
    swap,     \* the configuration swap in progress
    ops,      \* how far each mutation has come
    waiting   \* what each caller waits for

vars == <<rt, table, engine, flock, passes, swap, ops, waiting>>

Slots == {"outbox", "mutations", "body"}

(* The slots of a tick and of a drain outside one, in order. *)
TickSlots == <<"outbox", "mutations", "body", "outbox", "mutations">>
DrainSlots == <<"outbox", "mutations">>

(* The slots that take the engine turn of the account for themselves. *)
Guarded == {"outbox", "mutations"}

(* Work in progress under a runtime's turn: the slots to come, the one it is  *)
(* in, and what a drain of the queue read from it.                             *)
Work == [who : {"tick", "drain"}, left : Seq(Slots), in : Slots \cup {None},
         gate : Gens \cup {None}, todo : SUBSET Ops, busy : BOOLEAN]

ASSUME NoWorkIsNone == None \notin Work \cup Slots

Starting(who, slots) ==
    [who |-> who, left |-> slots, in |-> None, gate |-> None, todo |-> {}, busy |-> FALSE]

Unborn == [state |-> "unborn", retired |-> FALSE, lock |-> FALSE, gate |-> FALSE,
           turn |-> None, run |-> "none", mark |-> FALSE, drainer |-> "off", refused |-> 0]

Owed == {o \in Ops : ops[o].owed}

-----------------------------------------------------------------------------
(* The engine lock (engine_lock.rs): a pass of this process takes the gate of *)
(* the runtime that is registered, and the flock when none is.                *)

(* Mutant: the gate is not asked. *)
GateIgnored == engine # None

GateFree == engine # None /\ ~rt[engine].gate

-----------------------------------------------------------------------------
(* A mutation: the row change and the op are committed, then the runtime of   *)
(* the account is looked up and asked for a drain.                             *)

Commit(o) ==
    /\ ~ops[o].done /\ ~ops[o].owed
    /\ ops' = [ops EXCEPT ![o].owed = TRUE, ![o].ask = "lookup"]
    /\ UNCHANGED <<rt, table, engine, flock, passes, swap, waiting>>

LookUp(o) ==
    /\ ops[o].ask = "lookup"
    /\ ops' = [ops EXCEPT ![o].ask = IF table = None THEN "asked" ELSE "request",
                          ![o].of = table]
    /\ UNCHANGED <<rt, table, engine, flock, passes, swap, waiting>>

(* Mutant: a drainer at work is not told. *)
AskedOfIdle(r, g) ==
    IF r[g].state = "ready" /\ ~r[g].retired /\ r[g].drainer = "wait"
    THEN [r EXCEPT ![g].mark = TRUE] ELSE r

(* request_drain: a no-op on a blocked or retired runtime. *)
AskedOf(r, g) == IF r[g].state = "ready" /\ ~r[g].retired THEN [r EXCEPT ![g].mark = TRUE] ELSE r

RequestDrain(o) ==
    /\ ops[o].ask = "request"
    /\ rt' = AskedOf(rt, ops[o].of)
    /\ ops' = [ops EXCEPT ![o].ask = "asked"]
    /\ UNCHANGED <<table, engine, flock, passes, swap, waiting>>

-----------------------------------------------------------------------------
(* The tick: one run at a time, which later callers join.                      *)

(* A caller with runtime g in hand (a client, or the scheduler).              *)
Tick(c, g) ==
    /\ waiting[c] = None
    /\ rt[g].state = "ready"
    /\ \/ rt[g].run = "none" /\ ~rt[g].retired /\ rt' = [rt EXCEPT ![g].run = "queued"]
       \/ rt[g].run # "none" /\ UNCHANGED rt
    /\ waiting' = [waiting EXCEPT ![c] = g]
    /\ UNCHANGED <<table, engine, flock, passes, swap, ops>>

(* The scheduler ticks the runtime it was spawned for, until it retires. *)
Schedule(g) ==
    /\ rt[g].state = "ready" /\ ~rt[g].retired /\ rt[g].run = "none"
    /\ rt' = [rt EXCEPT ![g].run = "queued"]
    /\ UNCHANGED <<table, engine, flock, passes, swap, ops, waiting>>

(* Mutant: a run that finds its runtime retired answers nobody. *)
RunSilenced(g) ==
    /\ rt[g].run = "queued" /\ rt[g].turn = None
    /\ rt' = IF rt[g].retired
             THEN [rt EXCEPT ![g].run = "none"]
             ELSE [rt EXCEPT ![g].run = "slots", ![g].turn = Starting("tick", TickSlots)]
    /\ UNCHANGED <<table, engine, flock, passes, swap, ops, waiting>>

(* The run has the turn: it starts its slots, unless the runtime retired.      *)
RunTakesTurn(g) ==
    /\ rt[g].run = "queued" /\ rt[g].turn = None
    /\ rt' = IF rt[g].retired
             THEN [rt EXCEPT ![g].run = "over"]
             ELSE [rt EXCEPT ![g].run = "slots", ![g].turn = Starting("tick", TickSlots)]
    /\ UNCHANGED <<table, engine, flock, passes, swap, ops, waiting>>

(* The calendar has been synced after the turn; the outcome answers everyone. *)
RunEnds(g) ==
    /\ rt[g].run = "over"
    /\ rt' = [rt EXCEPT ![g].run = "none"]
    /\ waiting' = [c \in Callers |-> IF waiting[c] = g THEN None ELSE waiting[c]]
    /\ UNCHANGED <<table, engine, flock, passes, swap, ops>>

-----------------------------------------------------------------------------
(* The slots of the work that holds a turn.                                    *)

Busied(w) == [w EXCEPT !.left = Tail(@), !.busy = @ \/ Head(w.left) = "mutations"]
Entered(w) == [w EXCEPT !.in = Head(w.left), !.left = Tail(@)]

(* resume_account asks for the turn only when an op is owed. *)
NothingQueued(w) == Head(w.left) = "mutations" /\ Owed = {}

EnterSlot(g) ==
    LET w == rt[g].turn IN
    /\ w # None /\ w.in = None /\ w.left # <<>>
    /\ \/ /\ Head(w.left) \notin Guarded
          /\ rt' = [rt EXCEPT ![g].turn = Entered(w)]
       \/ /\ NothingQueued(w)
          /\ rt' = [rt EXCEPT ![g].turn.left = Tail(@)]
       \/ /\ Head(w.left) \in Guarded /\ ~NothingQueued(w) /\ ~GateFree
          /\ rt' = [rt EXCEPT ![g].turn = Busied(w)]
       \/ /\ Head(w.left) \in Guarded /\ ~NothingQueued(w) /\ GateFree
          /\ rt' = [rt EXCEPT ![engine].gate = TRUE,
                              ![g].turn = [Entered(w) EXCEPT !.gate = engine,
                                  !.todo = IF Head(w.left) = "mutations" THEN Owed ELSE {}]]
    /\ UNCHANGED <<table, engine, flock, passes, swap, ops, waiting>>

Gone(o) == [ops[o] EXCEPT !.owed = FALSE, !.done = TRUE, !.backed = FALSE]

(* What a drain that read "todo" leaves of the queue: an op the server kept   *)
(* from it backs off (once: the bound), and the drainer is not told.           *)
Drained(todo) ==
    \/ ops' = [o \in Ops |-> IF o \in todo THEN Gone(o) ELSE ops[o]]
    \/ \E o \in todo :
          /\ ~ops[o].backed
          /\ ops' = [p \in Ops |-> IF p = o THEN [ops[p] EXCEPT !.backed = TRUE]
                                  ELSE IF p \in todo THEN Gone(p) ELSE ops[p]]

LeaveSlot(g) ==
    LET w == rt[g].turn IN
    /\ w # None /\ w.in # None
    /\ Drained(w.todo)
    /\ LET out == [rt EXCEPT ![g].turn = [w EXCEPT !.in = None, !.gate = None, !.todo = {}]] IN
       rt' = IF w.gate = None THEN out ELSE [out EXCEPT ![w.gate].gate = FALSE]
    /\ UNCHANGED <<table, engine, flock, passes, swap, waiting>>

(* The work is over: the turn is free, and a drain says whether it was busy.  *)
FinishWork(g) ==
    LET w    == rt[g].turn
        free == [rt EXCEPT ![g].turn = None]
        tries == rt[g].refused + 1
    IN  /\ w # None /\ w.in = None /\ w.left = <<>>
        /\ rt' = CASE w.who = "tick" -> [free EXCEPT ![g].run = "over"]
                   [] w.who = "drain" /\ ~w.busy ->
                        [free EXCEPT ![g].drainer = "wait", ![g].refused = 0]
                   [] w.who = "drain" /\ w.busy /\ tries <= BusyRetries ->
                        [free EXCEPT ![g].drainer = "retry", ![g].refused = tries]
                   [] w.who = "drain" /\ w.busy /\ tries > BusyRetries ->
                        [free EXCEPT ![g].drainer = "gave up", ![g].refused = 0]
        /\ UNCHANGED <<table, engine, flock, passes, swap, ops, waiting>>

-----------------------------------------------------------------------------
(* The drainer (drainer.rs): the first request of a burst, a quiet period that *)
(* every request restarts, then a drain; a refused one is retried.             *)

Idle == {"wait", "gave up"}

Wake(g) ==
    /\ rt[g].drainer \in Idle \cup {"retry", "quiet"} /\ rt[g].mark
    /\ rt' = [rt EXCEPT ![g].drainer = "quiet", ![g].mark = FALSE, ![g].refused = 0]
    /\ UNCHANGED <<table, engine, flock, passes, swap, ops, waiting>>

(* The quiet period, or the delay before a retry, is over. *)
DelayOver(g) ==
    /\ rt[g].drainer \in {"quiet", "retry"}
    /\ rt' = [rt EXCEPT ![g].drainer = "drain"]
    /\ UNCHANGED <<table, engine, flock, passes, swap, ops, waiting>>

DrainTakesTurn(g) ==
    /\ rt[g].drainer = "drain" /\ rt[g].turn = None
    /\ rt' = IF rt[g].retired
             THEN [rt EXCEPT ![g].drainer = "wait", ![g].refused = 0]
             ELSE [rt EXCEPT ![g].drainer = "draining", ![g].turn = Starting("drain", DrainSlots)]
    /\ UNCHANGED <<table, engine, flock, passes, swap, ops, waiting>>

DrainerStops(g) ==
    /\ rt[g].retired /\ rt[g].drainer \in Idle \cup {"quiet", "retry"}
    /\ rt' = [rt EXCEPT ![g].drainer = "off"]
    /\ UNCHANGED <<table, engine, flock, passes, swap, ops, waiting>>

-----------------------------------------------------------------------------
(* A configuration swap that changed the account: stop_account, start_account. *)

Reload ==
    /\ swap.at = "idle" /\ table # None /\ table + 1 \in Gens
    /\ swap' = [at |-> "flag", of |-> table]
    /\ table' = None
    /\ UNCHANGED <<rt, engine, flock, passes, ops, waiting>>

(* retire: no tick starts after the flag; the run in flight is waited for,     *)
(* then the turn, and then the lock is let go.                                  *)
Flag ==
    /\ swap.at = "flag"
    /\ rt' = [rt EXCEPT ![swap.of].retired = TRUE]
    /\ swap' = [swap EXCEPT !.at = "run"]
    /\ UNCHANGED <<table, engine, flock, passes, ops, waiting>>

RunWaitedOut ==
    /\ swap.at = "run" /\ rt[swap.of].run = "none"
    /\ swap' = [swap EXCEPT !.at = "turn"]
    /\ UNCHANGED <<rt, table, engine, flock, passes, ops, waiting>>

(* Mutant: only the tick in flight is waited for. *)
TurnNotWaited ==
    /\ swap.at = "turn"
    /\ swap' = [swap EXCEPT !.at = "drop"]
    /\ UNCHANGED <<rt, table, engine, flock, passes, ops, waiting>>

TurnWaitedOut ==
    /\ swap.at = "turn" /\ rt[swap.of].turn = None
    /\ swap' = [swap EXCEPT !.at = "drop"]
    /\ UNCHANGED <<rt, table, engine, flock, passes, ops, waiting>>

(* Mutant: the file outlives the guard, in a child process say. *)
LockLeaked(g) ==
    /\ rt' = [rt EXCEPT ![g].lock = FALSE]
    /\ engine' = IF engine = g THEN None ELSE engine
    /\ flock' = flock

(* Dropping the lock drops the registration and closes the file.               *)
LockDropped(g) ==
    /\ rt' = [rt EXCEPT ![g].lock = FALSE]
    /\ engine' = IF engine = g THEN None ELSE engine
    /\ flock' = IF rt[g].lock THEN None ELSE flock

DropLock ==
    /\ swap.at = "drop"
    /\ LockDropped(swap.of)
    /\ swap' = [swap EXCEPT !.at = "start"]
    /\ UNCHANGED <<table, passes, ops, waiting>>

(* The bound is hit: the lock stays with the work until its last clone drops.  *)
Overrun ==
    /\ Overruns /\ swap.at \in {"run", "turn"}
    /\ \/ swap.at = "run" /\ rt[swap.of].run # "none"
       \/ swap.at = "turn" /\ rt[swap.of].turn # None
    /\ swap' = [swap EXCEPT !.at = "start"]
    /\ UNCHANGED <<rt, table, engine, flock, passes, ops, waiting>>

DropLast(g) ==
    /\ rt[g].retired /\ rt[g].lock
    /\ swap.of # g \/ swap.at \in {"idle", "start", "insert"}
    /\ rt[g].run = "none" /\ rt[g].turn = None /\ rt[g].drainer # "drain"
    /\ LockDropped(g)
    /\ UNCHANGED <<table, passes, swap, ops, waiting>>

(* The replacement is the engine when it gets the flock; it registers its gate *)
(* then, and else it is blocked for its whole life.                             *)
Start ==
    /\ swap.at = "start"
    /\ LET g == swap.of + 1 IN
       IF flock = None
       THEN /\ rt' = [rt EXCEPT ![g].state = "ready", ![g].lock = TRUE]
            /\ flock' = g /\ engine' = g
       ELSE /\ rt' = [rt EXCEPT ![g].state = "blocked"]
            /\ UNCHANGED <<flock, engine>>
    /\ swap' = [swap EXCEPT !.at = "insert"]
    /\ UNCHANGED <<table, passes, ops, waiting>>

(* Its drainer starts with one request to answer.                              *)
Spawned(g) == [rt EXCEPT ![g].drainer = "wait", ![g].mark = TRUE]

Insert ==
    /\ swap.at = "insert"
    /\ LET g == swap.of + 1 IN
       /\ table' = g
       /\ rt' = IF rt[g].state = "ready" THEN Spawned(g) ELSE rt
    /\ swap' = [at |-> "idle", of |-> None]
    /\ UNCHANGED <<engine, flock, passes, ops, waiting>>

-----------------------------------------------------------------------------
(* The other passes, which hold no turn.                                       *)

Over == [at |-> "over", run |-> None, gate |-> None, todo |-> {}]
Running(slot, gate) ==
    [at |-> "running", run |-> slot, gate |-> gate, todo |-> IF slot = "mutations" THEN Owed ELSE {}]

(* take_turn_at. *)
PassEnters(p, slot) ==
    /\ passes[p].at = "fresh"
    /\ slot = "body" \/ (slot = "mutations" /\ Owed # {})
    /\ \/ /\ GateFree
          /\ rt' = [rt EXCEPT ![engine].gate = TRUE]
          /\ passes' = [passes EXCEPT ![p] = Running(slot, engine)]
          /\ UNCHANGED flock
       \/ /\ engine = None /\ flock = None
          /\ flock' = p
          /\ passes' = [passes EXCEPT ![p] = Running(slot, None)]
          /\ UNCHANGED rt
    /\ UNCHANGED <<table, engine, swap, ops, waiting>>

(* Mutant: the gate is kept by a pass that is over. *)
PassKeepsGate(p) ==
    /\ passes[p].at = "running"
    /\ Drained(passes[p].todo)
    /\ flock' = IF flock = p THEN None ELSE flock
    /\ passes' = [passes EXCEPT ![p] = Over]
    /\ UNCHANGED <<rt, table, engine, swap, waiting>>

PassLeaves(p) ==
    /\ passes[p].at = "running"
    /\ Drained(passes[p].todo)
    /\ rt' = IF passes[p].gate = None THEN rt ELSE [rt EXCEPT ![passes[p].gate].gate = FALSE]
    /\ flock' = IF flock = p THEN None ELSE flock
    /\ passes' = [passes EXCEPT ![p] = Over]
    /\ UNCHANGED <<table, engine, swap, waiting>>

-----------------------------------------------------------------------------
Init ==
    /\ rt = [g \in Gens |-> Unborn]
    /\ table = None /\ engine = None /\ flock = None
    /\ swap = [at |-> "start", of |-> 0]
    /\ passes = [p \in Passes |-> [Over EXCEPT !.at = "fresh"]]
    /\ ops = [o \in Ops |-> [owed |-> FALSE, done |-> FALSE, backed |-> FALSE,
                             ask |-> "no", of |-> None]]
    /\ waiting = [c \in Callers |-> None]

Mutations == \E o \in Ops : Commit(o) \/ LookUp(o) \/ RequestDrain(o)

Ticks(g) == Schedule(g) \/ RunTakesTurn(g) \/ RunEnds(g) \/ \E c \in Callers : Tick(c, g)

Working(g) == EnterSlot(g) \/ LeaveSlot(g) \/ FinishWork(g)

Drainer(g) == Wake(g) \/ DelayOver(g) \/ DrainTakesTurn(g) \/ DrainerStops(g)

Swapping ==
    Reload \/ Flag \/ RunWaitedOut \/ TurnWaitedOut \/ DropLock \/ Overrun \/ Start \/ Insert

Others == \E p \in Passes : PassLeaves(p) \/ \E slot \in Slots : PassEnters(p, slot)

Next ==
    \/ Mutations \/ Swapping \/ Others
    \/ \E g \in Gens : Ticks(g) \/ Working(g) \/ Drainer(g) \/ DropLast(g)

Spec == Init /\ [][Next]_vars

(* What happens a bounded number of times, and once it can stays possible:    *)
(* the requests of the mutations, the steps of a swap, the end of a pass.       *)
Once ==
    \/ \E o \in Ops : LookUp(o) \/ RequestDrain(o)
    \/ Flag \/ RunWaitedOut \/ TurnWaitedOut \/ DropLock \/ Start \/ Insert
    \/ \E p \in Passes : PassLeaves(p)

(* Tasks run; the turn is a fair mutex, so whoever keeps asking gets it.       *)
FairSpec ==
    /\ Spec
    /\ WF_vars(Once)
    /\ \A g \in Gens :
          /\ WF_vars(Working(g))
          /\ WF_vars(RunEnds(g) \/ Schedule(g) \/ DropLast(g))
          /\ WF_vars(Wake(g) \/ DelayOver(g))
          /\ SF_vars(RunTakesTurn(g)) /\ SF_vars(DrainTakesTurn(g))

-----------------------------------------------------------------------------
Runtime ==
    [state : {"unborn", "ready", "blocked"}, retired : BOOLEAN, lock : BOOLEAN,
     gate : BOOLEAN, turn : Work \cup {None}, run : {"none", "queued", "slots", "over"},
     mark : BOOLEAN, drainer : Idle \cup {"off", "quiet", "drain", "draining", "retry"},
     refused : 0..BusyRetries]

Pass == [at : {"fresh", "running", "over"}, run : Slots \cup {None},
         gate : Gens \cup {None}, todo : SUBSET Ops]

Swap == [at : {"idle", "flag", "run", "turn", "drop", "start", "insert"},
         of : Gens \cup {0, None}]

Op == [owed : BOOLEAN, done : BOOLEAN, backed : BOOLEAN,
       ask : {"no", "lookup", "request", "asked"}, of : Gens \cup {None}]

(* The tick and the drainer of a runtime agree with its turn on who is at work. *)
Agrees(r) ==
    /\ r.run = "slots" <=> r.turn # None /\ r.turn.who = "tick"
    /\ r.drainer = "draining" <=> r.turn # None /\ r.turn.who = "drain"

(* Types, and what two pairs of variables say alike: who is at work under the *)
(* turn, and who holds the flock.                                              *)
TypeOK ==
    /\ rt \in [Gens -> Runtime]
    /\ table \in Gens \cup {None} /\ engine \in Gens \cup {None}
    /\ flock \in Gens \cup Passes \cup {None}
    /\ passes \in [Passes -> Pass]
    /\ swap \in Swap
    /\ ops \in [Ops -> Op]
    /\ waiting \in [Callers -> Gens \cup {None}]
    /\ \A g \in Gens : Agrees(rt[g]) /\ (rt[g].lock <=> flock = g)

(* Whatever runs under a runtime's turn (a tick's unguarded body above all)   *)
(* runs while that runtime holds the account's lock: a retirement lets go of   *)
(* it only behind the work in flight, and nothing starts after                 *)
(* (AccountRuntime::retire).                                                   *)
LockCoversWork ==
    \A g \in Gens : rt[g].turn # None => flock = g /\ engine = g

(* Who is draining the mutation queue, and the gate each took.                 *)
Draining ==
    {<<"runtime", g, rt[g].turn.gate>> :
        g \in {g \in Gens : rt[g].turn # None /\ rt[g].turn.in = "mutations"}}
    \cup {<<"pass", p, passes[p].gate>> :
        p \in {p \in Passes : passes[p].at = "running" /\ passes[p].run = "mutations"}}

(* Two drains of the queue run at once only when one of them holds the gate of *)
(* an engine that has left: the gate, the flock and their hand-over exclude     *)
(* every other pair (engine_lock.rs).                                           *)
DrainsAlone ==
    \A d, e \in Draining :
        d # e => \E f \in {d, e} : f[3] # None /\ f[3] # engine

(* No request is lost: when the drainer of the account's runtime rests with no *)
(* request marked, every mutation that asked has left the queue, but for one   *)
(* that backed off or a drainer that gave up on a refused turn (drainer.rs).   *)
RestsWithNothingOwed ==
    table # None /\ rt[table].drainer = "wait" /\ ~rt[table].mark =>
        \A o \in Owed : ops[o].backed \/ ops[o].ask # "asked"

(* A mutation that is owed leaves the queue, unless the runtime of the account *)
(* is blocked: the drainer or the next tick drains it, whatever it met.        *)
Blocked == table # None /\ rt[table].state = "blocked"

OwedDrains == \A o \in Ops : ops[o].owed ~> ~ops[o].owed \/ Blocked

(* A tick that was asked for is answered, through a join, a refused turn or a  *)
(* retirement.                                                                 *)
TicksAnswer == \A c \in Callers : waiting[c] # None ~> waiting[c] = None
=============================================================================

---------------------------- MODULE StateStream -----------------------------
(***************************************************************************)
(* How a client mirrors the daemon's state: the canonical state and its     *)
(* revisions (src/daemon/state/mod.rs), the connection's outbound queue     *)
(* (src/daemon/state/events.rs), the connection task that writes it         *)
(* (src/daemon/server.rs), the client's session thread and watermark        *)
(* (crates/mp-client), and the pump of the desktop app, or the event drain  *)
(* of the TUI, that applies what arrives.                                   *)
(*                                                                          *)
(* One client, and the connection it holds.  A resource's content is its    *)
(* version, the number of changes it has had: it outlives the daemon, its   *)
(* revisions do not.  The frames in the socket's buffer are wire; a frame   *)
(* the writer has begun is on it.                                           *)
(***************************************************************************)
EXTENDS Naturals, FiniteSets, Sequences, SequencesExt

CONSTANTS
    Resources,    \* what the snapshot carries: drafts, account states, counts
    Counts,       \* the resources a change of which is announced as an invalidate
    Operations,   \* the operations the client starts
    Apps,         \* the clients in use: the desktop's pump, the TUI's event loop
    MaxEvents,    \* the cap of the outbound queue
    MaxWire,      \* the frames the socket's buffer takes
    MaxChanges,   \* bound on the changes committed
    MaxLosses,    \* bound on the connections lost, to a restart or without one
    MaxTimeouts,  \* bound on the calls a client gives up
    None          \* no connection, no snapshot

ASSUME CountsAssumption == Counts \subseteq Resources
ASSUME CapsAssumption == MaxEvents \in Nat \ {0} /\ MaxWire \in Nat \ {0} /\ Apps \subseteq {"desktop", "tui"}
ASSUME StreamBounds == {MaxChanges, MaxLosses, MaxTimeouts} \subseteq Nat

VARIABLES
    app,         \* which client this is
    inst, rev,   \* the daemon's instance and its last revision
    val,         \* the version of each resource
    ops,         \* the state of each operation in the registry
    unsaid,      \* the finished operations whose event is not published yet
    conn,        \* the daemon's half of the connection, None while it is down
    calls, sent, \* the session's calls, and how far the first one is
    channel,     \* what the session has posted for the client
    box,         \* the TUI's own channel for its first bootstrap
    pc,          \* what the client is doing
    tracker, mirror, stale, \* the watermark, the client's copy, what it must re-read
    awaited, todo, \* the operations it awaits, and those it still has to ask about
    changes, losses, timeouts, \* counters of the bounds
    astray       \* history: a TUI refused an event, let a bootstrap fail, or took its
                 \* first answer after a later one

daemon == <<inst, rev, val, ops, unsaid>>
session == <<calls, sent, channel, box>>
client == <<pc, tracker, mirror, stale, awaited, todo, astray>>
bounds == <<app, changes, losses, timeouts>>
Tui == app = "tui"
vars == <<app, inst, rev, val, ops, unsaid, conn, calls, sent, channel, box, pc, tracker,
          mirror, stale, awaited, todo, changes, losses, timeouts, astray>>

(* What is queued, sent and answered. *)

Resync == [kind |-> "resync"]
Snapshot == [rev : Nat, inst : Nat, val : [Resources -> Nat]]
Change == [kind : {"replace", "remove", "invalidate"}, rev : Nat, of : Resources, ver : Nat,
           inst : Nat]
Finish == [kind : {"finished"}, rev : Nat, of : Operations, ver : {0}, inst : Nat]
OpStates == {"none", "running", "done"}
Answers == [kind : {"snapshot"}, snap : Snapshot] \cup [kind : {"status"}, state : OpStates]
Reconnected == [kind : {"reconnected"}, inst : Nat]
Connection ==
    [attached : BOOLEAN, serving : {"loop", "registered", "captured"}, snap : Snapshot \cup {None},
     domain : Seq(Change), life : Seq(Finish), out : Seq(Change \cup Finish \cup {Resync}),
     poisoned : BOOLEAN, replies : Seq(Answers),
     wire : Seq(Change \cup Finish \cup {Resync} \cup Answers)]
Calls == [m : {"boot", "status", "start"}, op : Operations \cup {None}, to : {"pump", "box", "nobody"}]

ASSUME NoneAssumption == None \notin Connection \cup Snapshot

NewConn == [attached |-> FALSE, serving |-> "loop", snap |-> None, domain |-> <<>>,
            life |-> <<>>, out |-> <<>>, poisoned |-> FALSE, replies |-> <<>>, wire |-> <<>>]

Call(m, o, to) == [m |-> m, op |-> o, to |-> to]

(* The desktop subscribes under the pump's lock, the TUI goes on to its     *)
(* first frame and takes the answer from a channel of its own.               *)
Init ==
    /\ app \in Apps /\ astray = FALSE
    /\ inst = 1 /\ rev = 0
    /\ val = [r \in Resources |-> 0]
    /\ ops = [o \in Operations |-> "none"]
    /\ unsaid = {}
    /\ conn = NewConn
    /\ calls = <<Call("boot", None, IF Tui THEN "box" ELSE "pump")>>
    /\ sent = "no" /\ channel = <<>> /\ box = <<>>
    /\ pc = IF Tui THEN "idle" ELSE "boot"
    /\ tracker = [known |-> FALSE, inst |-> 0, rev |-> 0, poisoned |-> FALSE, changed |-> FALSE]
    /\ mirror = val /\ stale = {} /\ awaited = {} /\ todo = {}
    /\ changes = 0 /\ losses = 0 /\ timeouts = 0

-----------------------------------------------------------------------------
(* The outbound queue (Outbound). *)

Event(n, k, r, v) == [kind |-> k, rev |-> n, of |-> r, ver |-> v, inst |-> inst]

(* Outbound::position_of: a replacement of one resource, or an invalidate.  *)
SameKey(e, f) == e.kind \in {"replace", "invalidate"} /\ e.kind = f.kind /\ e.of = f.of

(* The elements of s that are in S, in their order.  A fold from the left is *)
(* a recursive function in this module, for its theorems' sake.              *)
Among(s, S) ==
    LET kept[i \in 0..Len(s)] == IF i = 0 THEN <<>>
                                 ELSE IF s[i] \in S THEN Append(kept[i - 1], s[i]) ELSE kept[i - 1]
    IN kept[Len(s)]

Fits(out) == Len(Among(out, ToSet(out) \ {Resync})) < MaxEvents

(* A mutant of the overflow: no marker. *)
SilentOverflow(q, e) ==
    [q EXCEPT !.poisoned = TRUE, !.out = Among(@, {x \in ToSet(@) : x.kind = "finished"})]

(* Outbound::overflow: the domain events go, one marker asks for a resync,  *)
(* and a lifecycle event is taken if it fits now.                            *)
Overflow(q, e) ==
    LET kept == Among(q.out, {x \in ToSet(q.out) : x.kind \in {"resync", "finished"}})
        marked == IF q.poisoned THEN kept ELSE Append(kept, Resync)
    IN [q EXCEPT !.poisoned = TRUE,
                 !.out = IF e.kind = "finished" /\ Fits(kept) THEN Append(marked, e) ELSE marked]

(* Outbound::push: an event merges with a queued one of its key, and the    *)
(* merged one moves to the tail.                                             *)
Push(q, e) ==
    IF q.poisoned /\ e.kind # "finished" THEN q
    ELSE IF \E x \in ToSet(q.out) : SameKey(x, e)
         THEN [q EXCEPT !.out = Append(Among(@, {x \in ToSet(@) : ~SameKey(x, e)}), e)]
         ELSE IF Fits(q.out) THEN [q EXCEPT !.out = Append(@, e)] ELSE Overflow(q, e)

(* The events of s pushed one after the other. *)
Offered(q, s) ==
    LET after[i \in 0..Len(s)] == IF i = 0 THEN q ELSE Push(after[i - 1], s[i])
    IN after[Len(s)]

(* EventQueue::drain_all: both queues at once, merged by revision. *)
Inserted(s, e) == Append(Among(s, {x \in ToSet(s) : x.rev <= e.rev}), e)
                  \o Among(s, {x \in ToSet(s) : x.rev > e.rev})
Merged(c) ==
    LET with[i \in 0..Len(c.life)] == IF i = 0 THEN c.domain ELSE Inserted(with[i - 1], c.life[i])
    IN with[Len(c.life)]

(* A mutant: what came after the capture is thrown away with the rest. *)
RebootstrappedEmpty(c) ==
    [c EXCEPT !.out = <<>>, !.poisoned = FALSE, !.domain = <<>>, !.life = <<>>,
              !.serving = "loop", !.snap = None,
              !.replies = Append(@, [kind |-> "snapshot", snap |-> c.snap])]

(* The connection task's rebootstrap: what was queued goes, what the fan-out *)
(* took after the capture is offered again, the answer waits for the wire.   *)
Rebootstrapped(c) ==
    LET fresh == [c EXCEPT !.out = <<>>, !.poisoned = FALSE, !.domain = <<>>, !.life = <<>>,
                           !.serving = "loop", !.snap = None,
                           !.replies = Append(@, [kind |-> "snapshot", snap |-> c.snap])]
    IN Offered(fresh, Among(Merged(c), {e \in ToSet(Merged(c)) : e.rev > c.snap.rev}))

-----------------------------------------------------------------------------
(* The daemon. *)

Serving(at) == conn # None /\ conn.serving = at
GateFree == ~Serving("registered")
(* A mutant: every event to the queue of the changes. *)
OneQueueFan(queue, e) == IF conn = None \/ ~conn.attached THEN conn
                         ELSE [conn EXCEPT !.domain = Append(@, e)]
Fan(queue, e) == IF conn = None \/ ~conn.attached THEN conn
                 ELSE [conn EXCEPT ![queue] = Append(@, e)]

Commit(r, k) ==
    /\ changes < MaxChanges /\ changes' = changes + 1
    /\ GateFree
    /\ rev' = rev + 1
    /\ val' = [val EXCEPT ![r] = @ + 1]
    /\ conn' = Fan("domain", Event(rev', k, r, val'[r]))
    /\ UNCHANGED <<app, inst, ops, unsaid, session, client, losses, timeouts>>

(* The registry settles an operation under its lock and publishes after it. *)
FinishOperation(o) ==
    /\ ops[o] = "running"
    /\ ops' = [ops EXCEPT ![o] = "done"]
    /\ unsaid' = unsaid \cup {o}
    /\ UNCHANGED <<inst, rev, val, conn, session, client, bounds>>

PublishFinish(o) ==
    /\ o \in unsaid /\ GateFree
    /\ rev' = rev + 1
    /\ unsaid' = unsaid \ {o}
    /\ conn' = Fan("life", Event(rev', "finished", o, 0))
    /\ UNCHANGED <<inst, val, ops, session, client, bounds>>

(* The connection task: between two frames it does one of these. *)
Drain ==
    /\ Serving("loop")
    /\ conn.domain # <<>> \/ conn.life # <<>>
    /\ conn' = Offered([conn EXCEPT !.domain = <<>>, !.life = <<>>], Merged(conn))
    /\ UNCHANGED <<daemon, session, client, bounds>>

Write ==
    /\ Serving("loop")
    /\ Len(conn.wire) < MaxWire
    /\ \/ /\ conn.replies # <<>>
          /\ conn' = [conn EXCEPT !.replies = Tail(@), !.wire = Append(@, Head(conn.replies))]
       \/ /\ conn.replies = <<>> /\ conn.out # <<>>
          /\ conn' = [conn EXCEPT !.out = Tail(@), !.wire = Append(@, Head(conn.out))]
    /\ UNCHANGED <<daemon, session, client, bounds>>

Asked(m) == Serving("loop") /\ calls # <<>> /\ sent = "no" /\ Head(calls).m = m

(* CanonicalState::bootstrap, behind the gate: the queue is attached first, *)
(* the state is captured after.                                              *)
Register ==
    /\ Asked("boot")
    /\ sent' = "served"
    /\ conn' = [conn EXCEPT !.serving = "registered", !.attached = TRUE]
    /\ UNCHANGED <<daemon, calls, channel, box, client, bounds>>

Capture ==
    /\ Serving("registered")
    /\ conn' = [conn EXCEPT !.serving = "captured",
                            !.snap = [rev |-> rev, inst |-> inst, val |-> val]]
    /\ UNCHANGED <<daemon, session, client, bounds>>

AnswerBootstrap ==
    /\ Serving("captured")
    /\ conn' = Rebootstrapped(conn)
    /\ UNCHANGED <<daemon, session, client, bounds>>

(* operation.status, and the command that starts an operation. *)
AnswerCall ==
    /\ Asked("status") \/ Asked("start")
    /\ LET o == Head(calls).op
       IN /\ ops' = IF Head(calls).m = "start" THEN [ops EXCEPT ![o] = "running"] ELSE ops
          /\ conn' = [conn EXCEPT !.replies = Append(@, [kind |-> "status", state |-> ops'[o]])]
    /\ sent' = "served"
    /\ UNCHANGED <<inst, rev, val, unsaid, calls, channel, box, client, bounds>>

-----------------------------------------------------------------------------
(* The client: Session's thread, StateTracker, SessionHandle. *)

AnswerKinds == {"snapshot", "status"}

Ask(m, o) == calls' = Append(calls, Call(m, o, "pump"))

(* A mutant: the revision alone decides. *)
ObserveRevision(e) ==
    IF tracker.poisoned THEN "gap" ELSE IF e.rev <= tracker.rev THEN "duplicate" ELSE "apply"

(* StateTracker::observe. *)
Observe(e) ==
    IF tracker.changed \/ e.inst # tracker.inst THEN "changed"
    ELSE IF tracker.poisoned THEN "gap"
    ELSE IF e.rev <= tracker.rev THEN "duplicate"
    ELSE "apply"

(* StateTracker::rebootstrap and the snapshot over the mirror; the TUI's    *)
(* watermark also forgets the operations of another instance.                *)
Adopt(snap) ==
    /\ tracker' = [known |-> TRUE, inst |-> snap.inst, rev |-> snap.rev,
                   poisoned |-> FALSE, changed |-> FALSE]
    /\ mirror' = snap.val
    /\ stale' = {}
    /\ awaited' = IF Tui /\ (~tracker.known \/ tracker.changed \/ tracker.inst # snap.inst)
                  THEN {} ELSE awaited

(* What the client does with the answer it waited for: a bootstrap is       *)
(* followed by operation.status of everything awaited, a terminal or unknown *)
(* operation is no longer awaited.                                           *)
TakeAnswer(call, answer) ==
    \/ /\ call.m = "boot"
       /\ Adopt(answer.snap)
       /\ todo' = awaited' /\ pc' = "query"
       /\ UNCHANGED astray
    \/ /\ call.m = "status"
       /\ awaited' = IF answer.state = "running" THEN awaited ELSE awaited \ {call.op}
       /\ pc' = "query"
       /\ UNCHANGED <<tracker, mirror, stale, todo, astray>>
    \/ /\ call.m = "start"
       /\ awaited' = awaited \cup {call.op}
       /\ pc' = "idle"
       /\ UNCHANGED <<tracker, mirror, stale, todo, astray>>

(* A call that failed or was given up.  A bootstrap that failed leaves the  *)
(* desktop's stream poisoned, so that the next event tries again; the TUI    *)
(* logs it.  A status that failed ends the wait.                             *)
TakeFailure(call) ==
    /\ tracker' = IF call.m = "boot" /\ ~Tui THEN [tracker EXCEPT !.poisoned = tracker.known]
                  ELSE tracker
    /\ awaited' = IF call.m = "status" THEN awaited \ {call.op} ELSE awaited
    /\ pc' = IF call.m = "status" THEN "query" ELSE "idle"
    /\ astray' = (astray \/ (call.m = "boot" /\ Tui))
    /\ UNCHANGED <<mirror, stale, todo>>

(* The session's thread reads a frame: a notification is posted, an answer  *)
(* goes to the caller that still waits for it.                               *)
Deliver ==
    /\ conn # None /\ conn.wire # <<>>
    /\ conn' = [conn EXCEPT !.wire = Tail(@)]
    /\ LET frame == Head(conn.wire)
       IN \/ /\ frame.kind \notin AnswerKinds
             /\ channel' = Append(channel, frame)
             /\ UNCHANGED <<calls, sent, box, client>>
          \/ /\ frame.kind \in AnswerKinds
             /\ calls' = Tail(calls) /\ sent' = "no"
             /\ box' = IF Head(calls).to = "box" THEN Append(box, frame.snap) ELSE box
             /\ IF Head(calls).to = "pump" THEN TakeAnswer(Head(calls), frame)
                ELSE UNCHANGED client
             /\ UNCHANGED channel
    /\ UNCHANGED <<daemon, bounds>>

(* A call under way when the connection is lost fails, and so does one that *)
(* is asked while it is down.                                                *)
RefuseCall ==
    /\ calls # <<>> /\ (conn = None \/ sent = "lost")
    /\ calls' = Tail(calls) /\ sent' = "no"
    /\ IF Head(calls).to = "pump" THEN TakeFailure(Head(calls)) ELSE UNCHANGED client
    /\ UNCHANGED <<daemon, conn, channel, box, bounds>>

(* The caller's budget is over; the call itself stays the session's. *)
GiveUp ==
    /\ timeouts < MaxTimeouts /\ timeouts' = timeouts + 1
    /\ \E i \in DOMAIN calls :
         /\ calls[i].to = "pump"
         /\ calls' = [calls EXCEPT ![i].to = "nobody"]
         /\ TakeFailure(calls[i])
    /\ UNCHANGED <<app, daemon, conn, sent, channel, box, changes, losses>>

Rebootstrap == Ask("boot", None) /\ pc' = "boot"

Apply(e) ==
    /\ tracker' = [tracker EXCEPT !.rev = e.rev]
    /\ mirror' = IF e.kind \in {"replace", "remove"} THEN [mirror EXCEPT ![e.of] = e.ver]
                 ELSE mirror
    /\ stale' = IF e.kind = "invalidate" THEN stale \cup {e.of} ELSE stale
    /\ awaited' = IF e.kind = "finished" THEN awaited \ {e.of} ELSE awaited
    /\ UNCHANGED <<pc, calls, todo, astray>>

(* An event: the desktop answers one it must not apply with a bootstrap, the *)
(* TUI refuses it.                                                           *)
HandleEvent(e) ==
    \/ /\ tracker.known /\ Observe(e) = "apply"
       /\ Apply(e)
    \/ /\ tracker.known /\ Observe(e) = "duplicate"
       /\ UNCHANGED <<client, calls>>
    \/ /\ tracker.known => Observe(e) \in {"changed", "gap"}
       /\ tracker' = [tracker EXCEPT !.changed = tracker.known /\ Observe(e) = "changed"]
       /\ IF Tui THEN UNCHANGED <<pc, calls>> ELSE Rebootstrap
       /\ astray' = (astray \/ Tui)
       /\ UNCHANGED <<mirror, stale, awaited, todo>>

(* A resync poisons the desktop's stream; a reconnect to another instance    *)
(* drops what it awaits.  Both bootstrap again.                              *)
HandleNotice(n) ==
    /\ tracker' = IF n.kind = "resync" /\ ~Tui THEN [tracker EXCEPT !.poisoned = tracker.known]
                  ELSE tracker
    /\ awaited' = IF n.kind = "reconnected" /\ ~Tui /\ tracker.known /\ n.inst # tracker.inst
                  THEN {} ELSE awaited
    /\ Rebootstrap
    /\ UNCHANGED <<mirror, stale, todo, astray>>

Handle ==
    /\ pc = "idle" /\ channel # <<>>
    /\ channel' = Tail(channel)
    /\ IF Head(channel).kind \in {"resync", "reconnected"} THEN HandleNotice(Head(channel))
       ELSE HandleEvent(Head(channel))
    /\ UNCHANGED <<daemon, conn, sent, box, bounds>>

(* The TUI's loop takes its first bootstrap after a drain of the events. *)
TakeBox ==
    /\ pc = "idle" /\ box # <<>>
    /\ Adopt(Head(box))
    /\ box' = Tail(box)
    /\ astray' = (astray \/ tracker.known)
    /\ UNCHANGED <<daemon, conn, calls, sent, channel, pc, todo, bounds>>

(* requery_locked, requery_operations. *)
Requery ==
    /\ pc = "query"
    /\ \/ /\ todo = {} /\ pc' = "idle" /\ UNCHANGED <<todo, calls>>
       \/ \E o \in todo : todo' = todo \ {o} /\ pc' = "status" /\ Ask("status", o)
    /\ UNCHANGED <<daemon, conn, sent, channel, box, tracker, mirror, stale, awaited,
                   astray, bounds>>

(* The mailbox.list that answers an invalidate. *)
Refetch(r) ==
    /\ r \in stale /\ conn # None /\ calls = <<>>
    /\ stale' = stale \ {r}
    /\ mirror' = [mirror EXCEPT ![r] = val[r]]
    /\ UNCHANGED <<daemon, conn, session, pc, tracker, awaited, todo, astray, bounds>>

(* start_operation, under the pump's lock. *)
StartOperation(o) ==
    /\ pc = "idle" /\ ops[o] = "none" /\ o \notin awaited
    /\ \A i \in DOMAIN calls : calls[i].op # o
    /\ Ask("start", o) /\ pc' = "start"
    /\ UNCHANGED <<daemon, conn, sent, channel, box, tracker, mirror, stale, awaited, todo,
                   astray, bounds>>

-----------------------------------------------------------------------------
(* The connection is lost, with the daemon or without it; the subscription  *)
(* goes with it.                                                             *)
Cut ==
    /\ losses < MaxLosses /\ losses' = losses + 1
    /\ conn' = None
    /\ sent' = IF sent = "served" THEN "lost" ELSE sent

Lose ==
    /\ conn # None /\ Cut
    /\ UNCHANGED <<daemon, calls, channel, box, client, app, changes, timeouts>>

Restart ==
    /\ Cut
    /\ inst' = inst + 1 /\ rev' = 0
    /\ ops' = [o \in Operations |-> "none"] /\ unsaid' = {}
    /\ UNCHANGED <<val, calls, channel, box, client, app, changes, timeouts>>

Reopen ==
    /\ conn = None /\ sent # "lost"
    /\ conn' = NewConn
    /\ channel' = Append(channel, [kind |-> "reconnected", inst |-> inst])
    /\ UNCHANGED <<daemon, calls, sent, box, client, bounds>>

-----------------------------------------------------------------------------
Kinds(r) == IF r \in Counts THEN {"invalidate"} ELSE {"replace", "remove"}

ConnectionStep == Drain \/ Write \/ Register \/ Capture \/ AnswerBootstrap \/ AnswerCall
SessionStep == Deliver \/ RefuseCall \/ Reopen
ClientStep == Handle \/ TakeBox \/ Requery \/ \E r \in Resources : Refetch(r)

Next ==
    \/ \E r \in Resources : \E k \in Kinds(r) : Commit(r, k)
    \/ \E o \in Operations : FinishOperation(o) \/ PublishFinish(o) \/ StartOperation(o)
    \/ ConnectionStep \/ SessionStep \/ ClientStep
    \/ GiveUp \/ Lose \/ Restart

Spec == Init /\ [][Next]_vars

(* Every task runs on, an operation ends, and the session keeps trying to    *)
(* reconnect; nothing makes a change, a loss or a timeout happen.            *)
Fairness ==
    /\ WF_vars(Drain) /\ WF_vars(Write)
    /\ WF_vars(Register \/ Capture \/ AnswerBootstrap \/ AnswerCall)
    /\ WF_vars(Deliver) /\ WF_vars(RefuseCall) /\ WF_vars(Reopen)
    /\ WF_vars(Handle) /\ WF_vars(TakeBox) /\ WF_vars(Requery)
    /\ \A r \in Resources : WF_vars(Refetch(r))
    /\ \A o \in Operations : WF_vars(FinishOperation(o)) /\ WF_vars(PublishFinish(o))

FairSpec == Spec /\ Fairness

-----------------------------------------------------------------------------
(* TypeOK: the type invariant. *)
TypeOK ==
    /\ inst \in Nat /\ rev \in Nat /\ val \in [Resources -> Nat]
    /\ ops \in [Operations -> OpStates] /\ unsaid \subseteq Operations
    /\ conn \in Connection \cup {None}
    /\ calls \in Seq(Calls)
    /\ sent \in {"no", "served", "lost"}
    /\ channel \in Seq(Change \cup Finish \cup {Resync} \cup Reconnected)
    /\ box \in Seq(Snapshot)
    /\ pc \in {"idle", "boot", "query", "status", "start"}
    /\ tracker \in [known : BOOLEAN, inst : Nat, rev : Nat, poisoned : BOOLEAN, changed : BOOLEAN]
    /\ mirror \in [Resources -> Nat] /\ stale \subseteq Resources
    /\ awaited \subseteq Operations /\ todo \subseteq Operations
    /\ {changes, losses, timeouts} \subseteq Nat
    /\ app \in Apps /\ astray \in BOOLEAN

(* What is on its way to the client. *)
Coming == ToSet(channel) \cup IF conn = None THEN {}
                              ELSE UNION {ToSet(conn.wire), ToSet(conn.out), ToSet(conn.domain),
                                          ToSet(conn.life)}

NeedsBootstrap == ~tracker.known \/ tracker.poisoned \/ tracker.changed

(* The client takes its copy for the daemon's, and nothing on its way tells *)
(* it otherwise.                                                             *)
Trusts ==
    /\ ~NeedsBootstrap /\ pc # "boot" /\ conn # None
    /\ \A x \in Coming : /\ x.kind \notin {"resync", "reconnected"}
                         /\ x.kind \notin AnswerKinds => x.inst = tracker.inst

(* An event the watermark will let through. *)
Due(kinds, r, v) ==
    \E x \in Coming : x.kind \in kinds /\ x.of = r /\ x.ver = v /\ x.rev > tracker.rev

Has(r) == mirror[r] = val[r] \/ r \in stale
          \/ Due({"replace", "remove", "invalidate"}, r, val[r])

(* NothingLost: a client that trusts its copy has every change, or has been *)
(* told to read the resource again, or the newest change is on its way and   *)
(* will be applied, unless it is a TUI that went astray.                     *)
NothingLost == Trusts /\ ~astray => \A r \in Resources : Has(r)

(* NeverBack: what the client shows of a resource is never replaced by an   *)
(* older version of it, across overflows, bootstraps and restarts.           *)
NeverBack == [][~astray' => \A r \in Resources : mirror'[r] >= mirror[r]]_vars

(* CatchesUp: once nothing changes any more the client shows the daemon's   *)
(* state and awaits nothing, or knows that its stream is broken.             *)
CatchesUp ==
    <>[](astray \/ NeedsBootstrap \/ (mirror = val /\ stale = {} /\ awaited = {}))

=============================================================================

------------------------------ MODULE UndoHold ------------------------------
(***************************************************************************)
(* The undo-send hold of the daemon: src/src/daemon/hold.rs with the       *)
(* parts of the operation registry (operations.rs), of the connection loop *)
(* (server.rs) and of the shutdown sequence (shutdown.rs) that end a hold. *)
(*                                                                         *)
(* A hold ends in one of five ways, each on a task of its own: its timer   *)
(* fires, a client cancels it, the last client leaves, the daemon shuts    *)
(* down, or its timer finds the operation's token shut.  The table of      *)
(* armed holds is the one thing they share; what follows a removal (the    *)
(* drafts mirror's table, the event, the registry) happens after its lock  *)
(* is released and is a step of its own here.  So is each step of arming.  *)
(*                                                                         *)
(* A send is named by the operation that performs it, once.  Events reach  *)
(* a bootstrapped client when they are published: delay, coalescing and    *)
(* loss are StateStream's subject, and a client's picture of the holds     *)
(* depends only on the order of publication, which is what this keeps.     *)
(***************************************************************************)
EXTENDS Naturals, FiniteSets

CONSTANTS
    Sends,      \* operations that may be started
    Clients,    \* connections; one that left may come back
    App,        \* the program on each connection: "desktop" or "tui"
    MaxTicks,   \* bound: ticks published per hold
    MaxAccepts  \* bound: connections accepted in all

ASSUME UndoHoldAssumption ==
    /\ App \in [Clients -> {"desktop", "tui"}]
    /\ MaxTicks \in Nat
    /\ MaxAccepts \in Nat

Stopper == "shutdown"
Actors == Clients \cup {Stopper}
NoSend == "no send"

ASSUME ActorsDiffer == Stopper \notin Clients /\ NoSend \notin Sends

VARIABLES
    armed,      \* HoldScheduler.armed: the sends whose window is running
    guarded,    \* draft_mirror's HELD: the sends whose draft no pull may touch
    op,         \* the registry's state of each operation
    task,       \* where the task of each send (run_held, then run) is
    ticks,      \* ticks published per hold, for the bound
    conn,       \* where each connection's task is
    accepts,    \* connections accepted, for the bound
    busy,       \* what each actor is doing: its step and the send it is about
    doomed,     \* cancel_all's snapshot, per actor, less what it went through
    phase,      \* the shutdown sequence
    pending,    \* the operations the answer to daemon.stop lists
    fed,        \* connections attached to the fan-out by a bootstrap
    shown,      \* the holds each client shows a countdown for
    ended,      \* the holds each client knows the end of
    endings,    \* history: the ending events published for each hold
    sent        \* history: the sends whose work went out

daemonVars == <<armed, guarded, op, task, ticks>>
connVars == <<conn, accepts>>
stopVars == <<phase, pending>>
viewVars == <<fed, shown, ended, endings>>
vars == <<daemonVars, connVars, stopVars, viewVars, busy, doomed, sent>>

Idle == [step |-> "idle", send |-> NoSend]
At(step, s) == [step |-> step, send |-> s]

Terminal == {"succeeded", "failed", "cancelled"}
Live == {s \in Sends : op[s] \in {"queued", "running"}}
Subscribers == {c \in Clients : conn[c] \in {"open", "closing"}}

Init ==
    /\ armed = {} /\ guarded = {}
    /\ op = [s \in Sends |-> "none"]
    /\ task = [s \in Sends |-> "none"]
    /\ ticks = [s \in Sends |-> 0]
    /\ conn = [c \in Clients |-> "away"]
    /\ accepts = 0
    /\ busy = [a \in Actors |-> Idle]
    /\ doomed = [a \in Actors |-> {}]
    /\ phase = "serving"
    /\ pending = {}
    /\ fed = {}
    /\ shown = [c \in Clients |-> {}]
    /\ ended = [c \in Clients |-> {}]
    /\ endings = [s \in Sends |-> {}]
    /\ sent = {}

-----------------------------------------------------------------------------
(* Events, and what a client makes of them.                                *)

(* A TUI that reads a tick whether or not it knows the hold to be over.    *)
OpensCountdownOnAnyTick(c, kind, s) ==
    kind \in {"started", "tick"}

(* Whether an event of the hold `s` leaves a countdown on screen.  The     *)
(* desktop drops whatever follows an end; the TUI drops only a tick.       *)
OpensCountdown(c, kind, s) ==
    /\ kind \in {"started", "tick"}
    /\ ~ (s \in ended[c] /\ (App[c] = "desktop" \/ kind = "tick"))

(* publish: to every bootstrapped connection, in one order for all.        *)
Publish(kind, s) ==
    /\ shown' = [c \in Clients |->
           IF c \notin fed THEN shown[c]
           ELSE IF OpensCountdown(c, kind, s) THEN shown[c] \cup {s}
           ELSE IF kind \in {"fired", "cancelled"} THEN shown[c] \ {s}
           ELSE shown[c]]
    /\ ended' = [c \in Clients |->
           IF c \in fed /\ kind \in {"fired", "cancelled"}
           THEN ended[c] \cup {s} ELSE ended[c]]
    /\ endings' = IF kind \in {"fired", "cancelled"}
                  THEN [endings EXCEPT ![s] = @ \cup {kind}] ELSE endings
    /\ UNCHANGED fed

(* OperationRegistry::cancel: the token is shut and the state settled      *)
(* under one lock; a terminal operation refuses.  The token is shut        *)
(* exactly when the state is cancelled.                                    *)
CancelOperation(s) ==
    op' = IF op[s] \in Terminal THEN op ELSE [op EXCEPT ![s] = "cancelled"]

TokenShut(s) == op[s] = "cancelled"

-----------------------------------------------------------------------------
(* Connections.                                                            *)

Accept(c) ==
    /\ conn[c] = "away" /\ accepts < MaxAccepts
    /\ busy[c] = Idle /\ doomed[c] = {}
    /\ phase # "settled"
    /\ conn' = [conn EXCEPT ![c] = "open"]
    /\ accepts' = accepts + 1
    /\ shown' = [shown EXCEPT ![c] = {}]
    /\ ended' = [ended EXCEPT ![c] = {}]
    /\ UNCHANGED <<daemonVars, stopVars, busy, doomed, fed, endings, sent>>

(* state.bootstrap: attaches the queue and captures the holds; the client  *)
(* shows those and keeps what it knows to be over.                         *)
Bootstrap(c) ==
    /\ conn[c] = "open" /\ busy[c] = Idle /\ phase = "serving"
    /\ fed' = fed \cup {c}
    /\ shown' = [shown EXCEPT ![c] = armed]
    /\ UNCHANGED <<daemonVars, connVars, stopVars, busy, doomed, ended,
                   endings, sent>>

(* The socket closed.  on_disconnect finds nothing: a send is durable.     *)
Close(c) ==
    /\ conn[c] = "open" /\ busy[c] = Idle
    /\ conn' = [conn EXCEPT ![c] = "closing"]
    /\ UNCHANGED <<daemonVars, accepts, stopVars, viewVars, busy, doomed, sent>>

(* A leaving connection whose endpoint stays on the fan-out.               *)
LeaveFed(c) ==
    /\ conn[c] = "closing"
    /\ conn' = [conn EXCEPT ![c] = "dropped"]
    /\ UNCHANGED <<daemonVars, accepts, stopVars, viewVars, busy, doomed, sent>>

(* The queue is dropped, which unsubscribes.                               *)
Unsubscribe(c) ==
    /\ conn[c] = "closing"
    /\ conn' = [conn EXCEPT ![c] = "dropped"]
    /\ fed' = fed \ {c}
    /\ UNCHANGED <<daemonVars, accepts, stopVars, shown, ended, endings, busy,
                   doomed, sent>>

(* A count taken with the leaving client's own endpoint still in it.       *)
NobodyButItself(c) == Subscribers \cup {c} = {}

(* subscriber_count() == 0.                                                *)
NobodyLeft(c) == Subscribers = {}

(* No subscriber is left: the leaving connection's task cancels every hold *)
(* of the snapshot it takes here, one after the other.                     *)
LastClient(c) ==
    /\ conn[c] = "dropped"
    /\ conn' = [conn EXCEPT ![c] = "away"]
    /\ doomed' = [doomed EXCEPT ![c] = IF NobodyLeft(c) THEN armed ELSE {}]
    /\ UNCHANGED <<daemonVars, accepts, stopVars, viewVars, busy, sent>>

-----------------------------------------------------------------------------
(* send.draft and send.approved, inside the dispatch of one connection.    *)

(* The shutdown gate of dispatch_request lets the request through.         *)
Admit(c, s) ==
    /\ conn[c] = "open" /\ busy[c] = Idle /\ phase = "serving"
    /\ op[s] = "none" /\ \A d \in Clients : busy[d].send # s
    /\ busy' = [busy EXCEPT ![c] = At("admitted", s)]
    /\ UNCHANGED <<daemonVars, connVars, stopVars, viewVars, doomed, sent>>

(* OperationRegistry::start, where the request asks for no window or the   *)
(* configured window is zero: the send is spawned at once.                 *)
StartNow(c) ==
    /\ busy[c].step = "admitted"
    /\ op' = [op EXCEPT ![busy[c].send] = "queued"]
    /\ task' = [task EXCEPT ![busy[c].send] = "work"]
    /\ busy' = [busy EXCEPT ![c] = Idle]
    /\ UNCHANGED <<armed, guarded, ticks, connVars, stopVars, viewVars, doomed,
                   sent>>

(* The same where a window is asked for and configured.                    *)
StartHeld(c) ==
    /\ busy[c].step = "admitted"
    /\ op' = [op EXCEPT ![busy[c].send] = "queued"]
    /\ busy' = [busy EXCEPT ![c].step = "started"]
    /\ UNCHANGED <<armed, guarded, task, ticks, connVars, stopVars, viewVars,
                   doomed, sent>>

(* HoldScheduler::arm: the row of the table, ...                           *)
Arm(c) ==
    /\ busy[c].step = "started"
    /\ armed' = armed \cup {busy[c].send}
    /\ busy' = [busy EXCEPT ![c].step = "armed"]
    /\ UNCHANGED <<guarded, op, task, ticks, connVars, stopVars, viewVars,
                   doomed, sent>>

(* ... the drafts mirror's table, ...                                      *)
Guard(c) ==
    /\ busy[c].step = "armed"
    /\ guarded' = guarded \cup {busy[c].send}
    /\ busy' = [busy EXCEPT ![c].step = "guarded"]
    /\ UNCHANGED <<armed, op, task, ticks, connVars, stopVars, viewVars, doomed,
                   sent>>

(* ... and the event; then the timer's task is spawned and the answer      *)
(* written.                                                                *)
Announce(c) ==
    /\ busy[c].step = "guarded"
    /\ Publish("started", busy[c].send)
    /\ task' = [task EXCEPT ![busy[c].send] = "wait"]
    /\ busy' = [busy EXCEPT ![c] = Idle]
    /\ UNCHANGED <<armed, guarded, op, ticks, connVars, stopVars, doomed, sent>>

-----------------------------------------------------------------------------
(* HoldScheduler::cancel, whoever calls it.                                *)

Cancellable(s) == s \in armed

(* take: out of the table, if it is there.                                 *)
Take(a, s) ==
    /\ Cancellable(s)
    /\ armed' = armed \ {s}
    /\ busy' = [busy EXCEPT ![a] = At("taken", s)]
    /\ UNCHANGED <<guarded, op, task, ticks>>

(* A client learns an operation's id from its answer, or from a snapshot.  *)
Known(c, s) == {s} \cap (shown[c] \cup {x \in Sends : task[x] # "none"}) # {}

(* send.cancel_hold and operation.cancel of a held send.  send.cancel_hold *)
(* is refused, and nothing happens, where no hold runs under the id.       *)
CancelHold(c, s) ==
    /\ conn[c] = "open" /\ busy[c] = Idle /\ phase = "serving"
    /\ Known(c, s)
    /\ Take(c, s)
    /\ UNCHANGED <<connVars, stopVars, viewVars, doomed, sent>>

(* operation.cancel where no hold runs: the operation itself is settled.   *)
CancelByOperation(c, s) ==
    /\ conn[c] = "open" /\ busy[c] = Idle /\ phase = "serving"
    /\ Known(c, s) /\ s \in Live /\ ~ Cancellable(s)
    /\ CancelOperation(s)
    /\ UNCHANGED <<armed, guarded, task, ticks, connVars, stopVars, viewVars,
                   busy, doomed, sent>>

(* cancel_all goes to the next hold of its snapshot.                       *)
Sweep(a) ==
    /\ busy[a] = Idle /\ (a = Stopper => phase = "sweeping")
    /\ \E s \in doomed[a] :
          /\ doomed' = [doomed EXCEPT ![a] = @ \ {s}]
          /\ IF Cancellable(s) THEN Take(a, s) ELSE UNCHANGED <<daemonVars, busy>>
    /\ UNCHANGED <<connVars, stopVars, viewVars, sent>>

(* The rest of take: the drafts mirror may pull the draft again.           *)
Release(a) ==
    /\ busy[a].step = "taken"
    /\ guarded' = guarded \ {busy[a].send}
    /\ busy' = [busy EXCEPT ![a].step = "released"]
    /\ UNCHANGED <<armed, op, task, ticks, connVars, stopVars, viewVars, doomed,
                   sent>>

(* A cancel that stops at its event.                                       *)
PublishOnly(a) ==
    /\ busy[a].step = "released"
    /\ Publish("cancelled", busy[a].send)
    /\ busy' = [busy EXCEPT ![a] = Idle]
    /\ UNCHANGED <<daemonVars, connVars, stopVars, doomed, sent>>

PublishCancelled(a) ==
    /\ busy[a].step = "released"
    /\ Publish("cancelled", busy[a].send)
    /\ busy' = [busy EXCEPT ![a].step = "published"]
    /\ UNCHANGED <<daemonVars, connVars, stopVars, doomed, sent>>

(* The operation the send answered with is settled last.                   *)
Settle(a) ==
    /\ busy[a].step = "published"
    /\ CancelOperation(busy[a].send)
    /\ busy' = [busy EXCEPT ![a] = Idle]
    /\ UNCHANGED <<armed, guarded, task, ticks, connVars, stopVars, viewVars,
                   doomed, sent>>

-----------------------------------------------------------------------------
(* run_held: the timer of one hold, then the send itself.                  *)

Step(s, next) == task' = [task EXCEPT ![s] = next]

(* A wake before the deadline: with the token shut the hold is withdrawn;  *)
(* with the hold gone the task ends; otherwise it is about to tick.        *)
Wake(s) ==
    /\ task[s] = "wait" /\ ticks[s] < MaxTicks
    /\ Step(s, IF TokenShut(s) THEN "withdraw"
               ELSE IF s \in armed THEN "tick" ELSE "over")
    /\ UNCHANGED <<armed, guarded, op, ticks, connVars, stopVars, viewVars, busy,
                   doomed, sent>>

Tick(s) ==
    /\ task[s] = "tick"
    /\ Publish("tick", s)
    /\ ticks' = [ticks EXCEPT ![s] = @ + 1]
    /\ Step(s, "wait")
    /\ UNCHANGED <<armed, guarded, op, connVars, stopVars, busy, doomed, sent>>

(* A timer that just ends when it finds its token shut.                    *)
ExpireUnwithdrawn(s) ==
    /\ task[s] = "wait"
    /\ Step(s, IF TokenShut(s) THEN "over" ELSE "fire")
    /\ UNCHANGED <<armed, guarded, op, ticks, connVars, stopVars, viewVars, busy,
                   doomed, sent>>

(* The deadline.                                                           *)
Expire(s) ==
    /\ task[s] = "wait"
    /\ Step(s, IF TokenShut(s) THEN "withdraw" ELSE "fire")
    /\ UNCHANGED <<armed, guarded, op, ticks, connVars, stopVars, viewVars, busy,
                   doomed, sent>>

Took == [fire |-> "firing", withdraw |-> "withdrawing"]

(* A fire that trusts the look the timer took when it woke.                *)
TakeDueBlindly(s) ==
    /\ task[s] \in {"fire", "withdraw"}
    /\ armed' = armed \ {s}
    /\ Step(s, Took[task[s]])
    /\ UNCHANGED <<guarded, op, ticks, connVars, stopVars, viewVars, busy, doomed,
                   sent>>

(* fire and withdraw take the hold out of the table, or find it gone and   *)
(* do nothing.                                                             *)
TakeDue(s) ==
    /\ task[s] \in {"fire", "withdraw"}
    /\ armed' = armed \ {s}
    /\ Step(s, IF s \in armed THEN Took[task[s]] ELSE "over")
    /\ UNCHANGED <<guarded, op, ticks, connVars, stopVars, viewVars, busy, doomed,
                   sent>>

ReleaseDue(s) ==
    /\ task[s] \in {"firing", "withdrawing"}
    /\ guarded' = guarded \ {s}
    /\ Step(s, IF task[s] = "firing" THEN "fired" ELSE "withdrawn")
    /\ UNCHANGED <<armed, op, ticks, connVars, stopVars, viewVars, busy, doomed,
                   sent>>

PublishDue(s) ==
    /\ task[s] \in {"fired", "withdrawn"}
    /\ Publish(IF task[s] = "fired" THEN "fired" ELSE "cancelled", s)
    /\ Step(s, IF task[s] = "fired" THEN "work" ELSE "over")
    /\ UNCHANGED <<armed, guarded, op, ticks, connVars, stopVars, busy, doomed,
                   sent>>

(* set_running, which leaves a settled operation alone; the work of a      *)
(* draft does not look at the token.                                       *)
Run(s) ==
    /\ task[s] = "work"
    /\ op' = [op EXCEPT ![s] = IF @ = "queued" THEN "running" ELSE @]
    /\ Step(s, "sending")
    /\ UNCHANGED <<armed, guarded, ticks, connVars, stopVars, viewVars, busy,
                   doomed, sent>>

(* The work ends; succeed and fail are no-ops on a terminal operation.     *)
Finish(s) ==
    /\ task[s] = "sending"
    /\ \E out \in BOOLEAN :
          /\ sent' = IF out THEN sent \cup {s} ELSE sent
          /\ op' = IF op[s] \in Terminal THEN op
                   ELSE [op EXCEPT ![s] = IF out THEN "succeeded" ELSE "failed"]
    /\ Step(s, "over")
    /\ UNCHANGED <<armed, guarded, ticks, connVars, stopVars, viewVars, busy,
                   doomed>>

-----------------------------------------------------------------------------
(* The shutdown sequence, steps 1 to 7.                                    *)

(* Step 1: the gate closes.                                                *)
Stop ==
    /\ phase = "serving"
    /\ phase' = "stopping"
    /\ UNCHANGED <<daemonVars, connVars, pending, viewVars, busy, doomed, sent>>

(* Step 2: cancel_all takes its snapshot.                                  *)
StopHolds ==
    /\ phase = "stopping"
    /\ doomed' = [doomed EXCEPT ![Stopper] = armed]
    /\ phase' = "sweeping"
    /\ UNCHANGED <<daemonVars, connVars, pending, viewVars, busy, sent>>

(* Steps 3 and 4: what is still live is announced and answered.            *)
CapturePending ==
    /\ phase = "sweeping" /\ busy[Stopper] = Idle /\ doomed[Stopper] = {}
    /\ pending' = Live
    /\ phase' = "grace"
    /\ UNCHANGED <<daemonVars, connVars, viewVars, busy, doomed, sent>>

(* Step 5: the registry is found empty, ...                                *)
Drained ==
    /\ phase = "grace" /\ Live = {}
    /\ phase' = "settled"
    /\ UNCHANGED <<daemonVars, connVars, pending, viewVars, busy, doomed, sent>>

(* ... or the grace is over, and what is live is cancelled in the          *)
(* registry, each under the lock on its own.                               *)
CutShort ==
    /\ phase = "grace" /\ Live # {}
    /\ doomed' = [doomed EXCEPT ![Stopper] = Live]
    /\ phase' = "cutting"
    /\ UNCHANGED <<daemonVars, connVars, pending, viewVars, busy, sent>>

CutOne ==
    /\ phase = "cutting"
    /\ \E s \in doomed[Stopper] :
          /\ CancelOperation(s)
          /\ doomed' = [doomed EXCEPT ![Stopper] = @ \ {s}]
    /\ UNCHANGED <<armed, guarded, task, ticks, connVars, stopVars, viewVars,
                   busy, sent>>

CutAll ==
    /\ phase = "cutting" /\ doomed[Stopper] = {}
    /\ phase' = "settled"
    /\ UNCHANGED <<daemonVars, connVars, pending, viewVars, busy, doomed, sent>>

-----------------------------------------------------------------------------
ActorStep(a) == Sweep(a) \/ Release(a) \/ PublishCancelled(a) \/ Settle(a)

Calling(c) ==
    StartNow(c) \/ StartHeld(c) \/ Arm(c) \/ Guard(c) \/ Announce(c)

Leaving(c) == Unsubscribe(c) \/ LastClient(c)

Timer(s) ==
    \/ Wake(s) \/ Tick(s) \/ Expire(s) \/ TakeDue(s) \/ ReleaseDue(s)
    \/ PublishDue(s) \/ Run(s) \/ Finish(s)

Shutdown ==
    StopHolds \/ CapturePending \/ Drained \/ CutShort \/ CutOne \/ CutAll

Next ==
    \/ \E c \in Clients :
          \/ Accept(c) \/ Bootstrap(c) \/ Close(c) \/ Calling(c) \/ Leaving(c)
          \/ \E s \in Sends :
                Admit(c, s) \/ CancelHold(c, s) \/ CancelByOperation(c, s)
    \/ \E a \in Actors : ActorStep(a)
    \/ \E s \in Sends : Timer(s)
    \/ Stop \/ Shutdown

Spec == Init /\ [][Next]_vars

(* Every task the runtime was given runs on, and a timer reaches its       *)
(* deadline; nobody has to call, leave or stop the daemon.                 *)
Fairness ==
    /\ \A a \in Actors : WF_vars(ActorStep(a))
    /\ \A c \in Clients : WF_vars(Calling(c)) /\ WF_vars(Leaving(c))
    /\ \A s \in Sends : WF_vars(Timer(s))
    /\ WF_vars(Shutdown)

FairSpec == Spec /\ Fairness

-----------------------------------------------------------------------------
(* Types: every variable stays in the set its comment names.               *)
TypeOK ==
    /\ armed \subseteq Sends /\ guarded \subseteq Sends
    /\ op \in [Sends -> {"none", "queued", "running"} \cup Terminal]
    /\ task \in [Sends -> {"none", "wait", "tick", "fire", "withdraw",
                           "firing", "withdrawing", "fired", "withdrawn",
                           "work", "sending", "over"}]
    /\ ticks \in [Sends -> 0 .. MaxTicks]
    /\ conn \in [Clients -> {"away", "open", "closing", "dropped"}]
    /\ accepts \in 0 .. MaxAccepts
    /\ busy \in [Actors -> {Idle} \cup [step : {"admitted", "started", "armed",
                                 "guarded", "taken", "released", "published"},
                                        send : Sends]]
    /\ doomed \in [Actors -> SUBSET Sends]
    /\ phase \in {"serving", "stopping", "sweeping", "grace", "cutting",
                  "settled"}
    /\ pending \subseteq Sends
    /\ fed \subseteq Subscribers
    /\ shown \in [Clients -> SUBSET Sends]
    /\ ended \in [Clients -> SUBSET Sends]
    /\ endings \in [Sends -> SUBSET {"fired", "cancelled"}]
    /\ sent \subseteq Sends

(* One hold ends once: never both fired and cancelled, whoever raced, and  *)
(* a hold anybody was told is cancelled has sent nothing and never will.   *)
CancelIsFinal ==
    \A s \in Sends :
        /\ endings[s] # {"fired", "cancelled"}
        /\ s \in sent => "cancelled" \notin endings[s]

(* operation.status agrees with send.hold_cancelled: once the task that    *)
(* ended a hold is through, the operation reads cancelled; it never reads  *)
(* succeeded or failed for a hold that was cancelled.                      *)
StatusAgrees ==
    \A s \in Sends :
        "cancelled" \in endings[s] =>
            \/ op[s] = "cancelled"
            \/ op[s] = "queued" /\ \E a \in Actors : busy[a] = At("published", s)

(* With every connection gone and through its last step, no hold is left   *)
(* to fire into a daemon nobody watches.                                   *)
NoneLeftBehind ==
    (\A c \in Clients : conn[c] = "away" /\ doomed[c] = {}) => armed = {}

(* A client that saw a hold end does not show its countdown again,         *)
(* although a tick and the end are published from two tasks.  One case is  *)
(* left open in the TUI: a start that is published after the end.          *)
EndIsLast ==
    [][\A c \in Clients, s \in Sends :
          s \in ended[c] /\ s \in shown'[c] \ shown[c] =>
              App[c] = "tui" /\ \E d \in Clients : busy[d] = At("guarded", s)]_vars

(* Every hold leaves the table, and with it the operation a client waits   *)
(* for settles; neither is left behind by a cancel, by a client that goes  *)
(* or by a shutdown.                                                       *)
HoldSettles ==
    \A s \in Sends : (s \in armed) ~> (s \notin armed /\ op[s] \in Terminal)
=============================================================================

----------------------------- MODULE UndoHoldProofs -----------------------------
(***************************************************************************)
(* What holds of the undo-send hold for any number of sends, of clients and *)
(* of connections: the types, that a hold ends once and for good, that the  *)
(* status of its operation says so, that no hold outlives its last client,  *)
(* and that an end is the last a client shows of a hold.                    *)
(***************************************************************************)
EXTENDS UndoHold, TLAPS

(* The steps of a dispatch that starts a send, and of a cancel.              *)
StartSteps == {"admitted", "started", "armed", "guarded"}
CancelSteps == {"taken", "released", "published"}

Starting(c, s) == busy[c].step \in StartSteps /\ busy[c].send = s
Cancelling(a, s) == busy[a].step \in CancelSteps /\ busy[a].send = s

(* Nobody is in the middle of a cancel of the hold.                          *)
Uncancelled(s) == \A a \in Actors : ~Cancelling(a, s)

(* Where the task of a send is that has ended no hold and begun no work.     *)
Early == {"none", "wait", "tick", "fire", "withdraw"}

-----------------------------------------------------------------------------
(* The invariant.  A hold is in one pair of hands: a dispatch about to arm   *)
(* it, the table, a cancel that took it out, or its timer that did.  What    *)
(* each of them may do next depends on nobody else having done it.           *)

(* A dispatch that starts a send is on an open connection, and each send     *)
(* has one.                                                                  *)
Starters ==
    /\ busy[Stopper].step \notin StartSteps
    /\ \A c \in Clients : busy[c].step \in StartSteps => conn[c] = "open"
OneStarter(s) == \A c, d \in Clients : Starting(c, s) /\ Starting(d, s) => c = d

(* The task, the registration and the table come after it.                   *)
Starts(s) ==
    \A c \in Clients : Starting(c, s) =>
        /\ task[s] = "none"
        /\ busy[c].step = "admitted" <=> op[s] = "none"
        /\ busy[c].step \in {"admitted", "started"} =>
              s \notin armed /\ Uncancelled(s) /\ endings[s] = {}

(* Nothing has happened to a send whose operation is not registered.         *)
Unregistered(s) ==
    op[s] = "none" =>
        task[s] = "none" /\ s \notin armed /\ endings[s] = {} /\ Uncancelled(s)

(* A hold in the table has not ended, and nobody is at work on its end.      *)
Armed(s) ==
    s \in armed =>
        /\ endings[s] = {} /\ Uncancelled(s)
        /\ task[s] \in Early /\ op[s] \in {"queued", "cancelled"}

(* A hold a cancel took out is that cancel's alone.                          *)
OneCancel(s) == \A a, b \in Actors : Cancelling(a, s) /\ Cancelling(b, s) => a = b
Cancels(s) ==
    \A a \in Actors : Cancelling(a, s) =>
        /\ task[s] \in Early \cup {"over"} /\ op[s] \in {"queued", "cancelled"}
        /\ busy[a].step = "published" => endings[s] = {"cancelled"}
        /\ busy[a].step # "published" => endings[s] = {}

(* A hold the timer took out is the timer's alone, and it withdraws only     *)
(* what was cancelled.                                                       *)
Timed(s) ==
    /\ task[s] \in {"firing", "fired", "withdrawing", "withdrawn"} =>
          endings[s] = {} /\ Uncancelled(s) /\ op[s] \in {"queued", "cancelled"}
    /\ task[s] \in {"withdraw", "withdrawing", "withdrawn"} => op[s] = "cancelled"
    /\ task[s] \in {"work", "sending"} => "cancelled" \notin endings[s] /\ Uncancelled(s)
    /\ task[s] = "tick" => ticks[s] < MaxTicks

(* The work is done by the task alone, and not of a hold that was cancelled. *)
Works(s) ==
    /\ s \in sent \/ op[s] \in {"running", "succeeded", "failed"} =>
          /\ task[s] \in {"sending", "over"}
          /\ "cancelled" \notin endings[s] /\ Uncancelled(s)
    /\ "fired" \in endings[s] =>
          /\ task[s] \in {"work", "sending", "over"}
          /\ "cancelled" \notin endings[s] /\ Uncancelled(s)

(* A hold known to be cancelled has its operation settled, or about to be.   *)
Agreed(s) ==
    "cancelled" \in endings[s] =>
        \/ op[s] = "cancelled"
        \/ op[s] = "queued" /\ \E a \in Actors : busy[a].step = "published" /\ busy[a].send = s

Hand(s) ==
    /\ OneStarter(s) /\ Starts(s) /\ Unregistered(s) /\ Armed(s) /\ OneCancel(s)
    /\ Cancels(s) /\ Timed(s) /\ Works(s) /\ Agreed(s)

(* A shutdown cuts short none but registered operations.                     *)
Cut == phase = "cutting" => \A s \in doomed[Stopper] : op[s] # "none"

(* A client knows of no end that was not published.                          *)
Heard == \A c \in Clients : \A s \in ended[c] : endings[s] # {}

(* A hold runs under somebody's eyes, or is doomed by the last who left.     *)
Watched ==
    armed # {} => \/ \E c \in Clients : conn[c] # "away"
                  \/ \E c \in Clients : armed \subseteq doomed[c]

Inv ==
    /\ TypeOK /\ Starters
    /\ \A s \in Sends : Hand(s)
    /\ Cut /\ Heard /\ Watched

-----------------------------------------------------------------------------
(* What a step leaves alone.                                                 *)

(* Whose hands a send is in is not touched: neither its state nor an actor   *)
(* that is about it.                                                         *)
Same(s) ==
    /\ op'[s] = op[s] /\ task'[s] = task[s] /\ ticks'[s] = ticks[s]
    /\ endings'[s] = endings[s]
    /\ s \in armed' <=> s \in armed
    /\ s \in sent' <=> s \in sent
    /\ \A a \in Actors : busy[a].send = s \/ busy'[a].send = s => busy'[a] = busy[a]

(* A send nobody touched stays in the hands it was in.                       *)
LEMMA HandStays ==
    ASSUME NEW s \in Sends, Hand(s), Same(s)
    PROVE  Hand(s)'
<1>1. \A a \in Actors : /\ Starting(a, s)' <=> Starting(a, s)
                        /\ Cancelling(a, s)' <=> Cancelling(a, s)
                        /\ Starting(a, s) \/ Cancelling(a, s) => busy'[a] = busy[a]
  BY DEF Same, Starting, Cancelling
<1>2. Uncancelled(s)' <=> Uncancelled(s)
  BY <1>1 DEF Uncancelled
<1>3. /\ OneStarter(s)' /\ Starts(s)' /\ Unregistered(s)' /\ Armed(s)' /\ OneCancel(s)'
      /\ Cancels(s)' /\ Timed(s)' /\ Works(s)'
  BY <1>1, <1>2
     DEF Hand, Same, OneStarter, Starts, Unregistered, Armed, OneCancel, Cancels,
         Timed, Works, Actors
<1>4. Agreed(s)'
  BY DEF Hand, Same, Agreed
<1> QED
  BY <1>3, <1>4 DEF Hand

(* What an actor is about.                                                   *)
LEMMA Busy ==
    ASSUME TypeOK, NEW a \in Actors
    PROVE  \/ busy[a] = Idle /\ busy[a].step = "idle" /\ busy[a].send = NoSend
           \/ /\ busy[a].send \in Sends
              /\ busy[a].step \in StartSteps \cup CancelSteps
BY DEF TypeOK, Idle, StartSteps, CancelSteps

-----------------------------------------------------------------------------
(* A dispatch that starts a send.                                            *)
LEMMA AdmitKeeps ==
    ASSUME Inv, NEW c \in Clients, NEW s \in Sends, Admit(c, s)
    PROVE  Inv'
<1>2. /\ Hand(s)
      /\ c \in Actors
      /\ busy[c] = Idle
      /\ op[s] = "none"
      /\ conn[c] = "open"
      /\ \A d \in Clients : busy[d].send # s
  BY DEF Inv, Actors, Admit
<1>3. /\ busy'[c].step = "admitted" /\ busy'[c].send = s
      /\ \A b \in Actors : b # c => busy'[b] = busy[b]
      /\ UNCHANGED <<armed, guarded, op, task, ticks, conn, phase, endings, sent>>
  BY <1>2 DEF Inv, TypeOK, At, Admit, daemonVars, connVars, stopVars, viewVars
<1>4. TypeOK'
  BY <1>3 DEF Inv, TypeOK, At, Subscribers, Admit, connVars, stopVars, viewVars
<1>5. ASSUME NEW t \in Sends, t # s
      PROVE  Hand(t)'
  <2>1. /\ op'[t] = op[t] /\ task'[t] = task[t] /\ ticks'[t] = ticks[t]
        /\ endings'[t] = endings[t]
        /\ t \in armed' <=> t \in armed
        /\ t \in sent' <=> t \in sent
    BY DEF Admit, daemonVars, viewVars
  <2>2. \A b \in Actors : busy[b].send = t \/ busy'[b].send = t => busy'[b] = busy[b]
    BY <1>2, <1>3, <1>5, ActorsDiffer DEF Idle
  <2> QED
    BY <2>1, <2>2, HandStays DEF Same, Inv
<1>6. Hand(s)'
  BY <1>2, <1>3
     DEF Hand, OneStarter, Starts, Unregistered, Armed, OneCancel, Cancels, Timed,
         Works, Agreed, Starting, Cancelling, Uncancelled, CancelSteps, Actors
<1>7. Starters' /\ Cut' /\ Heard' /\ Watched'
  BY <1>3, ActorsDiffer DEF Inv, Starters, Cut, Heard, Watched, Admit, viewVars
<1> QED
  BY <1>4, <1>5, <1>6, <1>7 DEF Inv

LEMMA StartNowKeeps ==
    ASSUME Inv, NEW c \in Clients, StartNow(c)
    PROVE  Inv'
<1>1. PICK s \in Sends : s = busy[c].send
  BY Busy DEF Inv, StartNow, Actors
<1>2. /\ Hand(s)
      /\ c \in Actors
      /\ busy[c].step = "admitted"
  BY DEF Inv, Actors, StartNow
<1>3. /\ busy'[c] = Idle
      /\ \A b \in Actors : b # c => busy'[b] = busy[b]
      /\ op'[s] = "queued" /\ task'[s] = "work"
      /\ UNCHANGED <<armed, endings, sent>>
  BY <1>1, <1>2 DEF Inv, TypeOK, StartNow, viewVars
<1>4. TypeOK'
  BY DEF Inv, TypeOK, Subscribers, StartNow, connVars, stopVars, viewVars
<1>5. ASSUME NEW t \in Sends, t # s
      PROVE  Hand(t)'
  <2>1. /\ op'[t] = op[t] /\ task'[t] = task[t] /\ ticks'[t] = ticks[t]
        /\ endings'[t] = endings[t]
        /\ t \in armed' <=> t \in armed
        /\ t \in sent' <=> t \in sent
    BY <1>1, <1>5 DEF StartNow, viewVars
  <2>2. \A b \in Actors : busy[b].send = t \/ busy'[b].send = t => busy'[b] = busy[b]
    BY <1>1, <1>3, <1>5, ActorsDiffer DEF Idle
  <2> QED
    BY <2>1, <2>2, HandStays DEF Same, Inv
<1>6. Hand(s)'
  BY <1>1, <1>2, <1>3, ActorsDiffer
     DEF Hand, OneStarter, Starts, Unregistered, Armed, OneCancel, Cancels, Timed,
         Works, Agreed, Starting, Cancelling, Uncancelled, StartSteps, Idle, Actors
<1>7. Starters' /\ Cut' /\ Heard' /\ Watched'
  BY DEF Inv, Starters, Cut, Heard, Watched, StartSteps, StartNow, connVars,
         stopVars, viewVars
<1> QED
  BY <1>4, <1>5, <1>6, <1>7 DEF Inv

LEMMA StartHeldKeeps ==
    ASSUME Inv, NEW c \in Clients, StartHeld(c)
    PROVE  Inv'
<1>1. PICK s \in Sends : s = busy[c].send
  BY Busy DEF Inv, StartHeld, Actors
<1>2. /\ Hand(s)
      /\ c \in Actors
      /\ busy[c].step = "admitted"
  BY DEF Inv, Actors, StartHeld
<1>3. /\ busy'[c].step = "started" /\ busy'[c].send = s
      /\ \A b \in Actors : b # c => busy'[b] = busy[b]
      /\ op'[s] = "queued"
      /\ UNCHANGED <<armed, task, endings, sent>>
  BY <1>1, <1>2 DEF Inv, TypeOK, StartHeld, viewVars
<1>4. TypeOK'
  BY <1>3
     DEF Inv, TypeOK, Idle, Subscribers, StartHeld, connVars, stopVars, viewVars
<1>5. ASSUME NEW t \in Sends, t # s
      PROVE  Hand(t)'
  <2>1. /\ op'[t] = op[t] /\ task'[t] = task[t] /\ ticks'[t] = ticks[t]
        /\ endings'[t] = endings[t]
        /\ t \in armed' <=> t \in armed
        /\ t \in sent' <=> t \in sent
    BY <1>1, <1>5 DEF StartHeld, viewVars
  <2>2. \A b \in Actors : busy[b].send = t \/ busy'[b].send = t => busy'[b] = busy[b]
    BY <1>1, <1>3, <1>5
  <2> QED
    BY <2>1, <2>2, HandStays DEF Same, Inv
<1>6. Hand(s)'
  BY <1>1, <1>2, <1>3, ActorsDiffer DEF Hand, OneStarter, Starts, Unregistered,
         Armed, OneCancel, Cancels, Timed, Works, Agreed, Starting, Cancelling,
         Uncancelled, StartSteps, CancelSteps, Early, Idle, Actors
<1>7. Starters' /\ Cut' /\ Heard' /\ Watched'
  BY DEF Inv, Starters, Cut, Heard, Watched, StartSteps, StartHeld, connVars,
         stopVars, viewVars
<1> QED
  BY <1>4, <1>5, <1>6, <1>7 DEF Inv

LEMMA ArmKeeps ==
    ASSUME Inv, NEW c \in Clients, Arm(c)
    PROVE  Inv'
<1>1. PICK s \in Sends : s = busy[c].send
  BY Busy DEF Inv, Arm, Actors
<1>2. /\ Hand(s)
      /\ c \in Actors
      /\ busy[c].step = "started"
  BY DEF Inv, Actors, Arm
<1>3. /\ busy'[c].step = "armed" /\ busy'[c].send = s
      /\ \A b \in Actors : b # c => busy'[b] = busy[b]
      /\ s \in armed'
      /\ UNCHANGED <<op, task, ticks, endings, sent>>
  BY <1>1, <1>2 DEF Inv, TypeOK, Arm, viewVars
<1>4. TypeOK'
  BY <1>3 DEF Inv, TypeOK, Idle, Subscribers, Arm, connVars, stopVars, viewVars
<1>5. ASSUME NEW t \in Sends, t # s
      PROVE  Hand(t)'
  <2>1. /\ op'[t] = op[t] /\ task'[t] = task[t] /\ ticks'[t] = ticks[t]
        /\ endings'[t] = endings[t]
        /\ t \in armed' <=> t \in armed
        /\ t \in sent' <=> t \in sent
    BY <1>1, <1>5 DEF Arm, viewVars
  <2>2. \A b \in Actors : busy[b].send = t \/ busy'[b].send = t => busy'[b] = busy[b]
    BY <1>1, <1>3, <1>5
  <2> QED
    BY <2>1, <2>2, HandStays DEF Same, Inv
<1>6. Hand(s)'
  <2>1. /\ Starting(c, s) /\ busy[c].step = "started"
        /\ \A d \in Clients : Starting(d, s) => d = c
        /\ \A b \in Actors : Starting(b, s)' <=> Starting(b, s)
        /\ \A b \in Actors : Cancelling(b, s)' <=> Cancelling(b, s)
    BY <1>1, <1>2, <1>3
       DEF Hand, OneStarter, Starting, Cancelling, StartSteps, CancelSteps
  <2>2. /\ task[s] = "none" /\ op[s] # "none" /\ endings[s] = {} /\ Uncancelled(s)
        /\ op[s] \notin {"running", "succeeded", "failed"}
    BY <1>2, <2>1 DEF Hand, Starts, Works
  <2>3. op[s] \in {"queued", "cancelled"}
    BY <2>2 DEF Inv, TypeOK, Terminal
  <2>4. Uncancelled(s)'
    BY <2>1, <2>2 DEF Uncancelled
  <2> QED
    BY <1>2, <1>3, <2>1, <2>3, <2>4
       DEF Hand, OneStarter, Starts, Unregistered, Armed, OneCancel, Cancels, Timed,
           Works, Agreed, Early, Actors
<1>7. Starters' /\ Cut' /\ Heard' /\ Watched'
  BY DEF Inv, Starters, Cut, Heard, Watched, StartSteps, Arm, connVars, stopVars,
         viewVars
<1> QED
  BY <1>4, <1>5, <1>6, <1>7 DEF Inv

LEMMA GuardKeeps ==
    ASSUME Inv, NEW c \in Clients, Guard(c)
    PROVE  Inv'
<1>1. PICK s \in Sends : s = busy[c].send
  BY Busy DEF Inv, Guard, Actors
<1>2. /\ Hand(s)
      /\ c \in Actors
      /\ busy[c].step = "armed"
  BY DEF Inv, Actors, Guard
<1>3. /\ busy'[c].step = "guarded" /\ busy'[c].send = s
      /\ \A b \in Actors : b # c => busy'[b] = busy[b]
      /\ UNCHANGED <<armed, op, task, ticks, endings, sent>>
  BY <1>1, <1>2 DEF Inv, TypeOK, Guard, viewVars
<1>4. TypeOK'
  BY <1>3 DEF Inv, TypeOK, Idle, Subscribers, Guard, connVars, stopVars, viewVars
<1>5. ASSUME NEW t \in Sends, t # s
      PROVE  Hand(t)'
  <2>1. /\ op'[t] = op[t] /\ task'[t] = task[t] /\ ticks'[t] = ticks[t]
        /\ endings'[t] = endings[t]
        /\ t \in armed' <=> t \in armed
        /\ t \in sent' <=> t \in sent
    BY DEF Guard, viewVars
  <2>2. \A b \in Actors : busy[b].send = t \/ busy'[b].send = t => busy'[b] = busy[b]
    BY <1>1, <1>3, <1>5
  <2> QED
    BY <2>1, <2>2, HandStays DEF Same, Inv
<1>6. Hand(s)'
  BY <1>1, <1>2, <1>3, ActorsDiffer DEF Hand, OneStarter, Starts, Unregistered,
         Armed, OneCancel, Cancels, Timed, Works, Agreed, Starting, Cancelling,
         Uncancelled, StartSteps, CancelSteps, Early, Idle, Actors
<1>7. Starters' /\ Cut' /\ Heard' /\ Watched'
  BY DEF Inv, Starters, Cut, Heard, Watched, StartSteps, Guard, connVars, stopVars,
         viewVars
<1> QED
  BY <1>4, <1>5, <1>6, <1>7 DEF Inv

LEMMA AnnounceKeeps ==
    ASSUME Inv, NEW c \in Clients, Announce(c)
    PROVE  Inv'
<1>1. PICK s \in Sends : s = busy[c].send
  BY Busy DEF Inv, Announce, Actors
<1>2. /\ Hand(s)
      /\ c \in Actors
      /\ busy[c].step = "guarded"
  BY DEF Inv, Actors, Announce
<1>3. /\ busy'[c] = Idle
      /\ \A b \in Actors : b # c => busy'[b] = busy[b]
      /\ task'[s] = "wait"
      /\ UNCHANGED <<armed, op, ticks, endings, sent>>
  BY <1>1, <1>2 DEF Inv, TypeOK, Announce, Publish
<1>4. TypeOK'
  BY <1>1, <1>2 DEF Inv, TypeOK, Subscribers, Announce, Publish, connVars, stopVars
<1>5. ASSUME NEW t \in Sends, t # s
      PROVE  Hand(t)'
  <2>1. /\ op'[t] = op[t] /\ task'[t] = task[t] /\ ticks'[t] = ticks[t]
        /\ endings'[t] = endings[t]
        /\ t \in armed' <=> t \in armed
        /\ t \in sent' <=> t \in sent
    BY <1>1, <1>5 DEF Announce, Publish
  <2>2. \A b \in Actors : busy[b].send = t \/ busy'[b].send = t => busy'[b] = busy[b]
    BY <1>1, <1>3, <1>5, ActorsDiffer DEF Idle
  <2> QED
    BY <2>1, <2>2, HandStays DEF Same, Inv
<1>6. Hand(s)'
  BY <1>1, <1>2, <1>3, ActorsDiffer DEF Hand, OneStarter, Starts, Unregistered,
         Armed, OneCancel, Cancels, Timed, Works, Agreed, Starting, Cancelling,
         Uncancelled, StartSteps, CancelSteps, Early, Idle, Actors
<1>7. Starters' /\ Cut' /\ Heard' /\ Watched'
  BY DEF Inv, Starters, Cut, Heard, Watched, StartSteps, Announce, Publish,
         connVars, stopVars
<1> QED
  BY <1>4, <1>5, <1>6, <1>7 DEF Inv

-----------------------------------------------------------------------------
(* A cancel.                                                                 *)
LEMMA CancelHoldKeeps ==
    ASSUME Inv, NEW c \in Clients, NEW s \in Sends, CancelHold(c, s)
    PROVE  Inv'
<1>2. /\ Hand(s)
      /\ c \in Actors
      /\ busy[c] = Idle
      /\ s \in armed
      /\ conn[c] = "open"
  BY DEF Inv, Actors, CancelHold, Take, Cancellable
<1>3. /\ busy'[c].step = "taken" /\ busy'[c].send = s
      /\ \A b \in Actors : b # c => busy'[b] = busy[b]
      /\ s \notin armed'
      /\ UNCHANGED <<op, task, ticks, endings, sent>>
  BY <1>2 DEF Inv, TypeOK, At, CancelHold, Take, viewVars
<1>4. TypeOK'
  BY DEF Inv, TypeOK, At, Subscribers, CancelHold, Take, connVars, stopVars,
         viewVars
<1>5. ASSUME NEW t \in Sends, t # s
      PROVE  Hand(t)'
  <2>1. /\ op'[t] = op[t] /\ task'[t] = task[t] /\ ticks'[t] = ticks[t]
        /\ endings'[t] = endings[t]
        /\ t \in armed' <=> t \in armed
        /\ t \in sent' <=> t \in sent
    BY <1>5 DEF CancelHold, Take, viewVars
  <2>2. \A b \in Actors : busy[b].send = t \/ busy'[b].send = t => busy'[b] = busy[b]
    BY <1>2, <1>3, <1>5, ActorsDiffer DEF Idle
  <2> QED
    BY <2>1, <2>2, HandStays DEF Same, Inv
<1>6. Hand(s)'
  BY <1>2, <1>3, ActorsDiffer DEF Hand, OneStarter, Starts, Unregistered, Armed,
         OneCancel, Cancels, Timed, Works, Agreed, Starting, Cancelling,
         Uncancelled, StartSteps, CancelSteps, Early, Idle, Actors
<1>7. Starters' /\ Cut' /\ Heard' /\ Watched'
  BY <1>3, ActorsDiffer
     DEF Inv, Starters, Cut, Heard, Watched, Actors, CancelHold, connVars, stopVars,
         viewVars
<1> QED
  BY <1>4, <1>5, <1>6, <1>7 DEF Inv

LEMMA CancelByOperationKeeps ==
    ASSUME Inv, NEW c \in Clients, NEW s \in Sends, CancelByOperation(c, s)
    PROVE  Inv'
<1>2. /\ Hand(s)
      /\ c \in Actors
      /\ op[s] \in {"queued", "running"}
      /\ s \notin armed
      /\ Known(c, s)
  BY DEF Inv, Actors, CancelByOperation, Cancellable, Live
<1>3. /\ op'[s] = "cancelled"
      /\ UNCHANGED <<armed, task, ticks, busy, endings, sent>>
  BY <1>2 DEF Inv, TypeOK, CancelByOperation, CancelOperation, Terminal, viewVars
<1>4. TypeOK'
  BY DEF Inv, TypeOK, Subscribers, Terminal, CancelByOperation, CancelOperation,
         connVars, stopVars, viewVars
<1>5. ASSUME NEW t \in Sends, t # s
      PROVE  Hand(t)'
  <2>1. /\ op'[t] = op[t] /\ task'[t] = task[t] /\ ticks'[t] = ticks[t]
        /\ endings'[t] = endings[t]
        /\ t \in armed' <=> t \in armed
        /\ t \in sent' <=> t \in sent
    BY <1>5 DEF CancelByOperation, CancelOperation, viewVars
  <2>2. \A b \in Actors : busy[b].send = t \/ busy'[b].send = t => busy'[b] = busy[b]
    BY <1>3
  <2> QED
    BY <2>1, <2>2, HandStays DEF Same, Inv
<1>6. Hand(s)'
  BY <1>2, <1>3
     DEF Hand, OneStarter, Starts, Unregistered, Armed, OneCancel, Cancels, Timed,
         Works, Agreed, Starting, Cancelling, Uncancelled, CancelSteps, Actors
<1>7. Starters' /\ Cut' /\ Heard' /\ Watched'
  BY DEF Inv, Starters, Cut, Heard, Watched, CancelByOperation, connVars, stopVars,
         viewVars
<1> QED
  BY <1>4, <1>5, <1>6, <1>7 DEF Inv

LEMMA ReleaseKeeps ==
    ASSUME Inv, NEW a \in Actors, Release(a)
    PROVE  Inv'
<1>1. PICK s \in Sends : s = busy[a].send
  BY Busy DEF Inv, Release
<1>2. /\ Hand(s)
      /\ a \in Actors
      /\ busy[a].step = "taken"
  BY DEF Inv, Release
<1>3. /\ busy'[a].step = "released" /\ busy'[a].send = s
      /\ \A b \in Actors : b # a => busy'[b] = busy[b]
      /\ UNCHANGED <<armed, op, task, ticks, endings, sent>>
  BY <1>1 DEF Inv, TypeOK, Release, viewVars
<1>4. TypeOK'
  BY DEF Inv, TypeOK, Idle, Subscribers, Release, connVars, stopVars, viewVars
<1>5. ASSUME NEW t \in Sends, t # s
      PROVE  Hand(t)'
  <2>1. /\ op'[t] = op[t] /\ task'[t] = task[t] /\ ticks'[t] = ticks[t]
        /\ endings'[t] = endings[t]
        /\ t \in armed' <=> t \in armed
        /\ t \in sent' <=> t \in sent
    BY DEF Release, viewVars
  <2>2. \A b \in Actors : busy[b].send = t \/ busy'[b].send = t => busy'[b] = busy[b]
    BY <1>1, <1>3, <1>5
  <2> QED
    BY <2>1, <2>2, HandStays DEF Same, Inv
<1>6. Hand(s)'
  BY <1>1, <1>2, <1>3, ActorsDiffer DEF Hand, OneStarter, Starts, Unregistered,
         Armed, OneCancel, Cancels, Timed, Works, Agreed, Starting, Cancelling,
         Uncancelled, StartSteps, CancelSteps, Early, Idle, Actors
<1>7. Starters' /\ Cut' /\ Heard' /\ Watched'
  BY DEF Inv, Starters, Cut, Heard, Watched, StartSteps, Release, connVars,
         stopVars, viewVars
<1> QED
  BY <1>4, <1>5, <1>6, <1>7 DEF Inv

LEMMA PublishCancelledKeeps ==
    ASSUME Inv, NEW a \in Actors, PublishCancelled(a)
    PROVE  Inv'
<1>1. PICK s \in Sends : s = busy[a].send
  BY Busy DEF Inv, PublishCancelled
<1>2. /\ Hand(s)
      /\ a \in Actors
      /\ busy[a].step = "released"
  BY DEF Inv, PublishCancelled
<1>3. /\ busy'[a].step = "published" /\ busy'[a].send = s
      /\ \A b \in Actors : b # a => busy'[b] = busy[b]
      /\ endings'[s] = endings[s] \cup {"cancelled"}
      /\ UNCHANGED <<armed, op, task, ticks, sent>>
  BY <1>1 DEF Inv, TypeOK, PublishCancelled, Publish, daemonVars
<1>4. TypeOK'
  BY DEF Inv, TypeOK, Idle, Subscribers, PublishCancelled, Publish, daemonVars,
         connVars, stopVars
<1>5. ASSUME NEW t \in Sends, t # s
      PROVE  Hand(t)'
  <2>1. /\ op'[t] = op[t] /\ task'[t] = task[t] /\ ticks'[t] = ticks[t]
        /\ endings'[t] = endings[t]
        /\ t \in armed' <=> t \in armed
        /\ t \in sent' <=> t \in sent
    BY <1>1, <1>5 DEF PublishCancelled, Publish, daemonVars
  <2>2. \A b \in Actors : busy[b].send = t \/ busy'[b].send = t => busy'[b] = busy[b]
    BY <1>1, <1>3, <1>5
  <2> QED
    BY <2>1, <2>2, HandStays DEF Same, Inv
<1>6. Hand(s)'
  BY <1>1, <1>2, <1>3, ActorsDiffer DEF Hand, OneStarter, Starts, Unregistered,
         Armed, OneCancel, Cancels, Timed, Works, Agreed, Starting, Cancelling,
         Uncancelled, StartSteps, CancelSteps, Early, Idle, Actors
<1>7. Starters' /\ Cut' /\ Heard' /\ Watched'
  <2>1. Starters' /\ Cut' /\ Watched'
    BY <1>3
       DEF Inv, Starters, Cut, Watched, StartSteps, PublishCancelled, connVars,
           stopVars
  <2>2. ASSUME NEW d \in Clients, NEW x \in ended'[d]
        PROVE  endings'[x] # {}
    <3>1. x = s \/ x \in ended[d]
      BY <1>1 DEF PublishCancelled, Publish
    <3>2. x \in Sends
      BY <3>1 DEF Inv, TypeOK
    <3>3. endings'[s] # {}
      BY <1>3
    <3>4. endings[x] # {} => endings'[x] # {}
      BY DEF PublishCancelled, Publish
    <3> QED
      BY <3>1, <3>3, <3>4 DEF Inv, Heard
  <2> QED
    BY <2>1, <2>2 DEF Heard
<1> QED
  BY <1>4, <1>5, <1>6, <1>7 DEF Inv

LEMMA SettleKeeps ==
    ASSUME Inv, NEW a \in Actors, Settle(a)
    PROVE  Inv'
<1>1. PICK s \in Sends : s = busy[a].send
  BY Busy DEF Inv, Settle
<1>2. /\ Hand(s)
      /\ a \in Actors
      /\ busy[a].step = "published"
  BY DEF Inv, Settle
<1>3. /\ busy'[a] = Idle
      /\ \A b \in Actors : b # a => busy'[b] = busy[b]
      /\ op'[s] = IF op[s] \in Terminal THEN op[s] ELSE "cancelled"
      /\ UNCHANGED <<armed, task, ticks, endings, sent>>
  BY <1>1 DEF Inv, TypeOK, Settle, CancelOperation, viewVars
<1>4. TypeOK'
  BY DEF Inv, TypeOK, Subscribers, Terminal, Settle, CancelOperation, connVars,
         stopVars, viewVars
<1>5. ASSUME NEW t \in Sends, t # s
      PROVE  Hand(t)'
  <2>1. /\ op'[t] = op[t] /\ task'[t] = task[t] /\ ticks'[t] = ticks[t]
        /\ endings'[t] = endings[t]
        /\ t \in armed' <=> t \in armed
        /\ t \in sent' <=> t \in sent
    BY <1>1, <1>5 DEF Settle, CancelOperation, viewVars
  <2>2. \A b \in Actors : busy[b].send = t \/ busy'[b].send = t => busy'[b] = busy[b]
    BY <1>1, <1>3, <1>5, ActorsDiffer DEF Idle
  <2> QED
    BY <2>1, <2>2, HandStays DEF Same, Inv
<1>6. Hand(s)'
  BY <1>1, <1>2, <1>3, ActorsDiffer
     DEF Hand, OneStarter, Starts, Unregistered, Armed, OneCancel, Cancels, Timed,
         Works, Agreed, Starting, Cancelling, CancelSteps, Idle, Actors, Terminal
<1>7. Starters' /\ Cut' /\ Heard' /\ Watched'
  BY DEF Inv, Starters, Cut, Heard, Watched, StartSteps, Idle, Settle,
         CancelOperation, connVars, stopVars, viewVars
<1> QED
  BY <1>4, <1>5, <1>6, <1>7 DEF Inv

-----------------------------------------------------------------------------
(* The task of a send.                                                       *)
LEMMA WakeKeeps ==
    ASSUME Inv, NEW s \in Sends, Wake(s)
    PROVE  Inv'
<1>2. /\ Hand(s)
      /\ task[s] = "wait"
      /\ ticks[s] < MaxTicks
  BY DEF Inv, Wake
<1>3. /\ task'[s] = IF TokenShut(s) THEN "withdraw" ELSE IF s \in armed THEN "tick" ELSE "over"
      /\ UNCHANGED <<armed, op, ticks, busy, endings, sent>>
  BY DEF Inv, TypeOK, Wake, Step, viewVars
<1>4. TypeOK'
  BY DEF Inv, TypeOK, Subscribers, Wake, Step, connVars, stopVars, viewVars
<1>5. ASSUME NEW t \in Sends, t # s
      PROVE  Hand(t)'
  <2>1. /\ op'[t] = op[t] /\ task'[t] = task[t] /\ ticks'[t] = ticks[t]
        /\ endings'[t] = endings[t]
        /\ t \in armed' <=> t \in armed
        /\ t \in sent' <=> t \in sent
    BY <1>5 DEF Wake, Step, viewVars
  <2>2. \A b \in Actors : busy[b].send = t \/ busy'[b].send = t => busy'[b] = busy[b]
    BY <1>3
  <2> QED
    BY <2>1, <2>2, HandStays DEF Same, Inv
<1>6. Hand(s)'
  BY <1>2, <1>3
     DEF Hand, OneStarter, Starts, Unregistered, Armed, OneCancel, Cancels, Timed,
         Works, Agreed, Starting, Cancelling, Uncancelled, Early, TokenShut
<1>7. Starters' /\ Cut' /\ Heard' /\ Watched'
  BY DEF Inv, Starters, Cut, Heard, Watched, Wake, connVars, stopVars, viewVars
<1> QED
  BY <1>4, <1>5, <1>6, <1>7 DEF Inv

LEMMA TickKeeps ==
    ASSUME Inv, NEW s \in Sends, Tick(s)
    PROVE  Inv'
<1>2. /\ Hand(s)
      /\ task[s] = "tick"
      /\ ticks[s] < MaxTicks
  BY DEF Inv, Tick, Hand, Timed
<1>3. /\ task'[s] = "wait"
      /\ UNCHANGED <<armed, op, busy, endings, sent>>
  BY DEF Inv, TypeOK, Tick, Step, Publish
<1>4. TypeOK'
  BY <1>2, UndoHoldAssumption
     DEF Inv, TypeOK, Subscribers, Tick, Step, Publish, connVars, stopVars
<1>5. ASSUME NEW t \in Sends, t # s
      PROVE  Hand(t)'
  <2>1. /\ op'[t] = op[t] /\ task'[t] = task[t] /\ ticks'[t] = ticks[t]
        /\ endings'[t] = endings[t]
        /\ t \in armed' <=> t \in armed
        /\ t \in sent' <=> t \in sent
    BY <1>5 DEF Tick, Step, Publish
  <2>2. \A b \in Actors : busy[b].send = t \/ busy'[b].send = t => busy'[b] = busy[b]
    BY <1>3
  <2> QED
    BY <2>1, <2>2, HandStays DEF Same, Inv
<1>6. Hand(s)'
  BY <1>2, <1>3, ActorsDiffer DEF Hand, OneStarter, Starts, Unregistered, Armed,
         OneCancel, Cancels, Timed, Works, Agreed, Starting, Cancelling,
         Uncancelled, StartSteps, CancelSteps, Early, Idle, Actors
<1>7. Starters' /\ Cut' /\ Heard' /\ Watched'
  BY DEF Inv, Starters, Cut, Heard, Watched, Tick, Publish, connVars, stopVars
<1> QED
  BY <1>4, <1>5, <1>6, <1>7 DEF Inv

LEMMA ExpireKeeps ==
    ASSUME Inv, NEW s \in Sends, Expire(s)
    PROVE  Inv'
<1>2. /\ Hand(s)
      /\ task[s] = "wait"
  BY DEF Inv, Expire
<1>3. /\ task'[s] = IF TokenShut(s) THEN "withdraw" ELSE "fire"
      /\ UNCHANGED <<armed, op, ticks, busy, endings, sent>>
  BY DEF Inv, TypeOK, Expire, Step, viewVars
<1>4. TypeOK'
  BY DEF Inv, TypeOK, Subscribers, Expire, Step, connVars, stopVars, viewVars
<1>5. ASSUME NEW t \in Sends, t # s
      PROVE  Hand(t)'
  <2>1. /\ op'[t] = op[t] /\ task'[t] = task[t] /\ ticks'[t] = ticks[t]
        /\ endings'[t] = endings[t]
        /\ t \in armed' <=> t \in armed
        /\ t \in sent' <=> t \in sent
    BY <1>5 DEF Expire, Step, viewVars
  <2>2. \A b \in Actors : busy[b].send = t \/ busy'[b].send = t => busy'[b] = busy[b]
    BY <1>3
  <2> QED
    BY <2>1, <2>2, HandStays DEF Same, Inv
<1>6. Hand(s)'
  BY <1>2, <1>3
     DEF Hand, OneStarter, Starts, Unregistered, Armed, OneCancel, Cancels, Timed,
         Works, Agreed, Starting, Cancelling, Uncancelled, Early, TokenShut
<1>7. Starters' /\ Cut' /\ Heard' /\ Watched'
  BY DEF Inv, Starters, Cut, Heard, Watched, Expire, connVars, stopVars, viewVars
<1> QED
  BY <1>4, <1>5, <1>6, <1>7 DEF Inv

LEMMA TakeDueKeeps ==
    ASSUME Inv, NEW s \in Sends, TakeDue(s)
    PROVE  Inv'
<1>2. /\ Hand(s)
      /\ task[s] \in {"fire", "withdraw"}
  BY DEF Inv, TakeDue
<1>3. /\ task'[s] = IF s \in armed THEN IF task[s] = "fire" THEN "firing" ELSE "withdrawing" ELSE "over"
      /\ s \notin armed'
      /\ UNCHANGED <<op, ticks, busy, endings, sent>>
  BY DEF Inv, TypeOK, TakeDue, Step, Took, viewVars
<1>4. TypeOK'
  BY <1>3 DEF Inv, TypeOK, Subscribers, TakeDue, Step, connVars, stopVars, viewVars
<1>5. ASSUME NEW t \in Sends, t # s
      PROVE  Hand(t)'
  <2>1. /\ op'[t] = op[t] /\ task'[t] = task[t] /\ ticks'[t] = ticks[t]
        /\ endings'[t] = endings[t]
        /\ t \in armed' <=> t \in armed
        /\ t \in sent' <=> t \in sent
    BY <1>5 DEF TakeDue, Step, viewVars
  <2>2. \A b \in Actors : busy[b].send = t \/ busy'[b].send = t => busy'[b] = busy[b]
    BY <1>3
  <2> QED
    BY <2>1, <2>2, HandStays DEF Same, Inv
<1>6. Hand(s)'
  BY <1>2, <1>3
     DEF Hand, OneStarter, Starts, Unregistered, Armed, OneCancel, Cancels, Timed,
         Works, Agreed, Starting, Cancelling, Uncancelled, CancelSteps, Actors
<1>7. Starters' /\ Cut' /\ Heard' /\ Watched'
  BY DEF Inv, Starters, Cut, Heard, Watched, TakeDue, connVars, stopVars, viewVars
<1> QED
  BY <1>4, <1>5, <1>6, <1>7 DEF Inv

LEMMA ReleaseDueKeeps ==
    ASSUME Inv, NEW s \in Sends, ReleaseDue(s)
    PROVE  Inv'
<1>2. /\ Hand(s)
      /\ task[s] \in {"firing", "withdrawing"}
  BY DEF Inv, ReleaseDue
<1>3. /\ task'[s] = IF task[s] = "firing" THEN "fired" ELSE "withdrawn"
      /\ UNCHANGED <<armed, op, ticks, busy, endings, sent>>
  BY DEF Inv, TypeOK, ReleaseDue, Step, viewVars
<1>4. TypeOK'
  BY DEF Inv, TypeOK, Subscribers, ReleaseDue, Step, connVars, stopVars, viewVars
<1>5. ASSUME NEW t \in Sends, t # s
      PROVE  Hand(t)'
  <2>1. /\ op'[t] = op[t] /\ task'[t] = task[t] /\ ticks'[t] = ticks[t]
        /\ endings'[t] = endings[t]
        /\ t \in armed' <=> t \in armed
        /\ t \in sent' <=> t \in sent
    BY <1>5 DEF ReleaseDue, Step, viewVars
  <2>2. \A b \in Actors : busy[b].send = t \/ busy'[b].send = t => busy'[b] = busy[b]
    BY <1>3
  <2> QED
    BY <2>1, <2>2, HandStays DEF Same, Inv
<1>6. Hand(s)'
  BY <1>2, <1>3, ActorsDiffer DEF Hand, OneStarter, Starts, Unregistered, Armed,
         OneCancel, Cancels, Timed, Works, Agreed, Starting, Cancelling,
         Uncancelled, StartSteps, CancelSteps, Early, Idle, Actors
<1>7. Starters' /\ Cut' /\ Heard' /\ Watched'
  BY DEF Inv, Starters, Cut, Heard, Watched, ReleaseDue, connVars, stopVars,
         viewVars
<1> QED
  BY <1>4, <1>5, <1>6, <1>7 DEF Inv

LEMMA PublishDueKeeps ==
    ASSUME Inv, NEW s \in Sends, PublishDue(s)
    PROVE  Inv'
<1>2. /\ Hand(s)
      /\ task[s] \in {"fired", "withdrawn"}
  BY DEF Inv, PublishDue
<1>3. /\ task'[s] = IF task[s] = "fired" THEN "work" ELSE "over"
      /\ endings'[s] = endings[s] \cup {IF task[s] = "fired" THEN "fired" ELSE "cancelled"}
      /\ UNCHANGED <<armed, op, ticks, busy, sent>>
  BY DEF Inv, TypeOK, PublishDue, Step, Publish
<1>4. TypeOK'
  BY DEF Inv, TypeOK, Subscribers, PublishDue, Step, Publish, connVars, stopVars
<1>5. ASSUME NEW t \in Sends, t # s
      PROVE  Hand(t)'
  <2>1. /\ op'[t] = op[t] /\ task'[t] = task[t] /\ ticks'[t] = ticks[t]
        /\ endings'[t] = endings[t]
        /\ t \in armed' <=> t \in armed
        /\ t \in sent' <=> t \in sent
    BY <1>5 DEF PublishDue, Step, Publish
  <2>2. \A b \in Actors : busy[b].send = t \/ busy'[b].send = t => busy'[b] = busy[b]
    BY <1>3
  <2> QED
    BY <2>1, <2>2, HandStays DEF Same, Inv
<1>6. Hand(s)'
  BY <1>2, <1>3, ActorsDiffer DEF Hand, OneStarter, Starts, Unregistered, Armed,
         OneCancel, Cancels, Timed, Works, Agreed, Starting, Cancelling,
         Uncancelled, StartSteps, CancelSteps, Early, Idle, Actors
<1>7. Starters' /\ Cut' /\ Heard' /\ Watched'
  <2>1. Starters' /\ Cut' /\ Watched'
    BY DEF Inv, Starters, Cut, Watched, PublishDue, connVars, stopVars
  <2>2. ASSUME NEW d \in Clients, NEW x \in ended'[d]
        PROVE  endings'[x] # {}
    <3>1. x = s \/ x \in ended[d]
      BY DEF PublishDue, Publish
    <3>2. x \in Sends
      BY <3>1 DEF Inv, TypeOK
    <3>3. endings'[s] # {}
      BY <1>3
    <3>4. endings[x] # {} => endings'[x] # {}
      BY DEF PublishDue, Publish
    <3> QED
      BY <3>1, <3>3, <3>4 DEF Inv, Heard
  <2> QED
    BY <2>1, <2>2 DEF Heard
<1> QED
  BY <1>4, <1>5, <1>6, <1>7 DEF Inv

LEMMA RunKeeps ==
    ASSUME Inv, NEW s \in Sends, Run(s)
    PROVE  Inv'
<1>2. /\ Hand(s)
      /\ task[s] = "work"
  BY DEF Inv, Run
<1>3. /\ task'[s] = "sending"
      /\ op'[s] = IF op[s] = "queued" THEN "running" ELSE op[s]
      /\ UNCHANGED <<armed, ticks, busy, endings, sent>>
  BY DEF Inv, TypeOK, Run, Step, viewVars
<1>4. TypeOK'
  BY DEF Inv, TypeOK, Subscribers, Run, Step, connVars, stopVars, viewVars
<1>5. ASSUME NEW t \in Sends, t # s
      PROVE  Hand(t)'
  <2>1. /\ op'[t] = op[t] /\ task'[t] = task[t] /\ ticks'[t] = ticks[t]
        /\ endings'[t] = endings[t]
        /\ t \in armed' <=> t \in armed
        /\ t \in sent' <=> t \in sent
    BY <1>5 DEF Run, Step, viewVars
  <2>2. \A b \in Actors : busy[b].send = t \/ busy'[b].send = t => busy'[b] = busy[b]
    BY <1>3
  <2> QED
    BY <2>1, <2>2, HandStays DEF Same, Inv
<1>6. Hand(s)'
  BY <1>2, <1>3, ActorsDiffer DEF Hand, OneStarter, Starts, Unregistered, Armed,
         OneCancel, Cancels, Timed, Works, Agreed, Starting, Cancelling,
         Uncancelled, StartSteps, CancelSteps, Early, Idle, Actors
<1>7. Starters' /\ Cut' /\ Heard' /\ Watched'
  BY DEF Inv, Starters, Cut, Heard, Watched, Run, connVars, stopVars, viewVars
<1> QED
  BY <1>4, <1>5, <1>6, <1>7 DEF Inv

LEMMA FinishKeeps ==
    ASSUME Inv, NEW s \in Sends, Finish(s)
    PROVE  Inv'
<1>2. /\ Hand(s)
      /\ task[s] = "sending"
  BY DEF Inv, Finish
<1>3. /\ task'[s] = "over"
      /\ op'[s] = op[s] \/ (op[s] \notin Terminal /\ op'[s] \in {"succeeded", "failed"})
      /\ UNCHANGED <<armed, ticks, busy, endings>>
  BY DEF Inv, TypeOK, Finish, Step, viewVars
<1>4. TypeOK'
  BY DEF Inv, TypeOK, Subscribers, Terminal, Finish, Step, connVars, stopVars,
         viewVars
<1>5. ASSUME NEW t \in Sends, t # s
      PROVE  Hand(t)'
  <2>1. /\ op'[t] = op[t] /\ task'[t] = task[t] /\ ticks'[t] = ticks[t]
        /\ endings'[t] = endings[t]
        /\ t \in armed' <=> t \in armed
        /\ t \in sent' <=> t \in sent
    BY <1>5 DEF Finish, Step, viewVars
  <2>2. \A b \in Actors : busy[b].send = t \/ busy'[b].send = t => busy'[b] = busy[b]
    BY <1>3
  <2> QED
    BY <2>1, <2>2, HandStays DEF Same, Inv
<1>6. Hand(s)'
  BY <1>2, <1>3
     DEF Hand, OneStarter, Starts, Unregistered, Armed, OneCancel, Cancels, Timed,
         Works, Agreed, Starting, Cancelling, Uncancelled, Early
<1>7. Starters' /\ Cut' /\ Heard' /\ Watched'
  BY DEF Inv, Starters, Cut, Heard, Watched, Finish, connVars, stopVars, viewVars
<1> QED
  BY <1>4, <1>5, <1>6, <1>7 DEF Inv

-----------------------------------------------------------------------------
(* Connections and the shutdown, which touch no hold themselves.             *)

LEMMA AllStay ==
    ASSUME Inv, UNCHANGED <<armed, op, task, ticks, busy, endings, sent>>
    PROVE  \A s \in Sends : Hand(s)'
BY HandStays DEF Inv, Same

LEMMA AcceptKeeps ==
    ASSUME Inv, NEW c \in Clients, Accept(c)
    PROVE  Inv'
<1>1. \A s \in Sends : Hand(s)'
  BY AllStay DEF Accept, daemonVars
<1>2. TypeOK'
  BY UndoHoldAssumption DEF Inv, TypeOK, Subscribers, Accept, daemonVars, stopVars
<1>3. Starters' /\ Cut'
  BY DEF Inv, Starters, Cut, Accept, daemonVars, stopVars
<1>4. Heard'
  BY DEF Inv, Heard, Accept
<1>5. Watched'
  BY DEF Inv, TypeOK, Watched, Accept
<1> QED
  BY <1>1, <1>2, <1>3, <1>4, <1>5 DEF Inv

LEMMA BootstrapKeeps ==
    ASSUME Inv, NEW c \in Clients, Bootstrap(c)
    PROVE  Inv'
<1>1. \A s \in Sends : Hand(s)'
  BY AllStay DEF Bootstrap, daemonVars
<1>2. TypeOK'
  BY DEF Inv, TypeOK, Subscribers, Bootstrap, daemonVars, connVars, stopVars
<1>3. Starters' /\ Cut'
  BY DEF Inv, Starters, Cut, Bootstrap, connVars, stopVars
<1>4. Heard'
  BY DEF Inv, Heard, Bootstrap
<1>5. Watched'
  BY DEF Watched, Bootstrap, connVars
<1> QED
  BY <1>1, <1>2, <1>3, <1>4, <1>5 DEF Inv

LEMMA CloseKeeps ==
    ASSUME Inv, NEW c \in Clients, Close(c)
    PROVE  Inv'
<1>1. \A s \in Sends : Hand(s)'
  BY AllStay DEF Close, daemonVars, viewVars
<1>2. TypeOK'
  BY DEF Inv, TypeOK, Subscribers, Close, daemonVars, stopVars, viewVars
<1>3. Starters' /\ Cut'
  BY DEF Inv, Starters, Cut, StartSteps, Idle, Close, daemonVars, stopVars
<1>4. Heard'
  BY DEF Inv, Heard, Close, viewVars
<1>5. Watched'
  BY DEF Watched, Close
<1> QED
  BY <1>1, <1>2, <1>3, <1>4, <1>5 DEF Inv

LEMMA UnsubscribeKeeps ==
    ASSUME Inv, NEW c \in Clients, Unsubscribe(c)
    PROVE  Inv'
<1>1. \A s \in Sends : Hand(s)'
  BY AllStay DEF Unsubscribe, daemonVars
<1>2. TypeOK'
  BY DEF Inv, TypeOK, Subscribers, Unsubscribe, daemonVars, stopVars
<1>3. Starters' /\ Cut'
  BY DEF Inv, Starters, Cut, Unsubscribe, daemonVars, stopVars
<1>4. Heard'
  BY DEF Inv, Heard, Unsubscribe
<1>5. Watched'
  BY DEF Watched, Unsubscribe
<1> QED
  BY <1>1, <1>2, <1>3, <1>4, <1>5 DEF Inv

LEMMA LastClientKeeps ==
    ASSUME Inv, NEW c \in Clients, LastClient(c)
    PROVE  Inv'
<1>1. \A s \in Sends : Hand(s)'
  BY AllStay DEF LastClient, daemonVars, viewVars
<1>2. TypeOK'
  BY DEF Inv, TypeOK, Subscribers, LastClient, daemonVars, stopVars, viewVars
<1>3. Starters' /\ Cut'
  BY ActorsDiffer DEF Inv, Starters, Cut, LastClient, daemonVars, stopVars
<1>4. Heard'
  BY DEF Inv, Heard, LastClient, viewVars
<1>5. Watched'
  BY DEF Inv, TypeOK, Watched, Subscribers, Actors, LastClient, NobodyLeft,
         daemonVars
<1> QED
  BY <1>1, <1>2, <1>3, <1>4, <1>5 DEF Inv

LEMMA StopKeeps ==
    ASSUME Inv, Stop
    PROVE  Inv'
<1>1. \A s \in Sends : Hand(s)'
  BY AllStay DEF Stop, daemonVars, viewVars
<1>2. TypeOK'
  BY DEF Inv, TypeOK, Subscribers, Stop, daemonVars, connVars, viewVars
<1>3. Starters' /\ Cut'
  BY DEF Inv, Starters, Cut, Stop, connVars
<1>4. Heard'
  BY DEF Inv, Heard, Stop, viewVars
<1>5. Watched'
  BY DEF Inv, Watched, Stop, daemonVars, connVars
<1> QED
  BY <1>1, <1>2, <1>3, <1>4, <1>5 DEF Inv

LEMMA StopHoldsKeeps ==
    ASSUME Inv, StopHolds
    PROVE  Inv'
<1>1. \A s \in Sends : Hand(s)'
  BY AllStay DEF StopHolds, daemonVars, viewVars
<1>2. TypeOK'
  BY DEF Inv, TypeOK, Subscribers, StopHolds, daemonVars, connVars, viewVars
<1>3. Starters' /\ Cut'
  BY DEF Inv, Starters, Cut, StopHolds, connVars
<1>4. Heard'
  BY DEF Inv, Heard, StopHolds, viewVars
<1>5. Watched'
  BY DEF Inv, Watched, StopHolds, daemonVars, connVars
<1> QED
  BY <1>1, <1>2, <1>3, <1>4, <1>5 DEF Inv

LEMMA CapturePendingKeeps ==
    ASSUME Inv, CapturePending
    PROVE  Inv'
<1>1. \A s \in Sends : Hand(s)'
  BY AllStay DEF CapturePending, daemonVars, viewVars
<1>2. TypeOK'
  BY DEF Inv, TypeOK, Subscribers, CapturePending, Live, daemonVars, connVars,
         viewVars
<1>3. Starters' /\ Cut'
  BY DEF Inv, Starters, Cut, CapturePending, connVars
<1>4. Heard'
  BY DEF Inv, Heard, CapturePending, viewVars
<1>5. Watched'
  BY DEF Inv, Watched, CapturePending, daemonVars, connVars
<1> QED
  BY <1>1, <1>2, <1>3, <1>4, <1>5 DEF Inv

LEMMA DrainedKeeps ==
    ASSUME Inv, Drained
    PROVE  Inv'
<1>1. \A s \in Sends : Hand(s)'
  BY AllStay DEF Drained, daemonVars, viewVars
<1>2. TypeOK'
  BY DEF Inv, TypeOK, Subscribers, Drained, daemonVars, connVars, viewVars
<1>3. Starters' /\ Cut'
  BY DEF Inv, Starters, Cut, Drained, connVars
<1>4. Heard'
  BY DEF Inv, Heard, Drained, viewVars
<1>5. Watched'
  BY DEF Inv, Watched, Drained, daemonVars, connVars
<1> QED
  BY <1>1, <1>2, <1>3, <1>4, <1>5 DEF Inv

LEMMA CutShortKeeps ==
    ASSUME Inv, CutShort
    PROVE  Inv'
<1>1. \A s \in Sends : Hand(s)'
  BY AllStay DEF CutShort, daemonVars, viewVars
<1>2. TypeOK'
  BY DEF Inv, TypeOK, Subscribers, CutShort, Live, daemonVars, connVars, viewVars
<1>3. Starters' /\ Cut'
  BY DEF Inv, TypeOK, Starters, Cut, Actors, CutShort, Live, daemonVars, connVars
<1>4. Heard'
  BY DEF Inv, Heard, CutShort, viewVars
<1>5. Watched'
  BY ActorsDiffer DEF Inv, Watched, CutShort, daemonVars, connVars
<1> QED
  BY <1>1, <1>2, <1>3, <1>4, <1>5 DEF Inv

LEMMA CutAllKeeps ==
    ASSUME Inv, CutAll
    PROVE  Inv'
<1>1. \A s \in Sends : Hand(s)'
  BY AllStay DEF CutAll, daemonVars, viewVars
<1>2. TypeOK'
  BY DEF Inv, TypeOK, Subscribers, CutAll, daemonVars, connVars, viewVars
<1>3. Starters' /\ Cut'
  BY DEF Inv, Starters, Cut, CutAll, connVars
<1>4. Heard'
  BY DEF Inv, Heard, CutAll, viewVars
<1>5. Watched'
  BY DEF Inv, Watched, CutAll, daemonVars, connVars
<1> QED
  BY <1>1, <1>2, <1>3, <1>4, <1>5 DEF Inv

(* The one operation a cut settles is registered.                            *)
LEMMA CutOneKeeps ==
    ASSUME Inv, CutOne
    PROVE  Inv'
<1>1. PICK s \in doomed[Stopper] :
          /\ CancelOperation(s)
          /\ doomed' = [doomed EXCEPT ![Stopper] = @ \ {s}]
  BY DEF CutOne
<1>2. s \in Sends /\ Hand(s) /\ op[s] # "none"
  BY DEF Inv, TypeOK, Actors, Cut, CutOne
<1>3. /\ op'[s] = IF op[s] \in Terminal THEN op[s] ELSE "cancelled"
      /\ \A t \in Sends : t # s => op'[t] = op[t]
      /\ UNCHANGED <<armed, task, ticks, busy, endings, sent>>
  BY <1>1, <1>2 DEF Inv, TypeOK, CancelOperation, CutOne, viewVars
<1>4. TypeOK'
  BY DEF Inv, TypeOK, CancelOperation, Terminal, Subscribers, Actors, CutOne,
         connVars, stopVars, viewVars
<1>5. ASSUME NEW t \in Sends, t # s
      PROVE  Hand(t)'
  BY <1>3, <1>5, HandStays DEF Same, Inv
<1>6. Hand(s)'
  BY <1>2, <1>3
     DEF Hand, OneStarter, Starts, Unregistered, Armed, OneCancel, Cancels, Timed,
         Works, Agreed, Starting, Cancelling, Uncancelled
<1>7. Starters' /\ Cut' /\ Heard' /\ Watched'
  <2>1. Starters' /\ Heard'
    BY DEF Inv, Starters, Heard, CutOne, connVars, viewVars
  <2>2. Cut'
    BY <1>3 DEF Inv, TypeOK, Cut, Actors, CutOne
  <2>3. Watched'
    BY ActorsDiffer DEF Inv, Watched, CutOne, connVars
  <2> QED
    BY <2>1, <2>2, <2>3
<1> QED
  BY <1>4, <1>5, <1>6, <1>7 DEF Inv

(* A sweep takes the next hold of its snapshot as a cancel does, or finds    *)
(* it gone.                                                                  *)
LEMMA SweepKeeps ==
    ASSUME Inv, NEW a \in Actors, Sweep(a)
    PROVE  Inv'
<1>1. PICK s \in doomed[a] :
          /\ doomed' = [doomed EXCEPT ![a] = @ \ {s}]
          /\ IF Cancellable(s) THEN Take(a, s) ELSE UNCHANGED <<daemonVars, busy>>
  BY DEF Sweep
<1>2. /\ s \in Sends /\ Hand(s) /\ busy[a] = Idle
      /\ UNCHANGED <<conn, accepts, phase, pending, fed, shown, ended, endings, sent>>
      /\ a = Stopper => phase = "sweeping"
  BY DEF Inv, TypeOK, Sweep, connVars, stopVars, viewVars
<1>3. CASE Cancellable(s)
  <2>1. /\ s \in armed /\ armed' = armed \ {s}
        /\ busy'[a].step = "taken" /\ busy'[a].send = s
        /\ \A b \in Actors : b # a => busy'[b] = busy[b]
        /\ UNCHANGED <<op, task, ticks>>
    BY <1>1, <1>3 DEF Inv, TypeOK, Take, Cancellable, At
  <2>2. TypeOK'
    BY <1>1, <1>2, <1>3 DEF Inv, TypeOK, Take, At, Subscribers
  <2>3. ASSUME NEW t \in Sends, t # s
        PROVE  Hand(t)'
    <3>1. \A b \in Actors : busy[b].send = t \/ busy'[b].send = t => busy'[b] = busy[b]
      BY <1>2, <2>1, <2>3, ActorsDiffer DEF Idle
    <3> QED
      BY <1>2, <2>1, <2>3, <3>1, HandStays DEF Same, Inv
  <2>4. Hand(s)'
    BY <1>2, <2>1
       DEF Hand, OneStarter, Starts, Unregistered, Armed, OneCancel, Cancels, Timed,
           Works, Agreed, Starting, Cancelling, Uncancelled, StartSteps, Early,
           Actors
  <2>5. Starters'
    BY <1>2, <2>1 DEF Inv, Starters, StartSteps, Actors
  <2>6. Cut' /\ Heard'
    BY <1>1, <1>2, <2>1 DEF Inv, Cut, Heard
  <2>7. Watched'
    BY <1>1, <1>2, <2>1 DEF Inv, Watched
  <2> QED
    BY <2>2, <2>3, <2>4, <2>5, <2>6, <2>7 DEF Inv
<1>4. CASE ~Cancellable(s)
  <2>1. UNCHANGED <<armed, guarded, op, task, ticks, busy>> /\ s \notin armed
    BY <1>1, <1>4 DEF daemonVars, Cancellable
  <2>2. TypeOK'
    BY <1>1, <1>2, <2>1 DEF Inv, TypeOK, Subscribers
  <2>3. \A t \in Sends : Hand(t)'
    BY <1>2, <2>1, AllStay
  <2>4. Starters' /\ Cut' /\ Heard'
    BY <1>1, <1>2, <2>1 DEF Inv, Starters, Cut, Heard
  <2>5. Watched'
    BY <1>1, <1>2, <2>1 DEF Inv, Watched
  <2> QED
    BY <2>2, <2>3, <2>4, <2>5 DEF Inv
<1> QED
  BY <1>3, <1>4

-----------------------------------------------------------------------------
LEMMA InitInv == Init => Inv
<1> SUFFICES ASSUME Init
             PROVE  Inv
  OBVIOUS
<1>1. TypeOK
  BY UndoHoldAssumption DEF Init, TypeOK
<1>2. \A a \in Actors : busy[a].step = "idle" /\ busy[a].send = NoSend
  BY DEF Init, Idle
<1>3. ASSUME NEW s \in Sends
      PROVE  Hand(s)
  BY <1>2
     DEF Init, Hand, OneStarter, Starts, Unregistered, Armed, OneCancel, Cancels,
         Timed, Works, Agreed, Starting, Cancelling, Uncancelled, StartSteps,
         CancelSteps, Actors
<1>4. Starters /\ Cut /\ Heard /\ Watched
  BY <1>2 DEF Init, Starters, Cut, Heard, Watched, StartSteps, Actors
<1> QED
  BY <1>1, <1>3, <1>4 DEF Inv

LEMMA StepInv == Inv /\ [Next]_vars => Inv'
<1> SUFFICES ASSUME Inv, [Next]_vars
             PROVE  Inv'
  OBVIOUS
<1>1. CASE UNCHANGED vars
  <2>1. \A s \in Sends : Hand(s)'
    BY <1>1, AllStay DEF vars, daemonVars, viewVars
  <2>2. TypeOK' /\ Starters' /\ Cut' /\ Heard' /\ Watched'
    BY <1>1
       DEF vars, daemonVars, connVars, stopVars, viewVars, Inv, TypeOK, Subscribers,
           Starters, Cut, Heard, Watched
  <2> QED
    BY <2>1, <2>2 DEF Inv
<1>2. ASSUME NEW c \in Clients,
             Accept(c) \/ Bootstrap(c) \/ Close(c) \/ Calling(c) \/ Leaving(c)
      PROVE  Inv'
  BY <1>2, AcceptKeeps, BootstrapKeeps, CloseKeeps, StartNowKeeps, StartHeldKeeps,
     ArmKeeps, GuardKeeps, AnnounceKeeps, UnsubscribeKeeps, LastClientKeeps
     DEF Calling, Leaving
<1>3. ASSUME NEW c \in Clients, NEW s \in Sends,
             Admit(c, s) \/ CancelHold(c, s) \/ CancelByOperation(c, s)
      PROVE  Inv'
  BY <1>3, AdmitKeeps, CancelHoldKeeps, CancelByOperationKeeps
<1>4. ASSUME NEW a \in Actors, ActorStep(a)
      PROVE  Inv'
  BY <1>4, SweepKeeps, ReleaseKeeps, PublishCancelledKeeps, SettleKeeps
     DEF ActorStep
<1>5. ASSUME NEW s \in Sends, Timer(s)
      PROVE  Inv'
  BY <1>5, WakeKeeps, TickKeeps, ExpireKeeps, TakeDueKeeps, ReleaseDueKeeps,
     PublishDueKeeps, RunKeeps, FinishKeeps
     DEF Timer
<1>6. CASE Stop \/ Shutdown
  BY <1>6, StopKeeps, StopHoldsKeeps, CapturePendingKeeps, DrainedKeeps,
     CutShortKeeps, CutOneKeeps, CutAllKeeps
     DEF Shutdown
<1> QED
  BY <1>1, <1>2, <1>3, <1>4, <1>5, <1>6 DEF Next

LEMMA Invariance == Spec => []Inv
BY InitInv, StepInv, PTL DEF Spec

(* Every variable stays in the set its comment names.                        *)
THEOREM HoldTyping == Spec => []TypeOK
<1>1. Inv => TypeOK
  BY DEF Inv
<1> QED
  BY <1>1, Invariance, PTL

(* A hold ends once: whichever of the timer, a cancel, the last client and   *)
(* the shutdown gets it out of the table, a hold that fired was not          *)
(* cancelled, and one that was cancelled has sent nothing.                   *)
THEOREM HoldCancelIsFinal == Spec => []CancelIsFinal
<1>1. ASSUME Inv, NEW s \in Sends
      PROVE  /\ endings[s] # {"fired", "cancelled"}
             /\ s \in sent => "cancelled" \notin endings[s]
  BY <1>1 DEF Inv, Hand, Works
<1>2. Inv => CancelIsFinal
  BY <1>1 DEF CancelIsFinal
<1> QED
  BY <1>2, Invariance, PTL

(* The operation of a hold that was cancelled reads cancelled, or its        *)
(* canceller has it settled next: settle comes after the event.              *)
THEOREM HoldStatusAgrees == Spec => []StatusAgrees
<1>1. ASSUME Inv, NEW s \in Sends, "cancelled" \in endings[s], op[s] # "cancelled"
      PROVE  op[s] = "queued" /\ \E a \in Actors : busy[a] = At("published", s)
  <2>1. op[s] = "queued"
    BY <1>1 DEF Inv, Hand, Agreed
  <2>2. PICK a \in Actors : busy[a].step = "published" /\ busy[a].send = s
    BY <1>1 DEF Inv, Hand, Agreed
  <2>3. busy[a] = At("published", s)
    <3>1. busy[a] # Idle
      BY <2>2 DEF Idle
    <3> QED
      BY <1>1, <2>2, <3>1 DEF Inv, TypeOK, At
  <2> QED
    BY <2>1, <2>3
<1>2. Inv => StatusAgrees
  BY <1>1 DEF StatusAgrees
<1> QED
  BY <1>2, Invariance, PTL

(* When the last connection's task is through, the table of holds is empty.  *)
THEOREM HoldNoneLeftBehind == Spec => []NoneLeftBehind
<1>1. Inv => NoneLeftBehind
  BY DEF Inv, Watched, NoneLeftBehind
<1> QED
  BY <1>1, Invariance, PTL

-----------------------------------------------------------------------------
(* What comes on screen.                                                     *)

EndKept ==
    \A c \in Clients, s \in Sends :
        s \in ended[c] /\ s \in shown'[c] \ shown[c] =>
            App[c] = "tui" /\ \E d \in Clients : busy[d] = At("guarded", s)

(* A publication brings a hold on screen of which the client knows the end   *)
(* only in the TUI, and only when a start is what was published.             *)
LEMMA PublishShows ==
    ASSUME Inv, NEW k, NEW x \in Sends, Publish(k, x),
           NEW c \in Clients, NEW s \in Sends, s \in ended[c], s \in shown'[c] \ shown[c]
    PROVE  s = x /\ App[c] = "tui" /\ k = "started"
<1>1. /\ shown'[c] \ shown[c] \subseteq {x}
      /\ shown'[c] # shown[c] => OpensCountdown(c, k, x) \/ x \notin shown'[c]
  BY DEF Publish
<1>2. s = x /\ OpensCountdown(c, k, x)
  BY <1>1
<1> QED
  BY <1>2, UndoHoldAssumption DEF OpensCountdown

LEMMA EndStep == Inv /\ [Next]_vars => EndKept
<1> SUFFICES ASSUME Inv, [Next]_vars, NEW c \in Clients, NEW s \in Sends,
                    s \in ended[c], s \in shown'[c] \ shown[c]
             PROVE  App[c] = "tui" /\ \E d \in Clients : busy[d] = At("guarded", s)
  BY DEF EndKept
<1>1. shown'[c] # shown[c]
  OBVIOUS
<1>2. ASSUME NEW d \in Clients, Accept(d)
      PROVE  FALSE
  BY <1>2 DEF Accept
<1>3. ASSUME NEW d \in Clients, Bootstrap(d)
      PROVE  FALSE
  (* What is in the table has not ended.                                     *)
  <2>1. s \in armed
    BY <1>3 DEF Bootstrap
  <2> QED
    BY <2>1 DEF Inv, Hand, Armed, Heard
<1>4. ASSUME NEW d \in Clients, Announce(d)
      PROVE  App[c] = "tui" /\ \E e \in Clients : busy[e] = At("guarded", s)
  <2>1. busy[d].send \in Sends /\ busy[d] = At("guarded", busy[d].send)
    BY <1>4 DEF Announce, Inv, TypeOK, Actors, Idle, At
  <2>2. App[c] = "tui" /\ s = busy[d].send
    BY <1>4, <2>1, PublishShows DEF Announce
  <2> QED
    BY <2>1, <2>2
<1>5. ASSUME NEW a \in Actors, PublishCancelled(a)
      PROVE  FALSE
  <2>1. busy[a].send \in Sends
    BY <1>5, Busy DEF PublishCancelled, Inv
  <2> QED
    BY <1>5, <2>1, PublishShows DEF PublishCancelled
<1>6. ASSUME NEW x \in Sends, Tick(x)
      PROVE  FALSE
  BY <1>6, PublishShows DEF Tick
<1>7. ASSUME NEW x \in Sends, PublishDue(x)
      PROVE  FALSE
  BY <1>7, PublishShows DEF PublishDue
<1>8. CASE UNCHANGED vars
  BY <1>8 DEF vars, viewVars
<1>9. ASSUME NEW d \in Clients,
             \/ Close(d) \/ StartNow(d) \/ StartHeld(d) \/ Arm(d) \/ Guard(d) \/ Leaving(d)
             \/ \E x \in Sends : Admit(d, x) \/ CancelHold(d, x) \/ CancelByOperation(d, x)
      PROVE  FALSE
  BY <1>9
     DEF Close, StartNow, StartHeld, Arm, Guard, Leaving, Unsubscribe, LastClient,
         Admit, CancelHold, CancelByOperation, viewVars
<1>10. ASSUME NEW a \in Actors, Sweep(a) \/ Release(a) \/ Settle(a)
       PROVE  FALSE
  BY <1>10 DEF Sweep, Release, Settle, viewVars
<1>11. ASSUME NEW x \in Sends,
              \/ Wake(x) \/ Expire(x) \/ TakeDue(x) \/ ReleaseDue(x) \/ Run(x) \/ Finish(x)
       PROVE  FALSE
  BY <1>11 DEF Wake, Expire, TakeDue, ReleaseDue, Run, Finish, viewVars
<1>12. CASE Stop \/ Shutdown
  BY <1>12
     DEF Stop, Shutdown, StopHolds, CapturePending, Drained, CutShort, CutOne,
         CutAll, viewVars
<1> QED
  BY <1>2, <1>3, <1>4, <1>5, <1>6, <1>7, <1>8, <1>9, <1>10, <1>11, <1>12
     DEF Next, Calling, ActorStep, Timer

(* A client that knows a hold to be over does not put its countdown back,    *)
(* but for a TUI that reads a start published after the end.                 *)
THEOREM HoldEndIsLast == Spec => EndIsLast
<1>1. Inv /\ [Next]_vars => [EndKept]_vars
  BY EndStep
<1> QED
  BY <1>1, Invariance, PTL DEF Spec, EndIsLast, EndKept
=============================================================================

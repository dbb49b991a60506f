----------------------------- MODULE DraftMirror -----------------------------
(***************************************************************************)
(* The drafts mirror of one account on several machines                     *)
(* (src/draft_mirror): one draft, the file each machine has of it, and the  *)
(* copies of it in the account's server Drafts folder.  A machine pushes    *)
(* its file over the copy, reconciles its file with the folder, deletes the *)
(* copies of a draft that left, and claims the copies before it sends.      *)
(*                                                                          *)
(* A machine runs one of these at a time, under its runtime's turn; the     *)
(* machines, the other mail clients and the users interleave freely.  One   *)
(* step is one answer of the server with the local work up to the next.     *)
(*                                                                          *)
(* A text is the number of the save that made it.  A file's hash is the     *)
(* file: its text and whether its status is approved.                       *)
(***************************************************************************)
EXTENDS Naturals, FiniteSets, FiniteSetsExt

CONSTANTS
    Machines,  \* the machines that run mp on the account
    First,     \* the machine the draft is written on
    Faithful,  \* whether a pulled copy reproduces its file, attachments included
    Overlap,   \* whether the windows send_guard.rs leaves open may overlap
    MaxText,   \* bound on the saves, in mp and in other clients
    MaxUid,    \* bound on the UIDs the folder hands out
    MaxEvents, \* bound on the discards, the sends and the failures, all told
    Failures,  \* which failures there are: "crash", "delete", "relay"
    None       \* no file, no row

ASSUME MachinesAssumption == First \in Machines
ASSUME FailuresAssumption == Failures \subseteq {"crash", "delete", "relay"}
ASSUME FlagsAssumption == Faithful \subseteq BOOLEAN /\ Faithful # {} /\ Overlap \in BOOLEAN
ASSUME BoundsAssumption == MaxText \in Nat \ {0} /\ {MaxUid, MaxEvents} \subseteq Nat

VARIABLES
    copies,    \* the messages of the Drafts folder, all under the draft's Message-ID
    flagged,   \* UIDs flagged \Deleted and not expunged: no listing shows them
    uids,      \* the last UID the folder handed out
    file,      \* the draft's file on each machine
    conflicts, \* the texts of the conflict copies beside it, which are never pushed
    retired,   \* drafts/.retired: the file, and why it is there
    row,       \* the draft_sync row: the copy's UID and the hash they agreed on
    absent,    \* the draft_absence row: what the last reconcile missed
    owes,      \* a DeleteDraft op is queued
    flying,    \* the draft's outbox row: none, kept for a resume, delivered
    pc, job,   \* the task that holds the turn, and what it has read
    texts,     \* the last text
    reviewed,  \* history: texts a user approved, or saved in an approved file
    gone,      \* history: texts a save, a user's wish or a returning copy replaced
    sent,      \* history: how often a machine, or another client (None), sent it
    unsure,    \* history: machines on which a claim, a push or a submission broke off
    events     \* discards, sends and failures so far

folder  == <<copies, flagged, uids>>
local   == <<file, conflicts, retired, row, absent, owes, flying>>
task    == <<pc, job>>
typed   == <<texts, reviewed>>
history == <<gone, sent, unsure>>
vars == <<copies, flagged, uids, file, conflicts, retired, row, absent, owes, flying,
          pc, job, texts, reviewed, gone, sent, unsure, events>>

Texts == 1..MaxText
Uids  == 1..MaxUid
File  == [text : Texts, approved : BOOLEAN]

(* A copy of mp's own still carries the file it was written from; one       *)
(* edited elsewhere is read through its HTML.                               *)
Copy == [uid : Uids, text : Texts, approved : BOOLEAN, mp : BOOLEAN]

(* "out" is a tombstone, "gone" waits for the copy to come back, "raw" does *)
(* not parse as a draft.                                                    *)
Retired == [file : File, why : {"out", "gone", "raw"}]

Row == [uid : Uids, hash : File]

ASSUME NoneAssumption == None \notin File \cup Row

Stages == {"idle", "append", "readback", "replace", "settle", "missing", "doom",
           "claim", "expunge", "submit", "retire"}

(* The UIDs a task listed, the row and the file it read, and the UIDs it    *)
(* is about to act on.                                                      *)
Job == [seen : SUBSET Uids, row : Row \cup {None}, file : File \cup {None},
        held : SUBSET Uids]

NoJob == [seen |-> {}, row |-> None, file |-> None, held |-> {}]

-----------------------------------------------------------------------------
UidsOf(S) == {c.uid : c \in S}

(* What a listing shows: UNDELETED. *)
Visible == {c \in copies : c.uid \notin flagged}

At(S) == {c \in copies : c.uid \in S}

(* DraftsFolder::delete and the UID EXPUNGE of a claim. *)
StillFlagged(S) ==
    /\ copies' = {c \in copies : c.uid \notin S}
    /\ flagged' = flagged
Without(S) ==
    /\ copies' = {c \in copies : c.uid \notin S}
    /\ flagged' = flagged \ S

FileOf(c) == [text |-> c.text, approved |-> c.approved]

(* The copy the row names. *)
Named(r) == IF r = None THEN {} ELSE {r.uid}

Moved(r, f) == ~(r # None /\ r.hash = f)

TextsIn(S) == {f.text : f \in S}

(* The places a text can be found in. *)
Kept ==
    (UNION {TextsIn(({file[m]} \ {None}) \cup {r.file : r \in retired[m]}) : m \in Machines})
    \cup conflicts \cup TextsIn(Visible)

(* Copies that go by a user's wish: a discard, a send. *)
LetGo(S) == Without(S) /\ gone' = gone \cup TextsIn(At(S))

Begin(m, stage, j) == pc' = [pc EXCEPT ![m] = stage] /\ job' = [job EXCEPT ![m] = j]
Ended(m) == Begin(m, "idle", NoJob)

Idle(m) == pc[m] = "idle"

Counted == events < MaxEvents /\ events' = events + 1
Failure(kind) == kind \in Failures /\ Counted

(* No other machine is at one of the stages: how the windows that the       *)
(* header of send_guard.rs leaves open are kept apart.                      *)
NoneElse(m, stages) == Overlap \/ \A n \in Machines \ {m} : pc[n] \notin stages
NoneAt(stages) == Overlap \/ \A m \in Machines : pc[m] \notin stages

Init ==
    /\ copies = {} /\ flagged = {} /\ uids = 0
    /\ file = [m \in Machines |->
                  IF m = First THEN [text |-> 1, approved |-> FALSE] ELSE None]
    /\ conflicts = {}
    /\ retired = [m \in Machines |-> {}]
    /\ row = [m \in Machines |-> None]
    /\ absent = [m \in Machines |-> "no"]
    /\ owes = [m \in Machines |-> FALSE]
    /\ flying = [m \in Machines |-> "no"]
    /\ pc = [m \in Machines |-> "idle"]
    /\ job = [m \in Machines |-> NoJob]
    /\ texts = 1 /\ reviewed = {}
    /\ gone = {} /\ sent = [s \in Machines \cup {None} |-> 0] /\ unsure = {}
    /\ events = 0

-----------------------------------------------------------------------------
(* The users: on a machine at any time, in another client on a copy it sees. *)

(* A save in an editor, which leaves the status line as it is. *)
Edit(m) ==
    /\ file[m] # None
    /\ texts < MaxText
    /\ texts' = texts + 1
    /\ file' = [file EXCEPT ![m].text = texts + 1]
    /\ gone' = gone \cup {file[m].text}
    /\ reviewed' = IF file[m].approved THEN reviewed \cup {texts + 1} ELSE reviewed
    /\ UNCHANGED <<folder, conflicts, retired, row, absent, owes, flying, task, sent, unsure,
                   events>>

(* draft.mark_approved. *)
Approve(m) ==
    /\ file[m] # None /\ ~file[m].approved
    /\ file' = [file EXCEPT ![m].approved = TRUE]
    /\ reviewed' = reviewed \cup {file[m].text}
    /\ UNCHANGED <<folder, conflicts, retired, row, absent, owes, flying, task, texts,
                   history, events>>

(* draft.discard and push::forget_retired; an open outbox row refuses it. *)
Discard(m) ==
    /\ file[m] # None /\ flying[m] = "no"
    /\ Counted
    /\ file' = [file EXCEPT ![m] = None]
    /\ retired' = [retired EXCEPT ![m] = @ \cup {[file |-> file[m], why |-> "out"]}]
    /\ row' = [row EXCEPT ![m] = None]
    /\ owes' = [owes EXCEPT ![m] = TRUE]
    /\ UNCHANGED <<folder, conflicts, absent, flying, task, typed, history>>

(* The file is deleted outside mp. *)
RemoveByHand(m) ==
    /\ file[m] # None
    /\ Counted
    /\ file' = [file EXCEPT ![m] = None]
    /\ UNCHANGED <<folder, conflicts, retired, row, absent, owes, flying, task, typed,
                   sent, unsure>>
    /\ gone' = gone \cup (((1..texts) \cap Kept) \ Kept')

(* An edit in another client replaces the copy, and mp's mark goes with it: *)
(* of the newest copy there, a push's older one being on its way out, and   *)
(* not between an APPEND and its read-back, which would take it for its own.*)
ForeignEdit ==
    /\ texts < MaxText /\ uids < MaxUid
    /\ NoneAt({"readback"})
    /\ \E c \in Visible :
         /\ Overlap \/ c.uid = Max(UidsOf(Visible))
         /\ copies' = (copies \ {c}) \cup
               {[uid |-> uids + 1, text |-> texts + 1, approved |-> FALSE, mp |-> FALSE]}
         /\ gone' = gone \cup {c.text}
    /\ uids' = uids + 1
    /\ texts' = texts + 1
    /\ UNCHANGED <<flagged, local, task, reviewed, sent, unsure, events>>

(* A copy is deleted in another client, with the same exception. *)
ForeignDelete ==
    /\ NoneAt({"readback"})
    /\ Counted
    /\ \E c \in Visible : LetGo({c.uid})
    /\ UNCHANGED <<uids, local, task, typed, sent, unsure>>

(* The draft is sent from another client: not while a push, which has seen  *)
(* the copy there, is about to append the next one.                         *)
ForeignSend ==
    /\ Counted
    /\ NoneAt({"append", "readback"})
    /\ Cardinality(Visible) = 1
    /\ LetGo(UidsOf(Visible))
    /\ sent' = [sent EXCEPT ![None] = @ + 1]
    /\ UNCHANGED <<uids, local, task, typed, unsure>>

-----------------------------------------------------------------------------
(* push::enqueue_owed and push::push, as the drain runs them. *)

(* The copies a push may replace: those its row names. *)
Replaceable(m) == UidsOf(Visible) = Named(row[m])

(* A push is owed and the folder holds what the row names and no more: the  *)
(* copy gone leaves it to the reconcile to retire the file, one unseen to   *)
(* pull it.                                                                 *)
PushSearch(m) ==
    /\ Idle(m) /\ NoneElse(m, {"append", "readback", "expunge"})
    /\ file[m] # None /\ Moved(row[m], file[m])
    /\ Replaceable(m)
    /\ Begin(m, "append", [NoJob EXCEPT !.seen = UidsOf(Visible), !.row = row[m],
                                        !.file = file[m]])
    /\ UNCHANGED <<folder, local, typed, history, events>>

PushAppend(m) ==
    /\ pc[m] = "append"
    /\ uids < MaxUid
    /\ uids' = uids + 1
    /\ copies' = copies \cup {[uid |-> uids + 1, text |-> job[m].file.text,
                               approved |-> job[m].file.approved, mp |-> TRUE]}
    /\ Begin(m, "readback", job[m])
    /\ UNCHANGED <<flagged, local, typed, history, events>>

(* The new copy is the newest the SEARCH before did not show, else the      *)
(* newest there is; with none the push fails.                               *)
PushReadBack(m) ==
    /\ pc[m] = "readback"
    /\ LET after == UidsOf(Visible)
           fresh == after \ job[m].seen
       IN  IF after = {}
           THEN Ended(m) /\ unsure' = unsure \cup {m}
           ELSE /\ Begin(m, "replace", [job[m] EXCEPT
                       !.held = {Max(IF fresh # {} THEN fresh ELSE after)}])
                /\ UNCHANGED unsure
    /\ UNCHANGED <<folder, local, typed, gone, sent, events>>

(* The hash a push records: of the bytes it rendered. *)
HashNow(m) == IF file[m] = None THEN job[m].file ELSE file[m]
PushedHash(m) == job[m].file

Recorded(m, uid, hash) == row' = [row EXCEPT ![m] = [uid |-> uid, hash |-> hash]]

(* The copy the row named is removed and the row written, even when the     *)
(* removal fails; a crash may come between the two.                         *)
PushReplace(m) ==
    /\ pc[m] = "replace"
    /\ Ended(m)
    /\ LET old == Named(job[m].row) \ job[m].held IN
       \/ /\ Without(old)
          /\ Recorded(m, Max(job[m].held), PushedHash(m))
          /\ UNCHANGED <<unsure, events>>
       \/ /\ Failure("delete") /\ old # {}
          /\ Recorded(m, Max(job[m].held), PushedHash(m))
          /\ unsure' = unsure \cup {m}
          /\ UNCHANGED <<copies, flagged>>
       \/ /\ Failure("crash") /\ old # {}
          /\ Without(old)
          /\ unsure' = unsure \cup {m}
          /\ UNCHANGED row
    /\ UNCHANGED <<uids, file, conflicts, retired, absent, owes, flying, typed, gone,
                   sent>>

(* push::delete of a queued DeleteDraft: every copy the folder shows. *)
DrainDelete(m) ==
    /\ Idle(m) /\ owes[m] /\ NoneElse(m, {"readback"})
    /\ owes' = [owes EXCEPT ![m] = FALSE]
    /\ LetGo(UidsOf(Visible))
    /\ UNCHANGED <<uids, file, conflicts, retired, row, absent, flying, task, typed,
                   sent, unsure, events>>

-----------------------------------------------------------------------------
(* reconcile::reconcile: the folder is listed, then the file, the row and   *)
(* the retired drafts are read.                                             *)

(* note_absent: the last reconcile missed the same thing. *)
Again(m, what) == absent[m] = what

(* A draft with a send in flight, or never pushed and with no copy, is left *)
(* alone.                                                                   *)
ReconcileSkips(m) ==
    /\ Idle(m) /\ file[m] # None
    /\ flying[m] # "no" \/ (Visible = {} /\ row[m] = None)
    /\ absent' = [absent EXCEPT ![m] = "no"]
    /\ UNCHANGED <<folder, file, conflicts, retired, row, owes, flying, task, typed, history,
                   events>>

(* The row's copy is gone with nothing in its place: noted, and the file    *)
(* retired at the second sighting in a row.                                 *)
ReconcileCopyGone(m) ==
    /\ Idle(m) /\ file[m] # None /\ flying[m] = "no"
    /\ Visible = {} /\ row[m] # None
    /\ absent' = [absent EXCEPT ![m] = "copy"]
    /\ IF Again(m, "copy")
       THEN /\ file' = [file EXCEPT ![m] = None]
            /\ retired' = [retired EXCEPT ![m] = @ \cup {[file |-> file[m], why |-> "gone"]}]
            /\ row' = [row EXCEPT ![m] = None]
       ELSE UNCHANGED <<file, retired, row>>
    /\ UNCHANGED <<folder, conflicts, owes, flying, task, typed, history, events>>

(* The draft has its file and its copies: settled once they are fetched. *)
ReconcileOpen(m) ==
    /\ Idle(m) /\ file[m] # None /\ flying[m] = "no"
    /\ Visible # {}
    /\ Begin(m, "settle", [NoJob EXCEPT !.seen = UidsOf(Visible), !.row = row[m],
                                        !.file = file[m]])
    /\ UNCHANGED <<folder, local, typed, history, events>>

(* What a pull of c writes.  A copy of mp's own hands on its approval when  *)
(* it reproduces its file; any other pull demotes (settle_status).          *)
KeepsStatus(f, c, exact) == [text |-> c.text, approved |-> f.approved]
Pulled(f, c, exact) == [text |-> c.text, approved |-> c.mp /\ exact /\ c.approved]

(* The copy was written from this very file. *)
WrittenFrom(c, f) == c.mp /\ FileOf(c) = f

(* is_the_file: written from it, or rendering to it. *)
IsTheFile(c, f) == WrittenFrom(c, f) \/ (~c.mp /\ c.text = f.text)

(* A pull over a file that moved since its row keeps the local text aside. *)
NeverAside(j) == {}
Aside(j) == IF Moved(j.row, j.file) THEN {j.file.text} ELSE {}

(* pull_into: nothing to write, a save since the listing left for the next  *)
(* reconcile, or the file rewritten in one rename.                          *)
PullInto(m, c, beside) ==
    LET f == job[m].file IN
    \/ /\ WrittenFrom(c, f)
       /\ Recorded(m, c.uid, f)
       /\ conflicts' = conflicts \cup beside
       /\ UNCHANGED file
    \/ /\ ~WrittenFrom(c, f) /\ file[m] # f
       /\ conflicts' = conflicts \cup beside
       /\ UNCHANGED <<file, row>>
    \/ /\ ~WrittenFrom(c, f) /\ file[m] = f
       /\ \E exact \in Faithful :
            /\ file' = [file EXCEPT ![m] = Pulled(f, c, exact)]
            /\ Recorded(m, c.uid, Pulled(f, c, exact))
       /\ conflicts' = conflicts \cup beside \cup Aside(job[m])

(* settle_older: an older copy edited elsewhere is text nobody here has     *)
(* seen, kept under the local frontmatter, status included.                 *)
Theirs(m, older) == TextsIn({c \in At(older) : ~c.mp})

(* The last local work of a reconcile: the absences it did not see are      *)
(* forgotten, and the doomed copies are next.                               *)
ThenDoom(m, doomed) ==
    IF doomed = {} THEN Ended(m) ELSE Begin(m, "doom", [NoJob EXCEPT !.held = doomed])

(* The copies of a draft whose file is here: the newest is what the row     *)
(* names, or is recorded, or pulled; one gone before its fetch ends the     *)
(* reconcile in an error.  The older copies go.                             *)
ReconcileSettle(m) ==
    /\ pc[m] = "settle"
    /\ LET newest == Max(job[m].seen)
           older  == job[m].seen \ {newest}
           c      == CHOOSE d \in copies : d.uid = newest
       IN
       \/ /\ newest \notin Named(job[m].row) /\ At({newest}) = {}
          /\ Ended(m)
          /\ UNCHANGED <<file, conflicts, row, absent>>
       \/ /\ \/ /\ newest \in Named(job[m].row)
                /\ conflicts' = conflicts \cup Theirs(m, older)
                /\ UNCHANGED <<file, row>>
             \/ /\ newest \notin Named(job[m].row) /\ At({newest}) # {}
                /\ job[m].row = None /\ IsTheFile(c, job[m].file)
                /\ Recorded(m, newest, job[m].file)
                /\ conflicts' = conflicts \cup Theirs(m, older)
                /\ UNCHANGED file
             \/ /\ newest \notin Named(job[m].row) /\ At({newest}) # {}
                /\ ~(job[m].row = None /\ IsTheFile(c, job[m].file))
                /\ PullInto(m, c, Theirs(m, older))
          /\ absent' = [absent EXCEPT ![m] = "no"]
          /\ ThenDoom(m, UidsOf(At(older)))
    /\ UNCHANGED <<folder, retired, owes, flying, typed, history, events>>

-----------------------------------------------------------------------------
(* The rest of a reconcile, when the draft has no file here. *)

Why(m) == {r.why : r \in retired[m]}

(* A file was removed by hand: its row still names a copy, and no retired   *)
(* draft that parses says why it left.                                      *)
HandRemoved(m) ==
    Named(row[m]) # {} /\ Named(row[m]) \subseteq UidsOf(Visible) /\ Why(m) \subseteq {"raw"}

(* The row's file is missing: noted, and its copy held to be kept and       *)
(* deleted at the second sighting; any other such row goes.  The copies     *)
(* nobody claims are fetched.  A machine that lists two of them imports two *)
(* files under one id, which is left out.                                   *)
ReconcileMissing(m) ==
    /\ Idle(m) /\ file[m] = None
    /\ row[m] # None \/ Visible # {}
    /\ LET claimed == IF HandRemoved(m) THEN Named(row[m]) ELSE {}
           rest    == UidsOf(Visible) \ claimed
       IN  /\ Cardinality(rest) <= 1 \/ "out" \in Why(m)
           /\ Begin(m, "missing", [NoJob EXCEPT !.seen = rest,
                   !.held = IF Again(m, "file") THEN claimed ELSE {}])
           /\ row' = IF claimed = {} THEN [row EXCEPT ![m] = None] ELSE row
           /\ absent' = IF claimed = {} THEN absent ELSE [absent EXCEPT ![m] = "file"]
    /\ UNCHANGED <<folder, file, conflicts, retired, owes, flying, typed, history, events>>

(* keep_in_retired: a copy of mp's own as the file it carries, any other as *)
(* the raw message.                                                         *)
KeptAside(S) ==
    {[file |-> FileOf(c), why |-> IF c.mp THEN "out" ELSE "raw"] : c \in S}

(* revive: the file retired for its copy's absence is back under its old    *)
(* name and takes the copy's text, with no conflict copy.                   *)
Revive(m, r, c) ==
    /\ r.why = "gone"
    /\ retired' = [retired EXCEPT ![m] = (@ \ {r}) \cup KeptAside(At(job[m].held))]
    /\ \E exact \in Faithful :
         LET f == IF WrittenFrom(c, r.file) THEN r.file ELSE Pulled(r.file, c, exact)
         IN  /\ file' = [file EXCEPT ![m] = f]
             /\ Recorded(m, c.uid, f)
             /\ gone' = gone \cup ({r.file.text} \ {f.text})

(* imported: a copy of mp's own under its draft's id, any other as a new    *)
(* draft linked by the copy's Message-ID.                                   *)
Import(m, c) ==
    /\ retired' = [retired EXCEPT ![m] = @ \cup KeptAside(At(job[m].held))]
    /\ \E exact \in Faithful :
         LET f == Pulled([text |-> c.text, approved |-> FALSE], c, exact)
         IN  file' = [file EXCEPT ![m] = f] /\ Recorded(m, c.uid, f)
    /\ UNCHANGED gone

Tombstone(m) == "out" \in Why(m)

(* The copies are fetched: a hand-removed draft's is kept in .retired, one  *)
(* under a tombstone is doomed, any other brings its draft back.            *)
ReconcileGather(m) ==
    /\ pc[m] = "missing"
    /\ LET back == At(job[m].seen) IN
       \/ /\ Tombstone(m) \/ back = {}
          /\ retired' = [retired EXCEPT ![m] = @ \cup KeptAside(At(job[m].held))]
          /\ row' = IF job[m].held = {} THEN row ELSE [row EXCEPT ![m] = None]
          /\ ThenDoom(m, job[m].held \cup (IF Tombstone(m) THEN job[m].seen ELSE {}))
          /\ UNCHANGED <<file, gone>>
       \/ /\ ~Tombstone(m)
          /\ \E c \in back :
               \/ \E r \in retired[m] : Revive(m, r, c)
               \/ "gone" \notin Why(m) /\ Import(m, c)
          /\ ThenDoom(m, job[m].held)
    /\ absent' = IF row[m] = None THEN [absent EXCEPT ![m] = "no"] ELSE absent
    /\ UNCHANGED <<folder, conflicts, owes, flying, typed, sent, unsure, events>>

(* The doomed copies are deleted; under a tombstone they went by a user's   *)
(* wish.                                                                    *)
ReconcileDoom(m) ==
    /\ pc[m] = "doom" /\ NoneElse(m, {"readback"})
    /\ IF file[m] = None /\ Tombstone(m)
       THEN LetGo(job[m].held)
       ELSE Without(job[m].held) /\ UNCHANGED gone
    /\ Ended(m)
    /\ UNCHANGED <<uids, local, typed, sent, unsure, events>>

-----------------------------------------------------------------------------
(* A send: send_guard::claim_for_send, the submission, the retirement. *)

(* No copy and no row goes ahead, no copy and a row is refused; a copy is   *)
(* claimed, its row forgotten first.                                        *)
OnlyCopiesCount(m) == TRUE
MayGo(m) == Visible # {} \/ row[m] = None

SendSearch(m) ==
    /\ Idle(m) /\ NoneElse(m, {"append"})
    /\ file[m] # None /\ file[m].approved
    /\ Counted
    /\ MayGo(m)
    /\ Begin(m, IF Visible = {} THEN "submit" ELSE "claim",
             [NoJob EXCEPT !.seen = UidsOf(Visible), !.file = file[m]])
    /\ row' = [row EXCEPT ![m] = None]
    /\ UNCHANGED <<folder, file, conflicts, retired, absent, owes, flying, typed, history>>

(* UID STORE \Deleted, and the UID FETCH that sees what is still there. *)
ClaimFlag(m) ==
    /\ pc[m] = "claim" /\ NoneElse(m, {"append", "readback", "replace", "expunge"})
    /\ flagged' = flagged \cup UidsOf(At(job[m].seen))
    /\ Begin(m, "expunge", [job[m] EXCEPT !.held = UidsOf(At(job[m].seen))])
    /\ gone' = gone \cup TextsIn(At(job[m].seen))
    /\ UNCHANGED <<copies, uids, local, typed, sent, unsure, events>>

(* The copies this session's UID EXPUNGE removed. *)
Expunged(m) == job[m].held \cap UidsOf(copies)

(* Every copy, or the outcome is unknown and the send refused. *)
ClaimExpunge(m) ==
    /\ pc[m] = "expunge"
    /\ Without(job[m].seen)
    /\ \/ /\ Expunged(m) = job[m].seen
          /\ Begin(m, "submit", [NoJob EXCEPT !.file = job[m].file])
          /\ UNCHANGED unsure
       \/ /\ Expunged(m) # job[m].seen
          /\ Ended(m)
          /\ unsure' = unsure \cup {m}
    /\ UNCHANGED <<uids, local, typed, gone, sent, events>>

Delivered(m) ==
    /\ flying' = [flying EXCEPT ![m] = "delivered"]
    /\ owes' = [owes EXCEPT ![m] = TRUE]
    /\ sent' = [sent EXCEPT ![m] = @ + 1]
    /\ Begin(m, "retire", NoJob)

(* enqueue refuses a draft with an open row.  Else every recipient takes    *)
(* the message and the delete of its copies is owed, or none does, or the   *)
(* relay cannot be reached and the row waits for a resume.                  *)
Submit(m) ==
    /\ pc[m] = "submit"
    /\ \/ flying[m] = "no" /\ Delivered(m) /\ UNCHANGED <<unsure, events>>
       \/ Ended(m) /\ UNCHANGED <<owes, flying, sent, unsure, events>>
       \/ /\ flying[m] = "no"
          /\ Failure("relay")
          /\ flying' = [flying EXCEPT ![m] = "kept"]
          /\ unsure' = unsure \cup {m}
          /\ Ended(m)
          /\ UNCHANGED <<owes, sent>>
    /\ UNCHANGED <<folder, file, conflicts, retired, row, absent, typed, gone>>

(* resume_outbox submits the kept row as it is. *)
Resend(m) ==
    /\ Idle(m) /\ flying[m] = "kept"
    /\ \/ Delivered(m)
       \/ flying' = [flying EXCEPT ![m] = "no"] /\ UNCHANGED <<owes, sent, task>>
    /\ UNCHANGED <<folder, file, conflicts, retired, row, absent, typed, gone, unsure,
                   events>>

(* settle_sent_draft, or a resume's retire_draft_of_row after a crash. *)
Retire(m) ==
    /\ pc[m] = "retire" \/ (Idle(m) /\ flying[m] = "delivered")
    /\ Ended(m)
    /\ flying' = [flying EXCEPT ![m] = "no"]
    /\ file' = [file EXCEPT ![m] = None]
    /\ retired' = IF file[m] = None THEN retired
                  ELSE [retired EXCEPT ![m] = @ \cup {[file |-> file[m], why |-> "out"]}]
    /\ UNCHANGED <<folder, conflicts, row, absent, owes, typed, history, events>>

-----------------------------------------------------------------------------
(* A task dies: the daemon, or its connection.  What it had claimed or      *)
(* appended without a row leaves the machine unable to tell.                *)
Fault(m) ==
    /\ ~Idle(m)
    /\ Failure("crash")
    /\ Ended(m)
    /\ unsure' = IF pc[m] \in {"readback", "replace", "claim", "expunge", "submit", "retire"}
                 THEN unsure \cup {m} ELSE unsure
    /\ UNCHANGED <<folder, local, typed, gone, sent>>

Reconcile(m) ==
    ReconcileSkips(m) \/ ReconcileCopyGone(m) \/ ReconcileOpen(m) \/ ReconcileMissing(m)

Next ==
    \/ \E m \in Machines :
         \/ Edit(m) \/ Approve(m) \/ Discard(m) \/ RemoveByHand(m)
         \/ PushSearch(m) \/ PushAppend(m) \/ PushReadBack(m) \/ PushReplace(m)
         \/ DrainDelete(m)
         \/ Reconcile(m) \/ ReconcileSettle(m) \/ ReconcileGather(m) \/ ReconcileDoom(m)
         \/ SendSearch(m) \/ ClaimFlag(m) \/ ClaimExpunge(m) \/ Submit(m) \/ Resend(m)
         \/ Retire(m) \/ Fault(m)
    \/ ForeignEdit \/ ForeignDelete \/ ForeignSend

(* What a tick's drain finds to do, and what a task goes on with. *)
Drain(m) == PushSearch(m) \/ DrainDelete(m) \/ Resend(m) \/ Retire(m)
Continue(m) ==
    \/ PushAppend(m) \/ PushReadBack(m) \/ PushReplace(m)
    \/ ReconcileSettle(m) \/ ReconcileGather(m) \/ ReconcileDoom(m)
    \/ ClaimFlag(m) \/ ClaimExpunge(m) \/ Submit(m)

(* A tick and the drafts poll come round again and again, drain and then    *)
(* reconcile: a drain is not kept off for ever by the reconciles between.   *)
(* A task that holds the turn goes on.  Nobody has to edit, send or discard.*)
Fairness ==
    \A m \in Machines : SF_vars(Drain(m)) /\ WF_vars(Reconcile(m) \/ Continue(m))

Spec == Init /\ [][Next]_vars
FairSpec == Spec /\ Fairness

-----------------------------------------------------------------------------
TypeOK ==
    /\ copies \subseteq Copy /\ flagged \subseteq UidsOf(copies) /\ uids \in 0..MaxUid
    /\ file \in [Machines -> File \cup {None}]
    /\ conflicts \subseteq Texts
    /\ retired \in [Machines -> SUBSET Retired]
    /\ row \in [Machines -> Row \cup {None}]
    /\ absent \in [Machines -> {"no", "copy", "file"}]
    /\ owes \in [Machines -> BOOLEAN]
    /\ flying \in [Machines -> {"no", "kept", "delivered"}]
    /\ pc \in [Machines -> Stages] /\ job \in [Machines -> Job]
    /\ texts \in Texts /\ reviewed \cup gone \subseteq Texts
    /\ sent \in [Machines \cup {None} -> Nat] /\ unsure \subseteq Machines

(* Every text that no later save was made from is in a file, a conflict     *)
(* copy, a retired draft or a copy, unless a user let it go or a copy that  *)
(* came back was written over it: pushes that bury, pulls over a save and   *)
(* deleted leftovers lose nothing.                                          *)
TextIsKept == (1..texts) \subseteq Kept \cup gone

(* A draft file says approved only of a text some user reviewed: the        *)
(* status does not reach an edit nobody approved, across pulls, imports and *)
(* revivals (mod.rs: a send must not carry content nobody approved).        *)
ApprovedIsReviewed ==
    \A m \in Machines : file[m] # None => (file[m].approved => file[m].text \in reviewed)

(* A draft held on several machines goes out once, while every machine      *)
(* knows how its claims, pushes and submissions ended.                      *)
SentOnce ==
    (\E s, t \in Machines \cup {None} :
        sent[s] > 0 /\ sent[t] > 0 /\ (s # t \/ sent[s] > 1))
    => unsure # {}

(* CHANGELOG.md, of the claim: "an approved draft held on two machines goes *)
(* out once".                                                               *)
GoesOutOnce == \A m, n \in Machines : m # n => ~(sent[m] > 0 /\ sent[n] > 0)

(* The draft left everywhere, or one copy holds the text of every machine's *)
(* file and every row agrees.                                               *)
InStep ==
    \/ Visible = {} /\ \A m \in Machines : file[m] = None
    \/ \E c \in Visible :
         /\ Visible = {c}
         /\ \A m \in Machines : /\ file[m] # None /\ file[m].text = c.text
                                 /\ row[m] = [uid |-> c.uid, hash |-> file[m]]

(* Where the model ends: a machine without the file lists two copies, and   *)
(* imports each as a file of its own (ReconcileMissing).                    *)
Twofold == Cardinality(Visible) > 1 /\ \E m \in Machines : file[m] = None

(* Once the users and the failures stop, the machines and the folder come   *)
(* into step and stay there.                                                *)
ComesIntoStep == <>[](InStep \/ Twofold)
=============================================================================

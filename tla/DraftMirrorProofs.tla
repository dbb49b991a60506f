-------------------------- MODULE DraftMirrorProofs --------------------------
(***************************************************************************)
(* What holds of the drafts mirror for any number of machines, saves, UIDs   *)
(* and failures: with the windows of send_guard.rs open or closed, the types *)
(* and that a draft is approved only in a text somebody reviewed; with them  *)
(* closed, that no text is lost and that the draft goes out once.            *)
(***************************************************************************)
EXTENDS DraftMirror, FiniteSetTheorems, TLAPS

(* The stages at which a task works on the file it read.                     *)
Holding == {"append", "readback", "replace", "settle"}

(* Some UIDs up to n have a newest.  There is no induction to show it by, so *)
(* it is carried from one UID the folder hands out to the next.              *)
HasNewest(n) == \A S \in SUBSET (1..n) : S # {} => \E u \in S : \A v \in S : u >= v

FolderShape ==
    /\ copies \subseteq Copy /\ flagged \subseteq UidsOf(copies) /\ uids \in 0..MaxUid
    /\ UidsOf(copies) \subseteq 1..uids
    /\ HasNewest(uids)

LocalShape ==
    /\ file \in [Machines -> File \cup {None}]
    /\ conflicts \subseteq Texts
    /\ retired \in [Machines -> SUBSET Retired]
    /\ row \in [Machines -> Row \cup {None}]
    /\ absent \in [Machines -> {"no", "copy", "file"}]
    /\ owes \in [Machines -> BOOLEAN]
    /\ flying \in [Machines -> {"no", "kept", "delivered"}]

(* A task that works on a file has read one, and a push that is about to     *)
(* replace a copy has found its own.                                         *)
TaskShape ==
    /\ pc \in [Machines -> Stages] /\ job \in [Machines -> Job]
    /\ \A m \in Machines :
         /\ pc[m] \in Holding => job[m].file \in File
         /\ pc[m] = "replace" => \E u \in Uids : job[m].held = {u}

PastShape ==
    /\ texts \in Texts /\ reviewed \subseteq Texts /\ gone \subseteq Texts
    /\ sent \in [Machines \cup {None} -> Nat] /\ unsure \subseteq Machines

Shape == FolderShape /\ LocalShape /\ TaskShape /\ PastShape

LEMMA ShapeIsTyped == Shape => TypeOK
  BY DEF Shape, FolderShape, LocalShape, TaskShape, PastShape, TypeOK

-----------------------------------------------------------------------------
(* The data: texts, UIDs, files and jobs. *)

LEMMA Bounds == MaxText \in Nat \ {0} /\ MaxUid \in Nat /\ MaxEvents \in Nat
  BY BoundsAssumption DEF BoundsAssumption

LEMMA NewestOfOne == ASSUME NEW u \in Uids PROVE Max({u}) = u
<1>1. u >= u
  BY Bounds DEF Uids
<1>2. \A x \in {u} : (\A y \in {u} : x >= y) => x = u
  OBVIOUS
<1> QED
  BY <1>1, <1>2 DEF Max

(* The newest of some UIDs the folder handed out is one of them.             *)
LEMMA Newest ==
    ASSUME FolderShape, NEW S \in SUBSET UidsOf(copies), S # {}
    PROVE  Max(S) \in S
<1>1. \E u \in S : \A v \in S : u >= v
  BY DEF FolderShape, HasNewest
<1> QED
  BY <1>1 DEF Max

LEMMA UidsAreUids == ASSUME FolderShape, NEW S \in SUBSET copies PROVE UidsOf(S) \subseteq Uids
  BY DEF FolderShape, UidsOf, Copy

(* A file that is saved, approved or pulled is a file.                       *)
LEMMA FileUpdates ==
    /\ \A f \in File, t \in Texts : /\ [f EXCEPT !.text = t] \in File
                                     /\ [f EXCEPT !.text = t].approved = f.approved
                                     /\ [f EXCEPT !.text = t].text = t
    /\ \A f \in File : /\ [f EXCEPT !.approved = TRUE] \in File
                        /\ [f EXCEPT !.approved = TRUE].text = f.text
    /\ \A f \in File : f.text \in Texts /\ f.approved \in BOOLEAN
  BY DEF File

LEMMA CopyFields ==
    \A c \in Copy : /\ c.uid \in Uids /\ c.text \in Texts /\ c.approved \in BOOLEAN
                    /\ c.mp \in BOOLEAN /\ FileOf(c) \in File
                    /\ FileOf(c).text = c.text /\ FileOf(c).approved = c.approved
  BY DEF Copy, File, FileOf

LEMMA PulledIsFile ==
    ASSUME NEW f, NEW c \in Copy, NEW exact \in BOOLEAN
    PROVE  /\ Pulled(f, c, exact) \in File
           /\ Pulled(f, c, exact).text = c.text
           /\ Pulled(f, c, exact).approved => c.approved
  BY DEF Copy, File, Pulled

(* A job that takes hold of other copies keeps its file.                      *)
LEMMA HeldUpdated ==
    ASSUME NEW j \in Job, NEW H \in SUBSET Uids
    PROVE  LET k == [j EXCEPT !.held = H] IN k \in Job /\ k.file = j.file /\ k.held = H
  BY DEF Job

LEMMA JobUpdates ==
    /\ NoJob \in Job
    /\ \A S \in SUBSET Uids, r \in Row \cup {None}, f \in File \cup {None} :
         LET j == [NoJob EXCEPT !.seen = S, !.row = r, !.file = f]
         IN  j \in Job /\ j.file = f
    /\ \A S \in SUBSET Uids, f \in File \cup {None} :
         LET j == [NoJob EXCEPT !.seen = S, !.file = f] IN j \in Job /\ j.file = f
    /\ \A S, H \in SUBSET Uids : [NoJob EXCEPT !.seen = S, !.held = H] \in Job
    /\ \A H \in SUBSET Uids : [NoJob EXCEPT !.held = H] \in Job
    /\ \A f \in File \cup {None} :
         [NoJob EXCEPT !.file = f] \in Job /\ [NoJob EXCEPT !.file = f].file = f
    /\ \A j \in Job, H \in SUBSET Uids :
         /\ [j EXCEPT !.held = H] \in Job
         /\ [j EXCEPT !.held = H].file = j.file
         /\ [j EXCEPT !.held = H].held = H
  BY DEF Job, NoJob

-----------------------------------------------------------------------------
(* The folder, as it loses copies and takes new ones. *)

LEMMA FolderStays == ASSUME FolderShape, UNCHANGED folder PROVE FolderShape'
  BY DEF FolderShape, folder, UidsOf, HasNewest

LEMMA FolderLoses ==
    ASSUME FolderShape, NEW S, Without(S), uids' = uids
    PROVE  FolderShape'
<1>1. copies' \subseteq copies
  BY DEF Without
<1>2. flagged' \subseteq UidsOf(copies')
  BY DEF FolderShape, Without, UidsOf
<1>3. UidsOf(copies') \subseteq UidsOf(copies)
  BY <1>1 DEF UidsOf
<1> QED
  BY <1>1, <1>2, <1>3 DEF FolderShape, HasNewest, UidsOf

LEMMA NewestGrows == ASSUME NEW n \in Nat, HasNewest(n) PROVE HasNewest(n + 1)
<1> SUFFICES ASSUME NEW S \in SUBSET (1..(n + 1)), S # {}
             PROVE  \E u \in S : \A v \in S : u >= v
  BY DEF HasNewest
<1>1. CASE n + 1 \in S
  <2>1. \A v \in S : n + 1 >= v
    OBVIOUS
  <2> QED
    BY <1>1, <2>1
<1>2. CASE n + 1 \notin S
  <2>1. S \subseteq 1..n
    BY <1>2
  <2> QED
    BY <2>1 DEF HasNewest
<1> QED
  BY <1>1, <1>2

(* A new copy, in the place of one that was in sight or beside the others.   *)
LEMMA FolderGains ==
    ASSUME FolderShape, uids < MaxUid, NEW c \in Copy, c.uid = uids + 1,
           NEW D \in SUBSET Visible,
           copies' = (copies \ D) \cup {c}, flagged' = flagged, uids' = uids + 1
    PROVE  FolderShape'
<1>1. uids' \in 0..MaxUid /\ uids \in Nat
  BY Bounds DEF FolderShape
<1>2. HasNewest(uids)'
  BY <1>1, NewestGrows DEF FolderShape, HasNewest
<1>3. copies' \subseteq Copy
  BY DEF FolderShape
<1>4. flagged' \subseteq UidsOf(copies')
  BY DEF FolderShape, UidsOf, Visible
<1>5. UidsOf(copies') \subseteq UidsOf(copies) \cup {uids + 1}
  BY DEF UidsOf
<1>6. UidsOf(copies') \subseteq 1..uids'
  BY <1>1, <1>5 DEF FolderShape
<1> QED
  BY <1>1, <1>2, <1>3, <1>4, <1>6 DEF FolderShape, HasNewest, UidsOf

(* The texts of some copies are texts, and their UIDs UIDs.                  *)
LEMMA TextsOfCopies ==
    ASSUME FolderShape, NEW S \in SUBSET copies
    PROVE  TextsIn(S) \subseteq Texts
  BY DEF FolderShape, TextsIn, Copy

LEMMA InFolder ==
    /\ Visible \subseteq copies
    /\ \A S : At(S) \subseteq copies
  BY DEF Visible, At

-----------------------------------------------------------------------------
(* A task that goes on to a stage, and one that ends. *)

LEMMA Staged ==
    ASSUME TaskShape, NEW m \in Machines, NEW s \in Stages, NEW j \in Job, Begin(m, s, j),
           s \in Holding => j.file \in File,
           s = "replace" => \E u \in Uids : j.held = {u}
    PROVE  TaskShape'
  BY DEF TaskShape, Begin

LEMMA Ending == ASSUME TaskShape, NEW m \in Machines, Ended(m) PROVE TaskShape'
<1>1. NoJob \in Job
  BY JobUpdates
<1> QED
  BY <1>1, Staged DEF Ended, Stages, Holding

LEMMA TaskStays == ASSUME TaskShape, UNCHANGED task PROVE TaskShape'
  BY DEF TaskShape, task

LEMMA LocalStays == ASSUME LocalShape, UNCHANGED local PROVE LocalShape'
  BY DEF LocalShape, local

LEMMA PastStays == ASSUME PastShape, UNCHANGED <<typed, history>> PROVE PastShape'
  BY DEF PastShape, typed, history

-----------------------------------------------------------------------------
(* Every step keeps the shape: first the users'. *)

LEMMA EditShape ==
    ASSUME Shape, NEW m \in Machines, Edit(m)
    PROVE  Shape'
<1>1. FolderShape'
  BY FolderStays DEF Shape, Edit
<1>2. LocalShape'
  <2>1. [file EXCEPT ![m].text = texts + 1] = [file EXCEPT ![m] = [file[m] EXCEPT !.text = texts + 1]]
    OBVIOUS
  <2>2. file[m] \in File /\ texts + 1 \in Texts
    BY Bounds DEF Shape, LocalShape, PastShape, Edit, Texts
  <2>3. [file[m] EXCEPT !.text = texts + 1] \in File
    BY <2>2, FileUpdates
  <2> QED
    BY <2>1, <2>3 DEF Shape, LocalShape, Edit
<1>3. TaskShape'
  BY TaskStays DEF Shape, Edit
<1>4. PastShape'
  <2>1. file[m].text \in Texts /\ texts + 1 \in Texts
    BY Bounds, FileUpdates DEF Shape, LocalShape, PastShape, Edit, Texts
  <2> QED
    BY <2>1 DEF Shape, PastShape, Edit
<1> QED
  BY <1>1, <1>2, <1>3, <1>4 DEF Shape

LEMMA ApproveShape ==
    ASSUME Shape, NEW m \in Machines, Approve(m)
    PROVE  Shape'
<1>1. FolderShape'
  BY FolderStays DEF Shape, Approve
<1>2. LocalShape'
  <2>1. [file[m] EXCEPT !.approved = TRUE] \in File
    BY FileUpdates DEF Shape, LocalShape, Approve
  <2> QED
    BY <2>1 DEF Shape, LocalShape, Approve
<1>3. TaskShape'
  BY TaskStays DEF Shape, Approve
<1>4. PastShape'
  <2>1. file[m].text \in Texts
    BY FileUpdates DEF Shape, LocalShape, Approve
  <2> QED
    BY <2>1 DEF Shape, PastShape, Approve, history
<1> QED
  BY <1>1, <1>2, <1>3, <1>4 DEF Shape

LEMMA DiscardShape ==
    ASSUME Shape, NEW m \in Machines, Discard(m)
    PROVE  Shape'
<1>1. FolderShape'
  BY FolderStays DEF Shape, Discard
<1>2. LocalShape'
  <2>1. [file |-> file[m], why |-> "out"] \in Retired
    BY DEF Shape, LocalShape, Discard, Retired
  <2> QED
    BY <2>1 DEF Shape, LocalShape, Discard
<1>3. TaskShape'
  BY TaskStays DEF Shape, Discard
<1>4. PastShape'
  BY PastStays DEF Shape, Discard
<1> QED
  BY <1>1, <1>2, <1>3, <1>4 DEF Shape

LEMMA RemoveByHandShape ==
    ASSUME Shape, NEW m \in Machines, RemoveByHand(m)
    PROVE  Shape'
<1>1. FolderShape'
  BY FolderStays DEF Shape, RemoveByHand
<1>2. LocalShape'
  BY DEF Shape, LocalShape, RemoveByHand, local
<1>3. TaskShape'
  BY TaskStays DEF Shape, RemoveByHand
<1>4. PastShape'
  <2>1. 1..texts \subseteq Texts
    BY Bounds DEF Shape, PastShape, Texts
  <2>2. gone' \subseteq gone \cup (1..texts)
    <3> SUFFICES ASSUME NEW K, NEW L, gone' = gone \cup (((1..texts) \cap K) \ L)
                 PROVE  gone' \subseteq gone \cup (1..texts)
      BY DEF RemoveByHand
    <3> QED
      OBVIOUS
  <2> QED
    BY <2>1, <2>2 DEF Shape, PastShape, RemoveByHand, typed
<1> QED
  BY <1>1, <1>2, <1>3, <1>4 DEF Shape

LEMMA ForeignEditShape ==
    ASSUME Shape, ForeignEdit
    PROVE  Shape'
<1>1. FolderShape'
  <2>1. PICK c \in Visible :
           copies' = (copies \ {c}) \cup
               {[uid |-> uids + 1, text |-> texts + 1, approved |-> FALSE, mp |-> FALSE]}
    BY DEF ForeignEdit
  <2>2. [uid |-> uids + 1, text |-> texts + 1, approved |-> FALSE, mp |-> FALSE] \in Copy
    BY Bounds DEF Shape, FolderShape, PastShape, ForeignEdit, Copy, Uids, Texts
  <2>3. uids < MaxUid /\ flagged' = flagged /\ uids' = uids + 1
    BY DEF ForeignEdit
  <2>4. {c} \in SUBSET Visible
    BY <2>1
  <2> QED
    BY <2>1, <2>2, <2>3, <2>4, FolderGains DEF Shape
<1>2. LocalShape'
  BY LocalStays DEF Shape, ForeignEdit
<1>3. TaskShape'
  BY TaskStays DEF Shape, ForeignEdit
<1>4. PastShape'
  <2>1. texts + 1 \in Texts
    BY Bounds DEF Shape, PastShape, ForeignEdit, Texts
  <2>2. gone' \subseteq Texts
    BY InFolder, CopyFields DEF Shape, PastShape, FolderShape, ForeignEdit
  <2> QED
    BY <2>1, <2>2 DEF Shape, PastShape, ForeignEdit
<1> QED
  BY <1>1, <1>2, <1>3, <1>4 DEF Shape

LEMMA ForeignDeleteShape ==
    ASSUME Shape, ForeignDelete
    PROVE  Shape'
<1>1. FolderShape'
  BY FolderLoses DEF Shape, ForeignDelete, LetGo
<1>2. LocalShape'
  BY LocalStays DEF Shape, ForeignDelete
<1>3. TaskShape'
  BY TaskStays DEF Shape, ForeignDelete
<1>4. PastShape'
  <2>1. gone' \subseteq Texts
    BY InFolder, TextsOfCopies DEF Shape, PastShape, ForeignDelete, LetGo
  <2> QED
    BY <2>1 DEF Shape, PastShape, ForeignDelete, LetGo, typed
<1> QED
  BY <1>1, <1>2, <1>3, <1>4 DEF Shape

LEMMA ForeignSendShape ==
    ASSUME Shape, ForeignSend
    PROVE  Shape'
<1>1. FolderShape'
  BY FolderLoses DEF Shape, ForeignSend, LetGo
<1>2. LocalShape'
  BY LocalStays DEF Shape, ForeignSend
<1>3. TaskShape'
  BY TaskStays DEF Shape, ForeignSend
<1>4. PastShape'
  <2>1. gone' \subseteq Texts
    BY InFolder, TextsOfCopies DEF Shape, PastShape, ForeignSend, LetGo
  <2> QED
    BY <2>1 DEF Shape, PastShape, ForeignSend, LetGo, typed
<1> QED
  BY <1>1, <1>2, <1>3, <1>4 DEF Shape

-----------------------------------------------------------------------------
(* A push, and the delete a discard or a send owes. *)

LEMMA PushSearchShape ==
    ASSUME Shape, NEW m \in Machines, PushSearch(m)
    PROVE  Shape'
<1>1. FolderShape'
  BY FolderStays DEF Shape, PushSearch
<1>2. LocalShape'
  BY LocalStays DEF Shape, PushSearch
<1>3. TaskShape'
  <2> DEFINE j == [NoJob EXCEPT !.seen = UidsOf(Visible), !.row = row[m], !.file = file[m]]
  <2>1. UidsOf(Visible) \in SUBSET Uids
    BY InFolder, UidsAreUids DEF Shape
  <2>2. row[m] \in Row \cup {None} /\ file[m] \in File
    BY DEF Shape, LocalShape, PushSearch
  <2>3. j \in Job /\ j.file = file[m]
    BY <2>1, <2>2 DEF Job, NoJob
  <2>4. Begin(m, "append", j)
    BY DEF PushSearch
  <2> HIDE DEF j
  <2> QED
    BY <2>2, <2>3, <2>4, Staged DEF Shape, Stages
<1>4. PastShape'
  BY PastStays DEF Shape, PushSearch
<1> QED
  BY <1>1, <1>2, <1>3, <1>4 DEF Shape

LEMMA PushAppendShape ==
    ASSUME Shape, NEW m \in Machines, PushAppend(m)
    PROVE  Shape'
<1>1. FolderShape'
  <2> DEFINE c == [uid |-> uids + 1, text |-> job[m].file.text,
                  approved |-> job[m].file.approved, mp |-> TRUE]
  <2>1. job[m].file \in File
    BY DEF Shape, TaskShape, PushAppend, Holding
  <2>2. c \in Copy /\ c.uid = uids + 1
    BY <2>1, Bounds, FileUpdates DEF Shape, FolderShape, PushAppend, Copy, Uids
  <2>3. /\ uids < MaxUid /\ flagged' = flagged /\ uids' = uids + 1
        /\ copies' = (copies \ {}) \cup {c}
    BY DEF PushAppend
  <2>4. {} \in SUBSET Visible
    OBVIOUS
  <2> HIDE DEF c
  <2> QED
    BY <2>2, <2>3, <2>4, FolderGains DEF Shape
<1>2. LocalShape'
  BY LocalStays DEF Shape, PushAppend
<1>3. TaskShape'
  <2>1. job[m] \in Job /\ job[m].file \in File
    BY DEF Shape, TaskShape, PushAppend, Holding
  <2> QED
    BY <2>1, Staged DEF Shape, PushAppend, Stages
<1>4. PastShape'
  BY PastStays DEF Shape, PushAppend
<1> QED
  BY <1>1, <1>2, <1>3, <1>4 DEF Shape

LEMMA PushReadBackShape ==
    ASSUME Shape, NEW m \in Machines, PushReadBack(m)
    PROVE  Shape'
<1>1. FolderShape'
  BY FolderStays DEF Shape, PushReadBack
<1>2. LocalShape'
  BY LocalStays DEF Shape, PushReadBack
<1>3. TaskShape'
  <2> DEFINE after == UidsOf(Visible)
           fresh == after \ job[m].seen
           found == Max(IF fresh # {} THEN fresh ELSE after)
           j == [job[m] EXCEPT !.held = {found}]
  <2>1. CASE after = {}
    BY <2>1, Ending DEF Shape, PushReadBack
  <2>2. CASE after # {}
    <3>1. after \subseteq UidsOf(copies) /\ after \subseteq Uids
      BY InFolder, UidsAreUids DEF Shape, UidsOf
    <3>2. found \in Uids
      <4> DEFINE S == IF fresh # {} THEN fresh ELSE after
      <4>1. S \in SUBSET UidsOf(copies) /\ S # {} /\ S \subseteq Uids
        BY <2>2, <3>1
      <4>2. Max(S) \in S
        BY <4>1, Newest DEF Shape
      <4> QED
        BY <4>1, <4>2
    <3>3. job[m] \in Job /\ job[m].file \in File
      BY DEF Shape, TaskShape, PushReadBack, Holding
    <3>4. Begin(m, "replace", j)
      BY <2>2 DEF PushReadBack
    <3> HIDE DEF found
    <3>5. j \in Job /\ j.file = job[m].file /\ j.held = {found}
      <4>1. {found} \in SUBSET Uids
        BY <3>2
      <4> QED
        BY <3>3, <4>1, HeldUpdated
    <3> QED
      BY <3>2, <3>3, <3>4, <3>5, Staged DEF Shape, Stages
  <2> QED
    BY <2>1, <2>2
<1>4. PastShape'
  BY DEF Shape, PastShape, PushReadBack, typed, history
<1> QED
  BY <1>1, <1>2, <1>3, <1>4 DEF Shape

LEMMA PushReplaceShape ==
    ASSUME Shape, NEW m \in Machines, PushReplace(m)
    PROVE  Shape'
<1>1. FolderShape'
  <2>1. uids' = uids
    BY DEF PushReplace
  <2> QED
    BY <2>1, FolderLoses, FolderStays DEF Shape, PushReplace, folder
<1>2. LocalShape'
  <2>1. Max(job[m].held) \in Uids
    BY NewestOfOne DEF Shape, TaskShape, PushReplace
  <2>2. PushedHash(m) \in File
    BY DEF Shape, TaskShape, PushReplace, PushedHash, Holding
  <2>3. [uid |-> Max(job[m].held), hash |-> PushedHash(m)] \in Row
    BY <2>1, <2>2 DEF Row
  <2>4. row' \in [Machines -> Row \cup {None}]
    BY <2>3 DEF Shape, LocalShape, PushReplace, Recorded
  <2> QED
    BY <2>4 DEF Shape, LocalShape, PushReplace
<1>3. TaskShape'
  BY Ending DEF Shape, PushReplace
<1>4. PastShape'
  BY DEF Shape, PastShape, PushReplace, typed, history
<1> QED
  BY <1>1, <1>2, <1>3, <1>4 DEF Shape

LEMMA DrainDeleteShape ==
    ASSUME Shape, NEW m \in Machines, DrainDelete(m)
    PROVE  Shape'
<1>1. FolderShape'
  BY FolderLoses DEF Shape, DrainDelete, LetGo
<1>2. LocalShape'
  BY DEF Shape, LocalShape, DrainDelete, local
<1>3. TaskShape'
  BY TaskStays DEF Shape, DrainDelete
<1>4. PastShape'
  <2>1. gone' \subseteq Texts
    BY InFolder, TextsOfCopies DEF Shape, PastShape, DrainDelete, LetGo
  <2> QED
    BY <2>1 DEF Shape, PastShape, DrainDelete, LetGo, typed
<1> QED
  BY <1>1, <1>2, <1>3, <1>4 DEF Shape
-----------------------------------------------------------------------------
(* A reconcile. *)

(* The uid of a copy, recorded with a file, is a row.                        *)
LEMMA RecordedIsRow ==
    ASSUME LocalShape, NEW m \in Machines, NEW u \in Uids, NEW f \in File, Recorded(m, u, f)
    PROVE  row' \in [Machines -> Row \cup {None}]
<1>1. [uid |-> u, hash |-> f] \in Row
  BY DEF Row
<1> QED
  BY <1>1 DEF LocalShape, Recorded

(* A reconcile that dooms copies is left with their UIDs.                    *)
LEMMA ThenDoomShape ==
    ASSUME TaskShape, NEW m \in Machines, NEW S \in SUBSET Uids, ThenDoom(m, S)
    PROVE  TaskShape'
<1>1. CASE S = {}
  BY <1>1, Ending DEF ThenDoom
<1>2. CASE S # {}
  <2>1. [NoJob EXCEPT !.held = S] \in Job
    BY JobUpdates
  <2>2. Begin(m, "doom", [NoJob EXCEPT !.held = S])
    BY <1>2 DEF ThenDoom
  <2> QED
    BY <2>1, <2>2, Staged DEF Stages, Holding
<1> QED
  BY <1>1, <1>2

(* What a reconcile keeps aside is retired.                                  *)
LEMMA KeptAsideIsRetired ==
    ASSUME FolderShape, NEW S
    PROVE  KeptAside(At(S)) \subseteq Retired
<1>1. \A c \in At(S) : c \in Copy
  BY InFolder DEF FolderShape
<1> QED
  BY <1>1, CopyFields DEF KeptAside, Retired

LEMMA ReconcileSkipsShape ==
    ASSUME Shape, NEW m \in Machines, ReconcileSkips(m)
    PROVE  Shape'
<1>1. FolderShape'
  BY FolderStays DEF Shape, ReconcileSkips
<1>2. LocalShape'
  BY DEF Shape, LocalShape, ReconcileSkips, local
<1>3. TaskShape'
  BY TaskStays DEF Shape, ReconcileSkips
<1>4. PastShape'
  BY PastStays DEF Shape, ReconcileSkips
<1> QED
  BY <1>1, <1>2, <1>3, <1>4 DEF Shape

LEMMA ReconcileCopyGoneShape ==
    ASSUME Shape, NEW m \in Machines, ReconcileCopyGone(m)
    PROVE  Shape'
<1>1. FolderShape'
  BY FolderStays DEF Shape, ReconcileCopyGone
<1>2. LocalShape'
  <2>1. [file |-> file[m], why |-> "gone"] \in Retired
    BY DEF Shape, LocalShape, ReconcileCopyGone, Retired
  <2>2. /\ file' \in [Machines -> File \cup {None}]
        /\ row' \in [Machines -> Row \cup {None}]
    BY DEF Shape, LocalShape, ReconcileCopyGone
  <2>3. retired' \in [Machines -> SUBSET Retired]
    BY <2>1 DEF Shape, LocalShape, ReconcileCopyGone
  <2> QED
    BY <2>2, <2>3 DEF Shape, LocalShape, ReconcileCopyGone
<1>3. TaskShape'
  BY TaskStays DEF Shape, ReconcileCopyGone
<1>4. PastShape'
  BY PastStays DEF Shape, ReconcileCopyGone
<1> QED
  BY <1>1, <1>2, <1>3, <1>4 DEF Shape

LEMMA ReconcileOpenShape ==
    ASSUME Shape, NEW m \in Machines, ReconcileOpen(m)
    PROVE  Shape'
<1>1. FolderShape'
  BY FolderStays DEF Shape, ReconcileOpen
<1>2. LocalShape'
  BY LocalStays DEF Shape, ReconcileOpen
<1>3. TaskShape'
  <2> DEFINE j == [NoJob EXCEPT !.seen = UidsOf(Visible), !.row = row[m], !.file = file[m]]
  <2>1. UidsOf(Visible) \in SUBSET Uids
    BY InFolder, UidsAreUids DEF Shape
  <2>2. row[m] \in Row \cup {None} /\ file[m] \in File
    BY DEF Shape, LocalShape, ReconcileOpen
  <2>3. j \in Job /\ j.file = file[m]
    BY <2>1, <2>2 DEF Job, NoJob
  <2>4. Begin(m, "settle", j)
    BY DEF ReconcileOpen
  <2> HIDE DEF j
  <2> QED
    BY <2>2, <2>3, <2>4, Staged DEF Shape, Stages
<1>4. PastShape'
  BY PastStays DEF Shape, ReconcileOpen
<1> QED
  BY <1>1, <1>2, <1>3, <1>4 DEF Shape

(* A pull leaves the file, its row and the conflict copies in shape.         *)
LEMMA PullIntoShape ==
    ASSUME Shape, NEW m \in Machines, pc[m] = "settle", NEW c \in Copy,
           NEW beside \in SUBSET Texts, PullInto(m, c, beside)
    PROVE  /\ file' \in [Machines -> File \cup {None}]
           /\ row' \in [Machines -> Row \cup {None}]
           /\ conflicts' \subseteq Texts
<1> DEFINE f == job[m].file
<1>1. f \in File /\ c.uid \in Uids
  BY CopyFields DEF Shape, TaskShape, Holding
<1>2. CASE Recorded(m, c.uid, f) /\ conflicts' = conflicts \cup beside /\ UNCHANGED file
  BY <1>1, <1>2, RecordedIsRow DEF Shape, LocalShape
<1>3. CASE conflicts' = conflicts \cup beside /\ UNCHANGED <<file, row>>
  BY <1>3 DEF Shape, LocalShape
<1>4. ASSUME NEW exact \in Faithful,
             file' = [file EXCEPT ![m] = Pulled(f, c, exact)],
             Recorded(m, c.uid, Pulled(f, c, exact)),
             conflicts' = conflicts \cup beside \cup Aside(job[m])
      PROVE  /\ file' \in [Machines -> File \cup {None}]
             /\ row' \in [Machines -> Row \cup {None}]
             /\ conflicts' \subseteq Texts
  <2>1. Pulled(f, c, exact) \in File
    BY PulledIsFile, FlagsAssumption DEF FlagsAssumption
  <2>2. Aside(job[m]) \subseteq Texts
    BY <1>1, FileUpdates DEF Aside
  <2>3. row' \in [Machines -> Row \cup {None}]
    BY <1>1, <1>4, <2>1, RecordedIsRow DEF Shape
  <2> QED
    BY <1>4, <2>1, <2>2, <2>3 DEF Shape, LocalShape
<1> QED
  BY <1>2, <1>3, <1>4 DEF PullInto

LEMMA ReconcileSettleShape ==
    ASSUME Shape, NEW m \in Machines, ReconcileSettle(m)
    PROVE  Shape'
<1>1. FolderShape'
  BY FolderStays DEF Shape, ReconcileSettle
<1>2. LocalShape'
  <2> DEFINE newest == Max(job[m].seen)
           older == job[m].seen \ {newest}
           c == CHOOSE d \in copies : d.uid = newest
  <2>1. Theirs(m, older) \in SUBSET Texts
    BY InFolder, TextsOfCopies DEF Shape, Theirs
  <2>2. At({newest}) # {} => c \in Copy /\ c.uid = newest
    BY DEF Shape, FolderShape, At
  <2>3. job[m].file \in File /\ pc[m] = "settle"
    BY DEF Shape, TaskShape, ReconcileSettle, Holding
  <2> DEFINE Pieces == /\ file' \in [Machines -> File \cup {None}]
                       /\ row' \in [Machines -> Row \cup {None}]
                       /\ conflicts' \subseteq Texts
  <2> HIDE DEF newest, older, c
  <2>4. ASSUME UNCHANGED <<file, conflicts, row>> PROVE Pieces
    BY <2>4 DEF Shape, LocalShape
  <2>5. ASSUME conflicts' = conflicts \cup Theirs(m, older), UNCHANGED <<file, row>>
        PROVE  Pieces
    BY <2>1, <2>5 DEF Shape, LocalShape
  <2>6. ASSUME At({newest}) # {}, Recorded(m, newest, job[m].file),
               conflicts' = conflicts \cup Theirs(m, older), UNCHANGED file
        PROVE  Pieces
    <3>1. newest \in Uids
      BY <2>2, <2>6, CopyFields
    <3>2. row' \in [Machines -> Row \cup {None}]
      BY <2>3, <2>6, <3>1, RecordedIsRow DEF Shape
    <3> QED
      BY <2>1, <2>6, <3>2 DEF Shape, LocalShape
  <2>7. ASSUME At({newest}) # {}, PullInto(m, c, Theirs(m, older)) PROVE Pieces
    BY <2>1, <2>2, <2>3, <2>7, PullIntoShape
  <2>8. Pieces
    <3> HIDE DEF Pieces
    <3> QED
      BY <2>4, <2>5, <2>6, <2>7 DEF ReconcileSettle, newest, older, c
  <2>9. absent' \in [Machines -> {"no", "copy", "file"}] /\ UNCHANGED <<retired, owes, flying>>
    BY DEF Shape, LocalShape, ReconcileSettle
  <2> QED
    BY <2>8, <2>9 DEF Shape, LocalShape
<1>3. TaskShape'
  <2>1. CASE Ended(m)
    BY <2>1, Ending DEF Shape
  <2>2. ASSUME NEW S, ThenDoom(m, UidsOf(At(S))) PROVE TaskShape'
    <3>1. UidsOf(At(S)) \in SUBSET Uids
      BY InFolder, UidsAreUids DEF Shape
    <3> QED
      BY <2>2, <3>1, ThenDoomShape DEF Shape
  <2> QED
    BY <2>1, <2>2 DEF ReconcileSettle
<1>4. PastShape'
  BY PastStays DEF Shape, ReconcileSettle
<1> QED
  BY <1>1, <1>2, <1>3, <1>4 DEF Shape

LEMMA ReconcileMissingShape ==
    ASSUME Shape, NEW m \in Machines, ReconcileMissing(m)
    PROVE  Shape'
<1>1. FolderShape'
  BY FolderStays DEF Shape, ReconcileMissing
<1>2. LocalShape'
  <2>1. row' \in [Machines -> Row \cup {None}]
    BY DEF Shape, LocalShape, ReconcileMissing
  <2>2. absent' \in [Machines -> {"no", "copy", "file"}]
    BY DEF Shape, LocalShape, ReconcileMissing
  <2> QED
    BY <2>1, <2>2 DEF Shape, LocalShape, ReconcileMissing
<1>3. TaskShape'
  <2> DEFINE claimed == IF HandRemoved(m) THEN Named(row[m]) ELSE {}
           rest == UidsOf(Visible) \ claimed
           doomed == IF Again(m, "file") THEN claimed ELSE {}
  <2>1. UidsOf(Visible) \subseteq Uids
    BY InFolder, UidsAreUids DEF Shape
  <2>2. rest \in SUBSET Uids /\ doomed \in SUBSET Uids
    BY <2>1 DEF HandRemoved
  <2>3. Begin(m, "missing", [NoJob EXCEPT !.seen = rest, !.held = doomed])
    BY DEF ReconcileMissing
  <2> HIDE DEF rest, doomed
  <2>4. [NoJob EXCEPT !.seen = rest, !.held = doomed] \in Job
    BY <2>2, JobUpdates
  <2> QED
    BY <2>3, <2>4, Staged DEF Shape, Stages, Holding
<1>4. PastShape'
  BY PastStays DEF Shape, ReconcileMissing
<1> QED
  BY <1>1, <1>2, <1>3, <1>4 DEF Shape

LEMMA ReviveShape ==
    ASSUME Shape, NEW m \in Machines, NEW c \in copies, NEW r \in retired[m], Revive(m, r, c)
    PROVE  /\ file' \in [Machines -> File \cup {None}]
           /\ retired' \in [Machines -> SUBSET Retired]
           /\ row' \in [Machines -> Row \cup {None}]
           /\ gone' \subseteq Texts
<1>1. PICK exact \in Faithful :
        LET f == IF WrittenFrom(c, r.file) THEN r.file ELSE Pulled(r.file, c, exact)
        IN  /\ file' = [file EXCEPT ![m] = f]
            /\ Recorded(m, c.uid, f)
            /\ gone' = gone \cup ({r.file.text} \ {f.text})
  BY DEF Revive
<1> DEFINE f == IF WrittenFrom(c, r.file) THEN r.file ELSE Pulled(r.file, c, exact)
<1>2. r.file \in File /\ c \in Copy
  BY DEF Shape, LocalShape, FolderShape, Retired
<1>3. f \in File
  BY <1>2, PulledIsFile, FlagsAssumption DEF FlagsAssumption
<1>4. KeptAside(At(job[m].held)) \subseteq Retired
  BY KeptAsideIsRetired DEF Shape
<1>5. retired' \in [Machines -> SUBSET Retired]
  BY <1>4 DEF Shape, LocalShape, Revive
<1>6. row' \in [Machines -> Row \cup {None}]
  BY <1>1, <1>2, <1>3, CopyFields, RecordedIsRow DEF Shape
<1>7. gone' \subseteq Texts
  BY <1>1, <1>2, FileUpdates DEF Shape, PastShape
<1> QED
  BY <1>1, <1>3, <1>5, <1>6, <1>7 DEF Shape, LocalShape

LEMMA ImportShape ==
    ASSUME Shape, NEW m \in Machines, NEW c \in copies, Import(m, c)
    PROVE  /\ file' \in [Machines -> File \cup {None}]
           /\ retired' \in [Machines -> SUBSET Retired]
           /\ row' \in [Machines -> Row \cup {None}]
           /\ gone' \subseteq Texts
<1>1. PICK exact \in Faithful :
        LET f == Pulled([text |-> c.text, approved |-> FALSE], c, exact)
        IN  file' = [file EXCEPT ![m] = f] /\ Recorded(m, c.uid, f)
  BY DEF Import
<1> DEFINE f == Pulled([text |-> c.text, approved |-> FALSE], c, exact)
<1>2. c \in Copy
  BY DEF Shape, FolderShape
<1>3. f \in File
  BY <1>2, PulledIsFile, FlagsAssumption DEF FlagsAssumption
<1>4. KeptAside(At(job[m].held)) \subseteq Retired
  BY KeptAsideIsRetired DEF Shape
<1>5. retired' \in [Machines -> SUBSET Retired]
  BY <1>4 DEF Shape, LocalShape, Import
<1>6. row' \in [Machines -> Row \cup {None}]
  BY <1>1, <1>2, <1>3, CopyFields, RecordedIsRow DEF Shape
<1> QED
  BY <1>1, <1>3, <1>5, <1>6 DEF Shape, LocalShape, PastShape, Import

LEMMA ReconcileGatherShape ==
    ASSUME Shape, NEW m \in Machines, ReconcileGather(m)
    PROVE  Shape'
<1>1. FolderShape'
  BY FolderStays DEF Shape, ReconcileGather
<1>2. LocalShape'
  <2> DEFINE Pieces == /\ file' \in [Machines -> File \cup {None}]
                       /\ retired' \in [Machines -> SUBSET Retired]
                       /\ row' \in [Machines -> Row \cup {None}]
  <2>1. ASSUME retired' = [retired EXCEPT ![m] = @ \cup KeptAside(At(job[m].held))],
               row' = IF job[m].held = {} THEN row ELSE [row EXCEPT ![m] = None],
               UNCHANGED <<file, gone>>
        PROVE  Pieces
    <3>1. KeptAside(At(job[m].held)) \subseteq Retired
      BY KeptAsideIsRetired DEF Shape
    <3>2. retired' \in [Machines -> SUBSET Retired]
      BY <2>1, <3>1 DEF Shape, LocalShape
    <3>3. row' \in [Machines -> Row \cup {None}]
      BY <2>1 DEF Shape, LocalShape
    <3> QED
      BY <2>1, <3>2, <3>3 DEF Shape, LocalShape, PastShape
  <2>2. ASSUME NEW c \in copies, \/ \E r \in retired[m] : Revive(m, r, c)
                                 \/ Import(m, c)
        PROVE  Pieces
    BY <2>2, ReviveShape, ImportShape
  <2>3. Pieces
    <3> HIDE DEF Pieces
    <3> QED
      BY <2>1, <2>2, InFolder DEF ReconcileGather
  <2>4. absent' \in [Machines -> {"no", "copy", "file"}] /\ UNCHANGED <<conflicts, owes, flying>>
    BY DEF Shape, LocalShape, ReconcileGather
  <2> QED
    BY <2>3, <2>4 DEF Shape, LocalShape
<1>3. TaskShape'
  <2>1. job[m].held \in SUBSET Uids /\ job[m].seen \in SUBSET Uids
    BY DEF Shape, TaskShape, Job
  <2>2. \E S \in SUBSET Uids : ThenDoom(m, S)
    BY <2>1 DEF ReconcileGather
  <2> QED
    BY <2>2, ThenDoomShape DEF Shape
<1>4. PastShape'
  <2> DEFINE Pieces == gone' \subseteq Texts
  <2>1. ASSUME retired' = [retired EXCEPT ![m] = @ \cup KeptAside(At(job[m].held))],
               row' = IF job[m].held = {} THEN row ELSE [row EXCEPT ![m] = None],
               UNCHANGED <<file, gone>>
        PROVE  Pieces
    BY <2>1 DEF Shape, PastShape
  <2>2. ASSUME NEW c \in copies, \/ \E r \in retired[m] : Revive(m, r, c)
                                 \/ Import(m, c)
        PROVE  Pieces
    BY <2>2, ReviveShape, ImportShape
  <2>3. Pieces
    <3> HIDE DEF Pieces
    <3> QED
      BY <2>1, <2>2, InFolder DEF ReconcileGather
  <2> QED
    BY <2>3 DEF Shape, PastShape, ReconcileGather, typed
<1> QED
  BY <1>1, <1>2, <1>3, <1>4 DEF Shape

LEMMA ReconcileDoomShape ==
    ASSUME Shape, NEW m \in Machines, ReconcileDoom(m)
    PROVE  Shape'
<1>1. FolderShape'
  BY FolderLoses DEF Shape, ReconcileDoom, LetGo
<1>2. LocalShape'
  BY LocalStays DEF Shape, ReconcileDoom
<1>3. TaskShape'
  BY Ending DEF Shape, ReconcileDoom
<1>4. PastShape'
  <2>1. gone' \subseteq Texts
    BY InFolder, TextsOfCopies DEF Shape, PastShape, ReconcileDoom, LetGo
  <2> QED
    BY <2>1 DEF Shape, PastShape, ReconcileDoom, typed
<1> QED
  BY <1>1, <1>2, <1>3, <1>4 DEF Shape

-----------------------------------------------------------------------------
(* A send, and a task that dies. *)

LEMMA SendSearchShape ==
    ASSUME Shape, NEW m \in Machines, SendSearch(m)
    PROVE  Shape'
<1>1. FolderShape'
  BY FolderStays DEF Shape, SendSearch
<1>2. LocalShape'
  BY DEF Shape, LocalShape, SendSearch, local
<1>3. TaskShape'
  <2> DEFINE s == IF Visible = {} THEN "submit" ELSE "claim"
           j == [NoJob EXCEPT !.seen = UidsOf(Visible), !.file = file[m]]
  <2>1. UidsOf(Visible) \in SUBSET Uids
    BY InFolder, UidsAreUids DEF Shape
  <2>2. file[m] \in File \cup {None}
    BY DEF Shape, LocalShape
  <2>3. j \in Job
    BY <2>1, <2>2 DEF Job, NoJob
  <2>4. Begin(m, s, j)
    BY DEF SendSearch
  <2>5. s \in Stages /\ s \notin Holding /\ s # "replace"
    BY DEF Stages, Holding
  <2> HIDE DEF j, s
  <2> QED
    BY <2>3, <2>4, <2>5, Staged DEF Shape
<1>4. PastShape'
  BY DEF Shape, PastShape, SendSearch, typed, history
<1> QED
  BY <1>1, <1>2, <1>3, <1>4 DEF Shape

LEMMA ClaimFlagShape ==
    ASSUME Shape, NEW m \in Machines, ClaimFlag(m)
    PROVE  Shape'
<1>1. FolderShape'
  <2>1. UidsOf(At(job[m].seen)) \subseteq UidsOf(copies)
    BY InFolder DEF UidsOf
  <2> QED
    BY <2>1 DEF Shape, FolderShape, ClaimFlag, HasNewest, UidsOf
<1>2. LocalShape'
  BY LocalStays DEF Shape, ClaimFlag
<1>3. TaskShape'
  <2>1. UidsOf(At(job[m].seen)) \in SUBSET Uids
    BY InFolder, UidsAreUids DEF Shape
  <2>2. job[m] \in Job
    BY DEF Shape, TaskShape
  <2>3. [job[m] EXCEPT !.held = UidsOf(At(job[m].seen))] \in Job
    BY <2>1, <2>2, JobUpdates
  <2>4. Begin(m, "expunge", [job[m] EXCEPT !.held = UidsOf(At(job[m].seen))])
    BY DEF ClaimFlag
  <2> QED
    BY <2>3, <2>4, Staged DEF Shape, Stages, Holding
<1>4. PastShape'
  <2>1. gone' \subseteq Texts
    BY InFolder, TextsOfCopies DEF Shape, PastShape, ClaimFlag
  <2> QED
    BY <2>1 DEF Shape, PastShape, ClaimFlag, typed
<1> QED
  BY <1>1, <1>2, <1>3, <1>4 DEF Shape

LEMMA ClaimExpungeShape ==
    ASSUME Shape, NEW m \in Machines, ClaimExpunge(m)
    PROVE  Shape'
<1>1. FolderShape'
  BY FolderLoses DEF Shape, ClaimExpunge
<1>2. LocalShape'
  BY LocalStays DEF Shape, ClaimExpunge
<1>3. TaskShape'
  <2>1. job[m].file \in File \cup {None}
    BY DEF Shape, TaskShape, Job
  <2>2. [NoJob EXCEPT !.file = job[m].file] \in Job
    BY <2>1, JobUpdates
  <2>3. CASE Begin(m, "submit", [NoJob EXCEPT !.file = job[m].file])
    BY <2>2, <2>3, Staged DEF Shape, Stages, Holding
  <2>4. CASE Ended(m)
    BY <2>4, Ending DEF Shape
  <2> QED
    BY <2>3, <2>4 DEF ClaimExpunge
<1>4. PastShape'
  BY DEF Shape, PastShape, ClaimExpunge, typed, history
<1> QED
  BY <1>1, <1>2, <1>3, <1>4 DEF Shape

LEMMA SubmitShape ==
    ASSUME Shape, NEW m \in Machines, Submit(m)
    PROVE  Shape'
<1>1. FolderShape'
  BY FolderStays DEF Shape, Submit
<1>2. LocalShape'
  BY DEF Shape, LocalShape, Submit, Delivered
<1>3. TaskShape'
  <2>1. CASE Delivered(m)
    <3>1. NoJob \in Job
      BY JobUpdates
    <3> QED
      BY <2>1, <3>1, Staged DEF Shape, Delivered, Stages, Holding
  <2>2. CASE Ended(m)
    BY <2>2, Ending DEF Shape
  <2> QED
    BY <2>1, <2>2 DEF Submit
<1>4. PastShape'
  BY DEF Shape, PastShape, Submit, Delivered, typed
<1> QED
  BY <1>1, <1>2, <1>3, <1>4 DEF Shape

LEMMA ResendShape ==
    ASSUME Shape, NEW m \in Machines, Resend(m)
    PROVE  Shape'
<1>1. FolderShape'
  BY FolderStays DEF Shape, Resend
<1>2. LocalShape'
  BY DEF Shape, LocalShape, Resend, Delivered
<1>3. TaskShape'
  <2>1. CASE Delivered(m)
    <3>1. NoJob \in Job
      BY JobUpdates
    <3> QED
      BY <2>1, <3>1, Staged DEF Shape, Delivered, Stages, Holding
  <2>2. CASE UNCHANGED task
    BY <2>2, TaskStays DEF Shape
  <2> QED
    BY <2>1, <2>2 DEF Resend
<1>4. PastShape'
  BY DEF Shape, PastShape, Resend, Delivered, typed
<1> QED
  BY <1>1, <1>2, <1>3, <1>4 DEF Shape

LEMMA RetireShape ==
    ASSUME Shape, NEW m \in Machines, Retire(m)
    PROVE  Shape'
<1>1. FolderShape'
  BY FolderStays DEF Shape, Retire
<1>2. LocalShape'
  <2>1. file[m] # None => [file |-> file[m], why |-> "out"] \in Retired
    BY DEF Shape, LocalShape, Retired
  <2>2. retired' \in [Machines -> SUBSET Retired]
    BY <2>1 DEF Shape, LocalShape, Retire
  <2> QED
    BY <2>2 DEF Shape, LocalShape, Retire
<1>3. TaskShape'
  BY Ending DEF Shape, Retire
<1>4. PastShape'
  BY PastStays DEF Shape, Retire
<1> QED
  BY <1>1, <1>2, <1>3, <1>4 DEF Shape

LEMMA FaultShape ==
    ASSUME Shape, NEW m \in Machines, Fault(m)
    PROVE  Shape'
<1>1. FolderShape'
  BY FolderStays DEF Shape, Fault
<1>2. LocalShape'
  BY LocalStays DEF Shape, Fault
<1>3. TaskShape'
  BY Ending DEF Shape, Fault
<1>4. PastShape'
  BY DEF Shape, PastShape, Fault, typed, history
<1> QED
  BY <1>1, <1>2, <1>3, <1>4 DEF Shape

-----------------------------------------------------------------------------
LEMMA InitShape == Init => Shape
<1> SUFFICES ASSUME Init PROVE Shape
  OBVIOUS
<1>1. FolderShape
  <2>1. 1..0 = {}
    OBVIOUS
  <2>2. HasNewest(0)
    BY <2>1 DEF HasNewest
  <2> QED
    BY <2>2, Bounds DEF Init, FolderShape, UidsOf
<1>2. LocalShape
  <2>1. 1 \in Texts
    BY Bounds DEF Texts
  <2> QED
    BY <2>1 DEF Init, LocalShape, File
<1>3. TaskShape
  BY JobUpdates DEF Init, TaskShape, Stages, Holding
<1>4. PastShape
  BY Bounds DEF Init, PastShape, Texts
<1> QED
  BY <1>1, <1>2, <1>3, <1>4 DEF Shape

LEMMA StepShape == Shape /\ [Next]_vars => Shape'
<1> SUFFICES ASSUME Shape, [Next]_vars PROVE Shape'
  OBVIOUS
<1>1. ASSUME NEW m \in Machines PROVE
        \/ Edit(m) \/ Approve(m) \/ Discard(m) \/ RemoveByHand(m)
        \/ PushSearch(m) \/ PushAppend(m) \/ PushReadBack(m) \/ PushReplace(m)
        \/ DrainDelete(m)
        => Shape'
  BY EditShape, ApproveShape, DiscardShape, RemoveByHandShape,
     PushSearchShape, PushAppendShape, PushReadBackShape, PushReplaceShape,
     DrainDeleteShape
<1>2. ASSUME NEW m \in Machines PROVE
        \/ Reconcile(m) \/ ReconcileSettle(m) \/ ReconcileGather(m) \/ ReconcileDoom(m)
        => Shape'
  BY ReconcileSkipsShape, ReconcileCopyGoneShape, ReconcileOpenShape, ReconcileMissingShape,
     ReconcileSettleShape, ReconcileGatherShape, ReconcileDoomShape
     DEF Reconcile
<1>3. ASSUME NEW m \in Machines PROVE
        \/ SendSearch(m) \/ ClaimFlag(m) \/ ClaimExpunge(m) \/ Submit(m) \/ Resend(m)
        \/ Retire(m) \/ Fault(m)
        => Shape'
  BY SendSearchShape, ClaimFlagShape, ClaimExpungeShape, SubmitShape,
     ResendShape, RetireShape, FaultShape
<1>4. ForeignEdit \/ ForeignDelete \/ ForeignSend => Shape'
  BY ForeignEditShape, ForeignDeleteShape, ForeignSendShape
<1>5. CASE UNCHANGED vars
  BY <1>5 DEF vars, Shape, FolderShape, LocalShape, TaskShape, PastShape, UidsOf, HasNewest
<1> QED
  BY <1>1, <1>2, <1>3, <1>4, <1>5 DEF Next

(* The shape of the folder, the machines' files, their tasks and the past is *)
(* kept by every step of a machine and of the other clients.                 *)
THEOREM ShapeAlways == Spec => []Shape
  BY InitShape, StepShape, PTL DEF Spec

(* Whatever the machines, the other clients and the failures do, a copy's    *)
(* UID is one the folder handed out, a flagged message is still in it, a     *)
(* push records the UID of a copy it saw, and files, rows, retired drafts    *)
(* and conflict copies hold what a draft can hold.                           *)
THEOREM MirrorTyping == Spec => []TypeOK
  BY ShapeAlways, ShapeIsTyped, PTL

-----------------------------------------------------------------------------
(* An approval is of a text somebody reviewed, wherever the draft's text is: *)
(* in a file, in a copy mp wrote, in a retired draft a copy may bring back,  *)
(* and in the hands of a task that will write one of those.                  *)
Approval(f) == f.approved => f.text \in reviewed

FilesCleared == \A m \in Machines : file[m] # None => Approval(file[m])
CopiesCleared == \A c \in copies : Approval(c)
RetiredCleared == \A m \in Machines : \A r \in retired[m] : Approval(r.file)
JobsCleared == \A m \in Machines : pc[m] \in Holding => Approval(job[m].file)

Cleared == FilesCleared /\ CopiesCleared /\ RetiredCleared /\ JobsCleared

LEMMA FilesStay ==
    ASSUME FilesCleared, UNCHANGED <<file, reviewed>> PROVE FilesCleared'
  BY DEF FilesCleared, Approval

LEMMA CopiesGo ==
    ASSUME CopiesCleared, copies' \subseteq copies, UNCHANGED reviewed PROVE CopiesCleared'
  BY DEF CopiesCleared, Approval

LEMMA RetiredStay ==
    ASSUME RetiredCleared, UNCHANGED <<retired, reviewed>> PROVE RetiredCleared'
  BY DEF RetiredCleared, Approval

LEMMA JobsStay ==
    ASSUME JobsCleared, UNCHANGED <<task, reviewed>> PROVE JobsCleared'
  BY DEF JobsCleared, Approval, task

LEMMA JobGoesOn ==
    ASSUME TaskShape, JobsCleared, UNCHANGED reviewed,
           NEW m \in Machines, NEW s, NEW j, Begin(m, s, j),
           s \in Holding => Approval(j.file)
    PROVE  JobsCleared'
  BY DEF TaskShape, JobsCleared, Approval, Begin

LEMMA JobEnds ==
    ASSUME TaskShape, JobsCleared, UNCHANGED reviewed, NEW m \in Machines, Ended(m)
    PROVE  JobsCleared'
  BY JobGoesOn DEF Ended, Holding

LEMMA JobDooms ==
    ASSUME TaskShape, JobsCleared, UNCHANGED reviewed, NEW m \in Machines, NEW S, ThenDoom(m, S)
    PROVE  JobsCleared'
  BY JobEnds, JobGoesOn DEF ThenDoom, Holding

(* The file leaves for .retired, or is just gone.                            *)
LEMMA FileLeaves ==
    ASSUME LocalShape, FilesCleared, RetiredCleared, UNCHANGED reviewed,
           NEW m \in Machines, NEW why,
           file' = [file EXCEPT ![m] = None],
           \/ UNCHANGED retired
           \/ /\ file[m] # None
              /\ retired' = [retired EXCEPT ![m] = @ \cup {[file |-> file[m], why |-> why]}]
    PROVE  FilesCleared' /\ RetiredCleared'
<1>1. FilesCleared'
  BY DEF LocalShape, FilesCleared, Approval
<1>2. RetiredCleared'
  BY DEF LocalShape, FilesCleared, RetiredCleared, Approval
<1> QED
  BY <1>1, <1>2

-----------------------------------------------------------------------------
(* Every step keeps an approval to what was reviewed. *)

LEMMA EditClears ==
    ASSUME Shape, Cleared, NEW m \in Machines, Edit(m)
    PROVE  Cleared'
<1>1. FilesCleared'
  <2>1. file[m] \in File /\ file' = [file EXCEPT ![m] = [file[m] EXCEPT !.text = texts + 1]]
    BY DEF Shape, LocalShape, Edit
  <2>2. [file[m] EXCEPT !.text = texts + 1].text = texts + 1
        /\ [file[m] EXCEPT !.text = texts + 1].approved = file[m].approved
    BY <2>1 DEF File
  <2> QED
    BY <2>1, <2>2 DEF Shape, LocalShape, Cleared, FilesCleared, Approval, Edit
<1>2. CopiesCleared'
  BY DEF Cleared, CopiesCleared, Approval, Edit, folder
<1>3. RetiredCleared'
  BY DEF Cleared, RetiredCleared, Approval, Edit
<1>4. JobsCleared'
  BY DEF Cleared, JobsCleared, Approval, Edit, task
<1> QED
  BY <1>1, <1>2, <1>3, <1>4 DEF Cleared

LEMMA ApproveClears ==
    ASSUME Shape, Cleared, NEW m \in Machines, Approve(m)
    PROVE  Cleared'
<1>1. FilesCleared'
  <2>1. file[m] \in File /\ file' = [file EXCEPT ![m] = [file[m] EXCEPT !.approved = TRUE]]
    BY DEF Shape, LocalShape, Approve
  <2>2. [file[m] EXCEPT !.approved = TRUE].text = file[m].text
    BY <2>1 DEF File
  <2> QED
    BY <2>1, <2>2 DEF Shape, LocalShape, Cleared, FilesCleared, Approval, Approve
<1>2. CopiesCleared'
  BY DEF Cleared, CopiesCleared, Approval, Approve, folder
<1>3. RetiredCleared'
  BY DEF Cleared, RetiredCleared, Approval, Approve
<1>4. JobsCleared'
  BY DEF Cleared, JobsCleared, Approval, Approve, task
<1> QED
  BY <1>1, <1>2, <1>3, <1>4 DEF Cleared

LEMMA DiscardClears ==
    ASSUME Shape, Cleared, NEW m \in Machines, Discard(m)
    PROVE  Cleared'
<1>1. FilesCleared'
  BY FileLeaves DEF Shape, Cleared, Discard, typed
<1>2. CopiesCleared'
  BY CopiesGo DEF Cleared, Discard, folder, typed
<1>3. RetiredCleared'
  BY FileLeaves DEF Shape, Cleared, Discard, typed
<1>4. JobsCleared'
  BY JobsStay DEF Cleared, Discard, typed
<1> QED
  BY <1>1, <1>2, <1>3, <1>4 DEF Cleared

LEMMA RemoveByHandClears ==
    ASSUME Shape, Cleared, NEW m \in Machines, RemoveByHand(m)
    PROVE  Cleared'
<1>1. FilesCleared'
  BY FileLeaves DEF Shape, Cleared, RemoveByHand, typed
<1>2. CopiesCleared'
  BY CopiesGo DEF Cleared, RemoveByHand, folder, typed
<1>3. RetiredCleared'
  BY FileLeaves DEF Shape, Cleared, RemoveByHand, typed
<1>4. JobsCleared'
  BY JobsStay DEF Cleared, RemoveByHand, typed
<1> QED
  BY <1>1, <1>2, <1>3, <1>4 DEF Cleared

LEMMA ForeignEditClears ==
    ASSUME Shape, Cleared, ForeignEdit
    PROVE  Cleared'
<1>1. FilesCleared'
  BY FilesStay DEF Cleared, ForeignEdit, typed, local
<1>2. CopiesCleared'
  <2>1. PICK c \in Visible :
          copies' = (copies \ {c}) \cup
              {[uid |-> uids + 1, text |-> texts + 1, approved |-> FALSE, mp |-> FALSE]}
    BY DEF ForeignEdit
  <2> QED
    BY <2>1 DEF Cleared, CopiesCleared, Approval, ForeignEdit
<1>3. RetiredCleared'
  BY RetiredStay DEF Cleared, ForeignEdit, typed, local
<1>4. JobsCleared'
  BY JobsStay DEF Cleared, ForeignEdit, typed
<1> QED
  BY <1>1, <1>2, <1>3, <1>4 DEF Cleared

LEMMA ForeignDeleteClears ==
    ASSUME Shape, Cleared, ForeignDelete
    PROVE  Cleared'
<1>1. FilesCleared'
  BY FilesStay DEF Cleared, ForeignDelete, typed, local
<1>2. CopiesCleared'
  BY CopiesGo DEF Cleared, ForeignDelete, LetGo, Without, typed
<1>3. RetiredCleared'
  BY RetiredStay DEF Cleared, ForeignDelete, typed, local
<1>4. JobsCleared'
  BY JobsStay DEF Cleared, ForeignDelete, typed
<1> QED
  BY <1>1, <1>2, <1>3, <1>4 DEF Cleared

LEMMA ForeignSendClears ==
    ASSUME Shape, Cleared, ForeignSend
    PROVE  Cleared'
<1>1. FilesCleared'
  BY FilesStay DEF Cleared, ForeignSend, typed, local
<1>2. CopiesCleared'
  BY CopiesGo DEF Cleared, ForeignSend, LetGo, Without, typed
<1>3. RetiredCleared'
  BY RetiredStay DEF Cleared, ForeignSend, typed, local
<1>4. JobsCleared'
  BY JobsStay DEF Cleared, ForeignSend, typed
<1> QED
  BY <1>1, <1>2, <1>3, <1>4 DEF Cleared

LEMMA PushSearchClears ==
    ASSUME Shape, Cleared, NEW m \in Machines, PushSearch(m)
    PROVE  Cleared'
<1>1. FilesCleared'
  BY FilesStay DEF Cleared, PushSearch, typed, local
<1>2. CopiesCleared'
  BY CopiesGo DEF Cleared, PushSearch, folder, typed
<1>3. RetiredCleared'
  BY RetiredStay DEF Cleared, PushSearch, typed, local
<1>4. JobsCleared'
  <2> DEFINE j == [NoJob EXCEPT !.seen = UidsOf(Visible), !.row = row[m], !.file = file[m]]
  <2>1. j.file = file[m]
    BY DEF NoJob
  <2>2. Approval(file[m])
    BY DEF Cleared, FilesCleared, PushSearch
  <2>3. Begin(m, "append", j) /\ UNCHANGED reviewed
    BY DEF PushSearch, typed
  <2> HIDE DEF j
  <2> QED
    BY <2>1, <2>2, <2>3, JobGoesOn DEF Shape, Cleared
<1> QED
  BY <1>1, <1>2, <1>3, <1>4 DEF Cleared

LEMMA PushAppendClears ==
    ASSUME Shape, Cleared, NEW m \in Machines, PushAppend(m)
    PROVE  Cleared'
<1>1. FilesCleared'
  BY FilesStay DEF Cleared, PushAppend, typed, local
<1>2. CopiesCleared'
  <2>1. Approval(job[m].file)
    BY DEF Cleared, JobsCleared, PushAppend, Holding
  <2> QED
    BY <2>1 DEF Cleared, CopiesCleared, Approval, PushAppend, typed
<1>3. RetiredCleared'
  BY RetiredStay DEF Cleared, PushAppend, typed, local
<1>4. JobsCleared'
  <2>1. Approval(job[m].file)
    BY DEF Cleared, JobsCleared, PushAppend, Holding
  <2> QED
    BY <2>1, JobGoesOn DEF Shape, Cleared, PushAppend, typed
<1> QED
  BY <1>1, <1>2, <1>3, <1>4 DEF Cleared

LEMMA PushReadBackClears ==
    ASSUME Shape, Cleared, NEW m \in Machines, PushReadBack(m)
    PROVE  Cleared'
<1>1. FilesCleared'
  BY FilesStay DEF Cleared, PushReadBack, typed, local
<1>2. CopiesCleared'
  BY CopiesGo DEF Cleared, PushReadBack, folder, typed
<1>3. RetiredCleared'
  BY RetiredStay DEF Cleared, PushReadBack, typed, local
<1>4. JobsCleared'
  <2>1. CASE Ended(m)
    BY <2>1, JobEnds DEF Shape, Cleared, PushReadBack, typed
  <2>2. ASSUME NEW S, Begin(m, "replace", [job[m] EXCEPT !.held = S]) PROVE JobsCleared'
    <3>1. [job[m] EXCEPT !.held = S].file = job[m].file
      BY DEF Shape, TaskShape, Job
    <3>2. Approval(job[m].file)
      BY DEF Cleared, JobsCleared, PushReadBack, Holding
    <3> QED
      BY <2>2, <3>1, <3>2, JobGoesOn DEF Shape, Cleared, PushReadBack, typed
  <2> QED
    BY <2>1, <2>2 DEF PushReadBack
<1> QED
  BY <1>1, <1>2, <1>3, <1>4 DEF Cleared

LEMMA PushReplaceClears ==
    ASSUME Shape, Cleared, NEW m \in Machines, PushReplace(m)
    PROVE  Cleared'
<1>1. FilesCleared'
  BY FilesStay DEF Cleared, PushReplace, typed, local
<1>2. CopiesCleared'
  BY CopiesGo DEF Cleared, PushReplace, Without, typed
<1>3. RetiredCleared'
  BY RetiredStay DEF Cleared, PushReplace, typed, local
<1>4. JobsCleared'
  BY JobEnds DEF Shape, Cleared, PushReplace, typed
<1> QED
  BY <1>1, <1>2, <1>3, <1>4 DEF Cleared

LEMMA DrainDeleteClears ==
    ASSUME Shape, Cleared, NEW m \in Machines, DrainDelete(m)
    PROVE  Cleared'
<1>1. FilesCleared'
  BY FilesStay DEF Cleared, DrainDelete, typed, local
<1>2. CopiesCleared'
  BY CopiesGo DEF Cleared, DrainDelete, LetGo, Without, typed
<1>3. RetiredCleared'
  BY RetiredStay DEF Cleared, DrainDelete, typed, local
<1>4. JobsCleared'
  BY JobsStay DEF Cleared, DrainDelete, typed
<1> QED
  BY <1>1, <1>2, <1>3, <1>4 DEF Cleared

LEMMA ReconcileSkipsClears ==
    ASSUME Shape, Cleared, NEW m \in Machines, ReconcileSkips(m)
    PROVE  Cleared'
<1>1. FilesCleared'
  BY FilesStay DEF Cleared, ReconcileSkips, typed, local
<1>2. CopiesCleared'
  BY CopiesGo DEF Cleared, ReconcileSkips, folder, typed
<1>3. RetiredCleared'
  BY RetiredStay DEF Cleared, ReconcileSkips, typed, local
<1>4. JobsCleared'
  BY JobsStay DEF Cleared, ReconcileSkips, typed
<1> QED
  BY <1>1, <1>2, <1>3, <1>4 DEF Cleared

LEMMA ReconcileCopyGoneClears ==
    ASSUME Shape, Cleared, NEW m \in Machines, ReconcileCopyGone(m)
    PROVE  Cleared'
<1>1. FilesCleared'
  <2>1. CASE Again(m, "copy")
    BY <2>1, FileLeaves DEF Shape, Cleared, ReconcileCopyGone, typed
  <2>2. CASE ~Again(m, "copy")
    BY <2>2, FilesStay DEF Cleared, ReconcileCopyGone, typed
  <2> QED
    BY <2>1, <2>2
<1>2. CopiesCleared'
  BY CopiesGo DEF Cleared, ReconcileCopyGone, folder, typed
<1>3. RetiredCleared'
  <2>1. CASE Again(m, "copy")
    BY <2>1, FileLeaves DEF Shape, Cleared, ReconcileCopyGone, typed
  <2>2. CASE ~Again(m, "copy")
    BY <2>2, RetiredStay DEF Cleared, ReconcileCopyGone, typed
  <2> QED
    BY <2>1, <2>2
<1>4. JobsCleared'
  BY JobsStay DEF Cleared, ReconcileCopyGone, typed
<1> QED
  BY <1>1, <1>2, <1>3, <1>4 DEF Cleared

LEMMA ReconcileOpenClears ==
    ASSUME Shape, Cleared, NEW m \in Machines, ReconcileOpen(m)
    PROVE  Cleared'
<1>1. FilesCleared'
  BY FilesStay DEF Cleared, ReconcileOpen, typed, local
<1>2. CopiesCleared'
  BY CopiesGo DEF Cleared, ReconcileOpen, folder, typed
<1>3. RetiredCleared'
  BY RetiredStay DEF Cleared, ReconcileOpen, typed, local
<1>4. JobsCleared'
  <2> DEFINE j == [NoJob EXCEPT !.seen = UidsOf(Visible), !.row = row[m], !.file = file[m]]
  <2>1. j.file = file[m]
    BY DEF NoJob
  <2>2. Approval(file[m])
    BY DEF Cleared, FilesCleared, ReconcileOpen
  <2>3. Begin(m, "settle", j) /\ UNCHANGED reviewed
    BY DEF ReconcileOpen, typed
  <2> HIDE DEF j
  <2> QED
    BY <2>1, <2>2, <2>3, JobGoesOn DEF Shape, Cleared
<1> QED
  BY <1>1, <1>2, <1>3, <1>4 DEF Cleared

(* A pull of a cleared copy leaves a cleared file: it keeps the approval of   *)
(* the copy, never that of the file it writes over.                          *)
LEMMA PullClears ==
    ASSUME Shape, FilesCleared, UNCHANGED reviewed, NEW m \in Machines, NEW f,
           NEW c \in Copy, Approval(c), NEW exact \in Faithful,
           file' = [file EXCEPT ![m] = Pulled(f, c, exact)]
    PROVE  FilesCleared'
<1>1. Pulled(f, c, exact).text = c.text /\ (Pulled(f, c, exact).approved => c.approved)
  BY PulledIsFile, FlagsAssumption DEF FlagsAssumption
<1> QED
  BY <1>1 DEF Shape, LocalShape, FilesCleared, Approval

LEMMA ReconcileSettleClears ==
    ASSUME Shape, Cleared, NEW m \in Machines, ReconcileSettle(m)
    PROVE  Cleared'
<1>1. FilesCleared'
  <2> DEFINE newest == Max(job[m].seen)
           older == job[m].seen \ {newest}
           c == CHOOSE d \in copies : d.uid = newest
  <2>1. UNCHANGED reviewed
    BY DEF ReconcileSettle, typed
  <2>2. ASSUME UNCHANGED file PROVE FilesCleared'
    BY <2>1, <2>2, FilesStay DEF Cleared
  <2>3. ASSUME At({newest}) # {}, PullInto(m, c, Theirs(m, older)) PROVE FilesCleared'
    <3>1. c \in copies
      BY <2>3 DEF At
    <3>2. c \in Copy /\ Approval(c)
      BY <3>1 DEF Shape, FolderShape, Cleared, CopiesCleared
    <3>3. \/ UNCHANGED file
          \/ \E exact \in Faithful : file' = [file EXCEPT ![m] = Pulled(job[m].file, c, exact)]
      BY <2>3 DEF PullInto
    <3> HIDE DEF c
    <3> QED
      BY <2>1, <2>2, <3>2, <3>3, PullClears DEF Cleared
  <2> QED
    BY <2>2, <2>3 DEF ReconcileSettle
<1>2. CopiesCleared'
  BY CopiesGo DEF Cleared, ReconcileSettle, folder, typed
<1>3. RetiredCleared'
  BY RetiredStay DEF Cleared, ReconcileSettle, typed, local
<1>4. JobsCleared'
  <2>1. UNCHANGED reviewed
    BY DEF ReconcileSettle, typed
  <2>2. Ended(m) \/ \E S : ThenDoom(m, S)
    BY DEF ReconcileSettle
  <2> QED
    BY <2>1, <2>2, JobEnds, JobDooms DEF Shape, Cleared
<1> QED
  BY <1>1, <1>2, <1>3, <1>4 DEF Cleared

LEMMA ReconcileMissingClears ==
    ASSUME Shape, Cleared, NEW m \in Machines, ReconcileMissing(m)
    PROVE  Cleared'
<1>1. FilesCleared'
  BY FilesStay DEF Cleared, ReconcileMissing, typed, local
<1>2. CopiesCleared'
  BY CopiesGo DEF Cleared, ReconcileMissing, folder, typed
<1>3. RetiredCleared'
  BY RetiredStay DEF Cleared, ReconcileMissing, typed, local
<1>4. JobsCleared'
  <2>1. UNCHANGED reviewed
    BY DEF ReconcileMissing, typed
  <2>2. \E j : Begin(m, "missing", j)
    BY DEF ReconcileMissing
  <2> QED
    BY <2>1, <2>2, JobGoesOn DEF Shape, Cleared, Holding
<1> QED
  BY <1>1, <1>2, <1>3, <1>4 DEF Cleared

(* What a reconcile keeps aside is as cleared as the copies it was.          *)
LEMMA KeptAsideIsCleared ==
    ASSUME Shape, CopiesCleared, NEW S PROVE \A r \in KeptAside(At(S)) : Approval(r.file)
<1>1. \A c \in At(S) : c \in Copy /\ Approval(c)
  BY InFolder DEF Shape, FolderShape, CopiesCleared
<1> QED
  BY <1>1, CopyFields DEF KeptAside, Approval

LEMMA ReconcileGatherClears ==
    ASSUME Shape, Cleared, NEW m \in Machines, ReconcileGather(m)
    PROVE  Cleared'
<1>1. FilesCleared'
  <2>1. UNCHANGED reviewed
    BY DEF ReconcileGather, typed
  <2>2. ASSUME UNCHANGED file PROVE FilesCleared'
    BY <2>1, <2>2, FilesStay DEF Cleared
  <2>3. ASSUME NEW c \in copies, NEW r \in retired[m], Revive(m, r, c) PROVE FilesCleared'
    <3>1. c \in Copy /\ Approval(c) /\ Approval(r.file)
      BY DEF Shape, FolderShape, Cleared, CopiesCleared, RetiredCleared
    <3>2. \/ file' = [file EXCEPT ![m] = r.file]
          \/ \E exact \in Faithful : file' = [file EXCEPT ![m] = Pulled(r.file, c, exact)]
      BY <2>3 DEF Revive
    <3>3. ASSUME file' = [file EXCEPT ![m] = r.file] PROVE FilesCleared'
      BY <2>1, <3>1, <3>3 DEF Shape, LocalShape, Cleared, FilesCleared, Approval
    <3> QED
      BY <2>1, <3>1, <3>2, <3>3, PullClears DEF Cleared
  <2>4. ASSUME NEW c \in copies, Import(m, c) PROVE FilesCleared'
    <3>1. c \in Copy /\ Approval(c)
      BY DEF Shape, FolderShape, Cleared, CopiesCleared
    <3> QED
      BY <2>1, <2>4, <3>1, PullClears DEF Cleared, Import
  <2> QED
    BY <2>2, <2>3, <2>4, InFolder DEF ReconcileGather
<1>2. CopiesCleared'
  BY CopiesGo DEF Cleared, ReconcileGather, folder, typed
<1>3. RetiredCleared'
  <2>1. UNCHANGED reviewed
    BY DEF ReconcileGather, typed
  <2> DEFINE aside == KeptAside(At(job[m].held))
  <2>2. \A r \in aside : Approval(r.file)
    BY KeptAsideIsCleared DEF Cleared
  <2>3. \E kept \in SUBSET retired[m] : retired' = [retired EXCEPT ![m] = kept \cup aside]
    BY DEF ReconcileGather, Revive, Import
  <2> HIDE DEF aside
  <2> QED
    BY <2>1, <2>2, <2>3 DEF Shape, LocalShape, Cleared, RetiredCleared, Approval
<1>4. JobsCleared'
  <2>1. UNCHANGED reviewed
    BY DEF ReconcileGather, typed
  <2>2. \E S : ThenDoom(m, S)
    BY DEF ReconcileGather
  <2> QED
    BY <2>1, <2>2, JobDooms DEF Shape, Cleared
<1> QED
  BY <1>1, <1>2, <1>3, <1>4 DEF Cleared

LEMMA ReconcileDoomClears ==
    ASSUME Shape, Cleared, NEW m \in Machines, ReconcileDoom(m)
    PROVE  Cleared'
<1>1. FilesCleared'
  BY FilesStay DEF Cleared, ReconcileDoom, typed, local
<1>2. CopiesCleared'
  BY CopiesGo DEF Cleared, ReconcileDoom, LetGo, Without, typed
<1>3. RetiredCleared'
  BY RetiredStay DEF Cleared, ReconcileDoom, typed, local
<1>4. JobsCleared'
  BY JobEnds DEF Shape, Cleared, ReconcileDoom, typed
<1> QED
  BY <1>1, <1>2, <1>3, <1>4 DEF Cleared

LEMMA SendSearchClears ==
    ASSUME Shape, Cleared, NEW m \in Machines, SendSearch(m)
    PROVE  Cleared'
<1>1. FilesCleared'
  BY FilesStay DEF Cleared, SendSearch, typed, local
<1>2. CopiesCleared'
  BY CopiesGo DEF Cleared, SendSearch, folder, typed
<1>3. RetiredCleared'
  BY RetiredStay DEF Cleared, SendSearch, typed, local
<1>4. JobsCleared'
  <2>1. UNCHANGED reviewed
    BY DEF SendSearch, typed
  <2>2. \E s \in {"submit", "claim"} : \E j : Begin(m, s, j)
    BY DEF SendSearch, Delivered, Ended
  <2> QED
    BY <2>1, <2>2, JobGoesOn DEF Shape, Cleared, Holding
<1> QED
  BY <1>1, <1>2, <1>3, <1>4 DEF Cleared

LEMMA ClaimFlagClears ==
    ASSUME Shape, Cleared, NEW m \in Machines, ClaimFlag(m)
    PROVE  Cleared'
<1>1. FilesCleared'
  BY FilesStay DEF Cleared, ClaimFlag, typed, local
<1>2. CopiesCleared'
  BY CopiesGo DEF Cleared, ClaimFlag, folder, typed
<1>3. RetiredCleared'
  BY RetiredStay DEF Cleared, ClaimFlag, typed, local
<1>4. JobsCleared'
  <2>1. UNCHANGED reviewed
    BY DEF ClaimFlag, typed
  <2>2. \E s \in {"expunge"} : \E j : Begin(m, s, j)
    BY DEF ClaimFlag, Delivered, Ended
  <2> QED
    BY <2>1, <2>2, JobGoesOn DEF Shape, Cleared, Holding
<1> QED
  BY <1>1, <1>2, <1>3, <1>4 DEF Cleared

LEMMA ClaimExpungeClears ==
    ASSUME Shape, Cleared, NEW m \in Machines, ClaimExpunge(m)
    PROVE  Cleared'
<1>1. FilesCleared'
  BY FilesStay DEF Cleared, ClaimExpunge, typed, local
<1>2. CopiesCleared'
  BY CopiesGo DEF Cleared, ClaimExpunge, LetGo, Without, typed
<1>3. RetiredCleared'
  BY RetiredStay DEF Cleared, ClaimExpunge, typed, local
<1>4. JobsCleared'
  <2>1. UNCHANGED reviewed
    BY DEF ClaimExpunge, typed
  <2>2. \E s \in {"submit", "idle"} : \E j : Begin(m, s, j)
    BY DEF ClaimExpunge, Delivered, Ended
  <2> QED
    BY <2>1, <2>2, JobGoesOn DEF Shape, Cleared, Holding
<1> QED
  BY <1>1, <1>2, <1>3, <1>4 DEF Cleared

LEMMA SubmitClears ==
    ASSUME Shape, Cleared, NEW m \in Machines, Submit(m)
    PROVE  Cleared'
<1>1. FilesCleared'
  BY FilesStay DEF Cleared, Submit, typed, local
<1>2. CopiesCleared'
  BY CopiesGo DEF Cleared, Submit, folder, typed
<1>3. RetiredCleared'
  BY RetiredStay DEF Cleared, Submit, typed, local
<1>4. JobsCleared'
  <2>1. UNCHANGED reviewed
    BY DEF Submit, typed
  <2>2. \E s \in {"retire", "idle"} : \E j : Begin(m, s, j)
    BY DEF Submit, Delivered, Ended
  <2> QED
    BY <2>1, <2>2, JobGoesOn DEF Shape, Cleared, Holding
<1> QED
  BY <1>1, <1>2, <1>3, <1>4 DEF Cleared

LEMMA ResendClears ==
    ASSUME Shape, Cleared, NEW m \in Machines, Resend(m)
    PROVE  Cleared'
<1>1. FilesCleared'
  BY FilesStay DEF Cleared, Resend, typed, local
<1>2. CopiesCleared'
  BY CopiesGo DEF Cleared, Resend, folder, typed
<1>3. RetiredCleared'
  BY RetiredStay DEF Cleared, Resend, typed, local
<1>4. JobsCleared'
  <2>1. UNCHANGED reviewed
    BY DEF Resend, typed
  <2>2. UNCHANGED task \/ \E j : Begin(m, "retire", j)
    BY DEF Resend, Delivered
  <2> QED
    BY <2>1, <2>2, JobsStay, JobGoesOn DEF Shape, Cleared, Holding
<1> QED
  BY <1>1, <1>2, <1>3, <1>4 DEF Cleared

LEMMA RetireClears ==
    ASSUME Shape, Cleared, NEW m \in Machines, Retire(m)
    PROVE  Cleared'
<1>1. FilesCleared'
  BY FileLeaves DEF Shape, Cleared, Retire, typed
<1>2. CopiesCleared'
  BY CopiesGo DEF Cleared, Retire, folder, typed
<1>3. RetiredCleared'
  BY FileLeaves DEF Shape, Cleared, Retire, typed
<1>4. JobsCleared'
  BY JobEnds DEF Shape, Cleared, Retire, typed
<1> QED
  BY <1>1, <1>2, <1>3, <1>4 DEF Cleared

LEMMA FaultClears ==
    ASSUME Shape, Cleared, NEW m \in Machines, Fault(m)
    PROVE  Cleared'
<1>1. FilesCleared'
  BY FilesStay DEF Cleared, Fault, typed, local
<1>2. CopiesCleared'
  BY CopiesGo DEF Cleared, Fault, folder, typed
<1>3. RetiredCleared'
  BY RetiredStay DEF Cleared, Fault, typed, local
<1>4. JobsCleared'
  BY JobEnds DEF Shape, Cleared, Fault, typed
<1> QED
  BY <1>1, <1>2, <1>3, <1>4 DEF Cleared

LEMMA InitClears == Init => Cleared
<1> SUFFICES ASSUME Init PROVE Cleared
  OBVIOUS
<1>1. FilesCleared
  BY DEF Init, FilesCleared, Approval
<1>2. CopiesCleared /\ RetiredCleared
  BY DEF Init, CopiesCleared, RetiredCleared
<1>3. JobsCleared
  BY DEF Init, JobsCleared, Holding
<1> QED
  BY <1>1, <1>2, <1>3 DEF Cleared

LEMMA StepClears == Shape /\ Cleared /\ [Next]_vars => Cleared'
<1> SUFFICES ASSUME Shape, Cleared, [Next]_vars PROVE Cleared'
  OBVIOUS
<1>1. ASSUME NEW m \in Machines PROVE
        \/ Edit(m) \/ Approve(m) \/ Discard(m) \/ RemoveByHand(m)
        \/ PushSearch(m) \/ PushAppend(m) \/ PushReadBack(m) \/ PushReplace(m)
        \/ DrainDelete(m)
        => Cleared'
  BY EditClears, ApproveClears, DiscardClears, RemoveByHandClears,
     PushSearchClears, PushAppendClears, PushReadBackClears, PushReplaceClears,
     DrainDeleteClears
<1>2. ASSUME NEW m \in Machines PROVE
        \/ Reconcile(m) \/ ReconcileSettle(m) \/ ReconcileGather(m) \/ ReconcileDoom(m)
        => Cleared'
  BY ReconcileSkipsClears, ReconcileCopyGoneClears, ReconcileOpenClears, ReconcileMissingClears,
     ReconcileSettleClears, ReconcileGatherClears, ReconcileDoomClears
     DEF Reconcile
<1>3. ASSUME NEW m \in Machines PROVE
        \/ SendSearch(m) \/ ClaimFlag(m) \/ ClaimExpunge(m) \/ Submit(m) \/ Resend(m)
        \/ Retire(m) \/ Fault(m)
        => Cleared'
  BY SendSearchClears, ClaimFlagClears, ClaimExpungeClears, SubmitClears,
     ResendClears, RetireClears, FaultClears
<1>4. ForeignEdit \/ ForeignDelete \/ ForeignSend => Cleared'
  BY ForeignEditClears, ForeignDeleteClears, ForeignSendClears
<1>5. CASE UNCHANGED vars
  BY <1>5 DEF vars, Cleared, FilesCleared, CopiesCleared, RetiredCleared, JobsCleared, Approval
<1> QED
  BY <1>1, <1>2, <1>3, <1>4, <1>5 DEF Next

(* A draft file says approved only of a text some user reviewed, however     *)
(* many machines and other clients edit, approve, discard, push, pull,       *)
(* import and revive it, and whatever fails between.                         *)
THEOREM ApprovalIsReviewed == Spec => []ApprovedIsReviewed
<1>1. Cleared => ApprovedIsReviewed
  BY DEF Cleared, FilesCleared, Approval, ApprovedIsReviewed
<1> QED
  BY <1>1, ShapeAlways, InitClears, StepClears, PTL DEF Spec

-----------------------------------------------------------------------------
(* TextIsKept.  Copies go in many ways, and a text may be in several of      *)
(* them.  A text holds from a UID on when it was let go, lies where nothing  *)
(* takes it from, or is in a copy of that UID or a newer one that no task is *)
(* about to delete.                                                          *)
Laid ==
    gone \cup conflicts
    \cup UNION {TextsIn({r.file : r \in {q \in retired[m] : q.why # "gone"}}) : m \in Machines}

(* The copies a task is about to delete, but for those of a tombstone, which *)
(* go by a user's wish.                                                      *)
Replacing(m) == IF pc[m] = "replace" THEN Named(job[m].row) \ job[m].held ELSE {}
Dooming(m) ==
    IF pc[m] = "doom" /\ ~(file[m] = None /\ Tombstone(m)) THEN job[m].held ELSE {}
Doomed(u) == \E m \in Machines : u \in Replacing(m) \cup Dooming(m)
Live == {c \in Visible : ~Doomed(c.uid)}

Holds(u, x) == x \in Laid \/ \E c \in Live : c.uid >= u /\ c.text = x

(* A text of a file that is still its text, or was replaced.                 *)
Replaced(f, G, x) == x = f.text \/ x \in G

(* The folder: a UID is one copy's, what is flagged was let go, and a text   *)
(* mp wrote that a newer copy came after is in a newer one, as is that of a  *)
(* copy about to be deleted.                                                 *)
Copies ==
    /\ \A c, d \in copies : c.uid = d.uid => c = d
    /\ \A c \in copies : c.uid \in flagged => c.text \in gone
    /\ \A c \in Visible : c.mp /\ c.uid < uids => Holds(c.uid + 1, c.text)
    /\ \A c \in Visible : Doomed(c.uid) => Holds(c.uid + 1, c.text)

(* UIDs were handed out before anybody knew them.                            *)
Known(m) ==
    Named(row[m]) \cup Named(job[m].row) \cup job[m].seen \cup job[m].held \subseteq 1..uids

(* What a row says of its copy and of its file.                              *)
RowSays(m) == row[m] # None =>
    /\ \A c \in copies : c.uid = row[m].uid => c.text = row[m].hash.text
    /\ Holds(row[m].uid, row[m].hash.text)
    /\ file[m] # None => Replaced(file[m], gone, row[m].hash.text)

(* What a push, a reconcile and a claim have read may still be relied on.    *)
PushKnows(m) ==
    /\ pc[m] \in Holding /\ file[m] # None => Replaced(file[m], gone, job[m].file.text)
    /\ pc[m] \in {"append", "readback", "replace"} /\ job[m].row # None =>
          /\ Replaced(job[m].file, gone, job[m].row.hash.text)
          /\ \A c \in copies : c.uid = job[m].row.uid => c.text = job[m].row.hash.text
    /\ pc[m] = "append" => \A c \in Visible : c.mp => c.uid \in Named(job[m].row)
    /\ pc[m] = "readback" =>
          /\ \E c \in Visible : c.uid = uids /\ c.text = job[m].file.text
          /\ uids \notin job[m].seen \cup Named(job[m].row)
    /\ pc[m] = "replace" =>
          \A u \in job[m].held : /\ Holds(u, job[m].file.text)
                                 /\ \A c \in copies : c.uid = u => c.text = job[m].file.text
OthersKnow(m) ==
    /\ pc[m] = "settle" /\ job[m].row # None => Holds(job[m].row.uid, job[m].row.hash.text)
    /\ pc[m] = "expunge" => \A c \in copies : c.uid \in job[m].seen => c.uid \in flagged
    /\ pc[m] = "missing" => file[m] = None

(* Two pushes do not cross, nor a push and a claim, and what a push deletes  *)
(* is older than what another appends.                                       *)
Apart(m, n) ==
    /\ ~(pc[m] \in {"append", "readback"} /\ pc[n] \in {"append", "readback"})
    /\ ~(pc[m] \in {"append", "readback", "replace"} /\ pc[n] = "expunge")
    /\ pc[m] = "readback" /\ pc[n] = "replace" => uids \notin Named(job[n].row)

(* Every text is let go, in a file, with a retired draft or in a live copy.  *)
Somewhere(x) ==
    \/ Holds(0, x)
    \/ \E m \in Machines : file[m] # None /\ file[m].text = x
    \/ \E m \in Machines : \E r \in retired[m] : r.file.text = x
Textual == \A x \in 1..texts : Somewhere(x)

TextInv ==
    /\ Copies
    /\ \A m \in Machines : Known(m) /\ RowSays(m) /\ PushKnows(m) /\ OthersKnow(m)
    /\ \A m, n \in Machines : m # n => Apart(m, n)
    /\ Textual

-----------------------------------------------------------------------------
(* What was let go, lies in a conflict copy or in a tombstone stays there.   *)
Onward ==
    /\ gone \subseteq gone' /\ conflicts \subseteq conflicts'
    /\ \A m \in Machines : \A r \in retired[m] : r.why # "gone" => r \in retired'[m]

(* A live copy goes, or is doomed, only when its text lies elsewhere or is   *)
(* in a newer live copy.                                                     *)
Kindly ==
    Onward /\ \A c \in Live : c \in Live' \/ c.text \in Laid' \/ Holds(c.uid + 1, c.text)

HoldsOn == \A u \in Nat : \A x : Holds(u, x) => Holds(u, x)'

LEMMA LaidStays == ASSUME Onward PROVE Laid \subseteq Laid'
<1> SUFFICES ASSUME NEW x \in Laid PROVE x \in Laid'
  OBVIOUS
<1>1. CASE x \in gone \cup conflicts
  BY <1>1 DEF Onward, Laid
<1>2. ASSUME NEW m \in Machines, NEW r \in retired[m], r.why # "gone", x = r.file.text
      PROVE  x \in Laid'
  <2>1. r \in retired'[m]
    BY <1>2 DEF Onward
  <2> QED
    BY <1>2, <2>1 DEF Laid, TextsIn
<1> QED
  BY <1>1, <1>2 DEF Laid, TextsIn

LEMMA LiveInFolder ==
    ASSUME FolderShape
    PROVE  \A c \in Live : c \in copies /\ c \in Visible /\ c.uid \in 1..uids /\ c.uid \in Nat
  BY DEF FolderShape, Live, Visible, UidsOf

(* Of the copies that hold a text the newest is left, or the text lies.      *)
LEMMA HoldsStays ==
    ASSUME FolderShape, Kindly
    PROVE  HoldsOn
<1> SUFFICES ASSUME NEW u \in Nat, NEW x, Holds(u, x) PROVE Holds(u, x)'
  BY DEF HoldsOn
<1>1. CASE x \in Laid
  BY <1>1, LaidStays DEF Kindly, Holds
<1>2. CASE x \notin Laid
  <2> DEFINE S == {c \in Live : c.uid >= u /\ c.text = x}
             U == {c.uid : c \in S}
  <2>1. S # {}
    BY <1>2 DEF Holds
  <2>2. U \subseteq 1..uids /\ U # {}
    BY <2>1, LiveInFolder
  <2>3. PICK v \in U : \A w \in U : v >= w
    BY <2>2 DEF FolderShape, HasNewest
  <2>4. PICK c \in S : c.uid = v
    OBVIOUS
  <2>5. ~Holds(c.uid + 1, x)
    <3> SUFFICES ASSUME NEW d \in Live, d.uid >= c.uid + 1, d.text = x
                 PROVE  FALSE
      BY <1>2 DEF Holds
    <3>1. c.uid \in Nat /\ d.uid \in Nat /\ c.uid >= u
      BY LiveInFolder
    <3>2. d \in S
      BY <3>1
    <3>3. v >= d.uid
      BY <2>3, <3>2
    <3> QED
      BY <2>4, <3>1, <3>3
  <2> QED
    BY <2>5 DEF Kindly, Holds
<1> QED
  BY <1>1, <1>2

(* A text that holds from a UID on holds from an older one.                  *)
LEMMA HoldsFromOlder ==
    ASSUME FolderShape, NEW u \in Nat, NEW v \in Nat, v >= u, NEW x, Holds(v, x)
    PROVE  Holds(u, x)
<1>1. \A c \in Live : c.uid >= v => c.uid >= u
  BY LiveInFolder
<1> QED
  BY <1>1 DEF Holds

(* The text of a copy holds from the copy's UID on.                          *)
LEMMA CopyHolds ==
    ASSUME FolderShape, Copies, NEW c \in copies
    PROVE  Holds(c.uid, c.text)
<1>1. c.uid \in Nat
  BY DEF FolderShape, UidsOf
<1>2. CASE c.uid \in flagged
  BY <1>2 DEF Copies, Holds, Laid
<1>3. CASE c \in Live
  BY <1>1, <1>3 DEF Holds
<1>4. CASE c \in Visible /\ Doomed(c.uid)
  <2>1. Holds(c.uid + 1, c.text)
    BY <1>4 DEF Copies
  <2> QED
    BY <1>1, <2>1, HoldsFromOlder
<1> QED
  BY <1>2, <1>3, <1>4 DEF Live, Visible

(* A tombstone stays. *)
LEMMA TombstoneStays == ASSUME Onward, NEW m \in Machines, Tombstone(m) PROVE Tombstone(m)'
<1>1. PICK r \in retired[m] : r.why = "out"
  BY DEF Tombstone, Why
<1>2. r \in retired'[m]
  BY <1>1 DEF Onward
<1> QED
  BY <1>1, <1>2 DEF Tombstone, Why

(* A task that goes on, beside a file that does not come back, dooms no more.*)
LEMMA DoomsNoMore ==
    ASSUME Onward, NEW m \in Machines, pc'[m] = pc[m], job'[m] = job[m],
           file[m] = None => file'[m] = None
    PROVE  Replacing(m)' = Replacing(m) /\ Dooming(m)' \subseteq Dooming(m)
<1>1. Replacing(m)' = Replacing(m)
  BY DEF Replacing, Named
<1>2. Dooming(m)' \subseteq Dooming(m)
  BY TombstoneStays DEF Dooming
<1> QED
  BY <1>1, <1>2

(* The machines that a step is not of.                                       *)
Beside(A) ==
    \A n \in Machines \ A :
        /\ file'[n] = file[n] /\ row'[n] = row[n] /\ retired'[n] = retired[n]
        /\ pc'[n] = pc[n] /\ job'[n] = job[n]

LEMMA DoomsLess ==
    ASSUME Onward, NEW A \in SUBSET Machines, Beside(A), NEW u, Doomed(u)'
    PROVE  Doomed(u) \/ \E m \in A : u \in Replacing(m)' \/ u \in Dooming(m)'
<1>1. PICK n \in Machines : u \in Replacing(n)' \cup Dooming(n)'
  BY DEF Doomed
<1>2. CASE n \notin A
  <2>1. Replacing(n)' = Replacing(n) /\ Dooming(n)' \subseteq Dooming(n)
    BY <1>2, DoomsNoMore DEF Beside
  <2> QED
    BY <1>1, <2>1 DEF Doomed
<1> QED
  BY <1>1, <1>2

-----------------------------------------------------------------------------
(* The folder in a step that adds no copy.                                   *)
Shrinks ==
    /\ copies' \subseteq copies /\ Visible' \subseteq Visible /\ uids' = uids
    /\ \A c \in copies' : c.uid \in flagged' => c.uid \in flagged \/ c.text \in gone'
    /\ \A c \in copies' : c.uid \in flagged => c.uid \in flagged'

LEMMA FolderSame == ASSUME UNCHANGED folder PROVE Shrinks /\ Visible' = Visible
  BY DEF folder, Shrinks, Visible

LEMMA FolderWithout ==
    ASSUME NEW S, Without(S), uids' = uids
    PROVE  Shrinks /\ Visible' = {c \in Visible : c.uid \notin S}
  BY DEF Without, Shrinks, Visible

(* The live copies after a step.                                             *)
LEMMA LiveGoesOn ==
    ASSUME Onward, NEW A \in SUBSET Machines, Beside(A), NEW c \in Live, c \in Visible',
           \A m \in A : c.uid \notin Replacing(m)' /\ c.uid \notin Dooming(m)'
    PROVE  c \in Live'
  BY DoomsLess DEF Live

(* A copy is removed or doomed with care: what it holds lies or is in a      *)
(* newer live copy.                                                          *)
Sparing == \A c \in Live : c \in Visible' \/ c.text \in Laid' \/ Holds(c.uid + 1, c.text)
Careful(m) ==
    \A c \in Visible' : c.uid \in Replacing(m)' \cup Dooming(m)' =>
        Doomed(c.uid) \/ c.text \in Laid' \/ Holds(c.uid + 1, c.text)

LEMMA KindStep ==
    ASSUME Shape, Onward, Sparing,
           NEW A \in SUBSET Machines, Beside(A), \A m \in A : Careful(m)
    PROVE  Kindly /\ HoldsOn
<1>1. ASSUME NEW c \in Live
      PROVE  c \in Live' \/ c.text \in Laid' \/ Holds(c.uid + 1, c.text)
  BY LiveGoesOn DEF Sparing, Careful, Live
<1>2. Kindly
  BY <1>1 DEF Kindly
<1> QED
  BY <1>2, HoldsStays DEF Shape

(* The copies keep what is said of them.                                     *)
LEMMA CopiesStay ==
    ASSUME Shape, Copies, Kindly, Shrinks, NEW A \in SUBSET Machines, Beside(A),
           \A m \in A : Careful(m)
    PROVE  Copies'
<1>1. HoldsOn
  BY HoldsStays DEF Shape
<1>2. \A c \in copies : c.uid \in Nat /\ c.uid + 1 \in Nat
  BY DEF Shape, FolderShape, UidsOf
<1>3. /\ copies' \subseteq copies /\ Visible' \subseteq Visible /\ uids' = uids
      /\ Visible \subseteq copies
  BY DEF Shrinks, Visible
<1>4. \A c, d \in copies' : c.uid = d.uid => c = d
  BY <1>3 DEF Copies
<1>5. \A c \in copies' : c.uid \in flagged' => c.text \in gone'
  BY <1>3 DEF Copies, Shrinks, Kindly, Onward
<1>6. ASSUME NEW c \in Visible', c.mp, c.uid < uids' PROVE Holds(c.uid + 1, c.text)'
  <2>1. Holds(c.uid + 1, c.text)
    BY <1>3, <1>6 DEF Copies
  <2> QED
    BY <1>1, <1>2, <1>3, <2>1 DEF HoldsOn
<1>7. ASSUME NEW c \in Visible', Doomed(c.uid)' PROVE Holds(c.uid + 1, c.text)'
  <2>1. Doomed(c.uid) \/ \E m \in A : c.uid \in Replacing(m)' \cup Dooming(m)'
    BY <1>7, DoomsLess DEF Kindly
  <2>2. Doomed(c.uid) \/ c.text \in Laid' \/ Holds(c.uid + 1, c.text)
    BY <2>1 DEF Careful
  <2>3. Doomed(c.uid) => Holds(c.uid + 1, c.text)
    BY <1>3 DEF Copies
  <2>4. Holds(c.uid + 1, c.text) => Holds(c.uid + 1, c.text)'
    BY <1>1, <1>2, <1>3 DEF HoldsOn
  <2>5. c.text \in Laid' => Holds(c.uid + 1, c.text)'
    BY DEF Holds
  <2> QED
    BY <2>2, <2>3, <2>4, <2>5
<1> QED
  BY <1>4, <1>5, <1>6, <1>7 DEF Copies

-----------------------------------------------------------------------------
(* A file that a user edits or that leaves; it does not come back.           *)
GoesOn(m) ==
    file'[m] # None =>
        file[m] # None /\ \A x : Replaced(file[m], gone, x) => Replaced(file'[m], gone', x)

LEMMA FileStays == ASSUME gone \subseteq gone', NEW m, file'[m] = file[m] PROVE GoesOn(m)
  BY DEF GoesOn, Replaced

(* A row that stays, or is forgotten.                                        *)
LEMMA RowStays ==
    ASSUME Shape, HoldsOn, Shrinks, NEW m \in Machines, Known(m), RowSays(m), GoesOn(m),
           row'[m] \in {row[m], None}
    PROVE  RowSays(m)'
<1> SUFFICES ASSUME row'[m] # None PROVE RowSays(m)'
  BY DEF RowSays
<1>1. PICK r : r = row[m]
  OBVIOUS
<1>2. row'[m] = r /\ row[m] # None
  BY <1>1
<1>3. r.uid \in Nat
  BY <1>1, <1>2 DEF Known, Named, Shape, FolderShape
<1>4. Holds(r.uid, r.hash.text)
  BY <1>1, <1>2 DEF RowSays
<1>5. Holds(r.uid, r.hash.text)'
  BY <1>3, <1>4 DEF HoldsOn
<1>6. file'[m] # None => Replaced(file'[m], gone', r.hash.text)
  BY <1>1, <1>2 DEF RowSays, GoesOn
<1>7. \A c \in copies' : c.uid = r.uid => c.text = r.hash.text
  BY <1>1, <1>2 DEF RowSays, Shrinks
<1> QED
  BY <1>2, <1>5, <1>6, <1>7 DEF RowSays

(* What a task has read stays good while others, or the user, are at work.   *)
LEMMA MemoryStays ==
    ASSUME Shape, HoldsOn, Onward, Shrinks, NEW m \in Machines,
           Known(m), PushKnows(m), OthersKnow(m),
           GoesOn(m), pc'[m] = pc[m], job'[m] = job[m],
           pc[m] = "readback" => \A c \in Visible : c.uid = uids => c \in Visible'
    PROVE  PushKnows(m)' /\ OthersKnow(m)'
<1>1. PICK j : j = job[m]
  OBVIOUS
<1>2. PICK s : s = pc[m]
  OBVIOUS
<1>3. job'[m] = j /\ pc'[m] = s
  BY <1>1, <1>2
<1>4. j.held \cup Named(j.row) \subseteq Nat
  BY <1>1 DEF Known, Shape, FolderShape
<1>5. /\ copies' \subseteq copies /\ Visible' \subseteq Visible /\ uids' = uids
      /\ gone \subseteq gone'
  BY DEF Shrinks, Onward
<1>6. s \in Holding /\ file'[m] # None => Replaced(file'[m], gone', j.file.text)
  BY <1>1, <1>2 DEF PushKnows, GoesOn
<1>7. ASSUME s \in {"append", "readback", "replace"}, j.row # None
      PROVE  /\ Replaced(j.file, gone', j.row.hash.text)
             /\ \A c \in copies' : c.uid = j.row.uid => c.text = j.row.hash.text
  BY <1>1, <1>2, <1>5, <1>7 DEF PushKnows, Replaced
<1>8. s = "append" => \A c \in Visible' : c.mp => c.uid \in Named(j.row)
  BY <1>1, <1>2, <1>5 DEF PushKnows
<1>9. ASSUME s = "readback"
      PROVE  /\ \E c \in Visible' : c.uid = uids' /\ c.text = j.file.text
             /\ uids' \notin j.seen \cup Named(j.row)
  BY <1>1, <1>2, <1>5, <1>9 DEF PushKnows
<1>10. ASSUME s = "replace", NEW u \in j.held
       PROVE  /\ Holds(u, j.file.text)'
              /\ \A c \in copies' : c.uid = u => c.text = j.file.text
  <2>1. /\ Holds(u, j.file.text) /\ u \in Nat
        /\ \A c \in copies : c.uid = u => c.text = j.file.text
    BY <1>1, <1>2, <1>4, <1>10 DEF PushKnows
  <2> QED
    BY <1>5, <2>1 DEF HoldsOn
<1>11. ASSUME s = "settle", j.row # None
       PROVE  Holds(j.row.uid, j.row.hash.text)'
  <2>1. Holds(j.row.uid, j.row.hash.text) /\ j.row.uid \in Nat
    BY <1>1, <1>2, <1>4, <1>11 DEF OthersKnow, Named
  <2> QED
    BY <2>1 DEF HoldsOn
<1>12. s = "expunge" => \A c \in copies' : c.uid \in j.seen => c.uid \in flagged'
  BY <1>1, <1>2, <1>5 DEF OthersKnow, Shrinks
<1>13. PushKnows(m)'
  BY <1>3, <1>6, <1>7, <1>8, <1>9, <1>10 DEF PushKnows, Named
<1>14. OthersKnow(m)'
  BY <1>2, <1>3, <1>11, <1>12 DEF OthersKnow, GoesOn
<1> QED
  BY <1>13, <1>14

-----------------------------------------------------------------------------
(* A step is shown for the machines it is of.                                *)
OwnStays(m) == pc[m] = "readback" => \A c \in Visible : c.uid = uids => c \in Visible'
Knows(m) == Known(m) /\ RowSays(m) /\ PushKnows(m) /\ OthersKnow(m)

LEMMA KnowsStill ==
    ASSUME Shape, HoldsOn, Onward, Shrinks, NEW m \in Machines, Knows(m), GoesOn(m), OwnStays(m),
           pc'[m] = pc[m], job'[m] = job[m], row'[m] \in {row[m], None}
    PROVE  Knows(m)'
<1>1. Known(m)'
  BY DEF Knows, Known, Named, Shrinks
<1>2. RowSays(m)'
  BY RowStays DEF Knows
<1>3. PushKnows(m)' /\ OthersKnow(m)'
  BY MemoryStays DEF Knows, OwnStays
<1> QED
  BY <1>1, <1>2, <1>3 DEF Knows

(* What becomes of the texts a machine has outside the folder.               *)
TextsGoOn(m) ==
    \A x \in 1..texts :
        (file[m] # None /\ file[m].text = x) \/ (\E r \in retired[m] : r.file.text = x)
            => Somewhere(x)'

NewTextsKept == \A x \in 1..texts' : x \in 1..texts \/ Somewhere(x)'

LEMMA TextualStays ==
    ASSUME Shape, Textual, HoldsOn, NewTextsKept,
           NEW A \in SUBSET Machines, Beside(A), \A m \in A : TextsGoOn(m)
    PROVE  Textual'
<1> SUFFICES ASSUME NEW x \in 1..texts PROVE Somewhere(x)'
  BY DEF Textual, NewTextsKept
<1>1. Somewhere(x)
  BY DEF Textual
<1>2. CASE Holds(0, x)
  BY <1>2 DEF HoldsOn, Somewhere
<1>3. ASSUME NEW m \in Machines, \/ file[m] # None /\ file[m].text = x
                                 \/ \E r \in retired[m] : r.file.text = x
      PROVE  Somewhere(x)'
  <2>1. CASE m \in A
    BY <1>3, <2>1 DEF TextsGoOn
  <2>2. CASE m \notin A
    BY <1>3, <2>2 DEF Beside, Somewhere
  <2> QED
    BY <2>1, <2>2
<1> QED
  BY <1>1, <1>2, <1>3 DEF Somewhere

ApartFrom(m) == \A n \in Machines : m # n => Apart(m, n) /\ Apart(n, m)

LEMMA TextStep ==
    ASSUME Shape, TextInv, Onward, Shrinks, Sparing, NewTextsKept,
           NEW A \in SUBSET Machines, Beside(A),
           \A n \in Machines \ A : OwnStays(n),
           \A m \in A : Careful(m) /\ Knows(m)' /\ ApartFrom(m)' /\ TextsGoOn(m)
    PROVE  TextInv'
<1>1. Kindly /\ HoldsOn
  BY KindStep
<1>2. Copies'
  BY <1>1, CopiesStay DEF TextInv
<1>3. ASSUME NEW n \in Machines PROVE Knows(n)'
  <2>1. CASE n \in A
    BY <2>1
  <2>2. CASE n \notin A
    <3>1. pc'[n] = pc[n] /\ job'[n] = job[n] /\ row'[n] = row[n] /\ file'[n] = file[n]
      BY <2>2 DEF Beside
    <3>2. GoesOn(n)
      BY <3>1, FileStays DEF Onward
    <3>3. Knows(n)
      BY DEF TextInv, Knows
    <3> QED
      BY <1>1, <2>2, <3>1, <3>2, <3>3, KnowsStill
  <2> QED
    BY <2>1, <2>2
<1>4. ASSUME NEW m \in Machines, NEW n \in Machines, m # n PROVE Apart(m, n)'
  <2>1. CASE m \in A \/ n \in A
    BY <1>4, <2>1 DEF ApartFrom
  <2>2. CASE m \notin A /\ n \notin A
    <3>1. Apart(m, n)
      BY <1>4 DEF TextInv
    <3> QED
      BY <2>2, <3>1 DEF Apart, Beside, Named, Shrinks
  <2> QED
    BY <2>1, <2>2
<1>5. Textual'
  BY <1>1, TextualStays DEF TextInv
<1> QED
  BY <1>2, <1>3, <1>4, <1>5 DEF TextInv, Knows

(* A step of one machine, and one of another client.                         *)
LEMMA MachineStep ==
    ASSUME Shape, TextInv, NEW m \in Machines, Onward, Shrinks, Sparing, NewTextsKept,
           Beside({m}), \A n \in Machines : n # m => OwnStays(n),
           Careful(m), Knows(m)', ApartFrom(m)', TextsGoOn(m)
    PROVE  TextInv'
<1>1. {m} \in SUBSET Machines /\ \A n \in Machines \ {m} : OwnStays(n)
  OBVIOUS
<1>2. \A n \in {m} : Careful(n) /\ Knows(n)' /\ ApartFrom(n)' /\ TextsGoOn(n)
  OBVIOUS
<1> QED
  BY <1>1, <1>2, TextStep

LEMMA ClientStep ==
    ASSUME Shape, TextInv, Onward, Shrinks, Sparing, 
           UNCHANGED <<texts, file, conflicts, retired, row, task>>,
           \A n \in Machines : OwnStays(n)
    PROVE  TextInv'
<1>1. {} \in SUBSET Machines /\ Beside({})
  BY DEF Beside, task
<1>2. \A n \in {} : Careful(n) /\ Knows(n)' /\ ApartFrom(n)' /\ TextsGoOn(n)
  OBVIOUS
<1>3. \A n \in Machines \ {} : OwnStays(n)
  OBVIOUS
<1>4. NewTextsKept
  BY DEF NewTextsKept
<1> QED
  BY <1>1, <1>2, <1>3, <1>4, TextStep

(* Kindness where a machine's step is shown.                                 *)
LEMMA KindAlone ==
    ASSUME Shape, Onward, Sparing, NEW m \in Machines, Beside({m}), Careful(m)
    PROVE  HoldsOn
<1>1. {m} \in SUBSET Machines /\ \A n \in {m} : Careful(n)
  OBVIOUS
<1> QED
  BY <1>1, KindStep

(* A step that leaves the folder alone spares it.                            *)
LEMMA FolderSpared ==
    ASSUME UNCHANGED folder
    PROVE  Shrinks /\ Sparing /\ \A n \in Machines : OwnStays(n)
<1>1. Shrinks /\ Visible' = Visible
  BY FolderSame
<1> QED
  BY <1>1 DEF Sparing, OwnStays, Live

-----------------------------------------------------------------------------
(* A user's step, or one of a reconcile that begins no task.                 *)

LEMMA UserKind ==
    ASSUME Shape, NEW m \in Machines, Onward, UNCHANGED <<folder, task>>, Beside({m}), GoesOn(m)
    PROVE  Careful(m) /\ HoldsOn
<1>1. Shrinks /\ Sparing
  BY FolderSpared
<1>2. pc'[m] = pc[m] /\ job'[m] = job[m]
  BY DEF task
<1>3. Careful(m)
  <2>1. Replacing(m)' = Replacing(m) /\ Dooming(m)' \subseteq Dooming(m)
    BY <1>2, DoomsNoMore DEF GoesOn
  <2> QED
    BY <2>1 DEF Careful, Doomed
<1> QED
  BY <1>1, <1>3, KindAlone

LEMMA UserStep ==
    ASSUME Shape, TextInv, NEW m \in Machines, Onward, UNCHANGED <<folder, task>>, Beside({m}),
           GoesOn(m), row'[m] \in {row[m], None}, NewTextsKept, TextsGoOn(m)
    PROVE  TextInv'
<1>1. Shrinks /\ Sparing /\ \A n \in Machines : OwnStays(n)
  BY FolderSpared
<1>2. pc'[m] = pc[m] /\ job'[m] = job[m]
  BY DEF task
<1>3. Careful(m) /\ HoldsOn
  BY UserKind
<1>4. Knows(m)'
  <2>1. Knows(m)
    BY DEF TextInv, Knows
  <2> QED
    BY <1>1, <1>2, <1>3, <2>1, KnowsStill
<1>5. ApartFrom(m)'
  BY DEF TextInv, ApartFrom, Apart, Named, task, folder
<1> QED
  BY <1>1, <1>3, <1>4, <1>5, MachineStep

LEMMA HeldByFile ==
    ASSUME NEW x, NEW m \in Machines, file'[m] # None, file'[m].text = x
    PROVE  Somewhere(x)'
  BY DEF Somewhere

LEMMA HeldByRetired ==
    ASSUME NEW x, NEW m \in Machines, NEW r \in retired'[m], r.file.text = x
    PROVE  Somewhere(x)'
  BY DEF Somewhere

LEMMA HeldByNone == ASSUME NEW x, x \in gone' \cup conflicts' PROVE Somewhere(x)'
  BY DEF Somewhere, Holds, Laid

LEMMA EditKeepsText ==
    ASSUME Shape, TextInv, NEW m \in Machines, Edit(m)
    PROVE  TextInv'
<1>1. PICK f \in File : f = file[m]
  BY DEF Shape, LocalShape, Edit
<1>2. PICK g : g = [f EXCEPT !.text = texts + 1]
  OBVIOUS
<1>3. g \in File /\ g.text = texts + 1
  <2>1. texts + 1 \in Texts
    BY Bounds DEF Shape, PastShape, Edit, Texts
  <2> QED
    BY <1>2, <2>1, FileUpdates
<1>4. file' = [file EXCEPT ![m] = g] /\ gone' = gone \cup {f.text}
  <2>1. [file EXCEPT ![m].text = texts + 1] =
           [file EXCEPT ![m] = [file[m] EXCEPT !.text = texts + 1]]
    OBVIOUS
  <2> QED
    BY <1>1, <1>2, <2>1 DEF Edit
<1>5. file'[m] = g /\ g # None /\ \A n \in Machines \ {m} : file'[n] = file[n]
  BY <1>3, <1>4, NoneAssumption DEF Shape, LocalShape, NoneAssumption
<1>6. UNCHANGED <<folder, task, conflicts, retired, row>> /\ texts' = texts + 1
  BY DEF Edit
<1>7. Onward /\ Beside({m})
  BY <1>4, <1>5, <1>6 DEF Onward, Beside, task
<1>8. GoesOn(m)
  BY <1>1, <1>4, <1>5 DEF GoesOn, Replaced, Edit
<1>9. NewTextsKept
  <2>1. ASSUME NEW x, x = texts + 1 PROVE Somewhere(x)'
    BY <1>3, <1>5, <2>1, HeldByFile
  <2>2. texts \in Nat
    BY Bounds DEF Shape, PastShape, Texts
  <2>3. \A x \in 1..texts' : x \in 1..texts \/ x = texts + 1
    BY <1>6, <2>2
  <2> QED
    BY <2>1, <2>3 DEF NewTextsKept
<1>10. TextsGoOn(m)
  BY <1>1, <1>4, <1>6, HeldByNone, HeldByRetired DEF TextsGoOn
<1> QED
  BY <1>6, <1>7, <1>8, <1>9, <1>10, UserStep

LEMMA TextsSame == ASSUME texts' = texts PROVE NewTextsKept
  BY DEF NewTextsKept

LEMMA ApproveKeepsText ==
    ASSUME Shape, TextInv, NEW m \in Machines, Approve(m)
    PROVE  TextInv'
<1>1. PICK f \in File : f = file[m]
  BY DEF Shape, LocalShape, Approve
<1>2. PICK g : g = [f EXCEPT !.approved = TRUE]
  OBVIOUS
<1>3. g \in File /\ g.text = f.text
  BY <1>2, FileUpdates
<1>4. file' = [file EXCEPT ![m] = g]
  BY <1>1, <1>2 DEF Approve
<1>5. file'[m] = g /\ g # None /\ \A n \in Machines \ {m} : file'[n] = file[n]
  BY <1>3, <1>4, NoneAssumption DEF Shape, LocalShape, NoneAssumption
<1>6. UNCHANGED <<folder, task, conflicts, retired, row, texts, gone>>
  BY DEF Approve, history
<1>7. Onward /\ Beside({m})
  BY <1>5, <1>6 DEF Onward, Beside, task
<1>8. GoesOn(m)
  BY <1>1, <1>3, <1>5, <1>6 DEF GoesOn, Replaced, Approve
<1>9. TextsGoOn(m)
  BY <1>1, <1>3, <1>5, <1>6, HeldByFile, HeldByRetired DEF TextsGoOn
<1> QED
  BY <1>6, <1>7, <1>8, <1>9, TextsSame, UserStep

(* A file that leaves for .retired.                                          *)
LEMMA FileRetired ==
    ASSUME Shape, NEW m \in Machines, NEW why, gone' = gone, conflicts' = conflicts,
           file' = [file EXCEPT ![m] = None],
           \/ file[m] = None /\ retired' = retired
           \/ retired' = [retired EXCEPT ![m] = @ \cup {[file |-> file[m], why |-> why]}]
    PROVE  /\ Onward /\ GoesOn(m) /\ TextsGoOn(m)
           /\ \A n \in Machines \ {m} : file'[n] = file[n] /\ retired'[n] = retired[n]
<1>1. file'[m] = None /\ \A n \in Machines \ {m} : file'[n] = file[n]
  BY DEF Shape, LocalShape
<1>2. PICK f : f = file[m]
  OBVIOUS
<1>3. /\ \A n \in Machines : retired[n] \subseteq retired'[n]
      /\ \A n \in Machines \ {m} : retired'[n] = retired[n]
      /\ f = None \/ [file |-> f, why |-> why] \in retired'[m]
  BY <1>2 DEF Shape, LocalShape
<1>4. Onward /\ GoesOn(m)
  BY <1>1, <1>3 DEF Onward, GoesOn
<1>5. ASSUME NEW x, f # None, f.text = x PROVE Somewhere(x)'
  <2>1. PICK r : r = [file |-> f, why |-> why]
    OBVIOUS
  <2>2. r \in retired'[m] /\ r.file.text = x
    BY <1>3, <1>5, <2>1
  <2> QED
    BY <2>2, HeldByRetired
<1>6. ASSUME NEW x, NEW r \in retired[m], r.file.text = x PROVE Somewhere(x)'
  BY <1>3, <1>6, HeldByRetired
<1>7. TextsGoOn(m)
  BY <1>2, <1>5, <1>6 DEF TextsGoOn
<1> QED
  BY <1>1, <1>3, <1>4, <1>7

LEMMA DiscardKeepsText ==
    ASSUME Shape, TextInv, NEW m \in Machines, Discard(m)
    PROVE  TextInv'
<1>1. /\ UNCHANGED <<folder, task, texts, gone, conflicts>>
      /\ file' = [file EXCEPT ![m] = None]
      /\ retired' = [retired EXCEPT ![m] = @ \cup {[file |-> file[m], why |-> "out"]}]
  BY DEF Discard, typed, history
<1>2. row'[m] = None /\ \A n \in Machines \ {m} : row'[n] = row[n]
  BY DEF Shape, LocalShape, Discard
<1>3. /\ Onward /\ GoesOn(m) /\ TextsGoOn(m)
      /\ \A n \in Machines \ {m} : file'[n] = file[n] /\ retired'[n] = retired[n]
  BY <1>1, FileRetired
<1>4. Beside({m})
  BY <1>1, <1>2, <1>3 DEF Beside, task
<1> QED
  BY <1>1, <1>2, <1>3, <1>4, TextsSame, UserStep

LEMMA ReconcileSkipsKeepsText ==
    ASSUME Shape, TextInv, NEW m \in Machines, ReconcileSkips(m)
    PROVE  TextInv'
<1>1. UNCHANGED <<folder, task, texts, gone, conflicts, file, retired, row>>
  BY DEF ReconcileSkips, typed, history
<1>2. Onward /\ GoesOn(m) /\ Beside({m})
  BY <1>1 DEF Onward, GoesOn, Beside, task
<1>3. TextsGoOn(m)
  BY <1>1, HeldByFile, HeldByRetired DEF TextsGoOn
<1> QED
  BY <1>1, <1>2, <1>3, TextsSame, UserStep

LEMMA ReconcileCopyGoneKeepsText ==
    ASSUME Shape, TextInv, NEW m \in Machines, ReconcileCopyGone(m)
    PROVE  TextInv'
<1>1. UNCHANGED <<folder, task, texts, gone, conflicts>>
  BY DEF ReconcileCopyGone, typed, history
<1>2. CASE Again(m, "copy")
  <2>1. /\ file' = [file EXCEPT ![m] = None]
        /\ retired' = [retired EXCEPT ![m] = @ \cup {[file |-> file[m], why |-> "gone"]}]
    BY <1>2 DEF ReconcileCopyGone
  <2>2. row'[m] = None /\ \A n \in Machines \ {m} : row'[n] = row[n]
    BY <1>2 DEF Shape, LocalShape, ReconcileCopyGone
  <2>3. /\ Onward /\ GoesOn(m) /\ TextsGoOn(m)
        /\ \A n \in Machines \ {m} : file'[n] = file[n] /\ retired'[n] = retired[n]
    BY <1>1, <2>1, FileRetired
  <2>4. Beside({m})
    BY <1>1, <2>2, <2>3 DEF Beside, task
  <2> QED
    BY <1>1, <2>2, <2>3, <2>4, TextsSame, UserStep
<1>3. CASE ~Again(m, "copy")
  <2>1. UNCHANGED <<file, retired, row>>
    BY <1>3 DEF ReconcileCopyGone
  <2>2. Onward /\ GoesOn(m) /\ Beside({m})
    BY <1>1, <2>1 DEF Onward, GoesOn, Beside, task
  <2>3. TextsGoOn(m)
    BY <2>1, HeldByFile, HeldByRetired DEF TextsGoOn
  <2> QED
    BY <1>1, <2>1, <2>2, <2>3, TextsSame, UserStep
<1> QED
  BY <1>2, <1>3

(* Where a text is kept.                                                     *)
HasText(m, x) == (file[m] # None /\ file[m].text = x) \/ \E r \in retired[m] : r.file.text = x
KeptAt(x) ==
    \/ x \in conflicts \/ \E c \in Visible : c.text = x
    \/ \E m \in Machines : HasText(m, x)

FilesOf(F, R, m) == ({F[m]} \ {None}) \cup {r.file : r \in R[m]}
KeptFrom(F, R, K, V) ==
    (UNION {TextsIn(FilesOf(F, R, m)) : m \in Machines}) \cup K \cup TextsIn(V)

LEMMA KeptIn ==
    ASSUME NEW F, NEW R, NEW K, NEW V, NEW x \in KeptFrom(F, R, K, V)
    PROVE  \/ x \in K \/ \E c \in V : c.text = x
           \/ \E m \in Machines : \/ F[m] # None /\ F[m].text = x
                                  \/ \E r \in R[m] : r.file.text = x
<1> DEFINE T == UNION {TextsIn(FilesOf(F, R, m)) : m \in Machines}
<1>1. CASE x \in K \/ x \in TextsIn(V)
  BY <1>1 DEF TextsIn
<1>2. CASE x \in T
  <2>1. PICK m \in Machines : x \in TextsIn(FilesOf(F, R, m))
    BY <1>2
  <2>2. PICK f \in FilesOf(F, R, m) : f.text = x
    BY <2>1 DEF TextsIn
  <2>3. (f = F[m] /\ f # None) \/ \E r \in R[m] : r.file = f
    BY <2>2 DEF FilesOf
  <2> QED
    BY <2>2, <2>3
<1>3. KeptFrom(F, R, K, V) = T \cup K \cup TextsIn(V)
  BY DEF KeptFrom
<1> HIDE DEF T
<1> QED
  BY <1>1, <1>2, <1>3

LEMMA KeptMeans == /\ \A x \in Kept : KeptAt(x)
                   /\ \A x \in Kept' : KeptAt(x)'
<1>1. Kept = KeptFrom(file, retired, conflicts, Visible)
  BY DEF Kept, KeptFrom, FilesOf
<1>2. Kept' = KeptFrom(file', retired', conflicts', Visible')
  BY DEF Kept, KeptFrom, FilesOf
<1>3. ASSUME NEW x \in Kept PROVE KeptAt(x)
  BY <1>1, <1>3, KeptIn DEF KeptAt, HasText
<1>4. ASSUME NEW x \in Kept' PROVE KeptAt(x)'
  BY <1>2, <1>4, KeptIn DEF KeptAt, HasText
<1> QED
  BY <1>3, <1>4

LEMMA FileIsKept ==
    ASSUME NEW m \in Machines, file[m] # None PROVE file[m].text \in Kept
  BY DEF Kept, TextsIn

(* What is kept is somewhere.                                                *)
LEMMA KeptIsSomewhere ==
    ASSUME Shape, TextInv, NEW x \in Kept
    PROVE  Somewhere(x)
<1>1. CASE x \in conflicts
  BY <1>1 DEF Somewhere, Holds, Laid
<1>2. ASSUME NEW c \in Visible, c.text = x PROVE Somewhere(x)
  <2>1. c \in copies /\ c.uid \in Nat
    BY DEF Visible, Shape, FolderShape, UidsOf
  <2>2. Holds(c.uid, x)
    BY <1>2, <2>1, CopyHolds DEF Shape, TextInv
  <2> QED
    BY <2>1, <2>2, HoldsFromOlder DEF Shape, Somewhere
<1>3. ASSUME NEW m \in Machines, \/ file[m] # None /\ file[m].text = x
                                 \/ \E r \in retired[m] : r.file.text = x
      PROVE  Somewhere(x)
  BY <1>3 DEF Somewhere
<1> QED
  BY <1>1, <1>2, <1>3, KeptMeans DEF KeptAt, HasText

LEMMA RemoveByHandKeepsText ==
    ASSUME Shape, TextInv, NEW m \in Machines, RemoveByHand(m)
    PROVE  TextInv'
<1>1. /\ UNCHANGED <<folder, task, texts, conflicts, retired, row>>
      /\ gone' = gone \cup (((1..texts) \cap Kept) \ Kept')
  BY DEF RemoveByHand, typed
<1>2. file'[m] = None /\ \A n \in Machines \ {m} : file'[n] = file[n]
  BY DEF Shape, LocalShape, RemoveByHand
<1>3. Onward
  <2> SUFFICES ASSUME NEW K, NEW L, gone' = gone \cup (((1..texts) \cap K) \ L)
               PROVE  gone \subseteq gone'
    BY <1>1 DEF Onward
  <2> QED
    OBVIOUS
<1>4. Beside({m}) /\ GoesOn(m)
  BY <1>1, <1>2 DEF Beside, GoesOn, task
<1>5. HoldsOn
  BY <1>1, <1>3, <1>4, UserKind
<1>6. ASSUME NEW x \in 1..texts, file[m] # None, file[m].text = x PROVE Somewhere(x)'
  <2>1. x \in Kept
    BY <1>6, FileIsKept
  <2>2. CASE x \in gone'
    BY <2>2, HeldByNone
  <2>3. CASE x \in Kept'
    <3>1. CASE x \in conflicts'
      BY <3>1, HeldByNone
    <3>2. ASSUME NEW c \in Visible', c.text = x PROVE Somewhere(x)'
      <4>1. c \in copies /\ c.uid \in Nat
        BY <1>1, FolderSame DEF Visible, Shape, FolderShape, UidsOf
      <4>2. Holds(c.uid, x)
        BY <3>2, <4>1, CopyHolds DEF Shape, TextInv
      <4>3. Holds(0, x)
        BY <4>1, <4>2, HoldsFromOlder DEF Shape
      <4>4. Holds(0, x)'
        BY <1>5, <4>3 DEF HoldsOn
      <4> QED
        BY <4>4 DEF Somewhere
    <3>3. ASSUME NEW n \in Machines, \/ file'[n] # None /\ file'[n].text = x
                                     \/ \E r \in retired'[n] : r.file.text = x
          PROVE  Somewhere(x)'
      BY <3>3, HeldByFile, HeldByRetired
    <3>4. KeptAt(x)'
      BY <2>3, KeptMeans
    <3> QED
      BY <3>1, <3>2, <3>3, <3>4 DEF KeptAt, HasText
  <2> QED
    <3> SUFFICES ASSUME NEW K, NEW L, gone' = gone \cup (((1..texts) \cap K) \ L), x \in K
                 PROVE  x \in gone' \/ x \in L
      BY <1>1, <2>1, <2>2, <2>3
    <3> QED
      OBVIOUS
<1>7. TextsGoOn(m)
  BY <1>1, <1>6, HeldByRetired DEF TextsGoOn
<1> QED
  BY <1>1, <1>3, <1>4, <1>7, TextsSame, UserStep

-----------------------------------------------------------------------------
(* A task begins, goes on and ends. *)

LEMMA Begun ==
    ASSUME Shape, NEW m \in Machines, NEW s, NEW j, Begin(m, s, j)
    PROVE  /\ pc'[m] = s /\ job'[m] = j
           /\ \A n \in Machines \ {m} : pc'[n] = pc[n] /\ job'[n] = job[n]
  BY DEF Shape, TaskShape, Begin

LEMMA EndedBegins == ASSUME NEW m, Ended(m) PROVE Begin(m, "idle", NoJob)
  BY DEF Ended

LEMMA DoomsNone == ASSUME NEW m, pc'[m] \notin {"replace", "doom"} PROVE Careful(m)
  BY DEF Careful, Replacing, Dooming

LEMMA ApartAlone ==
    ASSUME NEW m, pc'[m] \notin {"append", "readback", "replace", "expunge"}
    PROVE  ApartFrom(m)'
  BY DEF ApartFrom, Apart

LEMMA KnowsLittle ==
    ASSUME NEW m, pc'[m] \notin Holding \cup {"expunge"}, Known(m)', RowSays(m)',
           pc'[m] = "missing" => file'[m] = None
    PROVE  Knows(m)'
  BY DEF Knows, PushKnows, OthersKnow, Holding

LEMMA NamesNone == NoJob.row = None /\ NoJob.seen = {} /\ NoJob.held = {} /\ Named(None) = {}
  BY DEF NoJob, Named

LEMMA SeenIsKnown == ASSUME Shape PROVE UidsOf(Visible) \subseteq 1..uids
  BY DEF Shape, FolderShape, UidsOf, Visible

(* A step that keeps the files, the conflict copies and .retired.            *)
LEMMA FilesSame ==
    ASSUME gone \subseteq gone', UNCHANGED <<file, conflicts, retired>>, NEW m \in Machines
    PROVE  Onward /\ GoesOn(m) /\ TextsGoOn(m)
<1>1. Onward /\ GoesOn(m)
  BY DEF Onward, GoesOn, Replaced
<1>2. TextsGoOn(m)
  BY HeldByFile, HeldByRetired DEF TextsGoOn
<1> QED
  BY <1>1, <1>2

LEMMA TaskBeside ==
    ASSUME Shape, NEW m \in Machines, NEW s, NEW j, Begin(m, s, j), UNCHANGED <<file, retired>>,
           row' = row \/ \E r : row' = [row EXCEPT ![m] = r]
    PROVE  Beside({m})
  BY Begun DEF Beside, Shape, LocalShape

-----------------------------------------------------------------------------
(* A push. *)

LEMMA PushSearchKeepsText ==
    ASSUME Shape, TextInv, ~Overlap, NEW m \in Machines, PushSearch(m)
    PROVE  TextInv'
<1> DEFINE j == [NoJob EXCEPT !.seen = UidsOf(Visible), !.row = row[m], !.file = file[m]]
<1>1. /\ UNCHANGED <<folder, file, conflicts, retired, row, texts, gone>>
      /\ Begin(m, "append", j) /\ UidsOf(Visible) = Named(row[m]) /\ file[m] # None
      /\ \A n \in Machines \ {m} : pc[n] \notin {"append", "readback", "expunge"}
  BY DEF PushSearch, local, typed, history, NoneElse, Replaceable
<1>2. j.seen = UidsOf(Visible) /\ j.row = row[m] /\ j.file = file[m] /\ j.held = {}
  BY DEF NoJob
<1> HIDE DEF j
<1>3. PICK k : k = j
  OBVIOUS
<1>4. /\ pc'[m] = "append" /\ job'[m] = k
      /\ \A n \in Machines \ {m} : pc'[n] = pc[n] /\ job'[n] = job[n]
  BY <1>1, <1>3, Begun
<1>5. Beside({m})
  BY <1>1, TaskBeside
<1>6. Onward /\ GoesOn(m) /\ TextsGoOn(m)
  BY <1>1, FilesSame
<1>7. Shrinks /\ Visible' = Visible /\ Sparing /\ \A n \in Machines : OwnStays(n)
  BY <1>1, FolderSame, FolderSpared
<1>8. Careful(m)
  BY <1>4, DoomsNone
<1>9. HoldsOn
  BY <1>5, <1>6, <1>7, <1>8, KindAlone
<1>10. Known(m) /\ RowSays(m)
  BY DEF TextInv
<1>11. Known(m)'
  BY <1>1, <1>2, <1>3, <1>4, <1>7, <1>10, SeenIsKnown DEF Known, Named, Shrinks
<1>12. RowSays(m)'
  BY <1>1, <1>6, <1>7, <1>9, <1>10, RowStays
<1>13. PushKnows(m)'
  <2>1. file'[m] = k.file /\ k.row = row[m] /\ copies' = copies /\ gone' = gone /\ k.file # None
    BY <1>1, <1>2, <1>3 DEF folder
  <2>2. Replaced(k.file, gone', k.file.text)
    BY DEF Replaced
  <2>3. k.row # None => /\ Replaced(k.file, gone', k.row.hash.text)
                        /\ \A c \in copies' : c.uid = k.row.uid => c.text = k.row.hash.text
    BY <1>1, <1>2, <1>3, <1>10, <2>1 DEF RowSays
  <2>4. \A c \in Visible' : c.uid \in Named(k.row)
    BY <1>1, <1>7, <2>1 DEF UidsOf
  <2> QED
    BY <1>4, <2>1, <2>2, <2>3, <2>4 DEF PushKnows, Named
<1>14. OthersKnow(m)'
  BY <1>4 DEF OthersKnow
<1>15. ApartFrom(m)'
  BY <1>1, <1>4 DEF ApartFrom, Apart
<1> QED
  BY <1>1, <1>5, <1>6, <1>7, <1>8, <1>11, <1>12, <1>13, <1>14, <1>15, TextsSame, MachineStep
     DEF Knows

LEMMA PushReplaceKeepsText ==
    ASSUME Shape, TextInv, NEW m \in Machines, PushReplace(m)
    PROVE  TextInv'
<1> DEFINE old == Named(job[m].row) \ job[m].held
<1>1. /\ UNCHANGED <<file, conflicts, retired, texts, gone, uids>>
      /\ Begin(m, "idle", NoJob) /\ pc[m] = "replace"
      /\ Without(old) \/ UNCHANGED <<copies, flagged>>
      /\ Recorded(m, Max(job[m].held), PushedHash(m)) \/ UNCHANGED row
  BY DEF PushReplace, typed, Ended
<1>2. PICK u \in Uids : job[m].held = {u}
  BY <1>1 DEF Shape, TaskShape
<1>3. Max(job[m].held) = u
  BY <1>2, NewestOfOne
<1>4. PICK f \in File : f = job[m].file
  BY <1>1 DEF Shape, TaskShape, Holding
<1>5. PICK r : r = [uid |-> u, hash |-> f]
  OBVIOUS
<1>6. row' = [row EXCEPT ![m] = r] \/ row' = row
  BY <1>1, <1>3, <1>4, <1>5 DEF Recorded, PushedHash
<1>7. row'[m] \in {r, row[m]}
  BY <1>6 DEF Shape, LocalShape
<1>8. pc'[m] = "idle" /\ job'[m] = NoJob
  BY <1>1, Begun
<1>9. Beside({m})
  BY <1>1, <1>6, TaskBeside
<1>10. Onward /\ GoesOn(m) /\ TextsGoOn(m)
  BY <1>1, FilesSame
<1>11. Shrinks /\ \A c \in Visible : c \in Visible' \/ c.uid \in old
  <2>1. CASE Without(old)
    BY <1>1, <2>1, FolderWithout
  <2>2. CASE UNCHANGED <<copies, flagged>>
    BY <1>1, <2>2, FolderSame DEF folder
  <2> QED
    BY <1>1, <2>1, <2>2
<1>12. Sparing
  <2>1. \A c \in Live : c \in Visible /\ c.uid \notin old
    BY <1>1 DEF Live, Doomed, Replacing
  <2> QED
    BY <1>11, <2>1 DEF Sparing
<1>13. \A n \in Machines : n # m => OwnStays(n)
  <2> SUFFICES ASSUME NEW n \in Machines, n # m, pc[n] = "readback", NEW c \in Visible, c.uid = uids
               PROVE  c \in Visible'
    BY DEF OwnStays
  <2>1. uids \notin Named(job[m].row)
    BY <1>1 DEF TextInv, Apart
  <2> QED
    BY <1>11, <2>1
<1>14. Careful(m)
  BY <1>8, DoomsNone
<1>15. HoldsOn
  BY <1>9, <1>10, <1>11, <1>12, <1>14, KindAlone
<1>16. Known(m) /\ RowSays(m) /\ PushKnows(m)
  BY DEF TextInv
<1>17. Known(m)'
  <2>1. u \in 1..uids' /\ uids' = uids
    BY <1>1, <1>2, <1>16 DEF Known
  <2>2. Named(row'[m]) \subseteq 1..uids'
    BY <1>5, <1>7, <1>16, <2>1 DEF Known, Named
  <2> QED
    BY <1>8, <2>2, NamesNone DEF Known, Named
<1>18. RowSays(m)'
  <2>1. CASE row'[m] = row[m]
    BY <1>10, <1>11, <1>15, <1>16, <2>1, RowStays
  <2>2. CASE row'[m] = r
    <3>1. r.uid = u /\ r.hash = f /\ u \in Nat
      BY <1>2, <1>5, Bounds DEF Uids
    <3>2. Holds(u, f.text) /\ \A c \in copies : c.uid = u => c.text = f.text
      BY <1>1, <1>2, <1>4, <1>16 DEF PushKnows
    <3>3. Holds(u, f.text)'
      BY <1>15, <3>1, <3>2 DEF HoldsOn
    <3>4. file[m] # None => Replaced(file[m], gone, f.text)
      BY <1>1, <1>4, <1>16 DEF PushKnows, Holding
    <3>5. file'[m] # None => Replaced(file'[m], gone', f.text)
      BY <1>1, <3>4
    <3>6. \A c \in copies' : c.uid = u => c.text = f.text
      BY <1>11, <3>2 DEF Shrinks
    <3> QED
      BY <2>2, <3>1, <3>3, <3>5, <3>6 DEF RowSays
  <2> QED
    BY <1>7, <2>1, <2>2
<1>19. Knows(m)'
  BY <1>8, <1>17, <1>18, KnowsLittle DEF Holding
<1>20. ApartFrom(m)'
  BY <1>8, ApartAlone
<1> QED
  BY <1>1, <1>9, <1>10, <1>11, <1>12, <1>13, <1>14, <1>19, <1>20, TextsSame, MachineStep

LEMMA MaxIs ==
    ASSUME NEW S \in SUBSET Nat, NEW u \in S, \A v \in S : u >= v
    PROVE  Max(S) = u
<1>1. \A x \in S : (\A y \in S : x >= y) => x = u
  OBVIOUS
<1> QED
  BY <1>1 DEF Max

(* A push finds the copy it appended: the newest, which no row names.        *)
LEMMA ReadBackFindsOwn ==
    ASSUME Shape, TextInv, NEW m \in Machines, PushReadBack(m)
    PROVE  /\ Begin(m, "replace", [job[m] EXCEPT !.held = {uids}])
           /\ unsure' = unsure /\ uids \notin job[m].seen \cup Named(job[m].row)
           /\ \E o \in Visible : o.uid = uids /\ o.text = job[m].file.text
<1> DEFINE after == UidsOf(Visible)
           fresh == after \ job[m].seen
<1>1. pc[m] = "readback"
  BY DEF PushReadBack
<1>2. PushKnows(m)
  BY DEF TextInv
<1>3. PICK o \in Visible : o.uid = uids /\ o.text = job[m].file.text
  BY <1>1, <1>2 DEF PushKnows
<1>4. /\ uids \in fresh /\ fresh # {} /\ after # {}
      /\ uids \notin job[m].seen \cup Named(job[m].row)
  BY <1>1, <1>2, <1>3 DEF PushKnows, UidsOf
<1>5. fresh \in SUBSET Nat /\ \A v \in fresh : uids >= v
  BY SeenIsKnown DEF Shape, FolderShape
<1>6. Max(fresh) = uids
  BY <1>4, <1>5, MaxIs
<1> QED
  BY <1>3, <1>4, <1>6 DEF PushReadBack

LEMMA PushReadBackKeepsText ==
    ASSUME Shape, TextInv, NEW m \in Machines, PushReadBack(m)
    PROVE  TextInv'
<1>1. /\ UNCHANGED <<folder, file, conflicts, retired, row, texts, gone>> /\ pc[m] = "readback"
  BY DEF PushReadBack, local, typed
<1>2. Known(m) /\ RowSays(m) /\ PushKnows(m) /\ Copies
  BY DEF TextInv
<1>3. PICK j \in Job : j = job[m]
  BY DEF Shape, TaskShape
<1>4. PICK o \in Visible : o.uid = uids /\ o.text = j.file.text
  BY <1>3, ReadBackFindsOwn
<1>8. PICK k : k = [j EXCEPT !.held = {uids}]
  OBVIOUS
<1>9. k.file = j.file /\ k.row = j.row /\ k.seen = j.seen /\ k.held = {uids}
  BY <1>8 DEF Job
<1>10. Begin(m, "replace", k)
  BY <1>3, <1>8, ReadBackFindsOwn
<1>11. /\ pc'[m] = "replace" /\ job'[m] = k
       /\ \A n \in Machines \ {m} : pc'[n] = pc[n] /\ job'[n] = job[n]
  BY <1>10, Begun
<1>12. Beside({m})
  BY <1>1, <1>10, TaskBeside
<1>13. Onward /\ GoesOn(m) /\ TextsGoOn(m)
  BY <1>1, FilesSame
<1>14. Shrinks /\ Visible' = Visible /\ Sparing /\ \A n \in Machines : OwnStays(n)
  BY <1>1, FolderSame, FolderSpared
<1>15. o \in copies /\ uids \in Nat
  BY DEF Visible, Shape, FolderShape
<1>16. Holds(uids, j.file.text)
  BY <1>2, <1>4, <1>15, CopyHolds DEF Shape
<1>17. Careful(m)
  <2> SUFFICES ASSUME NEW c \in Visible, c.uid \in Named(k.row) \ k.held
               PROVE  c.text \in Laid' \/ Holds(c.uid + 1, c.text)
    BY <1>11, <1>14 DEF Careful, Replacing, Dooming, Named
  <2>1. j.row # None /\ c.uid = j.row.uid /\ c.uid # uids /\ c \in copies
    BY <1>9 DEF Named, Visible
  <2>2. c.uid \in Nat /\ c.uid + 1 \in Nat /\ uids >= c.uid + 1
    BY <1>15, <2>1 DEF Shape, FolderShape, UidsOf
  <2>3. c.text = j.row.hash.text /\ Replaced(j.file, gone, c.text)
    BY <1>1, <1>2, <1>3, <2>1 DEF PushKnows
  <2>4. CASE c.text \in gone
    BY <2>4, <1>1 DEF Laid
  <2>5. CASE c.text = j.file.text
    BY <1>15, <1>16, <2>2, <2>5, HoldsFromOlder DEF Shape
  <2> QED
    BY <2>3, <2>4, <2>5 DEF Replaced
<1>18. HoldsOn
  BY <1>12, <1>13, <1>14, <1>17, KindAlone
<1>19. Known(m)'
  <2>1. uids' = uids /\ uids \in 1..uids /\ row'[m] = row[m]
    <3>1. uids \in 1..uids
      BY <1>4, <1>15 DEF Shape, FolderShape, UidsOf
    <3> QED
      BY <1>1, <1>14, <3>1 DEF Shrinks
  <2>2. Named(row[m]) \cup Named(k.row) \cup k.seen \cup k.held \subseteq 1..uids
    BY <1>2, <1>3, <1>9, <2>1 DEF Known
  <2> QED
    BY <1>11, <2>1, <2>2 DEF Known, Named
<1>20. RowSays(m)'
  BY <1>1, <1>2, <1>13, <1>14, <1>18, RowStays
<1>21. PushKnows(m)'
  <2>1. copies' = copies /\ gone' = gone /\ file' = file
    BY <1>1 DEF folder
  <2>2. file'[m] # None => Replaced(file'[m], gone', k.file.text)
    BY <1>1, <1>2, <1>3, <1>9, <2>1 DEF PushKnows, Holding
  <2>3. k.row # None => /\ Replaced(k.file, gone', k.row.hash.text)
                        /\ \A c \in copies' : c.uid = k.row.uid => c.text = k.row.hash.text
    BY <1>1, <1>2, <1>3, <1>9, <2>1 DEF PushKnows
  <2>4. ASSUME NEW u \in k.held
        PROVE  Holds(u, k.file.text)' /\ \A c \in copies' : c.uid = u => c.text = k.file.text
    <3>1. u = uids /\ u \in Nat
      BY <1>9, <1>15
    <3>2. Holds(u, k.file.text)'
      BY <1>9, <1>16, <1>18, <3>1 DEF HoldsOn
    <3>3. \A c \in copies' : c.uid = u => c = o
      BY <1>2, <1>4, <1>15, <2>1, <3>1 DEF Copies
    <3> QED
      BY <1>4, <1>9, <3>2, <3>3
  <2> QED
    BY <1>11, <2>2, <2>3, <2>4 DEF PushKnows
<1>22. OthersKnow(m)'
  BY <1>11 DEF OthersKnow
<1>23. ApartFrom(m)'
  BY <1>1, <1>11 DEF TextInv, ApartFrom, Apart
<1> QED
  BY <1>1, <1>12, <1>13, <1>14, <1>17, <1>19, <1>20, <1>21, <1>22, <1>23, TextsSame, MachineStep
     DEF Knows

-----------------------------------------------------------------------------
(* A step that adds a copy, in the place of one or beside the others.        *)
Grows(o) ==
    /\ uids' = uids + 1 /\ o.uid = uids + 1 /\ flagged' = flagged
    /\ o \in copies' /\ copies' \subseteq copies \cup {o}

LEMMA GrownRow ==
    ASSUME Shape, HoldsOn, Onward, NEW o, Grows(o), NEW n \in Machines, Known(n), RowSays(n),
           file'[n] = file[n], row'[n] = row[n]
    PROVE  RowSays(n)'
<1>1. PICK r : r = row[n]
  OBVIOUS
<1> SUFFICES ASSUME r # None
             PROVE  /\ \A c \in copies' : c.uid = r.uid => c.text = r.hash.text
                    /\ Holds(r.uid, r.hash.text)'
                    /\ file'[n] # None => Replaced(file'[n], gone', r.hash.text)
  BY <1>1 DEF RowSays
<1>2. uids \in Nat /\ uids' = uids + 1
  BY DEF Grows, Shape, FolderShape
<1>3. r.uid \in 1..uids
  BY <1>1 DEF Known, Named
<1>4. r.uid \in Nat /\ \A c \in copies' : c.uid = r.uid => c \in copies
  BY <1>2, <1>3 DEF Grows
<1>5. gone \subseteq gone'
  BY DEF Onward
<1>6. /\ \A c \in copies : c.uid = r.uid => c.text = r.hash.text
      /\ Holds(r.uid, r.hash.text)
      /\ file[n] # None => Replaced(file[n], gone, r.hash.text)
  BY <1>1 DEF RowSays
<1> QED
  BY <1>4, <1>5, <1>6 DEF HoldsOn, Replaced

LEMMA GrownKnows ==
    ASSUME Shape, HoldsOn, Onward, NEW o, Grows(o), NEW n \in Machines, Knows(n),
           file'[n] = file[n], row'[n] = row[n], pc'[n] = pc[n], job'[n] = job[n],
           pc[n] # "readback", pc[n] = "append" => ~o.mp
    PROVE  Knows(n)'
<1>1. PICK j : j = job[n]
  OBVIOUS
<1>2. PICK r : r = row[n]
  OBVIOUS
<1>3. PICK s : s = pc[n]
  OBVIOUS
<1>4. job'[n] = j /\ row'[n] = r /\ pc'[n] = s
  BY <1>1, <1>2, <1>3
<1>5. uids \in Nat /\ uids' = uids + 1
  BY DEF Grows, Shape, FolderShape
<1>6. Named(r) \cup Named(j.row) \cup j.seen \cup j.held \subseteq 1..uids
  BY <1>1, <1>2 DEF Knows, Known
<1>7. Known(n)'
  <2>1. 1..uids \subseteq 1..uids'
    BY <1>5
  <2>2. Named(r) \cup Named(j.row) \cup j.seen \cup j.held \subseteq 1..uids'
    BY <1>6, <2>1
  <2> QED
    BY <1>4, <2>2 DEF Known, Named
<1>8. \A c \in copies' : c.uid \in 1..uids => c \in copies
  BY <1>5 DEF Grows
<1>9. gone \subseteq gone'
  BY DEF Onward
<1>10. RowSays(n)'
  BY GrownRow DEF Knows
<1>11. PushKnows(n)'
  <2>1. s \in Holding /\ file'[n] # None => Replaced(file'[n], gone', j.file.text)
    BY <1>1, <1>3, <1>9 DEF Knows, PushKnows, Replaced
  <2>2. ASSUME s \in {"append", "readback", "replace"}, j.row # None
        PROVE  /\ Replaced(j.file, gone', j.row.hash.text)
               /\ \A c \in copies' : c.uid = j.row.uid => c.text = j.row.hash.text
    <3>1. /\ Replaced(j.file, gone, j.row.hash.text)
          /\ \A c \in copies : c.uid = j.row.uid => c.text = j.row.hash.text
      BY <1>1, <1>3, <2>2 DEF Knows, PushKnows
    <3>2. j.row.uid \in 1..uids
      BY <1>6, <2>2 DEF Named
    <3> QED
      BY <1>8, <1>9, <3>1, <3>2 DEF Replaced
  <2>3. s = "append" => \A c \in Visible' : c.mp => c.uid \in Named(j.row)
    <3>1. \A c \in Visible' : c = o \/ c \in Visible
      BY DEF Visible, Grows
    <3> QED
      BY <1>1, <1>3, <3>1 DEF Knows, PushKnows
  <2>4. ASSUME s = "replace", NEW u \in j.held
        PROVE  Holds(u, j.file.text)' /\ \A c \in copies' : c.uid = u => c.text = j.file.text
    <3>1. /\ Holds(u, j.file.text) /\ u \in 1..uids /\ u \in Nat
          /\ \A c \in copies : c.uid = u => c.text = j.file.text
      BY <1>1, <1>3, <1>5, <1>6, <2>4 DEF Knows, PushKnows
    <3> QED
      BY <1>8, <3>1 DEF HoldsOn
  <2> QED
    BY <1>3, <1>4, <2>1, <2>2, <2>3, <2>4 DEF PushKnows, Named
<1>12. OthersKnow(n)'
  <2>1. ASSUME s = "settle", j.row # None PROVE Holds(j.row.uid, j.row.hash.text)'
    <3>1. Holds(j.row.uid, j.row.hash.text) /\ j.row.uid \in Nat
      <4>1. j.row.uid \in 1..uids
        BY <1>6, <2>1 DEF Named
      <4>2. j.row.uid \in Nat
        BY <1>5, <4>1
      <4> QED
        BY <1>1, <1>3, <2>1, <4>2 DEF Knows, OthersKnow
    <3> QED
      BY <3>1 DEF HoldsOn
  <2>2. s = "expunge" => \A c \in copies' : c.uid \in j.seen => c.uid \in flagged'
    <3>1. j.seen \subseteq 1..uids
      BY <1>6
    <3> QED
      BY <1>1, <1>3, <1>8, <3>1 DEF Knows, OthersKnow, Grows
  <2>3. s = "missing" => file'[n] = None
    BY <1>3 DEF Knows, OthersKnow
  <2> QED
    BY <1>4, <2>1, <2>2, <2>3 DEF OthersKnow
<1> QED
  BY <1>7, <1>10, <1>11, <1>12 DEF Knows

LEMMA DoomedIsKnown ==
    ASSUME TextInv, NEW u, Doomed(u) PROVE u \in 1..uids
  BY DEF TextInv, Known, Doomed, Replacing, Dooming

LEMMA GrownCopies ==
    ASSUME Shape, TextInv, Kindly, HoldsOn, NEW o, Grows(o), o \in Live',
           \A u : Doomed(u)' => Doomed(u),
           \A c \in Visible : c.mp /\ c \in copies' /\ c.uid = uids => Holds(c.uid + 1, c.text)'
    PROVE  Copies'
<1>1. uids \in Nat /\ uids' = uids + 1 /\ uids + 1 \notin 1..uids
  BY DEF Grows, Shape, FolderShape
<1>2. \A c \in copies : c.uid \in 1..uids /\ c.uid \in Nat /\ c.uid + 1 \in Nat
  BY DEF Shape, FolderShape, UidsOf
<1>3. Copies
  BY DEF TextInv
<1>4. \A c, d \in copies' : c.uid = d.uid => c = d
  BY <1>1, <1>2, <1>3 DEF Grows, Copies
<1>5. \A c \in copies' : c.uid \in flagged' => c.text \in gone'
  <2>1. flagged \subseteq 1..uids /\ o.uid \notin 1..uids
    BY <1>1, <1>2 DEF Shape, FolderShape, UidsOf, Grows
  <2> QED
    BY <1>3, <2>1 DEF Grows, Copies, Kindly, Onward
<1>6. \A c \in Visible' : c = o \/ c \in Visible
  BY DEF Visible, Grows
<1>7. ASSUME NEW c \in Visible', c.mp, c.uid < uids' PROVE Holds(c.uid + 1, c.text)'
  <2>1. c \in Visible /\ c \in copies' /\ c \in copies
    BY <1>1, <1>6, <1>7 DEF Grows, Visible
  <2>2. CASE c.uid = uids
    BY <1>7, <2>1, <2>2
  <2>3. CASE c.uid < uids
    <3>1. Holds(c.uid + 1, c.text)
      BY <1>3, <1>7, <2>1, <2>3 DEF Copies
    <3> QED
      BY <1>2, <2>1, <3>1 DEF HoldsOn
  <2> QED
    BY <1>1, <1>2, <1>7, <2>1, <2>2, <2>3
<1>8. ASSUME NEW c \in Visible', Doomed(c.uid)' PROVE Holds(c.uid + 1, c.text)'
  <2>1. Doomed(c.uid)
    BY <1>8
  <2>2. c \in Visible /\ c \in copies
    BY <1>1, <1>6, <2>1, DoomedIsKnown DEF Grows, Visible
  <2>3. Holds(c.uid + 1, c.text)
    BY <1>3, <2>1, <2>2 DEF Copies
  <2> QED
    BY <1>2, <2>2, <2>3 DEF HoldsOn
<1> QED
  BY <1>4, <1>5, <1>7, <1>8 DEF Copies

(* No task is about to delete a copy that is new.                            *)
LEMMA NewIsLive ==
    ASSUME Shape, TextInv, Onward, NEW o, Grows(o), NEW A \in SUBSET Machines, Beside(A),
           \A m \in A : pc'[m] \notin {"replace", "doom"}
    PROVE  o \in Live' /\ \A u : Doomed(u)' => Doomed(u)
<1>1. ASSUME NEW u, Doomed(u)' PROVE Doomed(u)
  <2>1. \A m \in A : Replacing(m)' = {} /\ Dooming(m)' = {}
    BY DEF Replacing, Dooming
  <2> QED
    BY <1>1, <2>1, DoomsLess
<1>2. o.uid \notin 1..uids
  BY DEF Grows, Shape, FolderShape
<1>3. o \in Visible'
  BY <1>2 DEF Visible, Grows, Shape, FolderShape, UidsOf
<1>4. ~Doomed(o.uid)'
  <2> SUFFICES ASSUME NEW u, u = o.uid PROVE ~Doomed(u)'
    OBVIOUS
  <2> QED
    BY <1>1, <1>2, DoomedIsKnown
<1> QED
  BY <1>1, <1>3, <1>4 DEF Live

LEMMA GrowStep ==
    ASSUME Shape, TextInv, Onward, Sparing, NewTextsKept, NEW o, Grows(o),
           NEW A \in SUBSET Machines, Beside(A),
           \A n \in Machines \ A : pc[n] # "readback" /\ (pc[n] = "append" => ~o.mp),
           \A m \in A : /\ pc'[m] \notin {"replace", "doom"}
                        /\ HoldsOn => Knows(m)'
                        /\ ApartFrom(m)' /\ TextsGoOn(m),
           \A c \in Visible : c.mp /\ c \in copies' /\ c.uid = uids =>
               c.text \in Laid' \/ c.text = o.text
    PROVE  TextInv'
<1>1. o \in Live' /\ \A u : Doomed(u)' => Doomed(u)
  BY NewIsLive
<1>2. Kindly /\ HoldsOn
  BY DoomsNone, KindStep
<1>3. Copies'
  <2> SUFFICES ASSUME NEW c \in Visible, c.text \in Laid' \/ c.text = o.text, c.uid = uids
               PROVE  Holds(c.uid + 1, c.text)'
    BY <1>1, <1>2, GrownCopies
  <2>1. o.uid >= c.uid + 1
    BY DEF Grows, Shape, FolderShape
  <2> QED
    BY <1>1, <2>1 DEF Holds
<1>4. ASSUME NEW n \in Machines PROVE Knows(n)'
  <2>1. CASE n \in A
    BY <1>2, <2>1
  <2>2. CASE n \notin A
    <3>1. pc'[n] = pc[n] /\ job'[n] = job[n] /\ row'[n] = row[n] /\ file'[n] = file[n]
      BY <2>2 DEF Beside
    <3>2. Knows(n)
      BY DEF TextInv, Knows
    <3>3. pc[n] # "readback" /\ (pc[n] = "append" => ~o.mp)
      BY <2>2
    <3> QED
      BY <1>2, <3>1, <3>2, <3>3, GrownKnows
  <2> QED
    BY <2>1, <2>2
<1>5. ASSUME NEW m \in Machines, NEW n \in Machines, m # n PROVE Apart(m, n)'
  <2>1. CASE m \in A \/ n \in A
    BY <1>5, <2>1 DEF ApartFrom
  <2>2. CASE m \notin A /\ n \notin A
    <3>1. Apart(m, n) /\ pc[m] # "readback"
      BY <1>5, <2>2 DEF TextInv
    <3> QED
      BY <2>2, <3>1 DEF Apart, Beside
  <2> QED
    BY <2>1, <2>2
<1>6. Textual'
  BY <1>2, TextualStays DEF TextInv
<1> QED
  BY <1>3, <1>4, <1>5, <1>6 DEF TextInv, Knows

LEMMA PushAppendKeepsText ==
    ASSUME Shape, TextInv, NEW m \in Machines, PushAppend(m)
    PROVE  TextInv'
<1>1. PICK j : j = job[m]
  OBVIOUS
<1>2. PICK o : o = [uid |-> uids + 1, text |-> j.file.text, approved |-> j.file.approved,
                    mp |-> TRUE]
  OBVIOUS
<1>3. o.uid = uids + 1 /\ o.text = j.file.text /\ o.mp
  BY <1>2
<1>4. /\ UNCHANGED <<flagged, file, conflicts, retired, row, texts, gone>>
      /\ pc[m] = "append" /\ uids' = uids + 1
      /\ copies' = copies \cup {o} /\ Begin(m, "readback", j)
  BY <1>1, <1>2 DEF PushAppend, local, typed, history
<1>5. /\ pc'[m] = "readback" /\ job'[m] = j
      /\ \A n \in Machines \ {m} : pc'[n] = pc[n] /\ job'[n] = job[n]
  BY <1>4, Begun
<1>6. Beside({m})
  BY <1>4, TaskBeside
<1>7. Onward /\ GoesOn(m) /\ TextsGoOn(m)
  BY <1>4, FilesSame
<1>8. Grows(o) /\ Visible \subseteq Visible'
  BY <1>3, <1>4 DEF Grows, Visible
<1>9. Sparing
  BY <1>8 DEF Sparing, Live
<1>10. o \in Live'
  <2>1. {m} \in SUBSET Machines /\ \A n \in {m} : pc'[n] \notin {"replace", "doom"}
    BY <1>5
  <2> QED
    BY <1>6, <1>7, <1>8, <2>1, NewIsLive
<1>11. Known(m) /\ RowSays(m) /\ PushKnows(m)
  BY DEF TextInv
<1>12. uids \in Nat /\ uids' \notin 1..uids /\ 1..uids \subseteq 1..uids'
  BY <1>4 DEF Shape, FolderShape
<1>13. ASSUME HoldsOn PROVE Knows(m)'
  <2>1. Known(m)'
    <3>1. Named(row[m]) \cup Named(j.row) \cup j.seen \cup j.held \subseteq 1..uids'
      BY <1>1, <1>11, <1>12 DEF Known
    <3> QED
      BY <1>4, <1>5, <3>1 DEF Known, Named
  <2>2. RowSays(m)'
    BY <1>4, <1>7, <1>8, <1>11, <1>13, GrownRow
  <2>3. PushKnows(m)'
    <3>1. file'[m] # None => Replaced(file'[m], gone', j.file.text)
      BY <1>1, <1>4, <1>11 DEF PushKnows, Holding
    <3>2. ASSUME j.row # None
          PROVE  /\ Replaced(j.file, gone', j.row.hash.text)
                 /\ \A c \in copies' : c.uid = j.row.uid => c.text = j.row.hash.text
      <4>1. j.row.uid \in 1..uids
        BY <1>1, <1>11, <3>2 DEF Known, Named
      <4>2. j.row.uid # o.uid
        BY <1>3, <1>4, <1>12, <4>1
      <4> QED
        BY <1>1, <1>4, <1>11, <3>2, <4>2 DEF PushKnows
    <3>3. o \in Visible' /\ o.uid = uids' /\ o.text = j.file.text
      BY <1>3, <1>4, <1>10 DEF Live
    <3>4. uids' \notin j.seen \cup Named(j.row)
      BY <1>1, <1>11, <1>12 DEF Known
    <3> QED
      BY <1>5, <3>1, <3>2, <3>3, <3>4 DEF PushKnows, Named
  <2>4. OthersKnow(m)'
    BY <1>5 DEF OthersKnow
  <2> QED
    BY <2>1, <2>2, <2>3, <2>4 DEF Knows
<1>14. \A n \in Machines : n # m => pc[n] \notin {"append", "readback", "expunge"}
  BY <1>4 DEF TextInv, Apart
<1>15. ApartFrom(m)'
  <2> SUFFICES ASSUME NEW n \in Machines, n # m PROVE Apart(m, n)' /\ Apart(n, m)'
    BY DEF ApartFrom
  <2>1. pc'[n] = pc[n] /\ job'[n] = job[n] /\ pc[n] \notin {"append", "readback", "expunge"}
    BY <1>5, <1>14
  <2>2. uids' \notin Named(job[n].row)
    BY <1>12 DEF TextInv, Known
  <2> QED
    BY <1>5, <2>1, <2>2 DEF Apart, Named
<1>16. ASSUME NEW c \in Visible, c.mp PROVE c.text \in Laid' \/ c.text = o.text
  <2>1. c \in copies /\ j.row # None /\ c.uid = j.row.uid
    BY <1>1, <1>4, <1>11, <1>16 DEF Visible, PushKnows, Named
  <2>2. Replaced(j.file, gone, c.text)
    BY <1>1, <1>4, <1>11, <2>1 DEF PushKnows
  <2> QED
    BY <1>3, <1>4, <2>2 DEF Replaced, Laid
<1>17. /\ {m} \in SUBSET Machines
       /\ \A n \in Machines \ {m} : pc[n] # "readback" /\ (pc[n] = "append" => ~o.mp)
       /\ \A n \in {m} : /\ pc'[n] \notin {"replace", "doom"} /\ (HoldsOn => Knows(n)')
                         /\ ApartFrom(n)' /\ TextsGoOn(n)
  BY <1>5, <1>7, <1>13, <1>14, <1>15
<1> QED
  BY <1>4, <1>6, <1>7, <1>8, <1>9, <1>16, <1>17, TextsSame, GrowStep

LEMMA ForeignEditKeepsText ==
    ASSUME Shape, TextInv, ~Overlap, ForeignEdit
    PROVE  TextInv'
<1>1. /\ UNCHANGED <<flagged, file, conflicts, retired, row, task>>
      /\ uids' = uids + 1 /\ texts' = texts + 1
      /\ \A n \in Machines : pc[n] # "readback"
  BY DEF ForeignEdit, local, NoneAt
<1>2. PICK o : o = [uid |-> uids + 1, text |-> texts + 1, approved |-> FALSE, mp |-> FALSE]
  OBVIOUS
<1>3. o.uid = uids + 1 /\ o.text = texts + 1 /\ ~o.mp
  BY <1>2
<1>4. PICK c \in Visible : /\ c.uid = Max(UidsOf(Visible))
                           /\ copies' = (copies \ {c}) \cup {o}
                           /\ gone' = gone \cup {c.text}
  BY <1>2 DEF ForeignEdit
<1>5. Beside({}) /\ Onward
  BY <1>1, <1>4 DEF Beside, Onward, task
<1>6. Grows(o) /\ \A d \in Visible : d = c \/ d \in Visible'
  BY <1>1, <1>3, <1>4 DEF Grows, Visible
<1>7. Sparing
  BY <1>4, <1>6 DEF Sparing, Laid, Live
<1>8. {} \in SUBSET Machines /\ \A n \in {} : pc'[n] \notin {"replace", "doom"}
  OBVIOUS
<1>9. o \in Live'
  BY <1>5, <1>6, <1>8, NewIsLive
<1>10. NewTextsKept
  <2>1. ASSUME NEW x, x = texts + 1 PROVE Somewhere(x)'
    <3>1. o.uid >= 0
      BY <1>3 DEF Shape, FolderShape
    <3> QED
      BY <1>3, <1>9, <2>1, <3>1 DEF Somewhere, Holds
  <2>2. texts \in Nat
    BY Bounds DEF Shape, PastShape, Texts
  <2>3. \A x \in 1..texts' : x \in 1..texts \/ x = texts + 1
    BY <1>1, <2>2
  <2> QED
    BY <2>1, <2>3 DEF NewTextsKept
<1>11. ASSUME NEW d \in Visible, d \in copies', d.uid = uids PROVE d.text \in Laid'
  <2>1. d \in copies /\ c \in copies
    BY DEF Visible
  <2>2. UidsOf(Visible) \in SUBSET Nat /\ \A u \in UidsOf(Visible) : uids >= u
    BY SeenIsKnown DEF Shape, FolderShape
  <2>3. uids \in UidsOf(Visible)
    BY <1>11 DEF UidsOf
  <2>4. c.uid = uids
    BY <1>4, <2>2, <2>3, MaxIs
  <2>5. d = c
    BY <1>11, <2>1, <2>4 DEF TextInv, Copies
  <2> QED
    BY <1>4, <2>5 DEF Laid
<1>12. /\ \A n \in Machines \ {} : pc[n] # "readback" /\ (pc[n] = "append" => ~o.mp)
       /\ \A n \in {} : /\ pc'[n] \notin {"replace", "doom"} /\ (HoldsOn => Knows(n)')
                        /\ ApartFrom(n)' /\ TextsGoOn(n)
  BY <1>1, <1>3
<1> QED
  BY <1>5, <1>6, <1>7, <1>8, <1>10, <1>11, <1>12, GrowStep

-----------------------------------------------------------------------------
(* Copies that go by a user's wish. *)

LEMMA LetGoSpares ==
    ASSUME NEW S, LetGo(S), uids' = uids
    PROVE  /\ Shrinks /\ Sparing /\ gone \subseteq gone'
           /\ Visible' = {c \in Visible : c.uid \notin S}
<1>1. Shrinks /\ Visible' = {c \in Visible : c.uid \notin S}
  BY FolderWithout DEF LetGo
<1>2. gone' = gone \cup TextsIn(At(S))
  BY DEF LetGo
<1>3. \A c \in Visible : c.uid \in S => c.text \in gone'
  BY <1>2 DEF At, TextsIn, Visible
<1>4. Sparing
  BY <1>1, <1>3 DEF Sparing, Live, Laid
<1> QED
  BY <1>1, <1>2, <1>4

LEMMA LetGoKeepsText ==
    ASSUME Shape, TextInv, NEW S, LetGo(S), \A n \in Machines : pc[n] # "readback",
           UNCHANGED <<uids, texts, file, conflicts, retired, row, task>>
    PROVE  TextInv'
<1>1. Shrinks /\ Sparing /\ gone \subseteq gone'
  BY LetGoSpares
<1>2. Onward /\ \A n \in Machines : OwnStays(n)
  BY <1>1 DEF Onward, OwnStays
<1> QED
  BY <1>1, <1>2, ClientStep

LEMMA ForeignDeleteKeepsText ==
    ASSUME Shape, TextInv, ~Overlap, ForeignDelete
    PROVE  TextInv'
<1>1. PICK c \in Visible : LetGo({c.uid})
  BY DEF ForeignDelete
<1>2. /\ UNCHANGED <<uids, texts, file, conflicts, retired, row, task>>
      /\ \A n \in Machines : pc[n] # "readback"
  BY DEF ForeignDelete, local, typed, NoneAt
<1> QED
  BY <1>1, <1>2, LetGoKeepsText

LEMMA ForeignSendKeepsText ==
    ASSUME Shape, TextInv, ~Overlap, ForeignSend
    PROVE  TextInv'
<1>1. /\ UNCHANGED <<uids, texts, file, conflicts, retired, row, task>>
      /\ LetGo(UidsOf(Visible)) /\ \A n \in Machines : pc[n] # "readback"
  BY DEF ForeignSend, local, typed, NoneAt
<1> QED
  BY <1>1, LetGoKeepsText

LEMMA DrainDeleteKeepsText ==
    ASSUME Shape, TextInv, ~Overlap, NEW m \in Machines, DrainDelete(m)
    PROVE  TextInv'
<1>1. /\ UNCHANGED <<uids, texts, file, conflicts, retired, row, task>>
      /\ LetGo(UidsOf(Visible)) /\ \A n \in Machines : pc[n] # "readback"
  BY DEF DrainDelete, typed, NoneElse, Idle
<1> QED
  BY <1>1, LetGoKeepsText

-----------------------------------------------------------------------------
(* A task that works on no file it read: a reconcile's rest, a send. *)

LEMMA TaskStep ==
    ASSUME Shape, TextInv, NEW m \in Machines, NEW s, NEW k, Begin(m, s, k),
           s \notin Holding \cup {"expunge"}, s = "missing" => file'[m] = None,
           Named(k.row) \cup k.seen \cup k.held \subseteq 1..uids,
           Named(row'[m]) \subseteq 1..uids,
           Beside({m}), Onward, Shrinks, Sparing, NewTextsKept, Careful(m), TextsGoOn(m),
           \A n \in Machines : n # m => OwnStays(n),
           HoldsOn => RowSays(m)'
    PROVE  TextInv'
<1>1. pc'[m] = s /\ job'[m] = k
  BY Begun
<1>2. HoldsOn
  BY KindAlone
<1>3. Known(m)'
  BY <1>1 DEF Known, Named, Shrinks
<1>4. Knows(m)'
  BY <1>1, <1>2, <1>3, KnowsLittle
<1>5. ApartFrom(m)'
  BY <1>1, ApartAlone DEF Holding
<1> QED
  BY <1>4, <1>5, MachineStep

(* One that leaves the file as it is, and the row or none.                   *)
LEMMA TaskRests ==
    ASSUME Shape, TextInv, NEW m \in Machines, NEW s, NEW k, Begin(m, s, k),
           s \notin Holding \cup {"expunge", "doom"}, s = "missing" => file[m] = None,
           Named(k.row) \cup k.seen \cup k.held \subseteq 1..uids,
           gone \subseteq gone', UNCHANGED <<file, conflicts, retired, texts>>,
           row' = row \/ row' = [row EXCEPT ![m] = None],
           Shrinks, Sparing, \A n \in Machines : n # m => OwnStays(n)
    PROVE  TextInv'
<1>1. Beside({m})
  BY TaskBeside
<1>2. Onward /\ GoesOn(m) /\ TextsGoOn(m)
  BY FilesSame
<1>3. row'[m] \in {row[m], None}
  BY DEF Shape, LocalShape
<1>4. Known(m) /\ RowSays(m)
  BY DEF TextInv
<1>5. Named(row'[m]) \subseteq 1..uids
  BY <1>3, <1>4, NamesNone DEF Known
<1>6. HoldsOn => RowSays(m)'
  BY <1>2, <1>3, <1>4, RowStays
<1>7. Careful(m)
  BY Begun, DoomsNone DEF Holding
<1> QED
  BY <1>1, <1>2, <1>5, <1>6, <1>7, TextsSame, TaskStep

LEMMA NoJobIsKnown ==
    Named(NoJob.row) \cup NoJob.seen \cup NoJob.held \subseteq 1..uids
  BY NamesNone

LEMMA ReconcileDoomKeepsText ==
    ASSUME Shape, TextInv, ~Overlap, NEW m \in Machines, ReconcileDoom(m)
    PROVE  TextInv'
<1>1. /\ UNCHANGED <<uids, file, conflicts, retired, row, texts>>
      /\ Begin(m, "idle", NoJob) /\ pc[m] = "doom"
      /\ \A n \in Machines : n # m => pc[n] # "readback"
  BY DEF ReconcileDoom, local, typed, NoneElse, Ended
<1>2. Shrinks /\ Sparing /\ gone \subseteq gone'
  <2>1. CASE file[m] = None /\ Tombstone(m)
    <3>1. LetGo(job[m].held)
      BY <2>1 DEF ReconcileDoom
    <3> QED
      BY <1>1, <3>1, LetGoSpares
  <2>2. CASE ~(file[m] = None /\ Tombstone(m))
    <3>1. Without(job[m].held) /\ gone' = gone
      BY <2>2 DEF ReconcileDoom
    <3>2. \A c \in Live : c \in Visible /\ c.uid \notin job[m].held
      BY <1>1, <2>2 DEF Live, Doomed, Dooming
    <3>3. Shrinks /\ Visible' = {c \in Visible : c.uid \notin job[m].held}
      BY <1>1, <3>1, FolderWithout
    <3> QED
      BY <3>1, <3>2, <3>3 DEF Sparing
  <2> QED
    BY <2>1, <2>2
<1>3. \A n \in Machines : n # m => OwnStays(n)
  BY <1>1 DEF OwnStays
<1> QED
  BY <1>1, <1>2, <1>3, NoJobIsKnown, TaskRests DEF Holding

LEMMA ReconcileMissingKeepsText ==
    ASSUME Shape, TextInv, NEW m \in Machines, ReconcileMissing(m)
    PROVE  TextInv'
<1> DEFINE claimed == IF HandRemoved(m) THEN Named(row[m]) ELSE {}
           rest == UidsOf(Visible) \ claimed
           held == IF Again(m, "file") THEN claimed ELSE {}
           k == [NoJob EXCEPT !.seen = rest, !.held = held]
<1>1. /\ UNCHANGED <<folder, file, conflicts, retired, texts, gone>>
      /\ Begin(m, "missing", k) /\ file[m] = None
      /\ row' = row \/ row' = [row EXCEPT ![m] = None]
  BY DEF ReconcileMissing, typed, history
<1>2. Named(k.row) \cup k.seen \cup k.held \subseteq 1..uids
  <2>1. claimed \subseteq 1..uids
    BY DEF TextInv, Known
  <2>2. rest \subseteq 1..uids /\ held \subseteq 1..uids
    BY <2>1, SeenIsKnown
  <2>3. k.row = None /\ k.seen = rest /\ k.held = held
    BY DEF NoJob
  <2> QED
    BY <2>2, <2>3, NamesNone
<1>3. Shrinks /\ Sparing /\ \A n \in Machines : OwnStays(n)
  BY <1>1, FolderSpared
<1> HIDE DEF k
<1> QED
  BY <1>1, <1>2, <1>3, TaskRests DEF Holding

LEMMA SendSearchKeepsText ==
    ASSUME Shape, TextInv, NEW m \in Machines, SendSearch(m)
    PROVE  TextInv'
<1> DEFINE s == IF Visible = {} THEN "submit" ELSE "claim"
           k == [NoJob EXCEPT !.seen = UidsOf(Visible), !.file = file[m]]
<1>1. /\ UNCHANGED <<folder, file, conflicts, retired, texts, gone>>
      /\ Begin(m, s, k) /\ row' = [row EXCEPT ![m] = None]
  BY DEF SendSearch, typed, history
<1>2. Named(k.row) \cup k.seen \cup k.held \subseteq 1..uids
  <2>1. k.row = None /\ k.seen = UidsOf(Visible) /\ k.held = {}
    BY DEF NoJob
  <2> QED
    BY <2>1, NamesNone, SeenIsKnown
<1>3. Shrinks /\ Sparing /\ \A n \in Machines : OwnStays(n)
  BY <1>1, FolderSpared
<1>4. s \notin Holding \cup {"expunge", "doom"} /\ s # "missing"
  BY DEF Holding
<1> HIDE DEF k, s
<1> QED
  BY <1>1, <1>2, <1>3, <1>4, TaskRests

LEMMA ClaimFlagKeepsText ==
    ASSUME Shape, TextInv, ~Overlap, NEW m \in Machines, ClaimFlag(m)
    PROVE  TextInv'
<1> DEFINE held == UidsOf(At(job[m].seen))
<1>1. PICK j \in Job : j = job[m]
  BY DEF Shape, TaskShape
<1>2. PICK k : k = [j EXCEPT !.held = held]
  OBVIOUS
<1>3. k.row = j.row /\ k.seen = j.seen /\ k.held = held
  BY <1>2 DEF Job
<1>4. /\ UNCHANGED <<copies, uids, file, conflicts, retired, row, texts>>
      /\ flagged' = flagged \cup held /\ gone' = gone \cup TextsIn(At(j.seen))
      /\ Begin(m, "expunge", k)
      /\ \A n \in Machines : n # m => pc[n] \notin {"append", "readback", "replace", "expunge"}
  BY <1>1, <1>2 DEF ClaimFlag, local, typed, NoneElse
<1>5. held \subseteq UidsOf(copies) /\ \A c \in copies : c.uid \in j.seen => c.uid \in held
  BY <1>1 DEF UidsOf, At
<1>6. \A c \in copies : c.uid \in held => c.uid \in j.seen /\ c.text \in gone'
  BY <1>1, <1>4 DEF UidsOf, At, TextsIn
<1>7. pc'[m] = "expunge" /\ job'[m] = k /\ \A n \in Machines \ {m} : pc'[n] = pc[n]
  BY <1>4, Begun
<1>8. Beside({m})
  BY <1>4, TaskBeside
<1>9. Onward /\ GoesOn(m) /\ TextsGoOn(m)
  BY <1>4, FilesSame
<1>10. Shrinks
  BY <1>4, <1>6 DEF Shrinks, Visible
<1>11. Sparing
  BY <1>4, <1>6 DEF Sparing, Live, Visible, Laid
<1>12. Careful(m)
  BY <1>7, DoomsNone
<1>13. \A n \in Machines : n # m => OwnStays(n)
  BY <1>4 DEF OwnStays
<1>14. HoldsOn
  BY <1>8, <1>9, <1>11, <1>12, KindAlone
<1>15. Known(m) /\ RowSays(m)
  BY DEF TextInv
<1>16. Known(m)'
  <2>1. held \subseteq 1..uids
    BY <1>5 DEF Shape, FolderShape
  <2>2. Named(row[m]) \cup Named(k.row) \cup k.seen \cup k.held \subseteq 1..uids
    BY <1>1, <1>3, <1>15, <2>1 DEF Known
  <2> QED
    BY <1>4, <1>7, <2>2 DEF Known, Named
<1>17. RowSays(m)'
  BY <1>4, <1>9, <1>10, <1>14, <1>15, RowStays
<1>18. PushKnows(m)'
  BY <1>7 DEF PushKnows, Holding
<1>19. OthersKnow(m)'
  BY <1>3, <1>4, <1>5, <1>7 DEF OthersKnow
<1>20. ApartFrom(m)'
  BY <1>4, <1>7 DEF ApartFrom, Apart
<1> QED
  BY <1>4, <1>8, <1>9, <1>10, <1>11, <1>12, <1>13, <1>16, <1>17, <1>18, <1>19, <1>20, TextsSame,
     MachineStep
  DEF Knows

LEMMA ClaimExpungeKeepsText ==
    ASSUME Shape, TextInv, NEW m \in Machines, ClaimExpunge(m)
    PROVE  TextInv'
<1> DEFINE k == [NoJob EXCEPT !.file = job[m].file]
<1>1. k.row = None /\ k.seen = {} /\ k.held = {}
  BY DEF NoJob
<1>2. /\ UNCHANGED <<uids, file, conflicts, retired, row, texts, gone>>
      /\ Without(job[m].seen) /\ pc[m] = "expunge"
      /\ Begin(m, "submit", k) \/ Begin(m, "idle", NoJob)
  BY DEF ClaimExpunge, local, typed, Ended
<1> HIDE DEF k
<1>3. OthersKnow(m)
  BY DEF TextInv
<1>4. Shrinks /\ Visible' = {c \in Visible : c.uid \notin job[m].seen}
  BY <1>2, FolderWithout
<1>5. Visible' = Visible
  BY <1>2, <1>3, <1>4 DEF OthersKnow, Visible
<1>6. Sparing /\ \A n \in Machines : OwnStays(n)
  BY <1>5 DEF Sparing, OwnStays, Live
<1>7. CASE Begin(m, "submit", k)
  BY <1>1, <1>2, <1>4, <1>6, <1>7, NamesNone, TaskRests DEF Holding
<1>8. CASE Begin(m, "idle", NoJob)
  BY <1>2, <1>4, <1>6, <1>8, NoJobIsKnown, TaskRests DEF Holding
<1> QED
  BY <1>2, <1>7, <1>8

LEMMA SubmitKeepsText ==
    ASSUME Shape, TextInv, NEW m \in Machines, Submit(m)
    PROVE  TextInv'
<1>1. /\ UNCHANGED <<folder, file, conflicts, retired, row, texts, gone>>
      /\ Begin(m, "retire", NoJob) \/ Begin(m, "idle", NoJob)
  BY DEF Submit, typed, Delivered, Ended
<1>2. Shrinks /\ Sparing /\ \A n \in Machines : OwnStays(n)
  BY <1>1, FolderSpared
<1>3. CASE Begin(m, "retire", NoJob)
  BY <1>1, <1>2, <1>3, NoJobIsKnown, TaskRests DEF Holding
<1>4. CASE Begin(m, "idle", NoJob)
  BY <1>1, <1>2, <1>4, NoJobIsKnown, TaskRests DEF Holding
<1> QED
  BY <1>1, <1>3, <1>4

LEMMA ResendKeepsText ==
    ASSUME Shape, TextInv, NEW m \in Machines, Resend(m)
    PROVE  TextInv'
<1>1. UNCHANGED <<folder, file, conflicts, retired, row, texts, gone>>
  BY DEF Resend, typed
<1>2. Shrinks /\ Sparing /\ \A n \in Machines : OwnStays(n)
  BY <1>1, FolderSpared
<1>3. CASE Delivered(m)
  BY <1>1, <1>2, <1>3, NoJobIsKnown, TaskRests DEF Holding, Delivered
<1>4. CASE UNCHANGED task
  <2>1. Onward
    BY <1>1 DEF Onward
  <2> QED
    BY <1>1, <1>2, <1>4, <2>1, ClientStep
<1> QED
  BY <1>3, <1>4 DEF Resend

LEMMA RetireKeepsText ==
    ASSUME Shape, TextInv, NEW m \in Machines, Retire(m)
    PROVE  TextInv'
<1>1. /\ UNCHANGED <<folder, conflicts, row, texts, gone>>
      /\ Begin(m, "idle", NoJob)
      /\ file' = [file EXCEPT ![m] = None]
      /\ \/ file[m] = None /\ retired' = retired
         \/ retired' = [retired EXCEPT ![m] = @ \cup {[file |-> file[m], why |-> "out"]}]
  BY DEF Retire, typed, history, Ended
<1>2. /\ Onward /\ GoesOn(m) /\ TextsGoOn(m)
      /\ \A n \in Machines \ {m} : file'[n] = file[n] /\ retired'[n] = retired[n]
  BY <1>1, FileRetired
<1>3. Shrinks /\ Sparing /\ \A n \in Machines : OwnStays(n)
  BY <1>1, FolderSpared
<1>4. pc'[m] = "idle" /\ \A n \in Machines \ {m} : pc'[n] = pc[n] /\ job'[n] = job[n]
  BY <1>1, Begun
<1>5. Beside({m})
  BY <1>1, <1>2, <1>4 DEF Beside
<1>6. Known(m) /\ RowSays(m)
  BY DEF TextInv
<1>7. Named(row'[m]) \subseteq 1..uids
  BY <1>1, <1>6 DEF Known
<1>8. HoldsOn => RowSays(m)'
  BY <1>1, <1>2, <1>3, <1>6, RowStays
<1>9. Careful(m)
  BY <1>4, DoomsNone
<1> QED
  BY <1>1, <1>2, <1>3, <1>5, <1>7, <1>8, <1>9, NoJobIsKnown, TextsSame, TaskStep DEF Holding

LEMMA FaultKeepsText ==
    ASSUME Shape, TextInv, NEW m \in Machines, Fault(m)
    PROVE  TextInv'
<1>1. /\ UNCHANGED <<folder, file, conflicts, retired, row, texts, gone>>
      /\ Begin(m, "idle", NoJob)
  BY DEF Fault, local, typed, Ended
<1>2. Shrinks /\ Sparing /\ \A n \in Machines : OwnStays(n)
  BY <1>1, FolderSpared
<1> QED
  BY <1>1, <1>2, NoJobIsKnown, TaskRests DEF Holding

-----------------------------------------------------------------------------
(* A reconcile, of a draft whose file is here. *)

LEMMA ReconcileOpenKeepsText ==
    ASSUME Shape, TextInv, NEW m \in Machines, ReconcileOpen(m)
    PROVE  TextInv'
<1> DEFINE j == [NoJob EXCEPT !.seen = UidsOf(Visible), !.row = row[m], !.file = file[m]]
<1>1. /\ UNCHANGED <<folder, file, conflicts, retired, row, texts, gone>> /\ Begin(m, "settle", j)
  BY DEF ReconcileOpen, local, typed, history
<1>2. j.seen = UidsOf(Visible) /\ j.row = row[m] /\ j.file = file[m] /\ j.held = {}
  BY DEF NoJob
<1> HIDE DEF j
<1>3. PICK k : k = j
  OBVIOUS
<1>4. pc'[m] = "settle" /\ job'[m] = k
  BY <1>1, <1>3, Begun
<1>5. Beside({m})
  BY <1>1, TaskBeside
<1>6. Onward /\ GoesOn(m) /\ TextsGoOn(m)
  BY <1>1, FilesSame
<1>7. Shrinks /\ Visible' = Visible /\ Sparing /\ \A n \in Machines : OwnStays(n)
  BY <1>1, FolderSame, FolderSpared
<1>8. Careful(m)
  BY <1>4, DoomsNone
<1>9. HoldsOn
  BY <1>5, <1>6, <1>7, <1>8, KindAlone
<1>10. Known(m) /\ RowSays(m)
  BY DEF TextInv
<1>11. Known(m)'
  BY <1>1, <1>2, <1>3, <1>4, <1>7, <1>10, SeenIsKnown DEF Known, Named, Shrinks
<1>12. RowSays(m)'
  BY <1>1, <1>6, <1>7, <1>9, <1>10, RowStays
<1>13. PushKnows(m)'
  <2>1. file'[m] = k.file
    BY <1>1, <1>2, <1>3
  <2>2. Replaced(k.file, gone', k.file.text)
    BY DEF Replaced
  <2> QED
    BY <1>4, <2>1, <2>2 DEF PushKnows
<1>14. OthersKnow(m)'
  <2>1. ASSUME k.row # None PROVE Holds(k.row.uid, k.row.hash.text)'
    <3>1. Holds(k.row.uid, k.row.hash.text)
      BY <1>2, <1>3, <1>10, <2>1 DEF RowSays
    <3>2. k.row.uid \in 1..uids /\ uids \in Nat
      BY <1>2, <1>3, <1>10, <2>1 DEF Known, Named, Shape, FolderShape
    <3>3. k.row.uid \in Nat
      BY <3>2
    <3> QED
      BY <1>9, <3>1, <3>3 DEF HoldsOn
  <2> QED
    BY <1>4, <2>1 DEF OthersKnow
<1>15. ApartFrom(m)'
  BY <1>4, ApartAlone
<1> QED
  BY <1>1, <1>5, <1>6, <1>7, <1>8, <1>11, <1>12, <1>13, <1>14, <1>15, TextsSame, MachineStep
     DEF Knows

(* A row that is written down for a copy.                                    *)
LEMMA RecordedSays ==
    ASSUME Shape, Copies, HoldsOn, NEW c \in copies, NEW f \in File, f.text = c.text,
           copies' = copies, NEW m \in Machines, Recorded(m, c.uid, f),
           file'[m] # None => Replaced(file'[m], gone', c.text)
    PROVE  /\ RowSays(m)' /\ Named(row'[m]) \subseteq 1..uids
           /\ \A n \in Machines \ {m} : row'[n] = row[n]
<1>1. PICK r : r = [uid |-> c.uid, hash |-> f]
  OBVIOUS
<1>2. r.uid = c.uid /\ r.hash.text = c.text
  BY <1>1
<1>3. row'[m] = r /\ \A n \in Machines \ {m} : row'[n] = row[n]
  BY <1>1 DEF Recorded, Shape, LocalShape
<1>4. c.uid \in 1..uids /\ c.uid \in Nat
  BY DEF Shape, FolderShape, UidsOf
<1>5. Named(row'[m]) \subseteq 1..uids
  BY <1>2, <1>3, <1>4 DEF Named
<1>6. Holds(c.uid, c.text)'
  BY <1>4, CopyHolds DEF Shape, HoldsOn
<1>7. \A d \in copies' : d.uid = c.uid => d.text = c.text
  BY DEF Copies
<1> QED
  BY <1>2, <1>3, <1>5, <1>6, <1>7 DEF RowSays

(* What is doomed next.                                                      *)
LEMMA ThenDooms ==
    ASSUME NEW m, NEW S, ThenDoom(m, S)
    PROVE  \E s \in {"idle", "doom"} : \E k :
               Begin(m, s, k) /\ k.row = None /\ k.seen = {} /\ k.held \subseteq S
<1>1. CASE S = {}
  BY <1>1, NamesNone DEF ThenDoom, Ended
<1>2. CASE S # {}
  <2>1. PICK k : k = [NoJob EXCEPT !.held = S]
    OBVIOUS
  <2>2. k.row = None /\ k.seen = {} /\ k.held = S
    BY <2>1 DEF NoJob
  <2> QED
    BY <1>2, <2>1, <2>2 DEF ThenDoom
<1> QED
  BY <1>1, <1>2

LEMMA DoomStep ==
    ASSUME Shape, TextInv, NEW m \in Machines, NEW S, ThenDoom(m, S), S \subseteq 1..uids,
           UNCHANGED <<folder, texts>>, Onward,
           \A n \in Machines \ {m} :
               file'[n] = file[n] /\ row'[n] = row[n] /\ retired'[n] = retired[n],
           \A c \in Visible : c.uid \in S =>
               \/ c.text \in Laid' \/ Holds(c.uid + 1, c.text)
               \/ file'[m] = None /\ Tombstone(m)',
           HoldsOn => /\ RowSays(m)' /\ Named(row'[m]) \subseteq 1..uids /\ TextsGoOn(m)
    PROVE  TextInv'
<1>0. PICK s \in {"idle", "doom"} : \E k :
          Begin(m, s, k) /\ k.row = None /\ k.seen = {} /\ k.held \subseteq S
  BY ThenDooms
<1>1. PICK k : Begin(m, s, k) /\ k.row = None /\ k.seen = {} /\ k.held \subseteq S
  BY <1>0
<1>2. /\ pc'[m] = s /\ job'[m] = k
      /\ \A n \in Machines \ {m} : pc'[n] = pc[n] /\ job'[n] = job[n]
  BY <1>1, Begun
<1>3. Beside({m})
  BY <1>2 DEF Beside
<1>4. Shrinks /\ Visible' = Visible /\ Sparing /\ \A n \in Machines : OwnStays(n)
  BY FolderSame, FolderSpared
<1>5. Careful(m)
  BY <1>1, <1>2, <1>4 DEF Careful, Replacing, Dooming
<1>6. HoldsOn
  BY <1>3, <1>4, <1>5, KindAlone
<1>7. Named(k.row) \cup k.seen \cup k.held \subseteq 1..uids
  BY <1>1, NamesNone
<1>8. s \notin Holding \cup {"expunge"} /\ s # "missing"
  BY DEF Holding
<1> QED
  BY <1>1, <1>3, <1>4, <1>5, <1>6, <1>7, <1>8, TextsSame, TaskStep

(* The file a reconcile settles is its text still, or it lies or holds.      *)
LEMMA SettledTexts ==
    ASSUME Shape, TextInv, HoldsOn, NEW m \in Machines, pc[m] = "settle", retired' = retired,
           \/ file' = file
           \/ file[m] = job[m].file /\ Aside(job[m]) \subseteq conflicts'
    PROVE  TextsGoOn(m)
<1>1. PICK f : f = file[m]
  OBVIOUS
<1>2. ASSUME NEW x, f # None, f.text = x PROVE Somewhere(x)'
  <2>1. CASE file' = file
    BY <1>1, <1>2, <2>1, HeldByFile
  <2>2. CASE f = job[m].file /\ Aside(job[m]) \subseteq conflicts'
    <3>1. CASE Moved(job[m].row, f)
      BY <1>2, <2>2, <3>1, HeldByNone DEF Aside
    <3>2. CASE ~Moved(job[m].row, f)
      <4>1. PICK r : r = job[m].row
        OBVIOUS
      <4>2. r # None /\ r.hash.text = x
        BY <1>2, <3>2, <4>1 DEF Moved
      <4>3. Holds(r.uid, x) /\ r.uid \in 1..uids
        BY <4>1, <4>2 DEF TextInv, OthersKnow, Known, Named
      <4>4. r.uid \in Nat /\ r.uid >= 0
        BY <4>3 DEF Shape, FolderShape
      <4>5. Holds(0, x)
        BY <4>3, <4>4, HoldsFromOlder DEF Shape
      <4> QED
        BY <4>5 DEF HoldsOn, Somewhere
    <3> QED
      BY <3>1, <3>2
  <2> QED
    BY <1>1, <2>1, <2>2
<1> QED
  BY <1>1, <1>2, HeldByRetired DEF TextsGoOn

(* The copies older than the newest are doomed: what mp wrote is in a newer  *)
(* one, what another client wrote is in a conflict copy.                     *)
LEMMA OlderAreKept ==
    ASSUME Shape, TextInv, NEW m \in Machines, NEW older,
           older = job[m].seen \ {Max(job[m].seen)}, Theirs(m, older) \subseteq conflicts',
           NEW c \in Visible, c.uid \in older
    PROVE  c.text \in Laid' \/ Holds(c.uid + 1, c.text)
<1>1. c \in copies
  BY DEF Visible
<1>2. CASE ~c.mp
  <2>1. c.text \in Theirs(m, older)
    BY <1>1, <1>2 DEF Theirs, TextsIn, At
  <2> QED
    BY <2>1 DEF Laid
<1>3. CASE c.mp
  <2>1. job[m].seen \in SUBSET (1..uids) /\ c.uid \in job[m].seen
    BY DEF TextInv, Known
  <2>2. PICK n \in job[m].seen : \A v \in job[m].seen : n >= v
    BY <2>1 DEF Shape, FolderShape, HasNewest
  <2>3. job[m].seen \in SUBSET Nat /\ n \in Nat /\ n <= uids /\ uids \in Nat /\ c.uid \in Nat
    BY <2>1 DEF Shape, FolderShape
  <2>4. Max(job[m].seen) = n
    BY <2>2, <2>3, MaxIs
  <2>5. c.uid # n /\ n >= c.uid
    BY <2>1, <2>2, <2>4
  <2>6. c.uid < uids
    BY <2>3, <2>5
  <2> QED
    BY <1>3, <2>6 DEF TextInv, Copies
<1> QED
  BY <1>2, <1>3

LEMMA ReconcileSettleKeepsText ==
    ASSUME Shape, TextInv, NEW m \in Machines, ReconcileSettle(m)
    PROVE  TextInv'
<1> DEFINE newest == Max(job[m].seen)
           older  == job[m].seen \ {newest}
           c      == CHOOSE d \in copies : d.uid = newest
           f      == job[m].file
<1>1. /\ UNCHANGED <<folder, retired, texts, gone>> /\ pc[m] = "settle"
      /\ copies' = copies
  BY DEF ReconcileSettle, typed, history, folder
<1>2. Known(m) /\ RowSays(m) /\ PushKnows(m) /\ Copies
  BY DEF TextInv
<1>3. f \in File
  BY <1>1 DEF Shape, TaskShape, Holding
<1>4. file[m] # None => Replaced(file[m], gone, f.text)
  BY <1>1, <1>2 DEF PushKnows, Holding
<1>5. Shrinks /\ Visible' = Visible /\ Sparing /\ \A n \in Machines : OwnStays(n)
  BY <1>1, FolderSame, FolderSpared
<1>6. CASE Ended(m) /\ UNCHANGED <<file, conflicts, row, absent>>
  BY <1>1, <1>5, <1>6, NoJobIsKnown, EndedBegins, TaskRests DEF Holding
<1>7. ASSUME ThenDoom(m, UidsOf(At(older))), conflicts \cup Theirs(m, older) \subseteq conflicts',
             file' = file \/ (file[m] = f /\ Aside(job[m]) \subseteq conflicts'),
             \A n \in Machines \ {m} : file'[n] = file[n] /\ row'[n] = row[n],
             HoldsOn => RowSays(m)' /\ Named(row'[m]) \subseteq 1..uids
      PROVE  TextInv'
  <2>1. UidsOf(At(older)) \subseteq older /\ older \subseteq 1..uids
    BY <1>2 DEF UidsOf, At, Known
  <2>2. Onward
    BY <1>1, <1>7 DEF Onward
  <2>3. ASSUME NEW d \in Visible, d.uid \in UidsOf(At(older))
        PROVE  d.text \in Laid' \/ Holds(d.uid + 1, d.text)
    BY <1>7, <2>1, <2>3, OlderAreKept
  <2>4. HoldsOn => TextsGoOn(m)
    BY <1>1, <1>7, SettledTexts
  <2> HIDE DEF f, older
  <2> QED
    BY <1>1, <1>7, <2>1, <2>2, <2>3, <2>4, DoomStep
<1>8. ASSUME UNCHANGED <<file, row>>, HoldsOn, gone \subseteq gone'
      PROVE  RowSays(m)' /\ Named(row'[m]) \subseteq 1..uids
  <2>1. GoesOn(m)
    BY <1>8, FileStays
  <2>2. RowSays(m)'
    BY <1>2, <1>5, <1>8, <2>1, RowStays
  <2> QED
    BY <1>2, <1>8, <2>2 DEF Known
<1>9. ASSUME At({newest}) # {} PROVE c \in copies /\ c.uid = newest
  BY <1>9 DEF At
<1>10. ASSUME NEW d \in copies, f.text = d.text, Recorded(m, d.uid, f), file' = file, HoldsOn
       PROVE  /\ RowSays(m)' /\ Named(row'[m]) \subseteq 1..uids
              /\ \A n \in Machines \ {m} : row'[n] = row[n]
  <2>1. file'[m] # None => Replaced(file'[m], gone', d.text)
    BY <1>1, <1>4, <1>10
  <2> HIDE DEF f
  <2> QED
    BY <1>1, <1>2, <1>3, <1>10, <2>1, RecordedSays
<1>11. ASSUME NEW u, NEW g, Recorded(m, u, g)
       PROVE  \A n \in Machines \ {m} : row'[n] = row[n]
  BY <1>11 DEF Recorded, Shape, LocalShape
<1>12. CASE /\ newest \in Named(job[m].row)
            /\ conflicts' = conflicts \cup Theirs(m, older) /\ UNCHANGED <<file, row>>
            /\ ThenDoom(m, UidsOf(At(older)))
  BY <1>1, <1>7, <1>8, <1>12
<1>13. CASE /\ At({newest}) # {} /\ IsTheFile(c, f) /\ Recorded(m, newest, f)
            /\ conflicts' = conflicts \cup Theirs(m, older) /\ UNCHANGED file
            /\ ThenDoom(m, UidsOf(At(older)))
  <2>1. c \in copies /\ c.uid = newest
    BY <1>9, <1>13
  <2>2. f.text = c.text
    BY <1>13 DEF IsTheFile, WrittenFrom, FileOf
  <2>3. HoldsOn => RowSays(m)' /\ Named(row'[m]) \subseteq 1..uids
    <3> HIDE DEF f, c, newest
    <3> QED
      BY <1>10, <1>13, <2>1, <2>2
  <2>4. \A n \in Machines \ {m} : row'[n] = row[n]
    BY <1>11, <1>13
  <2> HIDE DEF f, c, older
  <2> QED
    BY <1>7, <1>13, <2>3, <2>4
<1>14. CASE /\ At({newest}) # {} /\ PullInto(m, c, Theirs(m, older))
            /\ ThenDoom(m, UidsOf(At(older)))
  <2>1. c \in copies /\ c.uid = newest
    BY <1>9, <1>14
  <2>2. PICK d \in copies : d = c
    BY <2>1
  <2>3. CASE /\ WrittenFrom(d, f) /\ Recorded(m, d.uid, f)
             /\ conflicts' = conflicts \cup Theirs(m, older) /\ UNCHANGED file
    <3>1. f.text = d.text
      BY <2>3 DEF WrittenFrom, FileOf
    <3>2. HoldsOn => RowSays(m)' /\ Named(row'[m]) \subseteq 1..uids
      <4> HIDE DEF f, older
      <4> QED
        BY <1>10, <2>3, <3>1
    <3>3. \A n \in Machines \ {m} : row'[n] = row[n]
      BY <1>11, <2>3
    <3> HIDE DEF f, older
    <3> QED
      BY <1>7, <1>14, <2>3, <3>2, <3>3
  <2>4. CASE conflicts' = conflicts \cup Theirs(m, older) /\ UNCHANGED <<file, row>>
    <3> HIDE DEF f, older
    <3> QED
      BY <1>1, <1>7, <1>8, <1>14, <2>4
  <2>5. ASSUME NEW g, file[m] = f, NEW exact \in Faithful, g = Pulled(f, d, exact),
               file' = [file EXCEPT ![m] = g], Recorded(m, d.uid, g),
               conflicts' = conflicts \cup Theirs(m, older) \cup Aside(job[m])
        PROVE  TextInv'
    <3>1. d \in Copy /\ exact \in BOOLEAN
      BY FlagsAssumption DEF FlagsAssumption, Shape, FolderShape
    <3>2. g \in File /\ g.text = d.text
      BY <2>5, <3>1, PulledIsFile
    <3>3. file'[m] = g /\ \A n \in Machines \ {m} : file'[n] = file[n]
      BY <2>5 DEF Shape, LocalShape
    <3>4. Replaced(file'[m], gone', d.text)
      BY <3>2, <3>3 DEF Replaced
    <3>5. HoldsOn => RowSays(m)' /\ Named(row'[m]) \subseteq 1..uids
      <4> HIDE DEF f, older
      <4> QED
        BY <1>1, <1>2, <2>5, <3>2, <3>4, RecordedSays
    <3>6. \A n \in Machines \ {m} : row'[n] = row[n]
      BY <1>11, <2>5
    <3> HIDE DEF f, older
    <3> QED
      BY <1>7, <1>14, <2>5, <3>3, <3>5, <3>6
  <2>6. \/ /\ WrittenFrom(d, f) /\ Recorded(m, d.uid, f)
           /\ conflicts' = conflicts \cup Theirs(m, older) /\ UNCHANGED file
        \/ conflicts' = conflicts \cup Theirs(m, older) /\ UNCHANGED <<file, row>>
        \/ /\ file[m] = f
           /\ \E exact \in Faithful : /\ file' = [file EXCEPT ![m] = Pulled(f, d, exact)]
                                      /\ Recorded(m, d.uid, Pulled(f, d, exact))
           /\ conflicts' = conflicts \cup Theirs(m, older) \cup Aside(job[m])
    <3> HIDE DEF c, older
    <3> QED
      BY <1>14, <2>2 DEF PullInto
  <2> HIDE DEF f, older, c
  <2> QED
    BY <2>3, <2>4, <2>5, <2>6
<1>15. \/ Ended(m) /\ UNCHANGED <<file, conflicts, row, absent>>
       \/ /\ newest \in Named(job[m].row)
          /\ conflicts' = conflicts \cup Theirs(m, older) /\ UNCHANGED <<file, row>>
          /\ ThenDoom(m, UidsOf(At(older)))
       \/ /\ At({newest}) # {} /\ IsTheFile(c, f) /\ Recorded(m, newest, f)
          /\ conflicts' = conflicts \cup Theirs(m, older) /\ UNCHANGED file
          /\ ThenDoom(m, UidsOf(At(older)))
       \/ /\ At({newest}) # {} /\ PullInto(m, c, Theirs(m, older))
          /\ ThenDoom(m, UidsOf(At(older)))
  BY DEF ReconcileSettle
<1> HIDE DEF c, f, older, newest
<1> QED
  BY <1>6, <1>12, <1>13, <1>14, <1>15

-----------------------------------------------------------------------------
(* A reconcile, of a draft without a file here. *)

(* What is kept in .retired on the way to a deletion lies there.             *)
LEMMA KeptAsideLies ==
    ASSUME NEW m \in Machines, NEW S, KeptAside(At(S)) \subseteq retired'[m],
           NEW c \in copies, c.uid \in S
    PROVE  c.text \in Laid'
<1>1. PICK r : r = [file |-> FileOf(c), why |-> IF c.mp THEN "out" ELSE "raw"]
  OBVIOUS
<1>2. r.file.text = c.text /\ r.why # "gone"
  BY <1>1 DEF FileOf
<1>3. r \in retired'[m]
  BY <1>1 DEF KeptAside, At
<1> QED
  BY <1>2, <1>3 DEF Laid, TextsIn

LEMMA ReconcileGatherKeepsText ==
    ASSUME Shape, TextInv, NEW m \in Machines, ReconcileGather(m)
    PROVE  TextInv'
<1>1. PICK j : j = job[m]
  OBVIOUS
<1>2. PICK R : R = retired[m]
  OBVIOUS
<1>3. /\ UNCHANGED <<folder, conflicts, texts>> /\ pc[m] = "missing" /\ copies' = copies
  BY DEF ReconcileGather, typed, folder
<1>4. Known(m) /\ RowSays(m) /\ Copies /\ file[m] = None
  BY <1>3 DEF TextInv, OthersKnow
<1>5. j.held \subseteq 1..uids /\ j.seen \subseteq 1..uids
  BY <1>1, <1>4 DEF Known
<1>6. Shrinks /\ Visible' = Visible
  BY <1>3, FolderSame
<1>7. Visible \subseteq copies
  BY DEF Visible
<1>8. ASSUME retired' = [retired EXCEPT ![m] = @ \cup KeptAside(At(j.held))],
             row' = row \/ row' = [row EXCEPT ![m] = None],
             ThenDoom(m, j.held \cup (IF Tombstone(m) THEN j.seen ELSE {})),
             UNCHANGED <<file, gone>>
      PROVE  TextInv'
  <2>1. /\ retired'[m] = R \cup KeptAside(At(j.held))
        /\ \A n \in Machines \ {m} : retired'[n] = retired[n]
    BY <1>2, <1>8 DEF Shape, LocalShape
  <2>2. Onward
    BY <1>2, <1>3, <1>8, <2>1 DEF Onward
  <2>3. row'[m] \in {row[m], None} /\ \A n \in Machines \ {m} : row'[n] = row[n]
    BY <1>8 DEF Shape, LocalShape
  <2>4. GoesOn(m)
    BY <1>8, FileStays
  <2>5. HoldsOn => RowSays(m)' /\ Named(row'[m]) \subseteq 1..uids
    <3>1. Named(row'[m]) \subseteq 1..uids
      BY <1>4, <2>3, NamesNone DEF Known
    <3> QED
      BY <1>4, <1>6, <2>3, <2>4, <3>1, RowStays
  <2>6. TextsGoOn(m)
    BY <1>2, <1>4, <2>1, HeldByRetired DEF TextsGoOn
  <2>7. ASSUME NEW c \in Visible, c.uid \in j.held \cup (IF Tombstone(m) THEN j.seen ELSE {})
        PROVE  c.text \in Laid' \/ (file'[m] = None /\ Tombstone(m)')
    <3>1. CASE c.uid \in j.held
      BY <1>7, <2>1, <3>1, KeptAsideLies
    <3>2. CASE Tombstone(m)
      BY <1>4, <1>8, <2>2, <3>2, TombstoneStays
    <3> QED
      BY <2>7, <3>1, <3>2
  <2>8. j.held \cup (IF Tombstone(m) THEN j.seen ELSE {}) \subseteq 1..uids
    BY <1>5
  <2>9. \A n \in Machines \ {m} :
            file'[n] = file[n] /\ row'[n] = row[n] /\ retired'[n] = retired[n]
    BY <1>8, <2>1, <2>3
  <2> QED
    BY <1>3, <1>8, <2>2, <2>5, <2>6, <2>7, <2>8, <2>9, DoomStep
<1>9. ASSUME NEW c \in copies, NEW f \in File, f.text = c.text, NEW Q, Q \subseteq R,
             retired' = [retired EXCEPT ![m] = Q \cup KeptAside(At(j.held))],
             \A r \in R : r \in Q \/ (r.why = "gone" /\ r.file.text \in gone' \cup {f.text}),
             file' = [file EXCEPT ![m] = f], Recorded(m, c.uid, f),
             gone \subseteq gone', ThenDoom(m, j.held)
      PROVE  TextInv'
  <2>1. /\ retired'[m] = Q \cup KeptAside(At(j.held))
        /\ \A n \in Machines \ {m} : retired'[n] = retired[n]
    BY <1>9 DEF Shape, LocalShape
  <2>2. file'[m] = f /\ \A n \in Machines \ {m} : file'[n] = file[n]
    BY <1>9 DEF Shape, LocalShape
  <2>3. Onward
    BY <1>2, <1>3, <1>9, <2>1 DEF Onward
  <2>4. HoldsOn => RowSays(m)' /\ Named(row'[m]) \subseteq 1..uids
    <3>1. Replaced(file'[m], gone', c.text)
      BY <1>9, <2>2 DEF Replaced
    <3> QED
      BY <1>3, <1>4, <1>9, <3>1, RecordedSays
  <2>5. \A n \in Machines \ {m} : row'[n] = row[n]
    BY <1>9 DEF Recorded, Shape, LocalShape
  <2>6. TextsGoOn(m)
    <3>1. f # None
      BY NoneAssumption DEF NoneAssumption
    <3>2. ASSUME NEW x, NEW r \in R, r.file.text = x PROVE Somewhere(x)'
      <4>1. CASE r \in Q
        BY <2>1, <3>2, <4>1, HeldByRetired
      <4>2. CASE x \in gone'
        BY <4>2, HeldByNone
      <4>3. CASE x = f.text
        BY <2>2, <3>1, <4>3, HeldByFile
      <4> QED
        BY <1>9, <3>2, <4>1, <4>2, <4>3
    <3> QED
      BY <1>2, <1>4, <3>2 DEF TextsGoOn
  <2>7. ASSUME NEW d \in Visible, d.uid \in j.held PROVE d.text \in Laid'
    BY <1>7, <2>1, <2>7, KeptAsideLies
  <2>8. \A n \in Machines \ {m} :
            file'[n] = file[n] /\ row'[n] = row[n] /\ retired'[n] = retired[n]
    BY <2>1, <2>2, <2>5
  <2> QED
    BY <1>3, <1>5, <1>9, <2>3, <2>4, <2>6, <2>7, <2>8, DoomStep
<1>10. ASSUME NEW c \in copies, NEW r \in R, Revive(m, r, c), ThenDoom(m, j.held)
       PROVE  TextInv'
  <2>1. PICK exact \in Faithful :
           LET f == IF WrittenFrom(c, r.file) THEN r.file ELSE Pulled(r.file, c, exact)
           IN  /\ file' = [file EXCEPT ![m] = f]
               /\ Recorded(m, c.uid, f)
               /\ gone' = gone \cup ({r.file.text} \ {f.text})
    BY <1>10 DEF Revive
  <2> DEFINE f == IF WrittenFrom(c, r.file) THEN r.file ELSE Pulled(r.file, c, exact)
  <2>2. c \in Copy /\ r.file \in File /\ exact \in BOOLEAN
    BY <1>2, FlagsAssumption
       DEF FlagsAssumption, Shape, FolderShape, LocalShape, Retired
  <2>3. f \in File /\ f.text = c.text
    <3>1. CASE WrittenFrom(c, r.file)
      BY <2>2, <3>1 DEF WrittenFrom, FileOf
    <3>2. CASE ~WrittenFrom(c, r.file)
      BY <2>2, <3>2, PulledIsFile
    <3> QED
      BY <3>1, <3>2
  <2>4. /\ file' = [file EXCEPT ![m] = f] /\ Recorded(m, c.uid, f)
        /\ gone' = gone \cup ({r.file.text} \ {f.text})
    BY <2>1
  <2>5. /\ r.why = "gone"
        /\ retired' = [retired EXCEPT ![m] = (@ \ {r}) \cup KeptAside(At(j.held))]
    BY <1>1, <1>10 DEF Revive
  <2> HIDE DEF f
  <2>6. retired' = [retired EXCEPT ![m] = (R \ {r}) \cup KeptAside(At(j.held))]
    BY <1>2, <2>5
  <2>7. \A q \in R : q \in R \ {r} \/ (q.why = "gone" /\ q.file.text \in gone' \cup {f.text})
    BY <2>4, <2>5
  <2>8. gone \subseteq gone' /\ R \ {r} \subseteq R
    BY <2>4
  <2> QED
    BY <1>9, <1>10, <2>3, <2>4, <2>6, <2>7, <2>8
<1>11. ASSUME NEW c \in copies, Import(m, c), ThenDoom(m, j.held)
       PROVE  TextInv'
  <2>1. PICK exact \in Faithful :
           LET f == Pulled([text |-> c.text, approved |-> FALSE], c, exact)
           IN  file' = [file EXCEPT ![m] = f] /\ Recorded(m, c.uid, f)
    BY <1>11 DEF Import
  <2> DEFINE f == Pulled([text |-> c.text, approved |-> FALSE], c, exact)
  <2>2. c \in Copy /\ exact \in BOOLEAN
    BY FlagsAssumption DEF FlagsAssumption, Shape, FolderShape
  <2>3. f \in File /\ f.text = c.text
    BY <2>2, PulledIsFile
  <2>4. file' = [file EXCEPT ![m] = f] /\ Recorded(m, c.uid, f)
    BY <2>1
  <2>5. gone' = gone /\ retired' = [retired EXCEPT ![m] = R \cup KeptAside(At(j.held))]
    BY <1>1, <1>2, <1>11 DEF Import
  <2> HIDE DEF f
  <2> QED
    BY <1>9, <1>11, <2>3, <2>4, <2>5
<1>12. \/ /\ retired' = [retired EXCEPT ![m] = @ \cup KeptAside(At(j.held))]
          /\ row' = row \/ row' = [row EXCEPT ![m] = None]
          /\ ThenDoom(m, j.held \cup (IF Tombstone(m) THEN j.seen ELSE {}))
          /\ UNCHANGED <<file, gone>>
       \/ /\ \E c \in copies : (\E r \in R : Revive(m, r, c)) \/ Import(m, c)
          /\ ThenDoom(m, j.held)
  BY <1>1, <1>2 DEF ReconcileGather, At
<1> QED
  BY <1>8, <1>10, <1>11, <1>12

-----------------------------------------------------------------------------
LEMMA InitText == Init => TextInv
<1> SUFFICES ASSUME Init PROVE TextInv
  OBVIOUS
<1>1. First \in Machines
  BY MachinesAssumption DEF MachinesAssumption
<1>2. /\ copies = {} /\ uids = 0 /\ texts = 1
      /\ file[First] = [text |-> 1, approved |-> FALSE]
      /\ \A m \in Machines : row[m] = None /\ pc[m] = "idle" /\ job[m] = NoJob
  BY <1>1 DEF Init
<1>3. file[First] # None /\ file[First].text = 1
  <2>1. PICK f : f = [text |-> 1, approved |-> FALSE]
    OBVIOUS
  <2>2. f \in File /\ f.text = 1
    BY <2>1, Bounds DEF File, Texts
  <2>3. f # None
    BY <2>2, NoneAssumption DEF NoneAssumption
  <2>4. file[First] = f
    BY <1>2, <2>1
  <2> QED
    BY <2>2, <2>3, <2>4
<1>4. Textual
  <2>1. \A x \in 1..texts : x = 1
    BY <1>2
  <2> QED
    BY <1>1, <1>3, <2>1 DEF Textual, Somewhere
<1>5. Copies
  BY <1>2 DEF Copies, Visible
<1>6. ASSUME NEW m \in Machines PROVE Known(m) /\ RowSays(m) /\ PushKnows(m) /\ OthersKnow(m)
  <2>1. Known(m)
    BY <1>2, NamesNone DEF Known
  <2> QED
    BY <1>2, <2>1 DEF RowSays, PushKnows, OthersKnow, Holding
<1>7. \A m, n \in Machines : Apart(m, n)
  BY <1>2 DEF Apart
<1> QED
  BY <1>4, <1>5, <1>6, <1>7 DEF TextInv

LEMMA StepText == ~Overlap /\ Shape /\ TextInv /\ [Next]_vars => TextInv'
<1> SUFFICES ASSUME ~Overlap, Shape, TextInv, [Next]_vars PROVE TextInv'
  OBVIOUS
<1>1. ASSUME NEW m \in Machines PROVE
        \/ Edit(m) \/ Approve(m) \/ Discard(m) \/ RemoveByHand(m)
        \/ PushSearch(m) \/ PushAppend(m) \/ PushReadBack(m) \/ PushReplace(m)
        \/ DrainDelete(m)
        => TextInv'
  BY EditKeepsText, ApproveKeepsText, DiscardKeepsText, RemoveByHandKeepsText,
     PushSearchKeepsText, PushAppendKeepsText, PushReadBackKeepsText, PushReplaceKeepsText,
     DrainDeleteKeepsText
<1>2. ASSUME NEW m \in Machines PROVE
        \/ Reconcile(m) \/ ReconcileSettle(m) \/ ReconcileGather(m) \/ ReconcileDoom(m)
        => TextInv'
  BY ReconcileSkipsKeepsText, ReconcileCopyGoneKeepsText, ReconcileOpenKeepsText,
     ReconcileMissingKeepsText, ReconcileSettleKeepsText, ReconcileGatherKeepsText,
     ReconcileDoomKeepsText
     DEF Reconcile
<1>3. ASSUME NEW m \in Machines PROVE
        \/ SendSearch(m) \/ ClaimFlag(m) \/ ClaimExpunge(m) \/ Submit(m) \/ Resend(m)
        \/ Retire(m) \/ Fault(m)
        => TextInv'
  BY SendSearchKeepsText, ClaimFlagKeepsText, ClaimExpungeKeepsText, SubmitKeepsText,
     ResendKeepsText, RetireKeepsText, FaultKeepsText
<1>4. ForeignEdit \/ ForeignDelete \/ ForeignSend => TextInv'
  BY ForeignEditKeepsText, ForeignDeleteKeepsText, ForeignSendKeepsText
<1>5. ASSUME UNCHANGED vars PROVE TextInv'
  <2>1. UNCHANGED <<folder, texts, file, conflicts, retired, row, gone, task>>
    BY <1>5 DEF vars, folder, task
  <2>2. Onward /\ Shrinks /\ Sparing /\ \A n \in Machines : OwnStays(n)
    BY <2>1, FolderSpared DEF Onward
  <2> QED
    BY <2>1, <2>2, ClientStep
<1> QED
  BY <1>1, <1>2, <1>3, <1>4, <1>5 DEF Next

LEMMA TextsHeld == Shape /\ TextInv => TextIsKept
<1> SUFFICES ASSUME Shape, TextInv, NEW x \in 1..texts PROVE x \in Kept \cup gone
  BY DEF TextIsKept
<1>1. Somewhere(x)
  BY DEF TextInv, Textual
<1>2. KeptFrom(file, retired, conflicts, Visible) = Kept
  BY DEF Kept, KeptFrom, FilesOf
<1>3. ASSUME NEW m \in Machines, NEW f \in FilesOf(file, retired, m), f.text = x
      PROVE  x \in Kept
  <2>1. x \in TextsIn(FilesOf(file, retired, m))
    BY <1>3 DEF TextsIn
  <2>2. x \in UNION {TextsIn(FilesOf(file, retired, n)) : n \in Machines}
    BY <2>1
  <2> QED
    BY <1>2, <2>2 DEF KeptFrom
<1>4. CASE x \in gone \cup conflicts
  BY <1>4 DEF Kept
<1>5. ASSUME NEW m \in Machines, NEW r \in retired[m], r.file.text = x PROVE x \in Kept
  BY <1>3, <1>5 DEF FilesOf
<1>6. ASSUME NEW m \in Machines, file[m] # None, file[m].text = x PROVE x \in Kept
  BY <1>3, <1>6 DEF FilesOf
<1>7. ASSUME NEW c \in Live, c.text = x PROVE x \in Kept
  <2>1. x \in TextsIn(Visible)
    BY <1>7 DEF TextsIn, Live
  <2> QED
    BY <1>2, <2>1 DEF KeptFrom
<1>8. x \in Laid => \/ x \in gone \cup conflicts
                   \/ \E m \in Machines : \E r \in retired[m] : r.file.text = x
  BY DEF Laid, TextsIn
<1> QED
  BY <1>1, <1>4, <1>5, <1>6, <1>7, <1>8 DEF Somewhere, Holds

(* No text is lost, whatever pushes, reconciles, claims, other clients and   *)
(* failures do, while the windows that send_guard.rs leaves open are kept    *)
(* apart: each text is in a file, a conflict copy, a retired draft or a      *)
(* copy the folder shows, or a user or a copy that came back replaced it.    *)
THEOREM MirrorKeepsTexts == ~Overlap /\ Spec => []TextIsKept
<1> SUFFICES ASSUME ~Overlap PROVE Spec => []TextIsKept
  OBVIOUS
<1>1. Init => TextInv
  BY InitText
<1>2. Shape /\ TextInv /\ [Next]_vars => TextInv'
  BY StepText
<1>3. Shape /\ TextInv => TextIsKept
  BY TextsHeld
<1> QED
  BY <1>1, <1>2, <1>3, ShapeAlways, PTL DEF Spec

-----------------------------------------------------------------------------
(* SentOnce.  The right to send the draft is in one place: with a machine    *)
(* whose file has no copy, with the copies, or it is spent.                  *)
Free(m) ==
    \/ pc[m] = "submit"
    \/ /\ file[m] # None /\ row[m] = None
       /\ pc[m] \notin {"readback", "replace", "claim", "expunge", "retire"}
Claimed(m) == pc[m] = "expunge" /\ job[m].held = job[m].seen
Sender(m) == Free(m) \/ Claimed(m)

(* A machine that may send is the only one, there is no copy, and none is    *)
(* about to be appended elsewhere.                                           *)
OneSender ==
    /\ \A m, n \in Machines : Sender(m) /\ Sender(n) => m = n
    /\ \A m \in Machines : Sender(m) => Visible = {}
    /\ \A m, n \in Machines : pc[m] = "append" /\ Sender(n) => m = n

(* A claim that still finds all it saw finds nothing more, unless a push is  *)
(* about to delete what it saw.                                              *)
Sees(S) ==
    S \subseteq UidsOf(Visible) =>
        /\ \/ UidsOf(Visible) \subseteq S
           \/ \E n \in Machines : pc[n] \in {"readback", "replace"} /\ Named(job[n].row) = S
        /\ \A n \in Machines : pc[n] = "append" => Named(job[n].row) = S
Claiming == \A m \in Machines : pc[m] = "claim" => job[m].seen # {} /\ Sees(job[m].seen)

(* One claim at a time has copies flagged, all of them copies it saw.        *)
Expunging ==
    /\ \A m \in Machines : pc[m] = "expunge" =>
          /\ job[m].held \subseteq job[m].seen /\ job[m].seen # {}
          /\ \A n \in Machines : pc[n] = "expunge" => m = n
    /\ \A u \in flagged : \E m \in Machines : pc[m] = "expunge" /\ u \in job[m].held

(* No outbox row waits for a resume, and a push keeps its own copy from what *)
(* it replaces.                                                              *)
Flights ==
    \A m \in Machines :
        /\ flying[m] # "kept" /\ (flying[m] = "delivered" => pc[m] = "retire")
        /\ pc[m] = "replace" => job[m].held \cap Named(job[m].row) = {}

(* A draft that went out went out once and leaves nothing to send.           *)
Spent ==
    \A s \in Machines \cup {None} : sent[s] > 0 =>
        /\ sent[s] = 1
        /\ \A t \in Machines \cup {None} : sent[t] > 0 => t = s
        /\ Visible = {}
        /\ \A m \in Machines : ~Sender(m) /\ pc[m] # "append"

Sure == OneSender /\ Claiming /\ Expunging /\ Flights /\ Spent
SendInv == unsure = {} => Sure

-----------------------------------------------------------------------------
(* What a step that gives nobody the right to send leaves alone.             *)

LEMMA SendersStay ==
    ASSUME OneSender, Spent, sent' = sent, Visible' \subseteq Visible,
           \A n \in Machines : /\ Sender(n)' => Sender(n)
                               /\ pc'[n] = "append" => pc[n] = "append"
    PROVE  OneSender' /\ Spent'
<1>1. Visible = {} => Visible' = {}
  OBVIOUS
<1>2. OneSender'
  BY <1>1 DEF OneSender
<1>3. Spent'
  BY <1>1 DEF Spent
<1> QED
  BY <1>2, <1>3

LEMMA UidsShrink ==
    ASSUME Visible' \subseteq Visible PROVE UidsOf(Visible') \subseteq UidsOf(Visible)
  BY DEF UidsOf

(* A claim goes on, and so does a push that is about to delete what it saw,  *)
(* unless it has.                                                            *)
PushesStay ==
    \A n \in Machines :
        /\ pc'[n] = "append" => pc[n] = "append" /\ job'[n] = job[n]
        /\ pc[n] \in {"readback", "replace"} =>
              \/ pc'[n] \in {"readback", "replace"} /\ job'[n].row = job[n].row
              \/ Named(job[n].row) \cap UidsOf(Visible') = {}

LEMMA SeesStay ==
    ASSUME NEW S, S # {}, Sees(S), Visible' \subseteq Visible, PushesStay
    PROVE  Sees(S)'
<1> SUFFICES ASSUME S \subseteq UidsOf(Visible')
             PROVE  /\ \/ UidsOf(Visible') \subseteq S
                       \/ \E n \in Machines : /\ pc'[n] \in {"readback", "replace"}
                                              /\ Named(job'[n].row) = S
                    /\ \A n \in Machines : pc'[n] = "append" => Named(job'[n].row) = S
  BY DEF Sees, Named
<1>1. UidsOf(Visible') \subseteq UidsOf(Visible)
  BY UidsShrink
<1>2. \/ UidsOf(Visible) \subseteq S
      \/ \E n \in Machines : pc[n] \in {"readback", "replace"} /\ Named(job[n].row) = S
  BY <1>1 DEF Sees
<1>3. \A n \in Machines : pc[n] = "append" => Named(job[n].row) = S
  BY <1>1 DEF Sees
<1>4. ASSUME NEW n \in Machines, pc[n] \in {"readback", "replace"}, Named(job[n].row) = S
      PROVE  pc'[n] \in {"readback", "replace"} /\ Named(job'[n].row) = S
  <2>1. ~(Named(job[n].row) \cap UidsOf(Visible') = {})
    BY <1>4
  <2> QED
    BY <1>4, <2>1 DEF PushesStay
<1> QED
  BY <1>1, <1>2, <1>3, <1>4 DEF PushesStay

LEMMA ClaimsStay ==
    ASSUME Claiming, Visible' \subseteq Visible, PushesStay,
           \A n \in Machines : pc'[n] = "claim" => pc[n] = "claim" /\ job'[n] = job[n]
    PROVE  Claiming'
<1> SUFFICES ASSUME NEW m \in Machines, pc'[m] = "claim", NEW S, S = job[m].seen
             PROVE  S # {} /\ Sees(S)'
  BY DEF Claiming, Sees
<1> QED
  BY SeesStay DEF Claiming

LEMMA ExpungesStay ==
    ASSUME Expunging, flagged' \subseteq flagged,
           \A n \in Machines :
               /\ pc'[n] = "expunge" <=> pc[n] = "expunge"
               /\ pc[n] = "expunge" => job'[n] = job[n]
    PROVE  Expunging'
<1>1. ASSUME NEW m \in Machines, pc'[m] = "expunge"
      PROVE  /\ job'[m].held \subseteq job'[m].seen /\ job'[m].seen # {}
             /\ \A n \in Machines : pc'[n] = "expunge" => m = n
  BY <1>1 DEF Expunging
<1>2. ASSUME NEW u \in flagged'
      PROVE  \E m \in Machines : pc'[m] = "expunge" /\ u \in job'[m].held
  BY <1>2 DEF Expunging
<1> QED
  BY <1>1, <1>2 DEF Expunging

LEMMA FlightsStay ==
    ASSUME Flights,
           \A n \in Machines :
               /\ \/ flying'[n] = "no"
                  \/ flying'[n] = flying[n] /\ (pc[n] = "retire" => pc'[n] = "retire")
               /\ pc'[n] = "replace" => pc[n] = "replace" /\ job'[n] = job[n]
    PROVE  Flights'
  BY DEF Flights, Named

(* The machines that a step is not of.                                       *)
BesideSend(A) ==
    \A n \in Machines \ A :
        /\ (file'[n] # None <=> file[n] # None) /\ row'[n] = row[n]
        /\ pc'[n] = pc[n] /\ job'[n] = job[n] /\ flying'[n] = flying[n]

LEMMA SenderSame ==
    ASSUME NEW n \in Machines, file'[n] # None <=> file[n] # None, row'[n] = row[n],
           pc'[n] = pc[n], job'[n] = job[n]
    PROVE  Sender(n)' <=> Sender(n)
  BY DEF Sender, Free, Claimed

(* A step after which a machine may send only if it might before, and that   *)
(* begins nothing but a search of the folder.                                *)
Quiet(m) ==
    /\ Sender(m)' => Sender(m)
    /\ \/ pc'[m] = pc[m] /\ job'[m] = job[m] /\ flying'[m] = flying[m]
       \/ /\ pc'[m] \notin {"append", "claim", "expunge", "replace"}
          /\ pc[m] # "expunge"
          /\ pc[m] \in {"readback", "replace"} =>
                Named(job[m].row) \cap UidsOf(Visible') = {}
          /\ flying'[m] = "no" \/ (flying'[m] = flying[m] /\ pc[m] # "retire")

LEMMA QuietStep ==
    ASSUME Sure, sent' = sent, Visible' \subseteq Visible, flagged' \subseteq flagged,
           NEW A \in SUBSET Machines, BesideSend(A), \A m \in A : Quiet(m)
    PROVE  Sure'
<1>1. \A n \in Machines \ A :
          /\ pc'[n] = pc[n] /\ job'[n] = job[n] /\ flying'[n] = flying[n]
          /\ Sender(n)' => Sender(n)
  BY SenderSame DEF BesideSend
<1>2. OneSender' /\ Spent'
  BY <1>1, SendersStay DEF Sure, Quiet
<1>3. Claiming'
  BY <1>1, ClaimsStay DEF Sure, Quiet, PushesStay
<1>4. Expunging'
  BY <1>1, ExpungesStay DEF Sure, Quiet
<1>5. Flights'
  BY <1>1, FlightsStay DEF Sure, Quiet
<1> QED
  BY <1>2, <1>3, <1>4, <1>5 DEF Sure

LEMMA MachineQuiet ==
    ASSUME SendInv, unsure \subseteq unsure', NEW m \in Machines, sent' = sent,
           Visible' \subseteq Visible, flagged' \subseteq flagged, BesideSend({m}),
           unsure' = {} /\ Sure => Quiet(m)
    PROVE  SendInv'
<1>1. {m} \in SUBSET Machines
  OBVIOUS
<1> QED
  BY <1>1, QuietStep DEF SendInv

LEMMA ClientQuiet ==
    ASSUME SendInv, UNCHANGED <<file, row, task, flying, sent, unsure>>,
           Visible' \subseteq Visible, flagged' \subseteq flagged
    PROVE  SendInv'
<1>1. {} \in SUBSET Machines /\ BesideSend({}) /\ \A m \in {} : Quiet(m)
  BY DEF BesideSend, task
<1> QED
  BY <1>1, QuietStep DEF SendInv

LEMMA FolderQuiet ==
    ASSUME UNCHANGED folder
    PROVE  Visible' = Visible /\ flagged' = flagged /\ copies' = copies
  BY FolderSame DEF folder

LEMMA LessVisible ==
    ASSUME NEW S, Without(S)
    PROVE  Visible' = {c \in Visible : c.uid \notin S} /\ flagged' = flagged \ S
  BY DEF Without, Visible

-----------------------------------------------------------------------------
LEMMA EditSends ==
    ASSUME Shape, SendInv, NEW m \in Machines, Edit(m)
    PROVE  SendInv'
<1>1. UNCHANGED <<folder, row, flying, task, sent, unsure>>
  BY DEF Edit
<1>2. PICK f \in File : f = file[m]
  BY DEF Shape, LocalShape, Edit
<1>3. PICK g : g = [f EXCEPT !.text = texts + 1]
  OBVIOUS
<1>4. file' = [file EXCEPT ![m] = g]
  <2>1. [file EXCEPT ![m].text = texts + 1] =
           [file EXCEPT ![m] = [file[m] EXCEPT !.text = texts + 1]]
    OBVIOUS
  <2> QED
    BY <1>2, <1>3, <2>1 DEF Edit
<1>5. \A n \in Machines \ {m} : file'[n] = file[n]
  BY <1>4 DEF Shape, LocalShape
<1>6. BesideSend({m})
  BY <1>1, <1>5 DEF BesideSend, task
<1>7. Quiet(m)
  BY <1>1 DEF Quiet, Sender, Free, Claimed, task, Edit
<1> QED
  BY <1>1, <1>6, <1>7, FolderQuiet, MachineQuiet

LEMMA ApproveSends ==
    ASSUME Shape, SendInv, NEW m \in Machines, Approve(m)
    PROVE  SendInv'
<1>1. UNCHANGED <<folder, row, flying, task, sent, unsure>>
  BY DEF Approve, history
<1>2. PICK g : g = [file[m] EXCEPT !.approved = TRUE]
  OBVIOUS
<1>3. file' = [file EXCEPT ![m] = g]
  BY <1>2 DEF Approve
<1>4. \A n \in Machines \ {m} : file'[n] = file[n]
  BY <1>3 DEF Shape, LocalShape
<1>5. BesideSend({m})
  BY <1>1, <1>4 DEF BesideSend, task
<1>6. Quiet(m)
  BY <1>1 DEF Quiet, Sender, Free, Claimed, task, Approve
<1> QED
  BY <1>1, <1>5, <1>6, FolderQuiet, MachineQuiet

(* A file that leaves takes the right to send with it.                       *)
LEMMA FileGone ==
    ASSUME Shape, SendInv, NEW m \in Machines, UNCHANGED <<folder, flying, task, sent, unsure>>,
           file' = [file EXCEPT ![m] = None], row' = row \/ row' = [row EXCEPT ![m] = None]
    PROVE  SendInv'
<1>1. /\ file'[m] = None
      /\ \A n \in Machines \ {m} : file'[n] = file[n] /\ row'[n] = row[n]
  BY DEF Shape, LocalShape
<1>2. BesideSend({m})
  BY <1>1 DEF BesideSend, task
<1>3. Quiet(m)
  BY <1>1 DEF Quiet, Sender, Free, Claimed, task
<1> QED
  BY <1>2, <1>3, FolderQuiet, MachineQuiet

LEMMA DiscardSends ==
    ASSUME Shape, SendInv, NEW m \in Machines, Discard(m)
    PROVE  SendInv'
  BY FileGone DEF Discard, history

LEMMA RemoveByHandSends ==
    ASSUME Shape, SendInv, NEW m \in Machines, RemoveByHand(m)
    PROVE  SendInv'
<1>1. /\ UNCHANGED <<folder, flying, task, sent, unsure, row>>
      /\ file' = [file EXCEPT ![m] = None]
  BY DEF RemoveByHand
<1> QED
  BY <1>1, FileGone

LEMMA ReconcileCopyGoneSends ==
    ASSUME Shape, SendInv, NEW m \in Machines, ReconcileCopyGone(m)
    PROVE  SendInv'
<1>1. UNCHANGED <<folder, flying, task, sent, unsure>>
  BY DEF ReconcileCopyGone, history
<1>2. CASE Again(m, "copy")
  BY <1>1, <1>2, FileGone DEF ReconcileCopyGone
<1>3. CASE ~Again(m, "copy")
  BY <1>1, <1>3, FolderQuiet, ClientQuiet DEF ReconcileCopyGone
<1> QED
  BY <1>2, <1>3

LEMMA ReconcileSkipsSends ==
    ASSUME SendInv, NEW m \in Machines, ReconcileSkips(m)
    PROVE  SendInv'
<1>1. UNCHANGED <<folder, file, row, flying, task, sent, unsure>>
  BY DEF ReconcileSkips, history
<1> QED
  BY <1>1, FolderQuiet, ClientQuiet

LEMMA ForeignDeleteSends ==
    ASSUME SendInv, ForeignDelete
    PROVE  SendInv'
<1>1. PICK c \in Visible : LetGo({c.uid})
  BY DEF ForeignDelete
<1>2. Visible' \subseteq Visible /\ flagged' \subseteq flagged
  BY <1>1, LessVisible DEF LetGo
<1>3. UNCHANGED <<file, row, task, flying, sent, unsure>>
  BY DEF ForeignDelete, local
<1> QED
  BY <1>2, <1>3, ClientQuiet

LEMMA DrainDeleteSends ==
    ASSUME SendInv, NEW m \in Machines, DrainDelete(m)
    PROVE  SendInv'
<1>1. Without(UidsOf(Visible))
  BY DEF DrainDelete, LetGo
<1>2. Visible' \subseteq Visible /\ flagged' \subseteq flagged
  BY <1>1, LessVisible
<1>3. UNCHANGED <<file, row, task, flying, sent, unsure>>
  BY DEF DrainDelete
<1> QED
  BY <1>2, <1>3, ClientQuiet

(* A task that begins or ends where it gives nobody the right to send.       *)
LEMMA TaskQuiet ==
    ASSUME Shape, SendInv, unsure \subseteq unsure', NEW m \in Machines, NEW s, NEW k,
           Begin(m, s, k), sent' = sent, Visible' \subseteq Visible, flagged' \subseteq flagged,
           \A n \in Machines \ {m} : /\ file'[n] = file[n] /\ row'[n] = row[n]
                                     /\ flying'[n] = flying[n],
           s \notin {"append", "claim", "expunge", "replace"},
           unsure' = {} /\ Sure =>
               /\ pc[m] # "expunge" /\ (Sender(m)' => Sender(m))
               /\ pc[m] \in {"readback", "replace"} =>
                      Named(job[m].row) \cap UidsOf(Visible') = {}
               /\ flying'[m] = "no" \/ (flying'[m] = flying[m] /\ pc[m] # "retire")
    PROVE  SendInv'
<1>1. pc'[m] = s /\ \A n \in Machines \ {m} : pc'[n] = pc[n] /\ job'[n] = job[n]
  BY Begun
<1>2. BesideSend({m})
  BY <1>1 DEF BesideSend
<1>3. unsure' = {} /\ Sure => Quiet(m)
  BY <1>1 DEF Quiet
<1> QED
  BY <1>2, <1>3, MachineQuiet

LEMMA ReconcileOpenSends ==
    ASSUME Shape, SendInv, NEW m \in Machines, ReconcileOpen(m)
    PROVE  SendInv'
<1>1. PICK k : Begin(m, "settle", k)
  BY DEF ReconcileOpen
<1>2. /\ UNCHANGED <<folder, file, row, flying, sent, unsure>>
      /\ pc[m] = "idle" /\ pc'[m] = "settle"
  BY <1>1, Begun DEF ReconcileOpen, local, history, Idle
<1>3. Sender(m)' => Sender(m)
  BY <1>2 DEF Sender, Free, Claimed
<1> QED
  BY <1>1, <1>2, <1>3, FolderQuiet, TaskQuiet

LEMMA DoomedNext ==
    ASSUME Shape, NEW m \in Machines, NEW S, ThenDoom(m, S)
    PROVE  \E s \in {"idle", "doom"} : \E k : Begin(m, s, k) /\ pc'[m] = s
  BY ThenDooms, Begun

LEMMA ReconcileMissingSends ==
    ASSUME Shape, SendInv, NEW m \in Machines, ReconcileMissing(m)
    PROVE  SendInv'
<1>1. PICK k : Begin(m, "missing", k)
  BY DEF ReconcileMissing
<1>2. /\ UNCHANGED <<folder, file, flying, sent, unsure>>
      /\ pc[m] = "idle" /\ pc'[m] = "missing" /\ file[m] = None
      /\ row' = row \/ row' = [row EXCEPT ![m] = None]
  BY <1>1, Begun DEF ReconcileMissing, history, Idle
<1>3. ~Sender(m)'
  BY <1>2 DEF Sender, Free, Claimed
<1>4. \A n \in Machines \ {m} : row'[n] = row[n]
  BY <1>2 DEF Shape, LocalShape
<1> QED
  BY <1>1, <1>2, <1>3, <1>4, FolderQuiet, TaskQuiet

LEMMA ReconcileDoomSends ==
    ASSUME Shape, SendInv, NEW m \in Machines, ReconcileDoom(m)
    PROVE  SendInv'
<1>1. /\ UNCHANGED <<file, row, flying, sent, unsure>> /\ Without(job[m].held)
      /\ pc[m] = "doom" /\ Begin(m, "idle", NoJob)
  BY DEF ReconcileDoom, local, Ended, LetGo
<1>2. Visible' \subseteq Visible /\ flagged' \subseteq flagged
  BY <1>1, LessVisible
<1>3. pc'[m] = "idle"
  BY <1>1, Begun
<1>4. Sender(m)' => Sender(m)
  BY <1>1, <1>3 DEF Sender, Free, Claimed
<1> QED
  BY <1>1, <1>2, <1>4, TaskQuiet

LEMMA FaultSends ==
    ASSUME Shape, SendInv, NEW m \in Machines, Fault(m)
    PROVE  SendInv'
<1>1. /\ UNCHANGED <<folder, file, row, flying, sent>> /\ Begin(m, "idle", NoJob)
      /\ unsure \subseteq unsure'
      /\ unsure' = {} =>
            pc[m] \notin {"readback", "replace", "claim", "expunge", "submit", "retire"}
  BY DEF Fault, local, Ended
<1>2. pc'[m] = "idle"
  BY <1>1, Begun
<1>3. unsure' = {} => (Sender(m)' => Sender(m))
  BY <1>1, <1>2 DEF Sender, Free, Claimed
<1> QED
  BY <1>1, <1>3, FolderQuiet, TaskQuiet

LEMMA RetireSends ==
    ASSUME Shape, SendInv, NEW m \in Machines, Retire(m)
    PROVE  SendInv'
<1>1. /\ UNCHANGED <<folder, row, sent, unsure>> /\ Begin(m, "idle", NoJob)
      /\ file' = [file EXCEPT ![m] = None] /\ flying' = [flying EXCEPT ![m] = "no"]
      /\ pc[m] \in {"retire", "idle"}
  BY DEF Retire, history, Ended, Idle
<1>2. pc'[m] = "idle"
  BY <1>1, Begun
<1>3. /\ file'[m] = None /\ flying'[m] = "no"
      /\ \A n \in Machines \ {m} : file'[n] = file[n] /\ flying'[n] = flying[n]
  BY <1>1 DEF Shape, LocalShape
<1>4. ~Sender(m)'
  BY <1>2, <1>3 DEF Sender, Free, Claimed
<1> QED
  BY <1>1, <1>3, <1>4, FolderQuiet, TaskQuiet

(* A row that is written names a copy.                                       *)
LEMMA RowWritten ==
    ASSUME Shape, NEW m \in Machines, NEW u \in Uids, NEW g \in File, Recorded(m, u, g)
    PROVE  row'[m] # None /\ \A n \in Machines \ {m} : row'[n] = row[n]
<1>1. PICK r : r = [uid |-> u, hash |-> g]
  OBVIOUS
<1>2. r \in Row
  BY <1>1 DEF Row
<1>3. r # None
  BY <1>2, NoneAssumption DEF NoneAssumption
<1> QED
  BY <1>1, <1>3 DEF Recorded, Shape, LocalShape

LEMMA PushReplaceSends ==
    ASSUME Shape, SendInv, NEW m \in Machines, PushReplace(m)
    PROVE  SendInv'
<1> DEFINE old == Named(job[m].row) \ job[m].held
<1>1. /\ UNCHANGED <<file, flying, sent>> /\ Begin(m, "idle", NoJob) /\ pc[m] = "replace"
      /\ unsure \subseteq unsure'
      /\ Without(old) \/ UNCHANGED <<copies, flagged>>
      /\ unsure' = {} => Without(old) /\ Recorded(m, Max(job[m].held), PushedHash(m))
      /\ UNCHANGED row \/ Recorded(m, Max(job[m].held), PushedHash(m))
  BY DEF PushReplace, Ended
<1>2. PICK u \in Uids : job[m].held = {u}
  BY <1>1 DEF Shape, TaskShape
<1>3. PICK f \in File : f = PushedHash(m)
  BY <1>1 DEF Shape, TaskShape, Holding, PushedHash
<1>4. Max(job[m].held) = u
  BY <1>2, NewestOfOne
<1>5. /\ \A n \in Machines \ {m} : row'[n] = row[n]
      /\ unsure' = {} => row'[m] # None
  BY <1>1, <1>3, <1>4, RowWritten
<1>6. Visible' \subseteq Visible /\ flagged' \subseteq flagged
  BY <1>1, LessVisible DEF Visible
<1>7. pc'[m] = "idle"
  BY <1>1, Begun
<1>8. unsure' = {} => ~Sender(m)'
  BY <1>5, <1>7 DEF Sender, Free, Claimed
<1>9. unsure' = {} /\ Sure => Named(job[m].row) \cap UidsOf(Visible') = {}
  <2> SUFFICES ASSUME unsure' = {}, Sure PROVE Named(job[m].row) \cap UidsOf(Visible') = {}
    OBVIOUS
  <2>1. old = Named(job[m].row)
    BY <1>1 DEF Sure, Flights
  <2>2. Visible' = {c \in Visible : c.uid \notin old}
    BY <1>1, LessVisible
  <2> QED
    BY <2>1, <2>2 DEF UidsOf
<1> QED
  BY <1>1, <1>5, <1>6, <1>8, <1>9, TaskQuiet

LEMMA ReconcileSettleSends ==
    ASSUME Shape, SendInv, NEW m \in Machines, ReconcileSettle(m)
    PROVE  SendInv'
<1> DEFINE newest == Max(job[m].seen)
           older  == job[m].seen \ {newest}
           c      == CHOOSE d \in copies : d.uid = newest
           f      == job[m].file
<1>1. UNCHANGED <<folder, flying, sent, unsure>> /\ pc[m] = "settle"
  BY DEF ReconcileSettle, history
<1>2. f \in File
  BY <1>1 DEF Shape, TaskShape, Holding
<1>3. At({newest}) # {} => c \in copies /\ c.uid = newest
  BY DEF At
<1>4. \A d \in copies : d \in Copy /\ d.uid \in Uids
  BY DEF Shape, FolderShape, Copy
<1> DEFINE Same == file' = file /\ row' = row
           Written == /\ row'[m] # None /\ \A n \in Machines \ {m} : row'[n] = row[n]
                      /\ \A n \in Machines \ {m} : file'[n] = file[n]
<1>5. ASSUME At({newest}) # {}, Recorded(m, newest, f), file' = file PROVE Written
  BY <1>2, <1>3, <1>4, <1>5, RowWritten
<1>6. ASSUME At({newest}) # {}, PullInto(m, c, Theirs(m, older)) PROVE Same \/ Written
  <2>1. PICK d \in copies : d = c
    BY <1>3, <1>6
  <2>2. CASE Recorded(m, d.uid, f) /\ file' = file
    BY <1>2, <1>4, <2>2, RowWritten
  <2>3. ASSUME NEW exact \in Faithful, NEW g, g = Pulled(f, d, exact),
               file' = [file EXCEPT ![m] = g], Recorded(m, d.uid, g)
        PROVE  Written
    <3>1. g \in File
      BY <1>4, <2>3, FlagsAssumption, PulledIsFile DEF FlagsAssumption
    <3>2. \A n \in Machines \ {m} : file'[n] = file[n]
      BY <2>3 DEF Shape, LocalShape
    <3> QED
      BY <1>4, <2>3, <3>1, <3>2, RowWritten
  <2>4. \/ Recorded(m, d.uid, f) /\ file' = file
        \/ UNCHANGED <<file, row>>
        \/ \E exact \in Faithful : /\ file' = [file EXCEPT ![m] = Pulled(f, d, exact)]
                                   /\ Recorded(m, d.uid, Pulled(f, d, exact))
    <3> HIDE DEF c, older
    <3> QED
      BY <1>6, <2>1 DEF PullInto
  <2> HIDE DEF f
  <2> QED
    BY <2>2, <2>3, <2>4
<1>7. Same \/ Written
  <2>1. \/ UNCHANGED <<file, row>>
        \/ At({newest}) # {} /\ Recorded(m, newest, f) /\ file' = file
        \/ At({newest}) # {} /\ PullInto(m, c, Theirs(m, older))
    BY DEF ReconcileSettle
  <2> HIDE DEF c, f, older, newest, Written
  <2> QED
    BY <1>5, <1>6, <2>1
<1>8. PICK s \in {"idle", "doom"} : \E k : Begin(m, s, k) /\ pc'[m] = s
  <2>1. CASE Ended(m)
    BY <2>1, EndedBegins, Begun
  <2>2. ASSUME NEW S, ThenDoom(m, S)
        PROVE  \E s \in {"idle", "doom"} : \E k : Begin(m, s, k) /\ pc'[m] = s
    BY <2>2, DoomedNext
  <2> QED
    BY <2>1, <2>2 DEF ReconcileSettle
<1>9. PICK k : Begin(m, s, k) /\ pc'[m] = s
  BY <1>8
<1>10. Sender(m)' => Sender(m)
  BY <1>1, <1>7, <1>9 DEF Sender, Free, Claimed
<1>11. \A n \in Machines \ {m} : file'[n] = file[n] /\ row'[n] = row[n]
  BY <1>7
<1> QED
  BY <1>1, <1>9, <1>10, <1>11, FolderQuiet, TaskQuiet

LEMMA ReconcileGatherSends ==
    ASSUME Shape, TextInv, SendInv, NEW m \in Machines, ReconcileGather(m)
    PROVE  SendInv'
<1>1. UNCHANGED <<folder, flying, sent, unsure>> /\ pc[m] = "missing"
  BY DEF ReconcileGather
<1>2. file[m] = None
  BY <1>1 DEF TextInv, OthersKnow
<1> DEFINE Others == \A n \in Machines \ {m} : file'[n] = file[n] /\ row'[n] = row[n]
<1>3. ASSUME NEW u \in Uids, NEW g \in File, file' = [file EXCEPT ![m] = g], Recorded(m, u, g)
      PROVE  row'[m] # None /\ Others
  BY <1>3, RowWritten DEF Shape, LocalShape
<1>4. ASSUME NEW d \in copies PROVE d \in Copy /\ d.uid \in Uids
  BY DEF Shape, FolderShape, Copy
<1>5. ASSUME NEW d \in copies, NEW r \in retired[m], Revive(m, r, d) PROVE row'[m] # None /\ Others
  <2>1. PICK exact \in Faithful :
           LET f == IF WrittenFrom(d, r.file) THEN r.file ELSE Pulled(r.file, d, exact)
           IN  /\ file' = [file EXCEPT ![m] = f]
               /\ Recorded(m, d.uid, f)
    BY <1>5 DEF Revive
  <2> DEFINE f == IF WrittenFrom(d, r.file) THEN r.file ELSE Pulled(r.file, d, exact)
  <2>2. f \in File
    BY <1>4, FlagsAssumption, PulledIsFile DEF FlagsAssumption, Shape, LocalShape, Retired
  <2>3. file' = [file EXCEPT ![m] = f] /\ Recorded(m, d.uid, f)
    BY <2>1
  <2> HIDE DEF f
  <2> QED
    BY <1>3, <1>4, <2>2, <2>3
<1>6. ASSUME NEW d \in copies, Import(m, d) PROVE row'[m] # None /\ Others
  <2>1. PICK exact \in Faithful :
           LET f == Pulled([text |-> d.text, approved |-> FALSE], d, exact)
           IN  file' = [file EXCEPT ![m] = f] /\ Recorded(m, d.uid, f)
    BY <1>6 DEF Import
  <2> DEFINE f == Pulled([text |-> d.text, approved |-> FALSE], d, exact)
  <2>2. f \in File
    BY <1>4, FlagsAssumption, PulledIsFile DEF FlagsAssumption
  <2>3. file' = [file EXCEPT ![m] = f] /\ Recorded(m, d.uid, f)
    BY <2>1
  <2> HIDE DEF f
  <2> QED
    BY <1>3, <1>4, <2>2, <2>3
<1>7. file'[m] = None \/ row'[m] # None
  BY <1>2, <1>5, <1>6 DEF ReconcileGather, At
<1>8. Others
  <2>1. CASE file' = file /\ (row' = row \/ row' = [row EXCEPT ![m] = None])
    BY <2>1 DEF Shape, LocalShape
  <2>2. \/ file' = file /\ (row' = row \/ row' = [row EXCEPT ![m] = None])
        \/ \E d \in copies : (\E r \in retired[m] : Revive(m, r, d)) \/ Import(m, d)
    BY DEF ReconcileGather, At
  <2> HIDE DEF Others
  <2> QED
    BY <1>5, <1>6, <2>1, <2>2
<1>9. PICK s \in {"idle", "doom"} : \E k : Begin(m, s, k) /\ pc'[m] = s
  BY DoomedNext DEF ReconcileGather
<1>10. PICK k : Begin(m, s, k) /\ pc'[m] = s
  BY <1>9
<1>11. ~Sender(m)'
  BY <1>7, <1>10 DEF Sender, Free, Claimed
<1> QED
  BY <1>1, <1>8, <1>10, <1>11, FolderQuiet, TaskQuiet

-----------------------------------------------------------------------------
(* The steps of a push, of a send and of another client. *)

Unsent == \A s \in Machines \cup {None} : ~(sent[s] > 0)

LEMMA NobodySends ==
    ASSUME Sure, Visible # {}
    PROVE  Unsent /\ \A n \in Machines : ~Sender(n)
  BY DEF Sure, OneSender, Spent, Unsent

LEMMA StillUnsent == ASSUME Unsent, sent' = sent PROVE Spent'
  BY DEF Unsent, Spent

LEMMA SureStep ==
    ASSUME SendInv, unsure \subseteq unsure', Sure /\ unsure' = {} => Sure'
    PROVE  SendInv'
  BY DEF SendInv

(* Another client's copy is newer than what a claim saw.                     *)
LEMMA ForeignEditSends ==
    ASSUME Shape, TextInv, ~Overlap, SendInv, ForeignEdit
    PROVE  SendInv'
<1> SUFFICES ASSUME Sure PROVE Sure'
  BY SureStep DEF ForeignEdit
<1>1. UNCHANGED <<flagged, file, row, flying, pc, job, sent>>
  BY DEF ForeignEdit, local, task
<1>2. PICK o : o = [uid |-> uids + 1, text |-> texts + 1, approved |-> FALSE, mp |-> FALSE]
  OBVIOUS
<1>3. o.uid = uids + 1
  BY <1>2
<1>4. PICK c \in Visible : copies' = (copies \ {c}) \cup {o}
  BY <1>2 DEF ForeignEdit
<1>5. Unsent /\ \A n \in Machines : ~Sender(n)
  BY <1>4, NobodySends
<1>6. \A n \in Machines : ~Sender(n)'
  BY <1>1, <1>5, SenderSame
<1>7. OneSender' /\ Spent'
  BY <1>1, <1>5, <1>6, StillUnsent DEF OneSender
<1>8. ASSUME NEW m \in Machines, pc[m] = "claim", NEW S, S = job[m].seen PROVE Sees(S)'
  <2>1. S \subseteq 1..uids /\ Sees(S)
    BY <1>8 DEF TextInv, Known, Sure, Claiming
  <2>2. UidsOf(Visible') \subseteq (UidsOf(Visible) \ {c.uid}) \cup {uids + 1}
    <3>1. \A d \in Visible' : d = o \/ (d \in Visible /\ d # c /\ d \in copies)
      BY <1>1, <1>4 DEF Visible
    <3>2. c \in copies /\ \A d \in copies : d.uid = c.uid => d = c
      BY <1>4 DEF TextInv, Copies, Visible
    <3>3. \A d \in Visible' : d.uid = uids + 1 \/ (d.uid \in UidsOf(Visible) /\ d.uid # c.uid)
      BY <1>3, <3>1, <3>2 DEF UidsOf
    <3> QED
      BY <3>3 DEF UidsOf
  <2>3. uids + 1 \notin S
    BY <2>1 DEF Shape, FolderShape
  <2> SUFFICES ASSUME S \subseteq UidsOf(Visible')
               PROVE  /\ \E n \in Machines : /\ pc[n] \in {"readback", "replace"}
                                             /\ Named(job[n].row) = S
                      /\ \A n \in Machines : pc[n] = "append" => Named(job[n].row) = S
    BY <1>1 DEF Sees, Named
  <2>4. S \subseteq UidsOf(Visible) /\ c.uid \notin S
    BY <2>2, <2>3
  <2>5. c.uid \in UidsOf(Visible)
    BY <1>4 DEF UidsOf
  <2> QED
    BY <2>1, <2>4, <2>5 DEF Sees
<1>9. Claiming'
  <2> SUFFICES ASSUME NEW m \in Machines, pc[m] = "claim", NEW S, S = job[m].seen
               PROVE  S # {} /\ Sees(S)'
    BY <1>1 DEF Claiming, Sees
  <2> QED
    BY <1>8 DEF Sure, Claiming
<1>10. Expunging'
  BY <1>1, ExpungesStay DEF Sure
<1>11. Flights'
  BY <1>1, FlightsStay DEF Sure
<1> QED
  BY <1>7, <1>9, <1>10, <1>11 DEF Sure

LEMMA ForeignSendSends ==
    ASSUME Shape, ~Overlap, SendInv, ForeignSend
    PROVE  SendInv'
<1> SUFFICES ASSUME Sure PROVE Sure'
  BY SureStep DEF ForeignSend
<1>1. /\ UNCHANGED <<file, row, flying, pc, job>> /\ Without(UidsOf(Visible))
      /\ sent' = [sent EXCEPT ![None] = @ + 1] /\ Cardinality(Visible) = 1
      /\ \A n \in Machines : pc[n] \notin {"append", "readback"}
  BY DEF ForeignSend, local, task, LetGo, NoneAt
<1>2. Visible # {}
  BY <1>1, FS_EmptySet
<1>3. Unsent /\ \A n \in Machines : ~Sender(n)
  BY <1>2, NobodySends
<1>4. \A n \in Machines : ~Sender(n)'
  BY <1>1, <1>3, SenderSame
<1>5. Visible' = {} /\ flagged' \subseteq flagged
  BY <1>1, LessVisible DEF UidsOf
<1>6. OneSender'
  BY <1>4 DEF OneSender
<1>7. sent \in [Machines \cup {None} -> Nat]
  BY DEF Shape, PastShape
<1>8. \A s \in Machines \cup {None} : sent'[s] > 0 => s = None /\ sent'[s] = 1
  BY <1>1, <1>3, <1>7 DEF Unsent
<1>9. Spent'
  BY <1>1, <1>4, <1>5, <1>8 DEF Spent
<1>10. Claiming'
  BY <1>1, <1>5, ClaimsStay DEF Sure, PushesStay
<1>11. Expunging'
  BY <1>1, <1>5, ExpungesStay DEF Sure
<1>12. Flights'
  BY <1>1, FlightsStay DEF Sure
<1> QED
  BY <1>6, <1>9, <1>10, <1>11, <1>12 DEF Sure

(* A push that begins with no copy there is the sender's.                    *)
LEMMA PushSearchSends ==
    ASSUME Shape, SendInv, NEW m \in Machines, PushSearch(m)
    PROVE  SendInv'
<1> SUFFICES ASSUME Sure PROVE Sure'
  BY SureStep DEF PushSearch, history
<1>1. PICK k : k = [NoJob EXCEPT !.seen = UidsOf(Visible), !.row = row[m], !.file = file[m]]
  OBVIOUS
<1>2. k.row = row[m]
  BY <1>1 DEF NoJob
<1>3. /\ UNCHANGED <<folder, file, row, flying, sent>> /\ Begin(m, "append", k)
      /\ pc[m] = "idle" /\ file[m] # None /\ UidsOf(Visible) = Named(row[m])
  BY <1>1 DEF PushSearch, local, history, Idle, Replaceable
<1>4. /\ pc'[m] = "append" /\ job'[m] = k
      /\ \A n \in Machines \ {m} : pc'[n] = pc[n] /\ job'[n] = job[n]
  BY <1>3, Begun
<1>5. Visible' = Visible /\ flagged' = flagged
  BY <1>3, FolderQuiet
<1>6. ASSUME NEW n \in Machines, Sender(n)' PROVE Sender(n)
  <2>1. CASE n = m
    BY <1>3, <1>4, <1>6, <2>1 DEF Sender, Free, Claimed
  <2>2. CASE n # m
    BY <1>3, <1>4, <1>6, <2>2, SenderSame
  <2> QED
    BY <2>1, <2>2
<1>7. Visible = {} => Sender(m)
  <2>1. Visible = {} => Named(row[m]) = {}
    BY <1>3 DEF UidsOf
  <2>2. Named(row[m]) = {} => row[m] = None
    BY DEF Named
  <2> QED
    BY <1>3, <2>1, <2>2 DEF Sender, Free
<1>8. OneSender'
  <2>1. \A n \in Machines : Sender(n) => Visible = {} /\ Sender(m)
    BY <1>7 DEF Sure, OneSender
  <2>2. ASSUME NEW p \in Machines, NEW n \in Machines, pc'[p] = "append", Sender(n)' PROVE p = n
    BY <1>4, <1>6, <2>1, <2>2 DEF Sure, OneSender
  <2> QED
    BY <1>5, <1>6, <2>2 DEF Sure, OneSender
<1>9. Spent'
  <2>1. Unsent
    BY <1>7 DEF Sure, Spent, Unsent
  <2> QED
    BY <1>3, <2>1, StillUnsent
<1>10. ASSUME NEW n \in Machines, pc[n] = "claim", NEW S, S = job[n].seen PROVE Sees(S)'
  <2>1. S # {} /\ Sees(S)
    BY <1>10 DEF Sure, Claiming
  <2> SUFFICES ASSUME S \subseteq UidsOf(Visible)
               PROVE  /\ UidsOf(Visible) \subseteq S
                      /\ \A p \in Machines : pc'[p] = "append" => Named(job'[p].row) = S
    BY <1>5 DEF Sees, Named
  <2>2. S \subseteq Named(row[m])
    BY <1>3
  <2>3. S = Named(row[m])
    BY <2>1, <2>2 DEF Named
  <2>4. \A p \in Machines : pc[p] = "append" => Named(job[p].row) = S
    BY <2>1 DEF Sees
  <2>5. ASSUME NEW p \in Machines, pc'[p] = "append" PROVE Named(job'[p].row) = S
    <3>1. CASE p = m
      BY <1>2, <1>4, <2>3, <3>1
    <3>2. CASE p # m
      BY <1>4, <2>4, <2>5, <3>2
    <3> QED
      BY <3>1, <3>2
  <2> QED
    BY <1>3, <2>3, <2>5
<1>11. Claiming'
  <2> SUFFICES ASSUME NEW n \in Machines, pc'[n] = "claim", NEW S, S = job'[n].seen
               PROVE  S # {} /\ Sees(S)'
    BY DEF Claiming, Sees
  <2>1. pc[n] = "claim" /\ S = job[n].seen
    BY <1>4
  <2> QED
    BY <1>10, <2>1 DEF Sure, Claiming
<1>12. Expunging'
  BY <1>3, <1>4, <1>5, ExpungesStay DEF Sure
<1>13. Flights'
  BY <1>3, <1>4, FlightsStay DEF Sure
<1> QED
  BY <1>8, <1>9, <1>11, <1>12, <1>13 DEF Sure

LEMMA PushAppendSends ==
    ASSUME Shape, TextInv, SendInv, NEW m \in Machines, PushAppend(m)
    PROVE  SendInv'
<1> SUFFICES ASSUME Sure PROVE Sure'
  BY SureStep DEF PushAppend, history
<1>1. PICK o : o = [uid |-> uids + 1, text |-> job[m].file.text,
                    approved |-> job[m].file.approved, mp |-> TRUE]
  OBVIOUS
<1>2. o.uid = uids + 1
  BY <1>1
<1>3. /\ UNCHANGED <<flagged, file, row, flying, sent>> /\ Begin(m, "readback", job[m])
      /\ pc[m] = "append" /\ copies' = copies \cup {o}
  BY <1>1 DEF PushAppend, local, history
<1>4. /\ pc'[m] = "readback" /\ job'[m] = job[m]
      /\ \A n \in Machines \ {m} : pc'[n] = pc[n] /\ job'[n] = job[n]
  BY <1>3, Begun
<1>5. ASSUME NEW n \in Machines PROVE ~Sender(n)'
  <2>1. CASE n = m
    BY <1>4, <2>1 DEF Sender, Free, Claimed
  <2>2. CASE n # m
    <3>1. ~Sender(n)
      BY <1>3, <2>2 DEF Sure, OneSender
    <3> QED
      BY <1>3, <1>4, <2>2, <3>1, SenderSame
  <2> QED
    BY <2>1, <2>2
<1>6. OneSender'
  BY <1>5 DEF OneSender
<1>7. Spent'
  <2>1. Unsent
    BY <1>3 DEF Sure, Spent, Unsent
  <2> QED
    BY <1>3, <2>1, StillUnsent
<1>8. UidsOf(Visible') \subseteq UidsOf(Visible) \cup {uids + 1}
  <2>1. \A d \in Visible' : d = o \/ d \in Visible
    BY <1>3 DEF Visible
  <2> QED
    BY <1>2, <2>1 DEF UidsOf
<1>9. ASSUME NEW n \in Machines, pc[n] = "claim", NEW S, S = job[n].seen PROVE Sees(S)'
  <2>1. S \subseteq 1..uids /\ Sees(S)
    BY <1>9 DEF TextInv, Known, Sure, Claiming
  <2>2. uids + 1 \notin S
    BY <2>1 DEF Shape, FolderShape
  <2> SUFFICES ASSUME S \subseteq UidsOf(Visible')
               PROVE  /\ \E p \in Machines : /\ pc'[p] \in {"readback", "replace"}
                                             /\ Named(job'[p].row) = S
                      /\ \A p \in Machines : pc'[p] = "append" => Named(job'[p].row) = S
    BY DEF Sees, Named
  <2>3. \A p \in Machines : pc[p] = "append" => Named(job[p].row) = S
    BY <1>8, <2>1, <2>2 DEF Sees
  <2>4. Named(job'[m].row) = S
    BY <1>3, <1>4, <2>3
  <2>5. ASSUME NEW p \in Machines, pc'[p] = "append" PROVE Named(job'[p].row) = S
    <3>1. p # m
      BY <1>4, <2>5
    <3> QED
      BY <1>4, <2>3, <2>5, <3>1
  <2> QED
    BY <1>4, <2>4, <2>5
<1>10. Claiming'
  <2> SUFFICES ASSUME NEW n \in Machines, pc'[n] = "claim", NEW S, S = job'[n].seen
               PROVE  S # {} /\ Sees(S)'
    BY DEF Claiming, Sees
  <2>1. pc[n] = "claim" /\ S = job[n].seen
    BY <1>4
  <2> QED
    BY <1>9, <2>1 DEF Sure, Claiming
<1>11. Expunging'
  BY <1>3, <1>4, ExpungesStay DEF Sure
<1>12. Flights'
  BY <1>3, <1>4, FlightsStay DEF Sure
<1> QED
  BY <1>6, <1>7, <1>10, <1>11, <1>12 DEF Sure

LEMMA PushReadBackSends ==
    ASSUME Shape, TextInv, SendInv, NEW m \in Machines, PushReadBack(m)
    PROVE  SendInv'
<1> SUFFICES ASSUME Sure PROVE Sure'
  BY ReadBackFindsOwn, SureStep
<1>1. PICK j \in Job : j = job[m]
  BY DEF Shape, TaskShape
<1>2. PICK k : k = [j EXCEPT !.held = {uids}]
  OBVIOUS
<1>3. k.row = j.row /\ k.held = {uids} /\ uids \notin Named(j.row)
  BY <1>1, <1>2, ReadBackFindsOwn DEF Job
<1>4. /\ UNCHANGED <<folder, file, row, flying, sent>> /\ pc[m] = "readback"
      /\ Begin(m, "replace", k)
  BY <1>1, <1>2, ReadBackFindsOwn DEF PushReadBack, local
<1>5. /\ pc'[m] = "replace" /\ job'[m] = k
      /\ \A n \in Machines \ {m} : pc'[n] = pc[n] /\ job'[n] = job[n]
  BY <1>4, Begun
<1>6. Visible' = Visible /\ flagged' = flagged
  BY <1>4, FolderQuiet
<1>7. ASSUME NEW n \in Machines, Sender(n)' PROVE Sender(n)
  <2>1. n # m
    BY <1>5, <1>7 DEF Sender, Free, Claimed
  <2> QED
    BY <1>4, <1>5, <1>7, <2>1, SenderSame
<1>8. OneSender' /\ Spent'
  BY <1>4, <1>5, <1>6, <1>7, SendersStay DEF Sure
<1>9. Claiming'
  BY <1>1, <1>3, <1>4, <1>5, <1>6, ClaimsStay DEF Sure, PushesStay
<1>10. Expunging'
  BY <1>4, <1>5, <1>6, ExpungesStay DEF Sure
<1>11. Flights'
  <2>1. k.held \cap Named(k.row) = {}
    BY <1>3
  <2> QED
    BY <1>4, <1>5, <2>1 DEF Sure, Flights, Named
<1> QED
  BY <1>8, <1>9, <1>10, <1>11 DEF Sure

(* A send that finds no copy goes ahead with the right it has, and one that  *)
(* finds copies claims what it found.                                        *)
LEMMA SendSearchSends ==
    ASSUME Shape, ~Overlap, SendInv, NEW m \in Machines, SendSearch(m)
    PROVE  SendInv'
<1>1. PICK k : k = [NoJob EXCEPT !.seen = UidsOf(Visible), !.file = file[m]]
  OBVIOUS
<1>2. k.seen = UidsOf(Visible)
  BY <1>1 DEF NoJob
<1>3. /\ UNCHANGED <<folder, file, flying, sent, unsure>> /\ pc[m] = "idle" /\ file[m] # None
      /\ Begin(m, IF Visible = {} THEN "submit" ELSE "claim", k)
      /\ row' = [row EXCEPT ![m] = None] /\ (Visible # {} \/ row[m] = None)
      /\ \A n \in Machines \ {m} : pc[n] # "append"
  BY <1>1 DEF SendSearch, history, Idle, MayGo, NoneElse
<1>4. row'[m] = None /\ \A n \in Machines \ {m} : row'[n] = row[n]
  BY <1>3 DEF Shape, LocalShape
<1>5. CASE Visible = {}
  <2>1. Begin(m, "submit", k)
    BY <1>3, <1>5
  <2>2. Sender(m)
    BY <1>3, <1>5 DEF Sender, Free
  <2> QED
    BY <1>3, <1>4, <2>1, <2>2, FolderQuiet, TaskQuiet
<1>6. CASE Visible # {}
  <2> SUFFICES ASSUME Sure PROVE Sure'
    BY <1>3, SureStep
  <2>1. /\ pc'[m] = "claim" /\ job'[m] = k
        /\ \A n \in Machines \ {m} : pc'[n] = pc[n] /\ job'[n] = job[n]
    BY <1>3, <1>6, Begun
  <2>2. Visible' = Visible /\ flagged' = flagged
    BY <1>3, FolderQuiet
  <2>3. ASSUME NEW n \in Machines, Sender(n)' PROVE Sender(n)
    <3>1. n # m
      BY <2>1, <2>3 DEF Sender, Free, Claimed
    <3> QED
      BY <1>3, <1>4, <2>1, <2>3, <3>1, SenderSame
  <2>4. OneSender' /\ Spent'
    BY <1>3, <2>1, <2>2, <2>3, SendersStay DEF Sure
  <2>5. PushesStay
    BY <1>3, <2>1 DEF PushesStay
  <2>6. k.seen # {} /\ Sees(k.seen)'
    <3>1. k.seen # {}
      BY <1>2, <1>6 DEF UidsOf
    <3>2. \A n \in Machines : pc'[n] # "append"
      BY <1>3, <2>1
    <3>3. PICK S : S = k.seen
      OBVIOUS
    <3>4. Sees(S)'
      BY <1>2, <2>2, <3>2, <3>3 DEF Sees
    <3> QED
      BY <3>1, <3>3, <3>4
  <2>7. Claiming'
    <3> SUFFICES ASSUME NEW n \in Machines, pc'[n] = "claim", NEW S, S = job'[n].seen
                 PROVE  S # {} /\ Sees(S)'
      BY DEF Claiming, Sees
    <3>1. CASE n = m
      BY <2>1, <2>6, <3>1
    <3>2. CASE n # m
      <4>1. S # {} /\ Sees(S)
        BY <2>1, <3>2 DEF Sure, Claiming
      <4> QED
        BY <2>2, <2>5, <4>1, SeesStay
    <3> QED
      BY <3>1, <3>2
  <2>8. Expunging'
    BY <1>3, <2>1, <2>2, ExpungesStay DEF Sure
  <2>9. Flights'
    BY <1>3, <2>1, FlightsStay DEF Sure
  <2> QED
    BY <2>4, <2>7, <2>8, <2>9 DEF Sure
<1> QED
  BY <1>5, <1>6

(* A claim that has all it saw in its hands has every copy.                  *)
LEMMA ClaimFlagSends ==
    ASSUME Shape, ~Overlap, SendInv, NEW m \in Machines, ClaimFlag(m)
    PROVE  SendInv'
<1> SUFFICES ASSUME Sure PROVE Sure'
  BY SureStep DEF ClaimFlag
<1>1. PICK j \in Job : j = job[m]
  BY DEF Shape, TaskShape
<1>2. PICK H : H = UidsOf(At(j.seen))
  OBVIOUS
<1>3. PICK k : k = [j EXCEPT !.held = H]
  OBVIOUS
<1>4. k.seen = j.seen /\ k.held = H
  BY <1>3 DEF Job
<1>5. /\ UNCHANGED <<copies, file, row, flying, sent>> /\ pc[m] = "claim"
      /\ flagged' = flagged \cup H /\ Begin(m, "expunge", k)
      /\ \A n \in Machines : n # m => pc[n] \notin {"append", "readback", "replace", "expunge"}
  BY <1>1, <1>2, <1>3 DEF ClaimFlag, local, NoneElse
<1>6. /\ pc'[m] = "expunge" /\ job'[m] = k
      /\ \A n \in Machines \ {m} : pc'[n] = pc[n] /\ job'[n] = job[n]
  BY <1>5, Begun
<1>7. flagged = {}
  BY <1>5 DEF Sure, Expunging
<1>8. Visible = copies /\ Visible' = {c \in copies : c.uid \notin H}
  BY <1>5, <1>7 DEF Visible
<1>9. H \subseteq j.seen /\ H \subseteq UidsOf(Visible)
  BY <1>2, <1>8 DEF UidsOf, At
<1>10. j.seen # {} /\ Sees(j.seen)
  BY <1>1, <1>5 DEF Sure, Claiming
<1>11. ASSUME NEW n \in Machines, n # m, Sender(n)' PROVE Sender(n)
  BY <1>5, <1>6, <1>11, SenderSame
<1>12. OneSender' /\ Spent'
  <2>1. CASE H = j.seen
    <3>1. Visible # {}
      BY <1>9, <1>10, <2>1 DEF UidsOf
    <3>2. Unsent /\ \A n \in Machines : ~Sender(n)
      BY <3>1, NobodySends
    <3>3. \A n \in Machines : pc[n] \notin {"readback", "replace"}
      BY <1>5
    <3>4. UidsOf(Visible) \subseteq j.seen
      BY <1>9, <1>10, <2>1, <3>3 DEF Sees
    <3>5. Visible' = {}
      BY <1>8, <2>1, <3>4 DEF UidsOf
    <3>6. \A n \in Machines : (Sender(n)' => n = m) /\ pc'[n] # "append"
      BY <1>5, <1>6, <1>11, <3>2
    <3>7. OneSender'
      BY <3>5, <3>6 DEF OneSender
    <3> QED
      BY <1>5, <3>2, <3>7, StillUnsent
  <2>2. CASE H # j.seen
    <3>1. ~Sender(m)'
      BY <1>4, <1>6, <2>2 DEF Sender, Free, Claimed
    <3>2. Visible' \subseteq Visible
      BY <1>8
    <3>3. \A n \in Machines : /\ Sender(n)' => Sender(n)
                              /\ pc'[n] = "append" => pc[n] = "append"
      BY <1>6, <1>11, <3>1
    <3> QED
      BY <1>5, <3>2, <3>3, SendersStay DEF Sure
  <2> QED
    BY <2>1, <2>2
<1>13. Claiming'
  <2>1. PushesStay
    BY <1>5, <1>6 DEF PushesStay
  <2>2. \A n \in Machines : pc'[n] = "claim" => pc[n] = "claim" /\ job'[n] = job[n]
    BY <1>6
  <2>3. Visible' \subseteq Visible
    BY <1>8
  <2> QED
    BY <2>1, <2>2, <2>3, ClaimsStay DEF Sure
<1>14. Expunging'
  <2>1. ASSUME NEW n \in Machines, pc'[n] = "expunge" PROVE n = m
    BY <1>5, <1>6, <2>1
  <2>2. \A n \in Machines : pc'[n] = "expunge" =>
           /\ job'[n].held \subseteq job'[n].seen /\ job'[n].seen # {}
           /\ \A p \in Machines : pc'[p] = "expunge" => n = p
    BY <1>4, <1>6, <1>9, <1>10, <2>1
  <2>3. \A u \in flagged' : pc'[m] = "expunge" /\ u \in job'[m].held
    BY <1>4, <1>5, <1>6, <1>7
  <2> QED
    BY <2>2, <2>3 DEF Expunging
<1>15. Flights'
  BY <1>5, <1>6, FlightsStay DEF Sure
<1> QED
  BY <1>12, <1>13, <1>14, <1>15 DEF Sure

LEMMA ClaimExpungeSends ==
    ASSUME Shape, SendInv, NEW m \in Machines, ClaimExpunge(m)
    PROVE  SendInv'
<1>1. unsure \subseteq unsure' /\ (unsure' = {} => Expunged(m) = job[m].seen)
  BY DEF ClaimExpunge
<1> SUFFICES ASSUME Sure, Expunged(m) = job[m].seen PROVE Sure'
  BY <1>1, SureStep
<1>2. PICK k : k = [NoJob EXCEPT !.file = job[m].file]
  OBVIOUS
<1>3. /\ UNCHANGED <<file, row, flying, sent>> /\ pc[m] = "expunge"
      /\ Without(job[m].seen) /\ Begin(m, "submit", k)
  BY <1>2 DEF ClaimExpunge, local
<1>4. /\ pc'[m] = "submit" /\ \A n \in Machines \ {m} : pc'[n] = pc[n] /\ job'[n] = job[n]
  BY <1>3, Begun
<1>5. Visible' \subseteq Visible /\ flagged' = flagged \ job[m].seen
  BY <1>3, LessVisible
<1>6. /\ job[m].held = job[m].seen /\ \A n \in Machines : pc[n] = "expunge" => n = m
      /\ flagged \subseteq job[m].held
  <2>1. job[m].held \subseteq job[m].seen /\ \A n \in Machines : pc[n] = "expunge" => n = m
    BY <1>3 DEF Sure, Expunging
  <2>2. flagged \subseteq job[m].held
    BY <2>1 DEF Sure, Expunging
  <2> QED
    BY <2>1, <2>2 DEF Expunged
<1>7. ASSUME NEW n \in Machines, Sender(n)' PROVE Sender(n)
  <2>1. CASE n = m
    BY <1>3, <1>6, <2>1 DEF Sender, Claimed
  <2>2. CASE n # m
    BY <1>3, <1>4, <1>7, <2>2, SenderSame
  <2> QED
    BY <2>1, <2>2
<1>8. OneSender' /\ Spent'
  <2>1. \A n \in Machines : pc'[n] = "append" => pc[n] = "append"
    BY <1>4
  <2> QED
    BY <1>3, <1>5, <1>7, <2>1, SendersStay DEF Sure
<1>9. Claiming'
  BY <1>3, <1>4, <1>5, ClaimsStay DEF Sure, PushesStay
<1>10. Expunging'
  <2>1. \A n \in Machines : pc'[n] # "expunge"
    BY <1>4, <1>6
  <2>2. flagged' = {}
    BY <1>5, <1>6
  <2> QED
    BY <2>1, <2>2 DEF Expunging
<1>11. Flights'
  BY <1>3, <1>4, FlightsStay DEF Sure
<1> QED
  BY <1>8, <1>9, <1>10, <1>11 DEF Sure

LEMMA DeliveredBegins ==
    ASSUME Shape, NEW m \in Machines, Delivered(m)
    PROVE  /\ pc'[m] = "retire" /\ flying'[m] = "delivered" /\ sent' = [sent EXCEPT ![m] = @ + 1]
           /\ \A n \in Machines \ {m} :
                  pc'[n] = pc[n] /\ job'[n] = job[n] /\ flying'[n] = flying[n]
<1>1. Begin(m, "retire", NoJob)
  BY DEF Delivered
<1> QED
  BY <1>1, Begun DEF Delivered, Shape, LocalShape

LEMMA SubmitSends ==
    ASSUME Shape, SendInv, NEW m \in Machines, Submit(m)
    PROVE  SendInv'
<1>1. UNCHANGED <<folder, file, row>> /\ pc[m] = "submit" /\ unsure \subseteq unsure'
  BY DEF Submit
<1>2. Visible' = Visible /\ flagged' = flagged
  BY <1>1, FolderQuiet
<1>3. Sender(m)
  BY <1>1 DEF Sender, Free
<1>4. CASE Delivered(m) /\ UNCHANGED unsure
  <2> SUFFICES ASSUME Sure PROVE Sure'
    BY <1>4, SureStep
  <2>1. /\ pc'[m] = "retire" /\ flying'[m] = "delivered" /\ sent' = [sent EXCEPT ![m] = @ + 1]
        /\ \A n \in Machines \ {m} :
               pc'[n] = pc[n] /\ job'[n] = job[n] /\ flying'[n] = flying[n]
    BY <1>4, DeliveredBegins
  <2>2. ASSUME NEW n \in Machines PROVE ~Sender(n)'
    <3>1. CASE n = m
      BY <2>1, <3>1 DEF Sender, Free, Claimed
    <3>2. CASE n # m
      BY <1>1, <1>3, <2>1, <3>2, SenderSame DEF Sure, OneSender
    <3> QED
      BY <3>1, <3>2
  <2>3. OneSender'
    BY <2>2 DEF OneSender
  <2>4. Unsent /\ Visible = {} /\ \A n \in Machines : pc'[n] # "append"
    BY <1>1, <1>3, <2>1 DEF Sure, OneSender, Spent, Unsent
  <2>5. sent \in [Machines \cup {None} -> Nat]
    BY DEF Shape, PastShape
  <2>6. \A s \in Machines \cup {None} : sent'[s] > 0 => s = m /\ sent'[s] = 1
    BY <2>1, <2>4, <2>5 DEF Unsent
  <2>7. Spent'
    BY <1>2, <2>2, <2>4, <2>6 DEF Spent
  <2>8. Claiming'
    BY <1>1, <1>2, <2>1, ClaimsStay DEF Sure, PushesStay
  <2>9. Expunging'
    BY <1>1, <1>2, <2>1, ExpungesStay DEF Sure
  <2>10. Flights'
    BY <2>1 DEF Sure, Flights, Named
  <2> QED
    BY <2>3, <2>7, <2>8, <2>9, <2>10 DEF Sure
<1>5. CASE Ended(m) /\ UNCHANGED <<flying, sent, unsure>>
  BY <1>1, <1>2, <1>3, <1>5, EndedBegins, TaskQuiet
<1>6. CASE unsure' = unsure \cup {m}
  BY <1>6 DEF SendInv
<1> QED
  BY <1>4, <1>5, <1>6 DEF Submit

LEMMA ResendSends ==
    ASSUME SendInv, NEW m \in Machines, Resend(m)
    PROVE  SendInv'
<1>1. ~Sure /\ unsure' = unsure
  BY DEF Resend, Sure, Flights
<1> QED
  BY <1>1, SureStep

-----------------------------------------------------------------------------
LEMMA InitSends == Init => SendInv
<1> SUFFICES ASSUME Init PROVE Sure
  BY DEF SendInv
<1>1. /\ copies = {} /\ flagged = {} /\ Visible = {} /\ \A s \in Machines \cup {None} : sent[s] = 0
      /\ \A m \in Machines : pc[m] = "idle" /\ flying[m] = "no" /\ (file[m] # None => m = First)
  BY DEF Init, Visible
<1>2. OneSender
  BY <1>1 DEF OneSender, Sender, Free, Claimed
<1>3. Claiming /\ Expunging /\ Flights /\ Spent
  BY <1>1 DEF Claiming, Expunging, Flights, Spent
<1> QED
  BY <1>2, <1>3 DEF Sure

LEMMA StepSends == ~Overlap /\ Shape /\ TextInv /\ SendInv /\ [Next]_vars => SendInv'
<1> SUFFICES ASSUME ~Overlap, Shape, TextInv, SendInv, [Next]_vars PROVE SendInv'
  OBVIOUS
<1>1. ASSUME NEW m \in Machines PROVE
        \/ Edit(m) \/ Approve(m) \/ Discard(m) \/ RemoveByHand(m)
        \/ PushSearch(m) \/ PushAppend(m) \/ PushReadBack(m) \/ PushReplace(m)
        \/ DrainDelete(m)
        => SendInv'
  BY EditSends, ApproveSends, DiscardSends, RemoveByHandSends,
     PushSearchSends, PushAppendSends, PushReadBackSends, PushReplaceSends, DrainDeleteSends
<1>2. ASSUME NEW m \in Machines PROVE
        \/ Reconcile(m) \/ ReconcileSettle(m) \/ ReconcileGather(m) \/ ReconcileDoom(m)
        => SendInv'
  BY ReconcileSkipsSends, ReconcileCopyGoneSends, ReconcileOpenSends, ReconcileMissingSends,
     ReconcileSettleSends, ReconcileGatherSends, ReconcileDoomSends
     DEF Reconcile
<1>3. ASSUME NEW m \in Machines PROVE
        \/ SendSearch(m) \/ ClaimFlag(m) \/ ClaimExpunge(m) \/ Submit(m) \/ Resend(m)
        \/ Retire(m) \/ Fault(m)
        => SendInv'
  BY SendSearchSends, ClaimFlagSends, ClaimExpungeSends, SubmitSends, ResendSends,
     RetireSends, FaultSends
<1>4. ForeignEdit \/ ForeignDelete \/ ForeignSend => SendInv'
  BY ForeignEditSends, ForeignDeleteSends, ForeignSendSends
<1>5. ASSUME UNCHANGED vars PROVE SendInv'
  BY <1>5, FolderQuiet, ClientQuiet DEF vars, folder, task
<1> QED
  BY <1>1, <1>2, <1>3, <1>4, <1>5 DEF Next

LEMMA SentIsSpent == Shape /\ SendInv => SentOnce
  BY DEF SendInv, Sure, Spent, SentOnce

(* A draft held on any number of machines goes out once, from one of them or *)
(* from another client, while every machine knows how its claims, pushes and *)
(* submissions ended and the windows that send_guard.rs leaves open are kept *)
(* apart.                                                                    *)
THEOREM MirrorSendsOnce == ~Overlap /\ Spec => []SentOnce
<1> SUFFICES ASSUME ~Overlap PROVE Spec => []SentOnce
  OBVIOUS
<1>1. Init => TextInv /\ SendInv
  BY InitText, InitSends
<1>2. Shape /\ TextInv /\ SendInv /\ [Next]_vars => (TextInv /\ SendInv)'
  BY StepText, StepSends
<1>3. Shape /\ SendInv => SentOnce
  BY SentIsSpent
<1> QED
  BY <1>1, <1>2, <1>3, ShapeAlways, PTL DEF Spec
=============================================================================

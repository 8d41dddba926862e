---------------------------- MODULE ServerProofs ----------------------------
(***************************************************************************)
(* Proofs about the parts of the server that share no state: the syncs     *)
(* that pushes start (PushSync), the exit that waits for background work   *)
(* (Shutdown), listings (Paging), collections and references (Catalog),    *)
(* each for any number of tasks, connections, rows, requests and so on.    *)
(*                                                                         *)
(* PushSync: a task between StartFetch and its end is the first in the     *)
(* queue of sync_mutex (HolderFirst), so there is one at a time, and what  *)
(* it has fetched, checked out or read stays the newest (Carried) as long  *)
(* as no git process outlives its task (GitIsAwaited, which a timeout      *)
(* breaks).  The commits of the versions then only grow.                   *)
(*                                                                         *)
(* Shutdown: NothingLeftBehind holds because the tracker has exactly the   *)
(* jobs that run (TrackedRun): a job is tracked in the step that starts    *)
(* it, one that a sync fires while the tracker drains included, and serve  *)
(* leaves the drain without its timeout only when the tracker is empty.    *)
(*                                                                         *)
(* Paging: (created_at, id) orders the rows totally, in either direction.  *)
(* The cursor is not before any row the client has got (CursorIsLast), so  *)
(* the next page, which is after the cursor, follows all of them; and a    *)
(* page is cut so that what it leaves out is after its last row, so no     *)
(* steady row that the client has not got falls behind the cursor          *)
(* (NothingSkipped, which is inductive with the rest).                     *)
(*                                                                         *)
(* Catalog: references pin versions of their own board, memberships are of *)
(* rows that exist, and PATCHes of a collection keep each other's fields,  *)
(* because ids are not given out again and a PATCH holds the lock of a row *)
(* that is as it was read.                                                 *)
(***************************************************************************)
EXTENDS PushSync, Shutdown, Paging, Catalog, FiniteSetTheorems, SequenceTheorems, TLAPS

WorkPcs == {"fetch", "fetched", "reset", "read", "sync", "announce"}

Pcs == WorkPcs \cup {"none", "spawned", "locking", "done", "failed"}

TaskRecord == [pc : Pcs, push : Nat, files : Nat, version : Nat, missed : BOOLEAN]

(* The queue holds tasks, and commits, pushes and versions are numbers.    *)
TypeOK ==
    /\ origin \in Nat /\ tracking \in Nat /\ tree \in Nat
    /\ git \in [Tasks -> [cmd : {"none", "fetch", "reset"}, commit : Nat]]
    /\ mutex \in Seq(Tasks)
    /\ task \in [Tasks -> TaskRecord]
    /\ versions \in Seq([commit : Nat, note : Nat])
    /\ announced \in Seq(Nat)
    /\ hung \in BOOLEAN

(* A task at work holds the mutex.                                         *)
HolderFirst == \A t \in Tasks : task[t].pc \in WorkPcs => HoldsMutex(t)

(* What is announced exists; what is about to be announced is the newest   *)
(* version, and nobody has announced it.                                   *)
AnnouncedExist == \A j \in DOMAIN announced : announced[j] \in 1..Len(versions)

AnnouncingNewest ==
    \A t \in Tasks : At(t, "announce") =>
        /\ task[t].version = Len(versions) /\ versions # << >>
        /\ \A j \in DOMAIN announced : announced[j] < Len(versions)

AnnouncedGrow == \A i, j \in DOMAIN announced : i < j => announced[i] < announced[j]

(* Nobody has heard of a commit that was not pushed.                       *)
PushesMade ==
    /\ tracking <= origin
    /\ \A t \in Tasks : git[t].commit <= origin /\ task[t].push <= origin

(* Without a timeout every git process has a task that waits for it.       *)
GitIsAwaited == \A t \in Tasks : git[t].cmd # "none" => Awaited(t)

(* The newest version is of this commit or a later one.                    *)
Covers(commit) == versions # << >> /\ versions[Len(versions)].commit >= commit

(* How far the push of a task has come, at each of its steps.              *)
Carried(t) ==
    /\ At(t, "fetch") => git[t].commit >= task[t].push
    /\ At(t, "fetched") => tracking >= task[t].push
    /\ At(t, "reset") => git[t].commit = tracking /\ tracking >= task[t].push
    /\ At(t, "read") => tree = tracking /\ tree >= task[t].push
    /\ At(t, "sync") => task[t].files = tree /\ tree = tracking /\ tree >= task[t].push
    /\ At(t, "announce") => Covers(task[t].push)
    /\ At(t, "done") /\ task[t].missed = FALSE => Covers(task[t].push)

CommitsGrow ==
    \A i, j \in DOMAIN versions : i < j => versions[i].commit < versions[j].commit

VersionsChecked == \A i \in DOMAIN versions : versions[i].commit <= tree

(* What holds as long as git answers in time.                              *)
InTime ==
    /\ GitIsAwaited
    /\ tree <= tracking
    /\ \A t \in Tasks : Carried(t)
    /\ CommitsGrow
    /\ VersionsChecked

IInv ==
    /\ TypeOK
    /\ HolderFirst
    /\ AnnouncedExist /\ AnnouncingNewest /\ AnnouncedGrow
    /\ PushesMade
    /\ ~hung => InTime

-----------------------------------------------------------------------------
(* The queue.                                                              *)

(* Dropping the guard leaves the tasks behind the holder in the queue.     *)
LEMMA ReleaseType ==
    ASSUME NEW t \in Tasks, mutex \in Seq(Tasks), HoldsMutex(t), Release(t)
    PROVE  mutex' \in Seq(Tasks)
<1> DEFINE I == {i \in 1..Len(mutex) : mutex[i] = t}
<1>1. 1 \in I /\ Len(mutex) \in Nat /\ Len(mutex) >= 1
  BY DEF HoldsMutex
<1>2. \A i \in I : i \in Nat /\ i >= 1
  BY <1>1
<1>3. (CHOOSE x \in I : \A y \in I : x <= y) = 1
  BY <1>1, <1>2
<1>4. SelectInSeq(mutex, LAMBDA v : v = t) = 1
  BY <1>1, <1>3 DEF SelectInSeq, Min
<1>5. mutex' = SubSeq(mutex, 1, 0) \o SubSeq(mutex, 2, Len(mutex))
  <2>1. \E i \in 1..Len(mutex) : mutex[i] = t
    BY <1>1
  <2>2. mutex' = RemoveAt(mutex, 1)
    BY <2>1, <1>4, Zenon DEF Release, RemoveFirst
  <2> QED
    BY <2>2 DEF RemoveAt
<1>6. SubSeq(mutex, 1, 0) \in Seq(Tasks) /\ SubSeq(mutex, 2, Len(mutex)) \in Seq(Tasks)
  BY <1>1
<1> QED
  BY <1>5, <1>6

-----------------------------------------------------------------------------
(* Types, and one worker at a time.                                        *)

(* A task that ends was at work, and so first in the queue.                *)
LEMMA EndsHolding ==
    ASSUME TypeOK, HolderFirst, NEW t \in Tasks, task[t].pc \in WorkPcs, Release(t)
    PROVE  mutex' \in Seq(Tasks)
BY ReleaseType DEF TypeOK, HolderFirst

(* A task that goes on.                                                    *)
LEMMA GotoType ==
    ASSUME TypeOK, NEW t \in Tasks, NEW pc \in Pcs, Goto(t, pc)
    PROVE  task' \in [Tasks -> TaskRecord]
BY DEF TypeOK, Goto, TaskRecord

(* The versions, one by one.                                               *)
LEMMA VersionAt ==
    ASSUME TypeOK
    PROVE  /\ Len(versions) \in Nat /\ DOMAIN versions = 1..Len(versions)
           /\ versions # << >> <=> Len(versions) >= 1
           /\ \A i \in 1..Len(versions) : versions[i].commit \in Nat
<1> DEFINE V == [commit : Nat, note : Nat]
<1>1. versions \in Seq(V)
  BY DEF TypeOK
<1>2. \A v \in V : v.commit \in Nat
  OBVIOUS
<1> HIDE DEF V
<1>3. /\ Len(versions) \in Nat /\ DOMAIN versions = 1..Len(versions)
      /\ \A i \in 1..Len(versions) : versions[i] \in V
  BY <1>1, LenProperties
<1>4. versions # << >> <=> Len(versions) >= 1
  BY <1>1, <1>3
<1> QED
  BY <1>2, <1>3, <1>4

(* What an appended version does to the table.                             *)
LEMMA VersionAppends ==
    ASSUME TypeOK, NEW t \in Tasks, versions' = Append(versions, VersionOf(t))
    PROVE  /\ versions' \in Seq([commit : Nat, note : Nat])
           /\ Len(versions') = Len(versions) + 1 /\ DOMAIN versions' = 1..(Len(versions) + 1)
           /\ versions' # << >>
           /\ \A i \in 1..Len(versions) : versions'[i] = versions[i]
           /\ versions'[Len(versions) + 1].commit = task[t].files
<1> DEFINE new == VersionOf(t)
           V == [commit : Nat, note : Nat]
<1>1. new \in V /\ versions \in Seq(V)
  BY DEF TypeOK, TaskRecord, VersionOf
<1>2. new.commit = task[t].files
  BY DEF VersionOf
<1> HIDE DEF V
<1>3. /\ Append(versions, new) # << >>
      /\ Append(versions, new) \in Seq(V)
      /\ Len(Append(versions, new)) = Len(versions) + 1
      /\ \A i \in 1..Len(versions) : Append(versions, new)[i] = versions[i]
      /\ Append(versions, new)[Len(versions) + 1] = new
  <2> HIDE DEF new
  <2> QED
    BY <1>1, AppendProperties
<1>4. versions' = Append(versions, new)
  OBVIOUS
<1> HIDE DEF new
<1>5. DOMAIN versions' = 1..Len(versions')
  BY <1>3, <1>4, LenProperties
<1>6. /\ versions' # << >> /\ versions' \in Seq(V)
      /\ Len(versions') = Len(versions) + 1
      /\ \A i \in 1..Len(versions) : versions'[i] = versions[i]
      /\ versions'[Len(versions) + 1] = new
  BY <1>3, <1>4
<1>7. versions'[Len(versions) + 1].commit = task[t].files
  BY <1>2, <1>6
<1> QED
  BY <1>5, <1>6, <1>7 DEF V

(* What a sync does to the version table.                                  *)
LEMMA SyncAppends ==
    ASSUME TypeOK, NEW t \in Tasks, SyncBoards(t), Changed(t)
    PROVE  /\ versions' = Append(versions, VersionOf(t))
           /\ task'[t].pc = "announce" /\ task'[t].push = task[t].push
           /\ task'[t].version = Len(versions) + 1
           /\ \A u \in Tasks : u # t => task'[u] = task[u]
<1> DEFINE q == [task[t] EXCEPT !.pc = "announce", !.version = Len(versions) + 1]
<1>1. /\ versions' = Append(versions, VersionOf(t))
      /\ task' = [task EXCEPT ![t] = q]
  BY DEF SyncBoards, NextNumber
<1>2. /\ q.pc = "announce" /\ q.push = task[t].push /\ q.version = Len(versions) + 1
  BY DEF TypeOK, TaskRecord
<1> HIDE DEF q
<1>3. /\ task'[t] = q
      /\ \A u \in Tasks : u # t => task'[u] = task[u]
  BY <1>1 DEF TypeOK
<1> QED
  BY <1>1, <1>2, <1>3

(* What is left of a task whose sync missed the board.                     *)
LEMMA BoardFailsTask ==
    ASSUME TypeOK, NEW t \in Tasks, BoardFails(t)
    PROVE  /\ task' \in [Tasks -> TaskRecord]
           /\ task'[t].pc = "done" /\ task'[t].push = task[t].push /\ task'[t].missed = TRUE
           /\ \A u \in Tasks : u # t => task'[u] = task[u]
           /\ task[t].pc \in {"read", "sync"} /\ Release(t)
           /\ UNCHANGED <<origin, tracking, tree, git, announced, hung>>
           /\ \/ UNCHANGED versions
              \/ /\ At(t, "sync") /\ Changed(t)
                 /\ versions' = Append(versions, VersionOf(t))
<1> DEFINE q == [task[t] EXCEPT !.pc = "done", !.missed = TRUE]
<1>1. task' = [task EXCEPT ![t] = q]
  BY DEF BoardFails
<1>2. q.pc = "done" /\ q.push = task[t].push /\ q.missed = TRUE
  BY DEF TypeOK, TaskRecord
<1>3. q \in TaskRecord
  <2>1. \A m \in BOOLEAN : [task[t] EXCEPT !.pc = "done", !.missed = m] \in TaskRecord
    BY DEF TypeOK, TaskRecord, Pcs
  <2>2. TRUE \in BOOLEAN
    OBVIOUS
  <2> QED
    BY <2>1, <2>2, Zenon
<1> HIDE DEF q
<1>4. /\ task'[t] = q /\ task' \in [Tasks -> TaskRecord]
      /\ \A u \in Tasks : u # t => task'[u] = task[u]
  BY <1>1, <1>3 DEF TypeOK
<1> QED
  BY <1>2, <1>4 DEF BoardFails, clone

(* The types are kept.                                                     *)
LEMMA NextType ==
    ASSUME TypeOK, HolderFirst, [Next]_vars
    PROVE  TypeOK'
<1> USE DEF TypeOK
<1>1. CASE UNCHANGED vars
  BY <1>1 DEF vars, clone
<1>2. CASE Push
  BY <1>2 DEF Push, clone
<1>3. ASSUME NEW t \in Tasks, Accept(t)
      PROVE  TypeOK'
  <2>1. PICK push \in 1..origin : task' = [task EXCEPT ![t] = [task[t] EXCEPT !.pc = "spawned", !.push = push]]
    BY <1>3 DEF Accept
  <2>2. task' \in [Tasks -> TaskRecord]
    <3>1. push \in Nat
      OBVIOUS
    <3>2. [task[t] EXCEPT !.pc = "spawned", !.push = push] \in TaskRecord
      BY <3>1 DEF TaskRecord, Pcs
    <3> QED
      BY <2>1, <3>2
  <2> QED
    BY <1>3, <2>2 DEF Accept, clone
<1>4. ASSUME NEW t \in Tasks, Lock(t) \/ StartFetch(t) \/ StartReset(t)
      PROVE  TypeOK'
  <2>1. task' \in [Tasks -> TaskRecord]
    BY <1>4, GotoType DEF Lock, StartFetch, StartReset, Pcs, WorkPcs
  <2>2. CASE Lock(t)
    BY <2>1, <2>2 DEF Lock, clone
  <2>3. CASE StartFetch(t)
    BY <2>1, <2>3 DEF StartFetch, clone
  <2>4. CASE StartReset(t)
    BY <2>1, <2>4 DEF StartReset, clone
  <2> QED
    BY <1>4, <2>2, <2>3, <2>4
<1>5. ASSUME NEW t \in Tasks, FetchEnds(t) \/ ResetEnds(t)
      PROVE  TypeOK'
  <2>1. task' \in [Tasks -> TaskRecord]
    BY <1>5, GotoType DEF FetchEnds, ResetEnds, Pcs, WorkPcs
  <2>2. git[t].commit \in Nat
    OBVIOUS
  <2>3. git' \in [Tasks -> [cmd : {"none", "fetch", "reset"}, commit : Nat]]
    <3>1. NoGit \in [cmd : {"none", "fetch", "reset"}, commit : Nat]
      BY DEF NoGit
    <3>2. git' = [git EXCEPT ![t] = NoGit]
      BY <1>5 DEF FetchEnds, ResetEnds, GitExits
    <3> QED
      BY <3>1, <3>2
  <2> QED
    BY <1>5, <2>1, <2>2, <2>3 DEF FetchEnds, ResetEnds, clone
<1>6. ASSUME NEW t \in Tasks, GitFails(t)
      PROVE  TypeOK'
  <2>1. Awaited(t) => task[t].pc \in WorkPcs
    BY <1>6 DEF GitFails, Awaited, WorkPcs
  <2>2. mutex' \in Seq(Tasks)
    BY <1>6, <2>1, EndsHolding DEF GitFails, Fail
  <2>3. task' \in [Tasks -> TaskRecord]
    BY <1>6, GotoType DEF GitFails, Fail, Pcs
  <2>4. git' \in [Tasks -> [cmd : {"none", "fetch", "reset"}, commit : Nat]]
    BY <1>6 DEF GitFails, GitExits, NoGit
  <2> QED
    BY <1>6, <2>2, <2>3, <2>4 DEF GitFails, clone
<1>7. ASSUME NEW t \in Tasks, GitTimesOut(t) \/ SyncFails(t)
      PROVE  TypeOK'
  <2>1. mutex' \in Seq(Tasks)
    BY <1>7, EndsHolding DEF GitTimesOut, SyncFails, Fail, At, WorkPcs
  <2>2. task' \in [Tasks -> TaskRecord]
    BY <1>7, GotoType DEF GitTimesOut, SyncFails, Fail, Pcs
  <2> QED
    BY <1>7, <2>1, <2>2 DEF GitTimesOut, SyncFails, clone
<1>8. ASSUME NEW t \in Tasks, ParseDirectory(t)
      PROVE  TypeOK'
  BY <1>8 DEF ParseDirectory, clone, TaskRecord, Pcs, WorkPcs
<1>9. ASSUME NEW t \in Tasks, SyncBoards(t)
      PROVE  TypeOK'
  <2>1. mutex' \in Seq(Tasks)
    BY <1>9, EndsHolding DEF SyncBoards, At, WorkPcs
  <2>2. task' \in [Tasks -> TaskRecord]
    <3>1. CASE Goto(t, "done")
      BY <3>1, GotoType DEF Pcs
    <3>2. CASE task' = [task EXCEPT ![t] = [task[t] EXCEPT !.pc = "announce", !.version = Len(versions) + 1]]
      <4>1. Len(versions) + 1 \in Nat
        OBVIOUS
      <4> QED
        BY <3>2, <4>1 DEF TaskRecord, Pcs, WorkPcs
    <3> QED
      BY <1>9, <3>1, <3>2 DEF SyncBoards, NextNumber
  <2>3. versions' \in Seq([commit : Nat, note : Nat])
    <3>1. versions' = Append(versions, VersionOf(t)) \/ versions' = versions
      BY <1>9 DEF SyncBoards
    <3> QED
      BY <3>1, VersionAppends
  <2> QED
    BY <1>9, <2>1, <2>2, <2>3 DEF SyncBoards, clone
<1>10. ASSUME NEW t \in Tasks, Announce(t)
       PROVE  TypeOK'
  <2>1. mutex' \in Seq(Tasks)
    BY <1>10, EndsHolding DEF Announce, At, WorkPcs
  <2>2. task' \in [Tasks -> TaskRecord]
    BY <1>10, GotoType DEF Announce, Pcs
  <2>3. announced' \in Seq(Nat)
    BY <1>10 DEF Announce, TaskRecord
  <2> QED
    BY <1>10, <2>1, <2>2, <2>3 DEF Announce, clone
<1>11. ASSUME NEW t \in Tasks, BoardFails(t)
       PROVE  TypeOK'
  <2>1. mutex' \in Seq(Tasks)
    BY <1>11, EndsHolding DEF BoardFails, WorkPcs
  <2>2. versions' \in Seq([commit : Nat, note : Nat])
    BY <1>11, VersionAppends DEF BoardFails
  <2> QED
    BY <1>11, <2>1, <2>2, BoardFailsTask
<1> QED
  BY <1>1, <1>2, <1>3, <1>4, <1>5, <1>6, <1>7, <1>8, <1>9, <1>10, <1>11 DEF Next, Quiet, Step

(* A task at work stays first in the queue until it ends, and only the     *)
(* first in the queue starts to work.                                      *)
LEMMA NextHolder ==
    ASSUME TypeOK, HolderFirst, [Next]_vars
    PROVE  HolderFirst'
<1> DEFINE FinishedBy(t) == /\ task[t].pc \in WorkPcs
                      /\ task' = [task EXCEPT ![t] = task'[t]]
                      /\ task'[t].pc \notin WorkPcs
           Moves(t) == /\ HoldsMutex(t) \/ task'[t].pc \notin WorkPcs
                       /\ task' = [task EXCEPT ![t] = task'[t]]
                       /\ UNCHANGED mutex
<1>1. ASSUME NEW t \in Tasks, FinishedBy(t)
      PROVE  HolderFirst'
  BY <1>1 DEF HolderFirst, HoldsMutex, TypeOK
<1>2. ASSUME NEW t \in Tasks, Moves(t)
      PROVE  HolderFirst'
  BY <1>2 DEF HolderFirst, HoldsMutex, TypeOK
<1>3. CASE UNCHANGED <<task, mutex>>
  BY <1>3 DEF HolderFirst, HoldsMutex
<1>4. ASSUME NEW t \in Tasks, Lock(t)
      PROVE  HolderFirst'
  <2>1. mutex # << >> => mutex' # << >> /\ Head(mutex') = Head(mutex)
    BY <1>4 DEF Lock, TypeOK
  <2>2. /\ task'[t].pc \notin WorkPcs
        /\ \A u \in Tasks : u # t => task'[u] = task[u]
    BY <1>4 DEF Lock, Goto, TypeOK, TaskRecord, WorkPcs
  <2> QED
    BY <2>1, <2>2 DEF HolderFirst, HoldsMutex
<1>5. ASSUME NEW t \in Tasks, Accept(t) \/ StartFetch(t) \/ StartReset(t) \/ ParseDirectory(t)
      PROVE  Moves(t)
  <2>1. task[t].pc \in WorkPcs => HoldsMutex(t)
    BY DEF HolderFirst
  <2> QED
    BY <1>5, <2>1 DEF Accept, StartFetch, StartReset, ParseDirectory, Goto, At, TypeOK, TaskRecord, WorkPcs
<1>6. ASSUME NEW t \in Tasks, FetchEnds(t) \/ ResetEnds(t)
      PROVE  Moves(t) \/ UNCHANGED <<task, mutex>>
  <2>1. task[t].pc \in WorkPcs => HoldsMutex(t)
    BY DEF HolderFirst
  <2> QED
    BY <1>6, <2>1 DEF FetchEnds, ResetEnds, Awaited, Goto, TypeOK, TaskRecord, WorkPcs
<1>7. ASSUME NEW t \in Tasks, GitFails(t) \/ GitTimesOut(t) \/ SyncFails(t) \/ Announce(t)
      PROVE  FinishedBy(t) \/ UNCHANGED <<task, mutex>>
  BY <1>7 DEF GitFails, GitTimesOut, SyncFails, Announce, Awaited, Fail, Goto, At, TypeOK, TaskRecord, WorkPcs
<1>8. ASSUME NEW t \in Tasks, SyncBoards(t)
      PROVE  FinishedBy(t) \/ Moves(t)
  <2>1. HoldsMutex(t)
    BY <1>8 DEF HolderFirst, SyncBoards, At, WorkPcs
  <2> QED
    BY <1>8, <2>1 DEF SyncBoards, Goto, At, TypeOK, TaskRecord, WorkPcs
<1>9. ASSUME NEW t \in Tasks, BoardFails(t)
      PROVE  FinishedBy(t)
  <2>1. task' = [task EXCEPT ![t] = task'[t]]
    BY <1>9 DEF BoardFails, TypeOK
  <2> QED
    BY <1>9, <2>1, BoardFailsTask DEF WorkPcs
<1> HIDE DEF FinishedBy, Moves
<1> QED
  BY <1>1, <1>2, <1>3, <1>4, <1>5, <1>6, <1>7, <1>8, <1>9 DEF Next, Push, Quiet, Step, vars

(* No two tasks are at work.                                               *)
LEMMA OneWorker ==
    ASSUME HolderFirst, NEW t \in Tasks, NEW u \in Tasks,
           task[t].pc \in WorkPcs, task[u].pc \in WorkPcs
    PROVE  t = u
BY DEF HolderFirst, HoldsMutex

-----------------------------------------------------------------------------
(* The announcements.                                                      *)

AnnouncedInv == AnnouncedExist /\ AnnouncingNewest /\ AnnouncedGrow

(* A step that leaves the versions and the announcements alone, and brings *)
(* no task to its announcement.                                            *)
LEMMA AnnouncedFrame ==
    ASSUME AnnouncedInv, UNCHANGED <<versions, announced>>,
           \A u \in Tasks : task'[u].pc = "announce" => task'[u] = task[u]
    PROVE  AnnouncedInv'
BY DEF AnnouncedInv, AnnouncedExist, AnnouncingNewest, AnnouncedGrow, At

(* Subscribers hear of existing versions, in the order of their numbers.   *)
LEMMA NextAnnounced ==
    ASSUME TypeOK, HolderFirst, AnnouncedInv, [Next]_vars
    PROVE  AnnouncedInv'
<1>1. /\ versions \in Seq([commit : Nat, note : Nat]) /\ Len(versions) \in Nat
      /\ announced \in Seq(Nat) /\ DOMAIN announced = 1..Len(announced)
      /\ Len(announced) \in Nat
      /\ \A i \in DOMAIN announced : announced[i] \in Nat
  BY DEF TypeOK
<1>2. CASE UNCHANGED <<task, versions, announced>>
  BY <1>2, AnnouncedFrame
<1>3. ASSUME NEW t \in Tasks, NEW q, q.pc # "announce", task' = [task EXCEPT ![t] = q],
             UNCHANGED <<versions, announced>>
      PROVE  AnnouncedInv'
  <2>1. \A u \in Tasks : task'[u].pc = "announce" => task'[u] = task[u]
    BY <1>3 DEF TypeOK
  <2> QED
    BY <1>3, <2>1, AnnouncedFrame
<1>4. ASSUME NEW t \in Tasks, NEW pc, Goto(t, pc), pc # "announce", UNCHANGED <<versions, announced>>
      PROVE  AnnouncedInv'
  <2> DEFINE q == [task[t] EXCEPT !.pc = pc]
  <2>1. q.pc = pc /\ task' = [task EXCEPT ![t] = q]
    BY <1>4 DEF Goto, TypeOK, TaskRecord
  <2> HIDE DEF q
  <2> QED
    BY <1>3, <1>4, <2>1
<1>5. ASSUME NEW t \in Tasks, Accept(t)
      PROVE  AnnouncedInv'
  <2>1. PICK push \in 1..origin : task' = [task EXCEPT ![t] = [task[t] EXCEPT !.pc = "spawned", !.push = push]]
    BY <1>5 DEF Accept
  <2> DEFINE q == [task[t] EXCEPT !.pc = "spawned", !.push = push]
  <2>2. q.pc # "announce"
    BY DEF TypeOK, TaskRecord
  <2> HIDE DEF q
  <2>3. task' = [task EXCEPT ![t] = q] /\ UNCHANGED <<versions, announced>>
    BY <1>5, <2>1 DEF q, Accept
  <2> QED
    BY <1>3, <2>2, <2>3
<1>6. ASSUME NEW t \in Tasks, ParseDirectory(t)
      PROVE  AnnouncedInv'
  <2> DEFINE q == [task[t] EXCEPT !.pc = "sync", !.files = tree]
  <2>1. q.pc # "announce"
    BY DEF TypeOK, TaskRecord
  <2>2. task' = [task EXCEPT ![t] = q] /\ UNCHANGED <<versions, announced>>
    BY <1>6 DEF ParseDirectory
  <2> HIDE DEF q
  <2> QED
    BY <1>3, <2>1, <2>2
<1>7. ASSUME NEW t \in Tasks, Lock(t) \/ StartFetch(t) \/ StartReset(t)
      PROVE  AnnouncedInv'
  BY <1>7, <1>4 DEF Lock, StartFetch, StartReset
<1>8. ASSUME NEW t \in Tasks,
             FetchEnds(t) \/ ResetEnds(t) \/ GitFails(t) \/ GitTimesOut(t) \/ SyncFails(t)
      PROVE  AnnouncedInv'
  <2>1. /\ UNCHANGED <<versions, announced>>
        /\ \/ UNCHANGED task
           \/ Goto(t, "fetched") \/ Goto(t, "read") \/ Goto(t, "failed")
    BY <1>8 DEF FetchEnds, ResetEnds, GitFails, GitTimesOut, SyncFails, Fail
  <2> QED
    BY <2>1, <1>2, <1>4
<1>9. ASSUME NEW t \in Tasks, SyncBoards(t)
      PROVE  AnnouncedInv'
  <2>1. CASE ~Changed(t)
    BY <1>9, <2>1, <1>4 DEF SyncBoards
  <2>2. CASE Changed(t)
    <3>1. \A u \in Tasks : u # t => task'[u].pc # "announce"
      BY <1>9, <2>2, SyncAppends, OneWorker DEF SyncBoards, At, WorkPcs
    <3>2. announced' = announced
      BY <1>9 DEF SyncBoards
    <3>3. /\ Len(versions') = Len(versions) + 1 /\ versions' # << >>
          /\ task'[t].version = Len(versions')
      BY <1>9, <2>2, SyncAppends, VersionAppends
    <3>4. AnnouncedExist' /\ AnnouncedGrow'
      BY <1>1, <3>2, <3>3 DEF AnnouncedInv, AnnouncedExist, AnnouncedGrow
    <3>5. AnnouncingNewest'
      BY <1>1, <3>1, <3>2, <3>3 DEF AnnouncedInv, AnnouncedExist, AnnouncingNewest, At
    <3> QED
      BY <3>4, <3>5 DEF AnnouncedInv
  <2> QED
    BY <2>1, <2>2
<1>10. ASSUME NEW t \in Tasks, Announce(t)
       PROVE  AnnouncedInv'
  <2> DEFINE n == Len(versions)
  <2>1. /\ task[t].version = n /\ n >= 1 /\ n \in Nat
        /\ \A j \in DOMAIN announced : announced[j] < n
    BY <1>1, <1>10 DEF AnnouncedInv, AnnouncingNewest, Announce
  <2>2. announced' = Append(announced, n) /\ UNCHANGED versions
    BY <1>10, <2>1 DEF Announce
  <2>3. \A u \in Tasks : task'[u].pc # "announce"
    <3>1. \A u \in Tasks : u # t => task[u].pc # "announce"
      BY <1>10, OneWorker DEF Announce, At, WorkPcs
    <3> QED
      BY <1>10, <3>1 DEF Announce, Goto, TypeOK, TaskRecord
  <2>4. /\ DOMAIN announced' = 1..(Len(announced) + 1)
        /\ \A j \in 1..Len(announced) : announced'[j] = announced[j]
        /\ announced'[Len(announced) + 1] = n
    BY <1>1, <2>1, <2>2
  <2> HIDE DEF n
  <2>5. AnnouncedExist'
    BY <1>1, <2>1, <2>2, <2>4 DEF AnnouncedInv, AnnouncedExist, n
  <2>6. AnnouncedGrow'
    <3> SUFFICES ASSUME NEW i \in 1..(Len(announced) + 1), NEW j \in 1..(Len(announced) + 1), i < j
                 PROVE  announced'[i] < announced'[j]
      BY <2>4 DEF AnnouncedGrow
    <3>1. i \in 1..Len(announced) /\ announced'[i] = announced[i]
      BY <1>1, <2>4
    <3>2. CASE j \in 1..Len(announced)
      BY <1>1, <2>4, <3>1, <3>2 DEF AnnouncedInv, AnnouncedGrow
    <3>3. CASE j = Len(announced) + 1
      <4>1. announced[i] < n
        BY <1>1, <2>1, <3>1
      <4>2. announced'[j] = n
        BY <2>4, <3>3
      <4> QED
        BY <3>1, <4>1, <4>2
    <3>4. j \in 1..Len(announced) \/ j = Len(announced) + 1
      <4>1. \A k \in Nat : \A x \in 1..(k + 1) : x \in 1..k \/ x = k + 1
        OBVIOUS
      <4> QED
        BY <1>1, <4>1, Zenon
    <3> QED
      BY <3>2, <3>3, <3>4, Zenon
  <2>7. AnnouncingNewest'
    BY <2>3 DEF AnnouncingNewest, At
  <2> QED
    BY <2>5, <2>6, <2>7 DEF AnnouncedInv
<1>11. ASSUME NEW t \in Tasks, BoardFails(t)
       PROVE  AnnouncedInv'
  <2>1. \A u \in Tasks : task'[u].pc # "announce"
    <3>1. /\ task[t].pc \in {"read", "sync"} /\ task'[t].pc = "done"
          /\ \A u \in Tasks : u # t => task'[u] = task[u]
      BY <1>11, BoardFailsTask
    <3>2. \A u \in Tasks : u # t => task[u].pc # "announce"
      BY <3>1, OneWorker DEF WorkPcs
    <3> QED
      BY <3>1, <3>2
  <2>2. announced' = announced /\ Len(versions) \in Nat
        /\ (versions' = versions \/ Len(versions') = Len(versions) + 1)
    BY <1>1, <1>11, BoardFailsTask, VersionAppends
  <2>3. AnnouncedExist' /\ AnnouncedGrow'
    BY <1>1, <2>2 DEF AnnouncedInv, AnnouncedExist, AnnouncedGrow
  <2> QED
    BY <2>1, <2>3 DEF AnnouncedInv, AnnouncingNewest, At
<1> QED
  BY <1>2, <1>5, <1>6, <1>7, <1>8, <1>9, <1>10, <1>11 DEF Next, Push, Quiet, Step, vars

-----------------------------------------------------------------------------
(* The commits.                                                            *)

(* Every commit that the clone, a git process or a task knows was pushed.  *)
LEMMA NextPushes ==
    ASSUME TypeOK, PushesMade, [Next]_vars
    PROVE  PushesMade'
<1> USE DEF TypeOK, PushesMade, TaskRecord
<1>1. CASE UNCHANGED vars
  BY <1>1 DEF vars, clone
<1>2. CASE Push
  BY <1>2 DEF Push, clone
<1>3. ASSUME NEW t \in Tasks, Accept(t)
      PROVE  PushesMade'
  <2>1. PICK push \in 1..origin : task' = [task EXCEPT ![t] = [task[t] EXCEPT !.pc = "spawned", !.push = push]]
    BY <1>3 DEF Accept
  <2>2. \A u \in Tasks : task'[u].push <= origin
    BY <2>1
  <2> QED
    BY <1>3, <2>2 DEF Accept, clone
<1>4. ASSUME NEW t \in Tasks, Lock(t) \/ StartFetch(t) \/ StartReset(t)
      PROVE  PushesMade'
  <2>1. CASE Lock(t)
    BY <2>1 DEF Lock, Goto, clone
  <2>2. CASE StartFetch(t)
    BY <2>2 DEF StartFetch, Goto, clone
  <2>3. CASE StartReset(t)
    BY <2>3 DEF StartReset, Goto, clone
  <2> QED
    BY <1>4, <2>1, <2>2, <2>3
<1>5. ASSUME NEW t \in Tasks, FetchEnds(t) \/ ResetEnds(t) \/ GitFails(t)
      PROVE  PushesMade'
  <2>1. /\ UNCHANGED origin
        /\ tracking' = tracking \/ tracking' = git[t].commit
        /\ git' = [git EXCEPT ![t] = NoGit]
        /\ UNCHANGED task \/ \E pc : Goto(t, pc)
    BY <1>5 DEF FetchEnds, ResetEnds, GitFails, GitExits, Fail, clone
  <2>2. \A u \in Tasks : git'[u].commit <= origin
    BY <2>1 DEF NoGit
  <2>3. \A u \in Tasks : task'[u].push = task[u].push
    <3>1. \A pc : [task[t] EXCEPT !.pc = pc].push = task[t].push
      BY DEF TaskRecord
    <3> QED
      BY <2>1, <3>1 DEF Goto
  <2> QED
    BY <2>1, <2>2, <2>3
<1>6. ASSUME NEW t \in Tasks, GitTimesOut(t) \/ SyncFails(t) \/ Announce(t)
      PROVE  PushesMade'
  BY <1>6 DEF GitTimesOut, SyncFails, Announce, Fail, Goto, clone
<1>7. ASSUME NEW t \in Tasks, ParseDirectory(t) \/ SyncBoards(t)
      PROVE  PushesMade'
  BY <1>7 DEF ParseDirectory, SyncBoards, Goto, clone
<1>8. ASSUME NEW t \in Tasks, BoardFails(t)
      PROVE  PushesMade'
  BY <1>8 DEF BoardFails, clone
<1> QED
  BY <1>1, <1>2, <1>3, <1>4, <1>5, <1>6, <1>7, <1>8 DEF Next, Quiet, Step

(* A step of one task that leaves the clone and the versions alone.        *)
LEMMA InTimeMove ==
    ASSUME TypeOK, InTime, NEW t \in Tasks, UNCHANGED <<clone, versions>>,
           \A u \in Tasks : u # t => task'[u] = task[u] /\ git'[u] = git[u],
           git'[t].cmd # "none" => task'[t].pc = git'[t].cmd,
           Carried(t)'
    PROVE  InTime'
<1>1. GitIsAwaited'
  BY DEF InTime, GitIsAwaited, Awaited
<1>2. ASSUME NEW u \in Tasks
      PROVE  Carried(u)'
  BY DEF InTime, Carried, At, Covers, clone
<1>3. (tree <= tracking)' /\ CommitsGrow' /\ VersionsChecked'
  BY DEF InTime, CommitsGrow, VersionsChecked, clone
<1> QED
  BY <1>1, <1>2, <1>3 DEF InTime

(* While a task is at work the others have nothing under way.              *)
LEMMA OthersRest ==
    ASSUME HolderFirst, NEW t \in Tasks, task[t].pc \in WorkPcs
    PROVE  \A u \in Tasks : u # t => task[u].pc \notin WorkPcs
BY OneWorker

(* A step of the only task at work, which may change the clone and add to  *)
(* the versions.                                                           *)
LEMMA InTimeWork ==
    ASSUME TypeOK, HolderFirst, InTime, NEW t \in Tasks, task[t].pc \in WorkPcs,
           \A u \in Tasks : u # t => task'[u] = task[u] /\ git'[u] = git[u],
           git'[t].cmd # "none" => task'[t].pc = git'[t].cmd,
           Carried(t)', CommitsGrow', VersionsChecked', (tree <= tracking)',
           \A c \in Nat : Covers(c) => Covers(c)'
    PROVE  InTime'
<1>1. GitIsAwaited'
  BY DEF InTime, GitIsAwaited, Awaited
<1>2. ASSUME NEW u \in Tasks
      PROVE  Carried(u)'
  <2>1. CASE u = t
    BY <2>1
  <2>2. CASE u # t
    <3>1. task[u].pc \notin WorkPcs /\ task'[u] = task[u] /\ task[u].push \in Nat
      BY <2>2, OthersRest DEF TypeOK, TaskRecord
    <3>2. task[u].pc = "done" /\ task[u].missed = FALSE => Covers(task[u].push)'
      BY <3>1 DEF InTime, Carried, At
    <3> QED
      BY <3>1, <3>2 DEF Carried, At, WorkPcs
  <2> QED
    BY <2>1, <2>2
<1> QED
  BY <1>1, <1>2 DEF InTime

(* A version of newer files.                                               *)
LEMMA InTimeAppend ==
    ASSUME TypeOK, InTime, NEW t \in Tasks, At(t, "sync"), Changed(t),
           versions' = Append(versions, VersionOf(t)),
           tree' = tree, tracking' = tracking, task'[t].push = task[t].push
    PROVE  /\ CommitsGrow' /\ VersionsChecked' /\ (tree <= tracking)'
           /\ Covers(task[t].push)'
           /\ \A c \in Nat : Covers(c) => Covers(c)'
<1> DEFINE n == Len(versions)
<1>1. /\ versions \in Seq([commit : Nat, note : Nat])
      /\ n \in Nat /\ DOMAIN versions = 1..n
      /\ \A i \in 1..n : versions[i].commit \in Nat
      /\ tree \in Nat
      /\ versions # << >> <=> n >= 1
  BY VersionAt DEF TypeOK
<1>2. task[t].files = tree /\ tree >= task[t].push
  BY DEF InTime, Carried
<1>3. /\ Len(versions') = n + 1 /\ DOMAIN versions' = 1..(n + 1)
      /\ versions' # << >>
      /\ \A i \in 1..n : versions'[i] = versions[i]
      /\ versions'[n + 1].commit = tree
  BY <1>2, VersionAppends
<1>4. \A i \in 1..n : versions[i].commit <= tree
  BY <1>1 DEF InTime, VersionsChecked
<1>5. n >= 1 => versions[n].commit # tree
  BY <1>1, <1>2 DEF Changed, Last
<1>6. \A i, j \in 1..n : i < j => versions[i].commit < versions[j].commit
  BY <1>1 DEF InTime, CommitsGrow
<1> HIDE DEF n
<1>7. \A i \in 1..n : versions[i].commit < tree
  <2> SUFFICES ASSUME NEW i \in 1..n
               PROVE  versions[i].commit < tree
    OBVIOUS
  <2>1. n \in 1..n /\ n >= 1 /\ (i = n \/ i < n)
    BY <1>1
  <2>2. i = n \/ versions[i].commit < versions[n].commit
    BY <1>6, <2>1
  <2> QED
    BY <1>1, <1>4, <1>5, <2>1, <2>2
<1>8. \A i \in 1..(n + 1) : i \in 1..n \/ i = n + 1
  BY <1>1
<1>9. CommitsGrow'
  <2> SUFFICES ASSUME NEW i \in 1..(n + 1), NEW j \in 1..(n + 1), i < j
               PROVE  versions'[i].commit < versions'[j].commit
    BY <1>3 DEF CommitsGrow
  <2>1. i \in 1..n /\ versions'[i] = versions[i]
    BY <1>1, <1>3
  <2>2. CASE j \in 1..n
    BY <1>3, <1>6, <2>1, <2>2
  <2>3. CASE j = n + 1
    BY <1>3, <1>7, <2>1, <2>3
  <2> QED
    BY <1>8, <2>2, <2>3
<1>10. VersionsChecked'
  <2>1. tree <= tree
    BY <1>1
  <2> QED
    BY <1>3, <1>4, <1>8, <2>1 DEF VersionsChecked
<1>11. Covers(task[t].push)'
  BY <1>2, <1>3 DEF Covers
<1>12. ASSUME NEW c \in Nat, Covers(c)
       PROVE  Covers(c)'
  <2>1. n \in 1..n /\ versions[n].commit >= c
    BY <1>1, <1>12 DEF Covers, n
  <2>2. tree >= c
    BY <1>1, <1>7, <2>1
  <2> QED
    BY <1>3, <2>2 DEF Covers
<1>13. (tree <= tracking)'
  BY DEF InTime
<1> QED
  BY <1>9, <1>10, <1>11, <1>12, <1>13

(* As long as git answers in time, what a task has fetched, checked out,   *)
(* read and synced covers its push, and the commits grow.                  *)
LEMMA NextInTime ==
    ASSUME TypeOK, HolderFirst, PushesMade, InTime, [Next]_vars, ~hung'
    PROVE  InTime'
<1>1. /\ origin \in Nat /\ tracking \in Nat /\ tree \in Nat
      /\ task \in [Tasks -> TaskRecord]
      /\ git \in [Tasks -> [cmd : {"none", "fetch", "reset"}, commit : Nat]]
      /\ \A u \in Tasks : task[u].push \in Nat /\ task[u].push <= origin /\ git[u].commit \in Nat
  BY DEF TypeOK, PushesMade, TaskRecord
<1>2. CASE UNCHANGED <<clone, git, task, versions>>
  BY <1>2 DEF InTime, GitIsAwaited, Awaited, Carried, At, Covers, CommitsGrow, VersionsChecked, clone
<1>3. ASSUME NEW t \in Tasks, Accept(t)
      PROVE  InTime'
  <2>1. PICK push \in 1..origin : task' = [task EXCEPT ![t] = [task[t] EXCEPT !.pc = "spawned", !.push = push]]
    BY <1>3 DEF Accept
  <2>2. /\ \A u \in Tasks : u # t => task'[u] = task[u]
        /\ task'[t].pc = "spawned"
    BY <1>1, <2>1 DEF TaskRecord
  <2>3. task[t].pc = "none" /\ git'[t].cmd = "none"
    BY <1>1, <1>3 DEF Accept, At, InTime, GitIsAwaited, Awaited
  <2>4. Carried(t)'
    BY <2>2 DEF Carried, At
  <2> QED
    BY <1>3, <2>2, <2>3, <2>4, InTimeMove DEF Accept
<1>4. ASSUME NEW t \in Tasks, Lock(t)
      PROVE  InTime'
  <2>1. /\ \A u \in Tasks : u # t => task'[u] = task[u]
        /\ task'[t].pc = "locking"
    BY <1>1, <1>4 DEF Lock, Goto, TaskRecord
  <2>2. git'[t].cmd = "none"
    BY <1>1, <1>4 DEF Lock, At, InTime, GitIsAwaited, Awaited
  <2>3. Carried(t)'
    BY <2>1 DEF Carried, At
  <2> QED
    BY <1>4, <2>1, <2>2, <2>3, InTimeMove DEF Lock
<1>5. ASSUME NEW t \in Tasks, StartFetch(t)
      PROVE  InTime'
  <2>1. /\ \A u \in Tasks : u # t => task'[u] = task[u] /\ git'[u] = git[u]
        /\ task'[t].pc = "fetch" /\ task'[t].push = task[t].push
        /\ git'[t].cmd = "fetch" /\ git'[t].commit = origin
    BY <1>1, <1>5 DEF StartFetch, Goto, TaskRecord
  <2>2. Carried(t)'
    BY <1>1, <2>1 DEF Carried, At
  <2> QED
    BY <1>5, <2>1, <2>2, InTimeMove DEF StartFetch
<1>6. ASSUME NEW t \in Tasks, StartReset(t)
      PROVE  InTime'
  <2>1. /\ \A u \in Tasks : u # t => task'[u] = task[u] /\ git'[u] = git[u]
        /\ task'[t].pc = "reset" /\ task'[t].push = task[t].push
        /\ git'[t].cmd = "reset" /\ git'[t].commit = tracking
        /\ tracking' = tracking
    BY <1>1, <1>6 DEF StartReset, Goto, TaskRecord, clone
  <2>2. tracking >= task[t].push
    BY <1>6 DEF InTime, Carried, StartReset
  <2>3. Carried(t)'
    BY <1>1, <2>1, <2>2 DEF Carried, At
  <2> QED
    BY <1>6, <2>1, <2>3, InTimeMove DEF StartReset
<1>7. ASSUME NEW t \in Tasks, FetchEnds(t)
      PROVE  InTime'
  <2>1. Awaited(t) /\ task[t].pc = "fetch"
    BY <1>7 DEF FetchEnds, InTime, GitIsAwaited, Awaited
  <2>2. /\ \A u \in Tasks : u # t => task'[u] = task[u] /\ git'[u] = git[u]
        /\ task'[t].pc = "fetched" /\ task'[t].push = task[t].push
        /\ git'[t].cmd = "none"
    BY <1>1, <1>7, <2>1 DEF FetchEnds, GitExits, NoGit, Goto, TaskRecord
  <2>3. tracking' = git[t].commit /\ git[t].commit >= tracking /\ UNCHANGED <<tree, versions>>
    BY <1>7 DEF FetchEnds
  <2>4. git[t].commit >= task[t].push
    BY <2>1 DEF InTime, Carried, At
  <2>5. Carried(t)'
    BY <2>2, <2>3, <2>4 DEF Carried, At
  <2>6. CommitsGrow' /\ VersionsChecked' /\ \A c \in Nat : Covers(c) => Covers(c)'
    BY <2>3 DEF InTime, CommitsGrow, VersionsChecked, Covers
  <2>7. (tree <= tracking)'
    BY <1>1, <2>3 DEF InTime
  <2> QED
    BY <2>1, <2>2, <2>5, <2>6, <2>7, InTimeWork DEF WorkPcs
<1>8. ASSUME NEW t \in Tasks, ResetEnds(t)
      PROVE  InTime'
  <2>1. Awaited(t) /\ task[t].pc = "reset"
    BY <1>8 DEF ResetEnds, InTime, GitIsAwaited, Awaited
  <2>2. /\ \A u \in Tasks : u # t => task'[u] = task[u] /\ git'[u] = git[u]
        /\ task'[t].pc = "read" /\ task'[t].push = task[t].push
        /\ git'[t].cmd = "none"
    BY <1>1, <1>8, <2>1 DEF ResetEnds, GitExits, NoGit, Goto, TaskRecord
  <2>3. git[t].commit = tracking /\ tracking >= task[t].push
    BY <2>1 DEF InTime, Carried, At
  <2>4. tree' = tracking /\ UNCHANGED <<tracking, versions>>
    BY <1>8, <2>3 DEF ResetEnds
  <2>5. Carried(t)'
    BY <2>2, <2>3, <2>4 DEF Carried, At
  <2>6. CommitsGrow' /\ \A c \in Nat : Covers(c) => Covers(c)'
    BY <2>4 DEF InTime, CommitsGrow, Covers
  <2>7. VersionsChecked'
    <3>1. \A i \in DOMAIN versions : versions[i].commit \in Nat
      BY VersionAt
    <3> QED
      BY <1>1, <2>4, <3>1 DEF InTime, VersionsChecked
  <2>8. (tree <= tracking)'
    BY <1>1, <2>4
  <2> QED
    BY <2>1, <2>2, <2>5, <2>6, <2>7, <2>8, InTimeWork DEF WorkPcs
<1>9. ASSUME NEW t \in Tasks, GitFails(t) \/ SyncFails(t)
      PROVE  InTime'
  <2>1. /\ \A u \in Tasks : u # t => task'[u] = task[u] /\ git'[u] = git[u]
        /\ task'[t].pc = "failed" /\ git'[t].cmd = "none"
        /\ UNCHANGED <<clone, versions>>
    <3>1. CASE GitFails(t)
      <4>1. Awaited(t)
        BY <3>1 DEF GitFails, InTime, GitIsAwaited
      <4> QED
        BY <1>1, <3>1, <4>1 DEF GitFails, GitExits, NoGit, Fail, Goto, TaskRecord
    <3>2. CASE SyncFails(t)
      <4>1. git[t].cmd = "none"
        BY <1>1, <3>2 DEF SyncFails, At, InTime, GitIsAwaited, Awaited
      <4> QED
        BY <1>1, <3>2, <4>1 DEF SyncFails, Fail, Goto, TaskRecord
    <3> QED
      BY <1>9, <3>1, <3>2
  <2>2. Carried(t)'
    BY <2>1 DEF Carried, At
  <2> QED
    BY <2>1, <2>2, InTimeMove
<1>10. ASSUME NEW t \in Tasks, ParseDirectory(t)
       PROVE  InTime'
  <2> DEFINE q == [task[t] EXCEPT !.pc = "sync", !.files = tree]
  <2>1. q.pc = "sync" /\ q.files = tree /\ q.push = task[t].push
    BY <1>1 DEF TaskRecord
  <2>2. task' = [task EXCEPT ![t] = q] /\ UNCHANGED <<clone, versions, git>>
    BY <1>10 DEF ParseDirectory
  <2> HIDE DEF q
  <2>3. task'[t] = q /\ \A u \in Tasks : u # t => task'[u] = task[u]
    BY <1>1, <2>2
  <2>4. git[t].cmd = "none"
    BY <1>1, <1>10 DEF ParseDirectory, At, InTime, GitIsAwaited, Awaited
  <2>5. tree = tracking /\ tree >= task[t].push
    BY <1>10 DEF ParseDirectory, InTime, Carried
  <2>6. Carried(t)'
    BY <2>1, <2>2, <2>3, <2>5 DEF Carried, At, clone
  <2> QED
    BY <2>2, <2>3, <2>4, <2>6, InTimeMove
<1>11. ASSUME NEW t \in Tasks, SyncBoards(t)
       PROVE  InTime'
  <2>1. task[t].pc = "sync" /\ UNCHANGED <<clone, git>> /\ tree' = tree /\ tracking' = tracking
    BY <1>11 DEF SyncBoards, At, clone
  <2>2. task[t].files = tree /\ tree >= task[t].push
    BY <2>1 DEF InTime, Carried, At
  <2>3. git[t].cmd = "none"
    BY <1>1, <2>1 DEF InTime, GitIsAwaited, Awaited
  <2>4. /\ versions \in Seq([commit : Nat, note : Nat])
        /\ Len(versions) \in Nat /\ DOMAIN versions = 1..Len(versions)
        /\ \A i \in 1..Len(versions) : versions[i].commit \in Nat
    BY VersionAt DEF TypeOK
  <2>5. CASE ~Changed(t)
    <3>1. /\ \A u \in Tasks : u # t => task'[u] = task[u]
          /\ task'[t].pc = "done" /\ task'[t].push = task[t].push
          /\ UNCHANGED versions
      BY <1>1, <1>11, <2>5 DEF SyncBoards, Goto, TaskRecord
    <3>2. Covers(task[t].push)
      BY <2>2, <2>5 DEF Changed, Last, Covers
    <3>3. Carried(t)'
      BY <3>1, <3>2 DEF Carried, At, Covers
    <3> QED
      BY <2>1, <2>3, <3>1, <3>3, InTimeMove
  <2>6. CASE Changed(t)
    <3>1. /\ task'[t].pc = "announce" /\ task'[t].push = task[t].push
          /\ \A u \in Tasks : u # t => task'[u] = task[u]
          /\ versions' = Append(versions, VersionOf(t))
      BY <1>11, <2>6, SyncAppends
    <3>2. /\ CommitsGrow' /\ VersionsChecked' /\ (tree <= tracking)'
          /\ Covers(task[t].push)' /\ \A c \in Nat : Covers(c) => Covers(c)'
      BY <2>1, <2>6, <3>1, InTimeAppend DEF At
    <3>3. Carried(t)'
      BY <3>1, <3>2 DEF Carried, At
    <3> QED
      BY <2>1, <2>3, <3>1, <3>2, <3>3, InTimeWork DEF WorkPcs
  <2> QED
    BY <2>5, <2>6
<1>12. ASSUME NEW t \in Tasks, Announce(t)
       PROVE  InTime'
  <2>1. /\ \A u \in Tasks : u # t => task'[u] = task[u]
        /\ task'[t].pc = "done" /\ task'[t].push = task[t].push
        /\ UNCHANGED <<versions, git, clone>>
    BY <1>1, <1>12 DEF Announce, Goto, TaskRecord
  <2>2. git[t].cmd = "none"
    BY <1>1, <1>12 DEF Announce, At, InTime, GitIsAwaited, Awaited
  <2>3. Covers(task[t].push)
    BY <1>12 DEF Announce, At, InTime, Carried
  <2>4. Carried(t)'
    BY <2>1, <2>3 DEF Carried, At, Covers
  <2> QED
    BY <2>1, <2>2, <2>4, InTimeMove
<1>13. \A t \in Tasks : ~GitTimesOut(t)
  BY DEF GitTimesOut
<1>14. ASSUME NEW t \in Tasks, BoardFails(t)
       PROVE  InTime'
  <2>1. /\ \A u \in Tasks : u # t => task'[u] = task[u] /\ git'[u] = git[u]
        /\ task'[t].pc = "done" /\ task'[t].push = task[t].push /\ task'[t].missed = TRUE
        /\ tree' = tree /\ tracking' = tracking /\ UNCHANGED git
        /\ task[t].pc \in {"read", "sync"}
    BY <1>14, BoardFailsTask
  <2>2. git'[t].cmd = "none"
    BY <1>1, <2>1 DEF InTime, GitIsAwaited, Awaited
  <2>3. Carried(t)'
    BY <2>1 DEF Carried, At
  <2>4. CASE UNCHANGED versions
    BY <2>1, <2>2, <2>3, <2>4, InTimeMove DEF clone
  <2>5. CASE At(t, "sync") /\ Changed(t) /\ versions' = Append(versions, VersionOf(t))
    <3>1. /\ CommitsGrow' /\ VersionsChecked' /\ (tree <= tracking)'
          /\ \A c \in Nat : Covers(c) => Covers(c)'
      BY <2>1, <2>5, InTimeAppend
    <3> QED
      BY <2>1, <2>2, <2>3, <3>1, InTimeWork DEF WorkPcs
  <2> QED
    BY <1>14, <2>4, <2>5, BoardFailsTask
<1> QED
  BY <1>2, <1>3, <1>4, <1>5, <1>6, <1>7, <1>8, <1>9, <1>10, <1>11, <1>12, <1>13, <1>14
     DEF Next, Push, Quiet, Step, vars

-----------------------------------------------------------------------------
(* The inductive invariant, and what follows from it.                      *)

LEMMA InitInv == Init => IInv
<1> SUFFICES ASSUME Init PROVE IInv
  OBVIOUS
<1>1. \A t \in Tasks : /\ git[t].cmd = "none" /\ git[t].commit = 0
                       /\ task[t].pc = "none" /\ task[t].push = 0
  BY DEF Init, NoGit
<1>2. TypeOK
  <2>1. git \in [Tasks -> [cmd : {"none", "fetch", "reset"}, commit : Nat]]
    BY DEF Init, NoGit
  <2>2. task \in [Tasks -> TaskRecord]
    BY DEF Init, TaskRecord, Pcs
  <2>3. mutex \in Seq(Tasks) /\ announced \in Seq(Nat) /\ versions \in Seq([commit : Nat, note : Nat])
    BY EmptySeq DEF Init
  <2> QED
    BY <2>1, <2>2, <2>3 DEF Init, TypeOK
<1>3. HolderFirst
  BY <1>1 DEF HolderFirst, WorkPcs
<1>4. DOMAIN announced = {} /\ DOMAIN versions = {}
  BY DEF Init
<1>5. AnnouncedInv
  BY <1>1, <1>4 DEF AnnouncedInv, AnnouncedExist, AnnouncingNewest, AnnouncedGrow, At
<1>6. PushesMade
  BY <1>1 DEF Init, PushesMade
<1>7. \A t \in Tasks : Carried(t)
  BY <1>1 DEF Carried, At
<1>8. InTime
  BY <1>1, <1>4, <1>7 DEF Init, InTime, GitIsAwaited, CommitsGrow, VersionsChecked
<1> QED
  BY <1>2, <1>3, <1>5, <1>6, <1>8 DEF IInv, AnnouncedInv

LEMMA NextInv == IInv /\ [Next]_vars => IInv'
<1> SUFFICES ASSUME IInv, [Next]_vars PROVE IInv'
  OBVIOUS
<1>1. TypeOK /\ HolderFirst /\ AnnouncedInv /\ PushesMade /\ (~hung => InTime)
  BY DEF IInv, AnnouncedInv
<1>2. TypeOK' /\ HolderFirst' /\ AnnouncedInv' /\ PushesMade'
  BY <1>1, NextType, NextHolder, NextAnnounced, NextPushes
<1>3. hung => hung'
  BY <1>1 DEF TypeOK, Next, Push, Quiet, Accept, Step, Lock, StartFetch, StartReset, FetchEnds, ResetEnds,
     GitFails, GitTimesOut, ParseDirectory, SyncBoards, SyncFails, BoardFails, Announce, vars
<1>4. ~hung' => InTime'
  BY <1>1, <1>3, NextInTime
<1> QED
  BY <1>2, <1>4 DEF IInv, AnnouncedInv

(* The invariant holds in every reachable state.                           *)
THEOREM Invariance == Spec => []IInv
BY InitInv, NextInv, PTL DEF Spec

(* The queue, the git processes, the tasks and the versions keep their     *)
(* types.                                                                  *)
THEOREM TypeCorrect == Spec => []TypeOK
<1>1. IInv => TypeOK
  BY DEF IInv
<1> QED
  BY <1>1, Invariance, PTL

(* Between fetch and announcement a task is alone: run_sync works under    *)
(* sync_mutex.                                                             *)
THEOREM TasksExclude ==
    Spec => [](\A t, u \in Tasks : task[t].pc \in WorkPcs /\ task[u].pc \in WorkPcs => t = u)
<1>1. IInv => \A t, u \in Tasks : task[t].pc \in WorkPcs /\ task[u].pc \in WorkPcs => t = u
  BY OneWorker DEF IInv
<1> QED
  BY <1>1, Invariance, PTL

(* However the pushes are delivered, the database never goes back to older *)
(* files while git answers in time.                                        *)
THEOREM Advances == Spec => []DatabaseAdvances
<1>1. IInv => DatabaseAdvances
  BY DEF IInv, InTime, CommitsGrow, DatabaseAdvances
<1> QED
  BY <1>1, Invariance, PTL

(* Events name versions that exist, in the order of their numbers, even    *)
(* when git commands time out.                                             *)
THEOREM AnnouncesInOrder == Spec => []AnnouncedInOrder
<1>1. IInv => AnnouncedInOrder
  <2> SUFFICES ASSUME IInv
               PROVE  AnnouncedInOrder
    OBVIOUS
  <2>1. DOMAIN versions = 1..Len(versions)
    BY VersionAt DEF IInv
  <2>2. DOMAIN announced = 1..Len(announced) /\ Len(announced) \in Nat
    BY DEF IInv, TypeOK
  <2>3. \A j \in DOMAIN announced : \A i \in 1..(j - 1) : i \in DOMAIN announced /\ i < j
    BY <2>2
  <2> QED
    BY <2>1, <2>3 DEF IInv, AnnouncedExist, AnnouncedGrow, AnnouncedInOrder
<1> QED
  BY <1>1, Invariance, PTL

(* While git answers in time, a task whose sync did not skip the board or  *)
(* fail on it has brought the database to its push or to a later one.      *)
(* One that reports completion after such a warning is not covered: the    *)
(* code says nothing of its push.                                          *)
THEOREM DoneMeansSynced == Spec => []PushIsSynced
<1>1. IInv => PushIsSynced
  <2>1. TypeOK => \A t \in Tasks : ~task[t].missed <=> task[t].missed = FALSE
    BY DEF TypeOK, TaskRecord
  <2> QED
    BY <2>1 DEF IInv, InTime, Carried, Covers, PushIsSynced, At, Last
<1> QED
  BY <1>1, Invariance, PTL
-----------------------------------------------------------------------------
(* The exit of the server (Shutdown), for any number of connections and    *)
(* jobs.                                                                   *)

JobPcs == {"none", "sync", "announced", "synced", "sending", "sleeping",
        "delivered", "refused", "exhausted"}

JobRow == [kind : {"none", "delivery", "sync"}, pc : JobPcs, attempt : 0..Attempts]

(* A delivery that backs off has an attempt left.                          *)
SleepersHaveTries == \A j \in Jobs : job[j].pc = "sleeping" => job[j].attempt < Attempts

TrackedRun == tracked = {j \in Jobs : Running(j)}

StoppedIsDrained == phase = "stopped" /\ ~timedOut => tracked = {}

ServeInv == ServeTypeOK /\ SleepersHaveTries /\ TrackedRun /\ StoppedIsDrained

-----------------------------------------------------------------------------
LEMMA JobRows ==
    /\ Idle \in JobRow /\ Delivery \in JobRow /\ SyncTask \in JobRow
    /\ Idle.pc = "none" /\ Delivery.pc = "sending" /\ SyncTask.pc = "sync"
  BY DEF Idle, Delivery, SyncTask, JobRow, JobPcs, Attempts

LEMMA JobType == ServeTypeOK => job \in [Jobs -> JobRow]
  BY DEF ServeTypeOK, JobRow, JobPcs

LEMMA ServeInitial == ServeInit => ServeInv
<1> SUFFICES ASSUME ServeInit PROVE ServeInv
  OBVIOUS
<1>1. job \in [Jobs -> JobRow] /\ \A j \in Jobs : job[j].pc = "none"
  BY JobRows DEF ServeInit
<1>2. ServeTypeOK
  BY <1>1 DEF ServeInit, ServeTypeOK, JobRow, JobPcs, Configs
<1>3. QED
  BY <1>1, <1>2 DEF ServeInit, ServeInv, SleepersHaveTries, TrackedRun, Running, StoppedIsDrained

(* A step of serve, of a connection or of the refresh loop: the jobs and   *)
(* the tracker stay, and serve stops only when it may.                     *)
LEMMA JobsStay ==
    ASSUME ServeInv, job' = job, tracked' = tracked, ServeTypeOK', StoppedIsDrained'
    PROVE  ServeInv'
  BY DEF ServeInv, SleepersHaveTries, TrackedRun, Running

(* A step of one job: it goes to a row of its type, and is tracked exactly *)
(* if it runs.                                                             *)
LEMMA JobStep ==
    ASSUME ServeInv, NEW j \in Jobs, NEW row \in JobRow,
           job' = [job EXCEPT ![j] = row],
           row.pc = "sleeping" => row.attempt < Attempts,
           tracked' = IF row.pc \in {"sync", "announced", "sending", "sleeping"}
                      THEN tracked \cup {j} ELSE tracked \ {j},
           config' = config, phase' = phase, phase # "stopped",
           conn' \in [Clients -> {"none", "open", "closed"}],
           jwks' = jwks, timedOut' = timedOut
    PROVE  ServeInv'
<1>1. job \in [Jobs -> JobRow]
  BY JobType DEF ServeInv
<1>2. job' \in [Jobs -> JobRow] /\ job'[j] = row /\ \A k \in Jobs \ {j} : job'[k] = job[k]
  BY <1>1
<1>3. ServeTypeOK'
  <2>1. tracked' \in SUBSET Jobs
    BY DEF ServeInv, ServeTypeOK
  <2>2. QED
    BY <1>2, <2>1 DEF ServeInv, ServeTypeOK, JobRow, JobPcs
<1>4. SleepersHaveTries'
  BY <1>2 DEF ServeInv, SleepersHaveTries
<1>5. TrackedRun'
  BY <1>2 DEF ServeInv, TrackedRun, Running
<1>6. StoppedIsDrained'
  BY DEF StoppedIsDrained
<1>7. QED
  BY <1>3, <1>4, <1>5, <1>6 DEF ServeInv

-----------------------------------------------------------------------------
LEMMA JobKeeps ==
    ASSUME ServeInv, NEW j \in Jobs, Job(j)
    PROVE  ServeInv'
<1>1. /\ job \in [Jobs -> JobRow] /\ job[j] \in JobRow
      /\ conn \in [Clients -> {"none", "open", "closed"}]
  BY JobType DEF ServeInv, ServeTypeOK
<1>2. ASSUME NEW how \in JobPcs, Ends(j, how), phase # "stopped",
             how \notin {"sync", "announced", "sending", "sleeping"}
      PROVE  ServeInv'
  <2> DEFINE row == [job[j] EXCEPT !.pc = how]
  <2>1. row \in JobRow /\ row.pc = how
    BY <1>1, <1>2 DEF JobRow
  <2>2. job' = [job EXCEPT ![j] = row]
    BY <1>1, <1>2 DEF Ends
  <2> HIDE DEF row
  <2>3. QED
    BY <1>1, <1>2, <2>1, <2>2, JobStep DEF Ends
<1>3. CASE Answered(j)
  BY <1>2, <1>3 DEF Answered, Alive, JobPcs
<1>4. CASE Exhausted(j)
  BY <1>2, <1>4 DEF Exhausted, Alive, JobPcs
<1>5. CASE SyncEnds(j)
  BY <1>2, <1>5 DEF SyncEnds, Alive, JobPcs
<1>6. CASE Backoff(j)
  <2> DEFINE row == [job[j] EXCEPT !.pc = "sleeping"]
  <2>1. row \in JobRow /\ row.pc = "sleeping" /\ row.attempt < Attempts
    BY <1>1, <1>6 DEF JobRow, JobPcs, Backoff
  <2>2. job' = [job EXCEPT ![j] = row]
    BY <1>1, <1>6 DEF Backoff
  <2>3. tracked' = tracked \cup {j}
    BY <1>6 DEF Backoff, ServeInv, TrackedRun, Running
  <2> HIDE DEF row
  <2>4. QED
    BY <1>1, <1>6, <2>1, <2>2, <2>3, JobStep DEF Backoff, Alive
<1>7. CASE Retry(j)
  <2> DEFINE row == [job[j] EXCEPT !.pc = "sending", !.attempt = @ + 1]
  <2>1. job[j].attempt \in 0..Attempts /\ job[j].attempt < Attempts
    BY <1>1, <1>7 DEF Retry, ServeInv, SleepersHaveTries, JobRow
  <2>2. job[j].attempt + 1 \in 0..Attempts
    BY <2>1 DEF Attempts
  <2>3. row \in JobRow /\ row.pc = "sending"
    BY <1>1, <2>2 DEF JobRow, JobPcs
  <2>4. job' = [job EXCEPT ![j] = row]
    BY <1>1, <1>7 DEF Retry, JobRow
  <2>5. tracked' = tracked \cup {j}
    BY <1>7 DEF Retry, ServeInv, TrackedRun, Running
  <2> HIDE DEF row
  <2>6. QED
    BY <1>1, <1>7, <2>3, <2>4, <2>5, JobStep DEF Retry, Alive
<1>8. QED
  BY <1>3, <1>4, <1>5, <1>6, <1>7 DEF Job

(* A sync goes on and the delivery it fires is tracked in the same step.   *)
LEMMA SyncFiresKeeps ==
    ASSUME ServeInv, NEW j \in Jobs, NEW d \in Jobs, SyncFires(j, d)
    PROVE  ServeInv'
<1>1. job \in [Jobs -> JobRow]
  BY JobType DEF ServeInv
<1>2. j # d
  BY JobRows DEF SyncFires
<1>3. /\ job'[d] = Delivery /\ job'[j] = [job[j] EXCEPT !.pc = "announced"]
      /\ \A k \in Jobs \ {j, d} : job'[k] = job[k]
      /\ job' \in [Jobs -> JobRow]
  <2>1. [job[j] EXCEPT !.pc = "announced"] \in JobRow
    BY <1>1 DEF JobRow, JobPcs
  <2>2. job' = [[job EXCEPT ![j].pc = "announced"] EXCEPT ![d] = Delivery]
    BY DEF SyncFires
  <2>3. QED
    BY <1>1, <1>2, <2>1, <2>2, JobRows
<1>4. job'[j].pc = "announced" /\ job[j].pc = "sync"
  BY <1>1, <1>3 DEF JobRow, SyncFires
<1>5. tracked' = tracked \cup {d}
  BY DEF SyncFires, Tracking
<1>6. ServeTypeOK'
  BY <1>3, <1>5 DEF SyncFires, ServeInv, ServeTypeOK, JobRow, JobPcs
<1>7. SleepersHaveTries'
  BY <1>3, <1>4, JobRows DEF ServeInv, SleepersHaveTries
<1>8. TrackedRun'
  BY <1>3, <1>4, <1>5, JobRows DEF ServeInv, TrackedRun, Running
<1>9. StoppedIsDrained'
  BY DEF SyncFires, Alive, StoppedIsDrained
<1>10. QED
  BY <1>6, <1>7, <1>8, <1>9 DEF ServeInv

(* Connections.  The job a handler starts is tracked when it answers.      *)
LEMMA ClientKeeps ==
    ASSUME ServeInv, NEW c \in Clients, Connect(c) \/ Respond(c) \/ StreamEnds(c)
    PROVE  ServeInv'
<1>1. conn' \in [Clients -> {"none", "open", "closed"}]
  BY DEF ServeInv, ServeTypeOK, Connect, Respond, StreamEnds
<1>2. /\ config' = config /\ phase' = phase /\ jwks' = jwks /\ timedOut' = timedOut
      /\ phase # "stopped"
  BY DEF Connect, Respond, StreamEnds, Alive
<1>3. CASE job' = job /\ tracked' = tracked
  <2>1. ServeTypeOK'
    BY <1>1, <1>2, <1>3 DEF ServeInv, ServeTypeOK
  <2>2. StoppedIsDrained'
    BY <1>2 DEF StoppedIsDrained
  <2>3. QED
    BY <1>3, <2>1, <2>2, JobsStay
<1>4. CASE \E j \in Jobs, new \in {Delivery, SyncTask} :
              /\ job' = [job EXCEPT ![j] = new]
              /\ tracked' = Tracking(j)
  <2>1. PICK j \in Jobs, new \in {Delivery, SyncTask} :
              /\ job' = [job EXCEPT ![j] = new]
              /\ tracked' = Tracking(j)
    BY <1>4
  <2>2. new \in JobRow /\ new.pc \in {"sending", "sync"}
    BY JobRows
  <2>3. QED
    BY <1>1, <1>2, <2>1, <2>2, JobStep DEF Tracking
<1>5. QED
  BY <1>3, <1>4 DEF Connect, Respond, StreamEnds

LEMMA ServeKeeps ==
    ASSUME ServeInv, ShutdownSignal \/ Serve \/ RefreshJwks \/ UNCHANGED serveVars
    PROVE  ServeInv'
<1>1. job' = job /\ tracked' = tracked
  BY DEF ShutdownSignal, Serve, CloseTracker, Drained, TimesOut,
         RefreshJwks, serveVars
<1>2. ServeTypeOK'
  BY <1>1 DEF ServeInv, ServeTypeOK, ShutdownSignal, Serve, CloseTracker,
              Drained, TimesOut, RefreshJwks, serveVars
<1>3. StoppedIsDrained'
  BY <1>1 DEF ServeInv, StoppedIsDrained, ServeTypeOK, ShutdownSignal, Serve,
              CloseTracker, Drained, TimesOut, RefreshJwks, Alive,
              serveVars
<1>4. QED
  BY <1>1, <1>2, <1>3, JobsStay

-----------------------------------------------------------------------------
(* The invariant the other theorems rest on: the tracker has exactly the   *)
(* jobs that run.                                                          *)
THEOREM ServeInvariance == ServeSpec => []ServeInv
<1>1. ServeInv /\ [ServeNext]_serveVars => ServeInv'
  <2> SUFFICES ASSUME ServeInv, [ServeNext]_serveVars PROVE ServeInv'
    OBVIOUS
  <2>1. CASE ShutdownSignal \/ Serve \/ RefreshJwks \/ UNCHANGED serveVars
    BY <2>1, ServeKeeps
  <2>2. ASSUME NEW c \in Clients, Connect(c) \/ Respond(c) \/ StreamEnds(c)
        PROVE  ServeInv'
    BY <2>2, ClientKeeps
  <2>3. ASSUME NEW j \in Jobs, Job(j) \/ \E d \in Jobs : SyncFires(j, d)
        PROVE  ServeInv'
    BY <2>3, JobKeeps, SyncFiresKeeps
  <2>4. QED
    BY <2>1, <2>2, <2>3 DEF ServeNext
<1>2. QED
  BY ServeInitial, <1>1, PTL DEF ServeSpec

(* Every variable of the shutdown has its type, and no delivery is tried   *)
(* more than three times (deliver's list of delays).                       *)
THEOREM ServeTypeCorrect == ServeSpec => []ServeTypeOK
<1>1. ServeInv => ServeTypeOK
  BY DEF ServeInv
<1>2. QED
  BY ServeInvariance, <1>1, PTL

(* A server that stops without its timeout leaves no delivery and no sync  *)
(* behind, for any number of them and of connections (serve's wait for the *)
(* task tracker).                                                          *)
THEOREM NoneLeftBehind == ServeSpec => []NothingLeftBehind
<1>1. ServeInv => NothingLeftBehind
  BY DEF ServeInv, TrackedRun, StoppedIsDrained, NothingLeftBehind
<1>2. QED
  BY ServeInvariance, <1>1, PTL

-----------------------------------------------------------------------------
(* Paging.                                                                  *)

(* While the client pages, its cursor is the last of the rows it has got.  *)
CursorIsLast ==
    pager.pc = "more" =>
        /\ pager.cursor \in Row
        /\ \A r \in pager.got \cup pager.page : r = pager.cursor \/ Before(r, pager.cursor)

(* A listing starts with nothing.                                          *)
NewIsEmpty == pager.pc = "new" => pager = NewPager

SteadyIsThere == pager.steady \subseteq rows

(* No rows, and none on their way, without the board they belong to.       *)
NoBoardNoRows ==
    ~parent => /\ rows = {}
               /\ \A w \in Writers : tx[w] # Nothing => tx[w].new = {}

ListInv ==
    /\ ListTypeOK
    /\ NoBoardNoRows
    /\ NewIsEmpty
    /\ SteadyIsThere
    /\ CursorIsLast
    /\ PagesInOrder
    /\ NothingSkipped

-----------------------------------------------------------------------------
LEMMA KeysAreInts ==
    ASSUME NEW a \in Row
    PROVE  a.at \in Int /\ a.id \in Int
<1>1. a.at \in Time /\ a.id \in Ids
  BY DEF Row
<1>2. Ids \subseteq Int
  BY PagingBounds
<1>3. a.at \in Int
  BY <1>1 DEF Time
<1>4. QED
  BY <1>1, <1>2, <1>3

(* (created_at, id) orders rows: what is before something before a row is  *)
(* before the row.                                                         *)
LEMMA BeforeTransitive ==
    ASSUME NEW a \in Row, NEW b \in Row, NEW c \in Row, Before(a, b), Before(b, c)
    PROVE  Before(a, c)
<1>1. /\ a.at \in Int /\ b.at \in Int /\ c.at \in Int
      /\ a.id \in Int /\ b.id \in Int /\ c.id \in Int
  BY KeysAreInts
<1>2. QED
  BY <1>1 DEF Before, Less

(* A limit is at least one row.                                            *)
LEMMA LimitPositive ==
    ASSUME NEW l \in Params \cup {Nothing}
    PROVE  EffectiveLimit(l) \in Nat \ {0}
<1>1. CASE l = Nothing
  BY <1>1, PagingBounds DEF EffectiveLimit
<1>2. CASE l # Nothing
  <2>1. l \in Int
    BY <1>2, PagingBounds
  <2>2. QED
    BY <1>2, <2>1, PagingBounds DEF EffectiveLimit
<1>3. QED
  BY <1>1, <1>2

(* A page of some rows is not empty.                                       *)
LEMMA PageNotEmpty ==
    ASSUME NEW S, NEW n \in Nat \ {0}, NEW P \in First(S, n)
    PROVE  P # {}
<1>1. Cardinality(P) = n
  BY DEF First
<1>2. QED
  BY <1>1, FS_EmptySet

-----------------------------------------------------------------------------
LEMMA ListInitial == ListInit => ListInv
<1> SUFFICES ASSUME ListInit PROVE ListInv
  OBVIOUS
<1>1. ListTypeOK
  BY PagingBounds DEF ListInit, ListTypeOK, NewPager, Pager, Time, Tx
<1>2. QED
  BY <1>1 DEF ListInit, ListInv, NewPager, NoBoardNoRows, NewIsEmpty, SteadyIsThere,
              CursorIsLast, PagesInOrder, NothingSkipped

(* A step that adds rows at most, and leaves the client alone.             *)
LEMMA OthersKeep ==
    ASSUME ListInv, ListTypeOK', NoBoardNoRows',
           rows \subseteq rows', pager' = pager, dir' = dir
    PROVE  ListInv'
  BY DEF ListInv, NewIsEmpty, SteadyIsThere, CursorIsLast, PagesInOrder, NothingSkipped,
         Before

(* A step that removes rows: the client is owed fewer.                     *)
LEMMA RemoveKeeps ==
    ASSUME ListInv, NEW S, S \subseteq rows, RemoveRows(S), ListTypeOK', NoBoardNoRows', dir' = dir
    PROVE  ListInv'
<1>1. pager \in Pager
  BY DEF ListInv, ListTypeOK
<1>2. /\ pager'.pc = pager.pc /\ pager'.cursor = pager.cursor
      /\ pager'.got = pager.got /\ pager'.page = pager.page
      /\ pager'.steady = pager.steady \ S
  BY <1>1 DEF RemoveRows, Pager
<1>3. NewIsEmpty'
  <2> SUFFICES ASSUME pager.pc = "new" PROVE pager' = NewPager
    BY <1>2 DEF NewIsEmpty, NewPager
  <2>1. pager = NewPager
    BY DEF ListInv, NewIsEmpty
  <2>2. pager' = [NewPager EXCEPT !.steady = {} \ S]
    BY <2>1 DEF RemoveRows, NewPager
  <2>3. QED
    BY <2>2 DEF NewPager
<1>4. SteadyIsThere'
  BY <1>2 DEF ListInv, SteadyIsThere, RemoveRows
<1>5. CursorIsLast'
  BY <1>2 DEF ListInv, CursorIsLast, Before
<1>6. PagesInOrder'
  BY <1>2 DEF ListInv, PagesInOrder, Before
<1>7. NothingSkipped'
  BY <1>2 DEF ListInv, NothingSkipped, Before
<1>8. QED
  BY <1>3, <1>4, <1>5, <1>6, <1>7 DEF ListInv

-----------------------------------------------------------------------------
LEMMA NoneIsNoRow == Nothing \notin Row
  BY PagingBounds DEF Row, Time

(* A cursor is one of the page's rows that no other follows, and there is  *)
(* none exactly on the last page.                                          *)
LEMMA CursorOfPage ==
    ASSUME NEW P \in SUBSET Row, NEW has_more \in BOOLEAN, has_more => P # {},
           NEW c \in NextCursor(P, has_more)
    PROVE  IF has_more THEN c \in Row /\ c # Nothing /\ c \in LastRow(P) ELSE c = Nothing
<1>1. CASE has_more
  <2>1. c \in LastRow(P)
    BY <1>1 DEF NextCursor
  <2>2. c \in Row
    BY <2>1 DEF LastRow
  <2>3. QED
    BY <1>1, <2>1, <2>2, NoneIsNoRow
<1>2. CASE ~has_more
  BY <1>2 DEF NextCursor
<1>3. QED
  BY <1>1, <1>2

(* What a page of the client is: rows behind the cursor; it is all of them *)
(* when it is the last page, and otherwise what it leaves out is behind    *)
(* the new cursor, which is its last row.                                  *)
LEMMA PageStep ==
    ASSUME ListInv, Page
    PROVE  \E P \in SUBSET After(pager.cursor) : \E c \in Row \cup {Nothing} :
             /\ pager' = [pc     |-> IF c = Nothing THEN "done" ELSE "more",
                          cursor |-> c,
                          got    |-> pager.got \cup pager.page,
                          page   |-> P,
                          steady |-> IF pager.pc = "new" THEN rows ELSE pager.steady]
             /\ c = Nothing => P = After(pager.cursor)
             /\ c # Nothing => /\ c \in LastRow(P)
                            /\ \A s \in After(pager.cursor) \ P : Before(c, s)
<1> DEFINE S == After(pager.cursor)
<1>1. PICK l \in Params \cup {Nothing} :
         \E P \in IF Cardinality(S) > EffectiveLimit(l) THEN First(S, EffectiveLimit(l))
                   ELSE {S} :
         \E c \in NextCursor(P, Cardinality(S) > EffectiveLimit(l)) :
            pager' = [pc     |-> IF c = Nothing THEN "done" ELSE "more",
                      cursor |-> c,
                      got    |-> pager.got \cup pager.page,
                      page   |-> P,
                      steady |-> IF pager.pc = "new" THEN rows ELSE pager.steady]
  BY DEF Page
<1> DEFINE has_more == Cardinality(S) > EffectiveLimit(l)
<1>2. PICK P \in IF has_more THEN First(S, EffectiveLimit(l)) ELSE {S} :
         \E c \in NextCursor(P, has_more) :
            pager' = [pc     |-> IF c = Nothing THEN "done" ELSE "more",
                      cursor |-> c,
                      got    |-> pager.got \cup pager.page,
                      page   |-> P,
                      steady |-> IF pager.pc = "new" THEN rows ELSE pager.steady]
  BY <1>1
<1>3. PICK c \in NextCursor(P, has_more) :
            pager' = [pc     |-> IF c = Nothing THEN "done" ELSE "more",
                      cursor |-> c,
                      got    |-> pager.got \cup pager.page,
                      page   |-> P,
                      steady |-> IF pager.pc = "new" THEN rows ELSE pager.steady]
  BY <1>2
<1>4. S \in SUBSET Row
  BY DEF ListInv, ListTypeOK, After
<1>5. P \in SUBSET S
  BY <1>2 DEF First
<1>6. has_more => P # {}
  BY <1>2, LimitPositive, PageNotEmpty
<1>7. IF has_more THEN c \in Row /\ c # Nothing /\ c \in LastRow(P) ELSE c = Nothing
  <2>1. has_more \in BOOLEAN /\ P \in SUBSET Row
    BY <1>4, <1>5
  <2> HIDE DEF has_more, S
  <2>2. QED
    BY <1>3, <1>6, <2>1, CursorOfPage
<1>8. c = Nothing => P = S
  BY <1>2, <1>7
<1>9. ASSUME c # Nothing, NEW s \in S \ P
      PROVE  Before(c, s)
  <2>1. has_more /\ c \in P
    BY <1>7, <1>9 DEF LastRow
  <2>2. P \in First(S, EffectiveLimit(l))
    BY <1>2, <2>1
  <2>3. QED
    BY <1>9, <2>1, <2>2 DEF First
<1>10. c \in Row \cup {Nothing} /\ (c # Nothing => c \in LastRow(P))
  BY <1>7
<1>11. QED
  BY <1>3, <1>5, <1>8, <1>9, <1>10

(* A page follows what the client has got, and its cursor is not before    *)
(* anything the client has got by then.                                    *)
LEMMA PageKeeps ==
    ASSUME ListInv, Page
    PROVE  ListInv'
<1>1. PICK P \in SUBSET After(pager.cursor) : \E c \in Row \cup {Nothing} :
         /\ pager' = [pc     |-> IF c = Nothing THEN "done" ELSE "more",
                      cursor |-> c,
                      got    |-> pager.got \cup pager.page,
                      page   |-> P,
                      steady |-> IF pager.pc = "new" THEN rows ELSE pager.steady]
         /\ c = Nothing => P = After(pager.cursor)
         /\ c # Nothing => /\ c \in LastRow(P)
                        /\ \A s \in After(pager.cursor) \ P : Before(c, s)
  BY PageStep
<1>2. PICK c \in Row \cup {Nothing} :
         /\ pager' = [pc     |-> IF c = Nothing THEN "done" ELSE "more",
                      cursor |-> c,
                      got    |-> pager.got \cup pager.page,
                      page   |-> P,
                      steady |-> IF pager.pc = "new" THEN rows ELSE pager.steady]
         /\ c = Nothing => P = After(pager.cursor)
         /\ c # Nothing => /\ c \in LastRow(P)
                        /\ \A s \in After(pager.cursor) \ P : Before(c, s)
  BY <1>1
<1>3. /\ pager'.pc = (IF c = Nothing THEN "done" ELSE "more")
      /\ pager'.cursor = c
      /\ pager'.got = pager.got \cup pager.page
      /\ pager'.page = P
      /\ pager'.steady = IF pager.pc = "new" THEN rows ELSE pager.steady
  BY <1>2
<1>4. /\ rows' = rows /\ dir' = dir /\ now' = now /\ used' = used
      /\ tx' = tx /\ parent' = parent
  BY DEF Page
<1>5. /\ pager \in Pager /\ rows \in SUBSET Row
      /\ P \in SUBSET rows
  BY <1>1 DEF ListInv, ListTypeOK, After
<1>6. ListTypeOK'
  <2>1. pager' \in Pager
    <3>1. /\ pager.got \cup pager.page \in SUBSET Row /\ P \in SUBSET Row
          /\ (IF pager.pc = "new" THEN rows ELSE pager.steady) \in SUBSET Row
          /\ (IF c = Nothing THEN "done" ELSE "more") \in {"new", "more", "done", "refused"}
      BY <1>5 DEF Pager
    <3>2. QED
      BY <1>2, <3>1 DEF Pager
  <2>2. QED
    BY <1>4, <2>1 DEF ListInv, ListTypeOK
<1>7. NewIsEmpty'
  BY <1>3 DEF NewIsEmpty
<1>8. SteadyIsThere'
  BY <1>3, <1>4 DEF ListInv, SteadyIsThere
<1>9. pager.pc \in {"new", "more"}
  BY DEF Page
<1>10. ASSUME NEW old \in pager.got \cup pager.page, NEW new \in P
       PROVE  Before(old, new)
  <2>1. pager.pc = "more"
    BY <1>9 DEF ListInv, NewIsEmpty, NewPager
  <2>2. pager.cursor \in Row /\ (old = pager.cursor \/ Before(old, pager.cursor))
    BY <2>1 DEF ListInv, CursorIsLast
  <2>3. Before(pager.cursor, new)
    BY <2>2, <1>1, NoneIsNoRow DEF After
  <2>4. old \in Row /\ new \in Row
    BY <1>5 DEF Pager
  <2>5. QED
    BY <2>2, <2>3, <2>4, BeforeTransitive
<1>11. PagesInOrder'
  BY <1>3, <1>4, <1>10 DEF PagesInOrder, Before
<1>12. CursorIsLast'
  <2> SUFFICES ASSUME c # Nothing,
                      NEW r \in (pager.got \cup pager.page) \cup P
               PROVE  c \in Row /\ (r = c \/ Before(r, c))
    BY <1>3, <1>4 DEF CursorIsLast, Before
  <2>1. c \in Row /\ c \in P /\ \A q \in P : q = c \/ Before(q, c)
    BY <1>2 DEF LastRow
  <2>2. QED
    BY <2>1, <1>10
<1>13. ASSUME NEW r \in pager'.steady, r \notin pager'.got \cup pager'.page
       PROVE  r \in After(pager.cursor) \ P
  <2>1. r \in rows /\ r \notin P
    BY <1>3, <1>13 DEF ListInv, SteadyIsThere
  <2>2. CASE pager.pc = "new"
    BY <2>1, <2>2 DEF ListInv, NewIsEmpty, NewPager, After
  <2>3. CASE pager.pc = "more"
    <3>1. Before(pager.cursor, r)
      BY <1>3, <1>13, <2>3 DEF ListInv, NothingSkipped
    <3>2. QED
      BY <2>1, <3>1 DEF After
  <2>4. QED
    BY <1>9, <2>2, <2>3
<1>14. NothingSkipped'
  <2>1. CASE c = Nothing
    <3>1. pager'.pc = "done" /\ P = After(pager.cursor)
      BY <1>2, <1>3, <2>1
    <3>2. pager'.steady \subseteq pager'.got \cup pager'.page
      BY <3>1, <1>13
    <3>3. QED
      BY <3>1, <3>2 DEF NothingSkipped
  <2>2. CASE c # Nothing
    <3>1. pager'.pc = "more" /\ pager'.cursor = c
      BY <1>3, <2>2
    <3>2. \A r \in pager'.steady \ (pager'.got \cup pager'.page) : Before(c, r)
      BY <1>2, <1>13, <2>2
    <3>3. QED
      BY <3>1, <3>2, <1>4 DEF NothingSkipped, Before
  <2>3. QED
    BY <2>1, <2>2
<1>15. QED
  <2>1. NoBoardNoRows'
    BY <1>4 DEF Page, NoBoardNoRows
  <2>2. QED
    BY <2>1, <1>6, <1>7, <1>8, <1>11, <1>12, <1>14 DEF ListInv

(* A listing whose board is gone owes its client nothing.                  *)
LEMMA PageOfNoBoardKeeps ==
    ASSUME ListInv, PageOfNoBoard
    PROVE  ListInv'
<1>1. pager \in Pager /\ rows = {} /\ pager.steady = {}
  BY DEF ListInv, ListTypeOK, PageOfNoBoard, NoBoardNoRows, SteadyIsThere
<1>2. PICK pc \in {"refused", "done"} :
         pager' = [pager EXCEPT !.pc = pc, !.cursor = Nothing,
                                !.got = @ \cup pager.page, !.page = {}]
  BY DEF PageOfNoBoard
<1>3. /\ pager'.pc = pc /\ pager'.cursor = Nothing /\ pager'.page = {}
      /\ pager'.got = pager.got \cup pager.page /\ pager'.steady = {}
  BY <1>1, <1>2 DEF Pager
<1>4. /\ rows' = rows /\ dir' = dir /\ now' = now /\ used' = used
      /\ tx' = tx /\ parent' = parent
  BY DEF PageOfNoBoard
<1>5. ListTypeOK'
  <2>1. pager' \in Pager
    BY <1>1, <1>2 DEF Pager
  <2>2. QED
    BY <1>4, <2>1 DEF ListInv, ListTypeOK
<1>6. NoBoardNoRows'
  BY <1>4 DEF ListInv, NoBoardNoRows
<1>7. QED
  BY <1>3, <1>5, <1>6 DEF ListInv, NewIsEmpty, SteadyIsThere, CursorIsLast, PagesInOrder,
                          NothingSkipped

LEMMA ListAgainKeeps ==
    ASSUME ListInv, ListAgain
    PROVE  ListInv'
<1>1. /\ rows' = rows /\ dir' = dir /\ now' = now /\ used' = used
      /\ tx' = tx /\ parent' = parent /\ pager' = NewPager
  BY DEF ListAgain
<1>2. NewPager \in Pager
  BY DEF NewPager, Pager
<1>3. ListTypeOK'
  BY <1>1, <1>2 DEF ListInv, ListTypeOK
<1>4. NoBoardNoRows'
  BY <1>1 DEF ListInv, NoBoardNoRows
<1>5. QED
  BY <1>1, <1>3, <1>4 DEF ListInv, NewPager, NewIsEmpty, SteadyIsThere, CursorIsLast,
                          PagesInOrder, NothingSkipped

-----------------------------------------------------------------------------
(* A transaction begins, inserts, commits or rolls back.                   *)
LEMMA WriterKeeps ==
    ASSUME ListInv, NEW w \in Writers, Begin(w) \/ Insert(w) \/ Commit(w) \/ Rollback(w)
    PROVE  ListInv'
<1>1. /\ now \in Time /\ rows \in SUBSET Row /\ used \in SUBSET Ids
      /\ tx \in [Writers -> Tx \cup {Nothing}] /\ parent \in BOOLEAN
      /\ dir \in {"asc", "desc"} /\ pager \in Pager
  BY DEF ListInv, ListTypeOK
<1>2. CASE Begin(w)
  <2>1. [at |-> now, new |-> {}] \in Tx
    BY <1>1 DEF Tx
  <2>2. ListTypeOK'
    BY <1>1, <1>2, <2>1 DEF Begin, ListTypeOK
  <2>3. NoBoardNoRows'
    BY <1>1, <1>2 DEF Begin, ListInv, NoBoardNoRows
  <2>4. QED
    BY <1>2, <2>2, <2>3, OthersKeep DEF Begin
<1>3. CASE Insert(w)
  <2>1. tx[w] \in Tx
    BY <1>1, <1>3 DEF Insert
  <2>2. PICK id \in Ids \ used :
           /\ used' = used \cup {id}
           /\ tx' = [tx EXCEPT ![w].new = @ \cup {[at |-> tx[w].at, id |-> id]}]
    BY <1>3 DEF Insert
  <2>3. [at |-> tx[w].at, id |-> id] \in Row
    BY <2>1 DEF Tx, Row
  <2>4. [tx[w] EXCEPT !.new = @ \cup {[at |-> tx[w].at, id |-> id]}] \in Tx
    BY <2>1, <2>3 DEF Tx
  <2>5. tx' \in [Writers -> Tx \cup {Nothing}]
    BY <1>1, <2>2, <2>4
  <2>6. ListTypeOK'
    BY <1>1, <1>3, <2>2, <2>5 DEF Insert, ListTypeOK
  <2>7. NoBoardNoRows'
    BY <1>3 DEF Insert, NoBoardNoRows
  <2>8. QED
    BY <1>3, <2>6, <2>7, OthersKeep DEF Insert
<1>4. CASE Commit(w)
  <2>1. tx[w].new \in SUBSET Row
    BY <1>1, <1>4 DEF Commit, Tx
  <2>2. ListTypeOK'
    BY <1>1, <1>4, <2>1 DEF Commit, ListTypeOK
  <2>3. NoBoardNoRows'
    BY <1>1, <1>4 DEF Commit, ListInv, NoBoardNoRows
  <2>4. QED
    BY <1>4, <2>2, <2>3, OthersKeep DEF Commit
<1>5. CASE Rollback(w)
  <2>1. ListTypeOK'
    BY <1>1, <1>5 DEF Rollback, ListTypeOK
  <2>2. NoBoardNoRows'
    BY <1>1, <1>5 DEF Rollback, ListInv, NoBoardNoRows
  <2>3. QED
    BY <1>5, <2>1, <2>2, OthersKeep DEF Rollback
<1>6. QED
  BY <1>2, <1>3, <1>4, <1>5

(* Rows go, one by one or with their board.                                *)
LEMMA DeleteKeeps ==
    ASSUME ListInv, Delete \/ DeleteParent
    PROVE  ListInv'
<1>1. /\ now \in Time /\ rows \in SUBSET Row /\ used \in SUBSET Ids
      /\ tx \in [Writers -> Tx \cup {Nothing}] /\ parent \in BOOLEAN
      /\ dir \in {"asc", "desc"} /\ pager \in Pager
  BY DEF ListInv, ListTypeOK
<1>2. ASSUME NEW S, RemoveRows(S)
      PROVE  pager' \in Pager /\ rows' \in SUBSET Row
  BY <1>1, <1>2 DEF RemoveRows, Pager
<1>3. CASE Delete
  <2>1. PICK r \in rows : RemoveRows({r})
    BY <1>3 DEF Delete
  <2>2. pager' \in Pager /\ rows' \in SUBSET Row
    BY <1>2, <2>1
  <2>3. ListTypeOK'
    BY <1>1, <1>3, <2>2 DEF Delete, ListTypeOK
  <2>4. NoBoardNoRows'
    BY <1>3, <2>1 DEF Delete, RemoveRows, ListInv, NoBoardNoRows
  <2>5. QED
    BY <1>3, <2>1, <2>3, <2>4, RemoveKeeps DEF Delete
<1>4. CASE DeleteParent
  <2>1. RemoveRows(rows) /\ rows' = {}
    BY <1>4 DEF DeleteParent, RemoveRows
  <2>2. pager' \in Pager
    BY <1>2, <2>1
  <2>3. ListTypeOK'
    BY <1>1, <1>4, <2>1, <2>2 DEF DeleteParent, ListTypeOK
  <2>4. NoBoardNoRows'
    BY <1>4, <2>1 DEF DeleteParent, NoBoardNoRows
  <2>5. QED
    BY <1>4, <2>1, <2>3, <2>4, RemoveKeeps DEF DeleteParent
<1>5. QED
  BY <1>3, <1>4

(* Time passes, or a board takes the slug of one that was deleted.         *)
LEMMA TickKeeps ==
    ASSUME ListInv, Tick \/ CreateParent
    PROVE  ListInv'
<1>1. now \in Time /\ MaxTime \in Nat
  BY PagingBounds DEF ListInv, ListTypeOK
<1>2. CASE Tick
  <2>1. now' \in Time
    BY <1>1, <1>2 DEF Tick, Time
  <2>2. ListTypeOK'
    BY <1>2, <2>1 DEF Tick, ListInv, ListTypeOK
  <2>3. NoBoardNoRows'
    BY <1>2 DEF Tick, ListInv, NoBoardNoRows
  <2>4. QED
    BY <1>2, <2>2, <2>3, OthersKeep DEF Tick
<1>3. CASE CreateParent
  <2>1. ListTypeOK'
    BY <1>3 DEF CreateParent, ListInv, ListTypeOK
  <2>2. NoBoardNoRows'
    BY <1>3 DEF CreateParent, NoBoardNoRows
  <2>3. QED
    BY <1>3, <2>1, <2>2, OthersKeep DEF CreateParent
<1>4. QED
  BY <1>2, <1>3

LEMMA StutterKeeps ==
    ASSUME ListInv, UNCHANGED listVars
    PROVE  ListInv'
<1>1. ListTypeOK'
  BY DEF ListInv, ListTypeOK, listVars
<1>2. NoBoardNoRows'
  BY DEF ListInv, NoBoardNoRows, listVars
<1>3. QED
  BY <1>1, <1>2, OthersKeep DEF listVars

-----------------------------------------------------------------------------
(* The invariant the other theorems rest on.                               *)
THEOREM ListInvariance == ListSpec => []ListInv
<1>1. ListInv /\ [ListNext]_listVars => ListInv'
  <2> SUFFICES ASSUME ListInv, [ListNext]_listVars PROVE ListInv'
    OBVIOUS
  <2>1. CASE Tick \/ CreateParent
    BY <2>1, TickKeeps
  <2>2. CASE Delete \/ DeleteParent
    BY <2>2, DeleteKeeps
  <2>3. ASSUME NEW w \in Writers, Begin(w) \/ Insert(w) \/ Commit(w) \/ Rollback(w)
        PROVE  ListInv'
    BY <2>3, WriterKeeps
  <2>4. CASE Page
    BY <2>4, PageKeeps
  <2>5. CASE PageOfNoBoard
    BY <2>5, PageOfNoBoardKeeps
  <2>6. CASE ListAgain
    BY <2>6, ListAgainKeeps
  <2>7. CASE UNCHANGED listVars
    BY <2>7, StutterKeeps
  <2>8. QED
    BY <2>1, <2>2, <2>3, <2>4, <2>5, <2>6, <2>7 DEF ListNext
<1>2. QED
  BY ListInitial, <1>1, PTL DEF ListSpec

(* Every state of a listing is well formed: a cursor, when there is one,   *)
(* is the key of a row (next_cursor of list_paginated).                    *)
THEOREM ListTypeCorrect == ListSpec => []ListTypeOK
<1>1. ListInv => ListTypeOK
  BY DEF ListInv
<1>2. QED
  BY ListInvariance, <1>1, PTL

(* A client that follows next_cursor to the end gets every row that was    *)
(* there all the time, for any number of rows, transactions and limits.    *)
THEOREM SteadyRowsListed == ListSpec => []NothingSkipped
<1>1. ListInv => NothingSkipped
  BY DEF ListInv
<1>2. QED
  BY ListInvariance, <1>1, PTL

(* The pages of list_paginated are in order and no row comes twice, for    *)
(* any number of rows, transactions and limits.                            *)
THEOREM PagesAreOrdered == ListSpec => []PagesInOrder
<1>1. ListInv => PagesInOrder
  BY DEF ListInv
<1>2. QED
  BY ListInvariance, <1>1, PTL

-----------------------------------------------------------------------------
(* Catalog.                                                                 *)

(***************************************************************************)
(* What a request has found when it comes to a statement.  Ids are never   *)
(* given out again, so a version that was found for a board is a version   *)
(* of that board for good, or gone with it.                                *)
(***************************************************************************)
Resolved(q) ==
    /\ q.pc = "coll" => q.op \in {"add", "remove", "patch"}
    /\ q.pc \in {"coll", "board", "version"} => q.pin = None
    /\ q.pc = "board" => /\ q.op # "patch"
                         /\ q.op \in {"add", "remove"} => q.coll \in CollIds
    /\ q.pc = "version" => q.op = "pin" /\ q.board \in BoardIds
    /\ q.pc = "write" => /\ q.op # "patch" => q.board \in BoardIds
                         /\ q.op \in {"add", "remove", "patch"} => q.coll \in CollIds
    /\ q.pin # None => q.pin[1] = q.board
    /\ q.op = "patch" => q.patch \in Patch

RequestsResolved == \A r \in Requests : req[r] # NoRequest => Resolved(req[r])

(***************************************************************************)
(* A PATCH that is about to write holds the lock of its collection, which  *)
(* is there and as the PATCH has read it.                                  *)
(***************************************************************************)
RowsLocked ==
    \A r \in Requests :
        req[r].pc = "write" /\ req[r].op = "patch" =>
            /\ lock[req[r].coll] = r
            /\ Coll(req[r].coll)
            /\ colls[req[r].coll] = req[r].row

CatalogInv ==
    /\ CatalogTypeOK
    /\ PinsOwnVersion
    /\ MembershipsAreLive
    /\ RequestsResolved
    /\ RowsLocked

Marks == {None, Gone}

-----------------------------------------------------------------------------
LEMMA NoRequestIsNotBusy ==
    /\ NoRequest.pc = "idle"
    /\ \A q \in Busy : q # NoRequest /\ q.pc # "idle"
  BY DEF NoRequest, Busy

LEMMA CatalogInitial == CatalogInit => CatalogInv
<1> SUFFICES ASSUME CatalogInit PROVE CatalogInv
  OBVIOUS
<1>1. CatalogTypeOK
  BY CatalogBounds DEF CatalogInit, CatalogTypeOK
<1>2. PinsOwnVersion /\ MembershipsAreLive
  BY DEF CatalogInit, PinsOwnVersion, MembershipsAreLive, Ref
<1>3. RequestsResolved /\ RowsLocked
  BY NoRequestIsNotBusy DEF CatalogInit, RequestsResolved, RowsLocked
<1> QED
  BY <1>1, <1>2, <1>3 DEF CatalogInv

-----------------------------------------------------------------------------
\* Request r comes to q, and the rows that others have locked stay.
LEMMA RequestStep ==
    ASSUME CatalogTypeOK, RequestsResolved, RowsLocked,
           NEW r \in Requests, NEW q \in {NoRequest} \cup Busy,
           q # NoRequest => Resolved(q),
           req' = [req EXCEPT ![r] = q],
           \A c \in CollIds : lock[c] \in Requests \ {r} =>
               lock'[c] = lock[c] /\ colls'[c] = colls[c],
           q.pc = "write" /\ q.op = "patch" =>
               lock'[q.coll] = r /\ colls'[q.coll] \notin Marks /\ colls'[q.coll] = q.row
    PROVE  req' \in [Requests -> {NoRequest} \cup Busy] /\ RequestsResolved' /\ RowsLocked'
<1>1. /\ req' \in [Requests -> {NoRequest} \cup Busy]
      /\ req'[r] = q
      /\ \A p \in Requests \ {r} : req'[p] = req[p]
  BY DEF CatalogTypeOK
<1>2. RequestsResolved'
  BY <1>1 DEF RequestsResolved, Resolved
<1>3. RowsLocked'
  <2> SUFFICES ASSUME NEW p \in Requests, req'[p].pc = "write", req'[p].op = "patch"
               PROVE  /\ lock'[req'[p].coll] = p
                      /\ colls'[req'[p].coll] \notin Marks
                      /\ colls'[req'[p].coll] = req'[p].row
    BY DEF RowsLocked, Coll, Marks
  <2>1. CASE p = r
    BY <1>1, <2>1
  <2>2. CASE p # r
    <3>1. req'[p] = req[p]
      BY <1>1, <2>2
    <3>2. req[p] # NoRequest
      BY <3>1, NoRequestIsNotBusy
    <3>3. req[p].coll \in CollIds
      BY <3>1, <3>2 DEF RequestsResolved, Resolved
    <3>4. lock[req[p].coll] = p /\ Coll(req[p].coll) /\ colls[req[p].coll] = req[p].row
      BY <3>1 DEF RowsLocked
    <3>5. p \in Requests \ {r}
      BY <2>2
    <3>6. lock'[req[p].coll] = lock[req[p].coll] /\ colls'[req[p].coll] = colls[req[p].coll]
      BY <3>3, <3>4, <3>5
    <3> QED
      BY <3>1, <3>4, <3>6 DEF Coll, Marks
  <2> QED
    BY <2>1, <2>2
<1> QED
  BY <1>1, <1>2, <1>3

\* The end of a request whose last statement has left the rows that others
\* have locked alone.
LEMMA EndStep ==
    ASSUME CatalogTypeOK, RequestsResolved, RowsLocked,
           NEW r \in Requests, End(r),
           \A c \in CollIds : lock[c] \in Requests \ {r} => colls'[c] = colls[c]
    PROVE  /\ lock' \in [CollIds -> Requests \cup {None}]
           /\ req' \in [Requests -> {NoRequest} \cup Busy]
           /\ RequestsResolved' /\ RowsLocked'
<1>1. lock' \in [CollIds -> Requests \cup {None}]
  BY DEF CatalogTypeOK, End
<1>2. \A c \in CollIds : lock[c] \in Requests \ {r} => lock'[c] = lock[c]
  BY DEF End
<1>3. req' = [req EXCEPT ![r] = NoRequest]
  BY DEF End
<1>4. req' \in [Requests -> {NoRequest} \cup Busy] /\ RequestsResolved' /\ RowsLocked'
  BY <1>2, <1>3, NoRequestIsNotBusy, RequestStep
<1> QED
  BY <1>1, <1>4

\* What only changes the tables leaves the requests and their locks alone.
LEMMA TableStep ==
    ASSUME CatalogTypeOK, RequestsResolved, RowsLocked, UNCHANGED <<lock, req>>,
           \A c \in CollIds : lock[c] \in Requests => colls'[c] = colls[c]
    PROVE  RequestsResolved' /\ RowsLocked'
<1>1. RequestsResolved'
  BY DEF RequestsResolved, Resolved
<1>2. RowsLocked'
  <2> SUFFICES ASSUME NEW p \in Requests, req[p].pc = "write", req[p].op = "patch"
               PROVE  /\ lock[req[p].coll] = p
                      /\ colls'[req[p].coll] \notin Marks
                      /\ colls'[req[p].coll] = req[p].row
    BY DEF RowsLocked, Coll, Marks
  <2>1. req[p] # NoRequest
    BY NoRequestIsNotBusy
  <2>2. req[p].coll \in CollIds
    BY <2>1 DEF RequestsResolved, Resolved
  <2> QED
    BY <2>2 DEF RowsLocked, Coll, Marks
<1> QED
  BY <1>1, <1>2

-----------------------------------------------------------------------------
LEMMA CreateBoardStep == CatalogInv /\ CreateBoard => CatalogInv'
<1> SUFFICES ASSUME CatalogInv, CreateBoard PROVE CatalogInv'
  OBVIOUS
<1> USE DEF CatalogInv
<1>1. PICK b \in BoardIds, s \in BoardSlugs :
          boards[b] = None /\ boards' = [boards EXCEPT ![b] = s]
  BY DEF CreateBoard
<1>2. UNCHANGED <<count, colls, members, refs, lock, req>>
  BY DEF CreateBoard
<1>3. CatalogTypeOK'
  BY <1>1, <1>2 DEF CatalogTypeOK
<1>4. \A a \in BoardIds : Board(a) => Board(a)'
  BY <1>1, CatalogBounds DEF CatalogTypeOK, Board
<1>5. PinsOwnVersion' /\ MembershipsAreLive'
  <2>1. PinsOwnVersion'
    <3> SUFFICES ASSUME NEW i \in RefIds, Ref(i)
                 PROVE  Board(refs[i].board)'
      BY <1>2 DEF PinsOwnVersion, Ref
    <3>1. refs[i].board \in BoardIds
      BY DEF CatalogTypeOK, Ref, RefRow
    <3> QED
      BY <1>2, <1>4, <3>1 DEF PinsOwnVersion
  <2>2. MembershipsAreLive'
    BY <1>2, <1>4 DEF MembershipsAreLive, CatalogTypeOK, Coll
  <2> QED
    BY <2>1, <2>2
<1>6. RequestsResolved' /\ RowsLocked'
  BY <1>2, TableStep
<1> QED
  BY <1>3, <1>5, <1>6

LEMMA CreateVersionStep == CatalogInv /\ CreateVersion => CatalogInv'
<1> SUFFICES ASSUME CatalogInv, CreateVersion PROVE CatalogInv'
  OBVIOUS
<1> USE DEF CatalogInv
<1>1. PICK b \in BoardIds :
          count[b] < MaxVersions /\ count' = [count EXCEPT ![b] = @ + 1]
  BY DEF CreateVersion
<1>2. UNCHANGED <<boards, colls, members, refs, lock, req>>
  BY DEF CreateVersion
<1>3. count' \in [BoardIds -> 0 .. MaxVersions] /\ \A a \in BoardIds : count[a] <= count'[a]
  BY <1>1, CatalogBounds DEF CatalogTypeOK
<1>4. CatalogTypeOK'
  BY <1>2, <1>3 DEF CatalogTypeOK
<1>5. PinsOwnVersion'
  <2> SUFFICES ASSUME NEW i \in RefIds, Ref(i), refs[i].pin # None
               PROVE  refs[i].pin[2] <= count'[refs[i].board]
    BY <1>2 DEF PinsOwnVersion, Ref, Board
  <2>1. refs[i].board \in BoardIds /\ refs[i].pin[2] \in Int
    BY DEF CatalogTypeOK, Ref, RefRow, Version
  <2>2. refs[i].pin[2] <= count[refs[i].board]
    BY DEF PinsOwnVersion
  <2>3. count[refs[i].board] \in Int /\ count'[refs[i].board] \in Int
    BY <2>1, <1>3, CatalogBounds DEF CatalogTypeOK
  <2> QED
    BY <1>3, <2>1, <2>2, <2>3
<1>6. MembershipsAreLive'
  BY <1>2 DEF MembershipsAreLive, Coll, Board
<1>7. RequestsResolved' /\ RowsLocked'
  BY <1>2, TableStep
<1> QED
  BY <1>4, <1>5, <1>6, <1>7

LEMMA DeleteBoardStep == CatalogInv /\ DeleteBoard => CatalogInv'
<1> SUFFICES ASSUME CatalogInv, DeleteBoard PROVE CatalogInv'
  OBVIOUS
<1> USE DEF CatalogInv
<1>1. PICK b \in BoardIds :
          /\ boards' = [boards EXCEPT ![b] = Gone]
          /\ count' = [count EXCEPT ![b] = 0]
          /\ members' = {m \in members : m[2] # b}
          /\ refs' = [i \in RefIds |->
                IF ~Ref(i) THEN refs[i]
                ELSE IF refs[i].board = b THEN Gone
                ELSE IF refs[i].pin # None /\ refs[i].pin[1] = b THEN [refs[i] EXCEPT !.pin = None]
                ELSE refs[i]]
  BY DEF DeleteBoard
<1>2. UNCHANGED <<colls, lock, req>>
  BY DEF DeleteBoard
<1>3. \A i \in RefIds : Ref(i) =>
          refs[i] \in RefRow /\ (refs[i].pin # None => refs[i].pin[1] = refs[i].board)
  BY DEF CatalogTypeOK, Ref, PinsOwnVersion
\* No pin is cleared: what pins a version of b is a reference of b.
<1>4. \A i \in RefIds : refs'[i] = IF Ref(i) /\ refs[i].board = b THEN Gone ELSE refs[i]
  <2> TAKE i \in RefIds
  <2>1. CASE ~Ref(i)
    BY <1>1, <2>1
  <2>2. CASE Ref(i) /\ refs[i].board = b
    BY <1>1, <2>2
  <2>3. CASE Ref(i) /\ refs[i].board # b
    <3>1. ~(refs[i].pin # None /\ refs[i].pin[1] = b)
      BY <1>3, <2>3 DEF Ref
    <3> QED
      BY <1>1, <2>3, <3>1
  <2> QED
    BY <2>1, <2>2, <2>3
<1>5. refs' \in [RefIds -> RefRow \cup {None, Gone}]
  BY <1>1, <1>4 DEF CatalogTypeOK
<1>6. count' \in [BoardIds -> 0 .. MaxVersions] /\ boards' \in [BoardIds -> BoardSlugs \cup {None, Gone}]
  BY <1>1, CatalogBounds DEF CatalogTypeOK
<1>7. CatalogTypeOK'
  BY <1>1, <1>2, <1>5, <1>6 DEF CatalogTypeOK
<1>8. \A a \in BoardIds \ {b} : boards'[a] = boards[a] /\ count'[a] = count[a]
  BY <1>1 DEF CatalogTypeOK
<1>9. PinsOwnVersion'
  <2> SUFFICES ASSUME NEW i \in RefIds, refs'[i] \notin {None, Gone}
               PROVE  /\ boards'[refs'[i].board] \notin {None, Gone}
                      /\ refs'[i].pin # None =>
                            refs'[i].pin[1] = refs'[i].board /\ refs'[i].pin[2] <= count'[refs'[i].board]
    BY DEF PinsOwnVersion, Ref, Board
  <2>1. refs'[i] = refs[i] /\ Ref(i) /\ refs[i].board # b
    BY <1>4 DEF Ref
  <2>2. refs[i].board \in BoardIds \ {b}
    BY <1>3, <2>1 DEF RefRow, Ref
  <2> QED
    BY <2>1, <2>2, <1>8 DEF PinsOwnVersion, Board
<1>10. MembershipsAreLive'
  <2> SUFFICES ASSUME NEW m \in members, m[2] # b PROVE Coll(m[1]) /\ Board(m[2])'
    BY <1>1, <1>2 DEF MembershipsAreLive, Coll
  <2>1. m[2] \in BoardIds \ {b}
    BY DEF CatalogTypeOK
  <2> QED
    BY <2>1, <1>8 DEF MembershipsAreLive, Board
<1>11. RequestsResolved' /\ RowsLocked'
  BY <1>2, TableStep
<1> QED
  BY <1>7, <1>9, <1>10, <1>11

LEMMA CreateCollectionStep == CatalogInv /\ CreateCollection => CatalogInv'
<1> SUFFICES ASSUME CatalogInv, CreateCollection PROVE CatalogInv'
  OBVIOUS
<1> USE DEF CatalogInv
<1>1. PICK c \in CollIds, row \in CollRow :
          colls[c] = None /\ colls' = [colls EXCEPT ![c] = row]
  BY DEF CreateCollection
<1>2. UNCHANGED <<boards, count, members, refs, lock, req>>
  BY DEF CreateCollection
<1>3. CatalogTypeOK'
  BY <1>1, <1>2 DEF CatalogTypeOK
<1>4. PinsOwnVersion'
  BY <1>2 DEF PinsOwnVersion, Ref, Board
<1>5. \A d \in CollIds : Coll(d) => d # c /\ colls'[d] = colls[d]
  BY <1>1 DEF Coll, CatalogTypeOK
<1>6. MembershipsAreLive'
  BY <1>2, <1>5 DEF MembershipsAreLive, CatalogTypeOK, Coll, Board
<1>7. RequestsResolved'
  BY <1>2 DEF RequestsResolved, Resolved
<1>8. RowsLocked'
  <2> SUFFICES ASSUME NEW p \in Requests, req[p].pc = "write", req[p].op = "patch"
               PROVE  /\ lock[req[p].coll] = p
                      /\ Coll(req[p].coll)'
                      /\ colls'[req[p].coll] = req[p].row
    BY <1>2 DEF RowsLocked, Coll
  <2>1. req[p] # NoRequest
    BY NoRequestIsNotBusy
  <2>2. req[p].coll \in CollIds
    BY <2>1 DEF RequestsResolved, Resolved
  <2> QED
    BY <1>2, <1>5, <2>2 DEF RowsLocked, Coll
<1> QED
  BY <1>3, <1>4, <1>6, <1>7, <1>8

LEMMA DeleteCollectionStep == CatalogInv /\ DeleteCollection => CatalogInv'
<1> SUFFICES ASSUME CatalogInv, DeleteCollection PROVE CatalogInv'
  OBVIOUS
<1> USE DEF CatalogInv
<1>1. PICK c \in CollIds :
          /\ lock[c] = None
          /\ colls' = [colls EXCEPT ![c] = Gone]
          /\ members' = {m \in members : m[1] # c}
  BY DEF DeleteCollection
<1>2. UNCHANGED <<boards, count, refs, lock, req>>
  BY DEF DeleteCollection
<1>3. CatalogTypeOK'
  BY <1>1, <1>2 DEF CatalogTypeOK
<1>4. PinsOwnVersion'
  BY <1>2 DEF PinsOwnVersion, Ref, Board
<1>5. \A d \in CollIds \ {c} : colls'[d] = colls[d]
  BY <1>1 DEF CatalogTypeOK
<1>6. MembershipsAreLive'
  BY <1>1, <1>2, <1>5 DEF MembershipsAreLive, CatalogTypeOK, Coll, Board
<1>7. \A d \in CollIds : lock[d] \in Requests => colls'[d] = colls[d]
  BY <1>1, <1>5, CatalogBounds
<1>8. RequestsResolved' /\ RowsLocked'
  BY <1>2, <1>7, TableStep
<1> QED
  BY <1>3, <1>4, <1>6, <1>8

-----------------------------------------------------------------------------
LEMMA StartStep ==
    ASSUME CatalogInv, NEW r \in Requests, Start(r) PROVE CatalogInv'
<1> USE DEF CatalogInv
<1> DEFINE Fresh(q) ==
        \/ \E bs \in BoardSlugs, n \in 0 .. MaxVersions + 1 :
              q = Request("pin", None, bs, n, None, None)
        \/ \E bs \in BoardSlugs, i \in RefIds : q = Request("unpin", None, bs, 0, i, None)
        \/ \E cs \in CollSlugs, bs \in BoardSlugs, op \in {"add", "remove"} :
              q = Request(op, cs, bs, 0, None, None)
        \/ \E cs \in CollSlugs, p \in Patch : q = Request("patch", cs, None, 0, None, p)
<1>1. PICK q : Fresh(q) /\ req' = [req EXCEPT ![r] = q]
  BY DEF Start
<1>2. q \in Busy /\ Resolved(q) /\ q.pc # "write"
  BY <1>1, CatalogBounds DEF Request, Busy, Resolved, Op
<1>3. UNCHANGED <<boards, count, colls, members, refs, lock>>
  BY DEF Start, tables
<1>4. req' \in [Requests -> {NoRequest} \cup Busy] /\ RequestsResolved' /\ RowsLocked'
  BY <1>1, <1>2, <1>3, RequestStep
<1>5. CatalogTypeOK'
  BY <1>3, <1>4 DEF CatalogTypeOK
<1>6. PinsOwnVersion' /\ MembershipsAreLive'
  BY <1>3 DEF PinsOwnVersion, MembershipsAreLive, Ref, Board, Coll
<1> QED
  BY <1>4, <1>5, <1>6

\* A statement that ends the request without a change of the tables.
LEMMA EndOnlyStep ==
    ASSUME CatalogInv, NEW r \in Requests, End(r), UNCHANGED tables PROVE CatalogInv'
<1> USE DEF CatalogInv
<1>1. UNCHANGED <<boards, count, colls, members, refs>>
  BY DEF tables
<1>2. /\ lock' \in [CollIds -> Requests \cup {None}]
      /\ req' \in [Requests -> {NoRequest} \cup Busy]
      /\ RequestsResolved' /\ RowsLocked'
  BY <1>1, EndStep
<1>3. CatalogTypeOK'
  BY <1>1, <1>2 DEF CatalogTypeOK
<1>4. PinsOwnVersion' /\ MembershipsAreLive'
  BY <1>1 DEF PinsOwnVersion, MembershipsAreLive, Ref, Board, Coll
<1> QED
  BY <1>2, <1>3, <1>4

\* A request that is not idle and its parts.
LEMMA BusyRequest ==
    ASSUME CatalogInv, NEW r \in Requests, req[r].pc # "idle"
    PROVE  req[r] \in Busy /\ Resolved(req[r])
  BY NoRequestIsNotBusy DEF CatalogInv, CatalogTypeOK, RequestsResolved

LEMMA ResolveCollectionStep ==
    ASSUME CatalogInv, NEW r \in Requests, ResolveCollection(r) PROVE CatalogInv'
<1> USE DEF CatalogInv
<1>1. UNCHANGED tables /\ UNCHANGED <<boards, count, colls, members, refs>>
  BY DEF ResolveCollection, tables
<1>2. CASE End(r)
  BY <1>1, <1>2, EndOnlyStep
<1>3. ASSUME NEW c \in CollIds,
             Coll(c),
             req' = [req EXCEPT ![r].coll = c,
                           ![r].row = IF req[r].op = "patch" THEN colls[c] ELSE None,
                           ![r].pc = IF req[r].op \in {"add", "remove"} THEN "board" ELSE "write"],
             IF req[r].op = "patch" THEN LockToPatch(r, c) ELSE lock' = lock
      PROVE  CatalogInv'
  <2> DEFINE row == IF req[r].op = "patch" THEN colls[c] ELSE None
             pc  == IF req[r].op \in {"add", "remove"} THEN "board" ELSE "write"
             q   == [req[r] EXCEPT !.coll = c, !.row = row, !.pc = pc]
  <2>1. req[r].pc = "coll"
    BY DEF ResolveCollection
  <2>2. req[r] \in Busy /\ Resolved(req[r])
    BY <2>1, BusyRequest
  <2>3. req' = [req EXCEPT ![r] = q]
    BY <1>3 DEF CatalogTypeOK
  <2>4. colls[c] \in CollRow
    BY <1>3 DEF CatalogTypeOK, Coll
  <2>5. q \in Busy
    <3>1. row \in CollRow \cup {None} /\ pc \in {"board", "write"}
      BY <2>4
    <3> HIDE DEF row, pc
    <3> QED
      BY <2>2, <3>1 DEF Busy
  <2>6. /\ q.coll = c /\ q.op = req[r].op /\ q.pin = req[r].pin /\ q.board = req[r].board
        /\ q.patch = req[r].patch
        /\ q.row = IF req[r].op = "patch" THEN colls[c] ELSE None
        /\ q.pc = IF req[r].op \in {"add", "remove"} THEN "board" ELSE "write"
    BY <2>2 DEF Busy
  <2>7. req[r].op \in {"add", "remove", "patch"} /\ req[r].pin = None
    BY <2>1, <2>2 DEF Resolved
  <2>8. Resolved(q)
    BY <2>2, <2>6, <2>7 DEF Resolved
  <2>9. /\ lock' \in [CollIds -> Requests \cup {None}]
        /\ \A d \in CollIds : lock[d] \in Requests \ {r} => lock'[d] = lock[d]
        /\ req[r].op = "patch" => lock'[c] = r
    BY <1>3, CatalogBounds DEF LockToPatch, CatalogTypeOK
  <2>10. req' \in [Requests -> {NoRequest} \cup Busy] /\ RequestsResolved' /\ RowsLocked'
    <3>1. q.pc = "write" /\ q.op = "patch" =>
             lock'[q.coll] = r /\ colls'[q.coll] \notin Marks /\ colls'[q.coll] = q.row
      BY <1>1, <1>3, <2>6, <2>9 DEF Marks, Coll
    <3> HIDE DEF q
    <3> QED
      BY <1>1, <2>3, <2>5, <2>8, <2>9, <3>1, RequestStep
  <2>11. CatalogTypeOK'
    BY <1>1, <2>9, <2>10 DEF CatalogTypeOK
  <2>12. PinsOwnVersion' /\ MembershipsAreLive'
    BY <1>1 DEF PinsOwnVersion, MembershipsAreLive, Ref, Board, Coll
  <2> QED
    BY <2>10, <2>11, <2>12
<1> QED
  BY <1>2, <1>3 DEF ResolveCollection

LEMMA ResolveBoardStep ==
    ASSUME CatalogInv, NEW r \in Requests, ResolveBoard(r) PROVE CatalogInv'
<1> USE DEF CatalogInv
<1>1. UNCHANGED tables /\ UNCHANGED <<boards, count, colls, members, refs>>
  BY DEF ResolveBoard, tables
<1>2. CASE End(r)
  BY <1>1, <1>2, EndOnlyStep
<1>3. ASSUME NEW b \in BoardIds,
             req' = [req EXCEPT ![r].board = b,
                           ![r].pc = IF req[r].op = "pin" /\ req[r].number > 0
                                     THEN "version" ELSE "write"],
             UNCHANGED lock
      PROVE  CatalogInv'
  <2> DEFINE pc == IF req[r].op = "pin" /\ req[r].number > 0 THEN "version" ELSE "write"
             q  == [req[r] EXCEPT !.board = b, !.pc = pc]
  <2>1. req[r].pc = "board"
    BY DEF ResolveBoard
  <2>2. req[r] \in Busy /\ Resolved(req[r])
    BY <2>1, BusyRequest
  <2>3. req' = [req EXCEPT ![r] = q]
    BY <1>3 DEF CatalogTypeOK
  <2>4. pc \in {"version", "write"} /\ (pc = "version" => req[r].op = "pin")
    OBVIOUS
  <2> HIDE DEF pc
  <2>5. q \in Busy
    BY <2>2, <2>4 DEF Busy
  <2>6. /\ q.board = b /\ q.op = req[r].op /\ q.pin = req[r].pin /\ q.coll = req[r].coll
        /\ q.patch = req[r].patch /\ q.pc = pc
    BY <2>2 DEF Busy
  <2>7. /\ req[r].op \in Op /\ req[r].op # "patch" /\ req[r].pin = None
        /\ req[r].op \in {"add", "remove"} => req[r].coll \in CollIds
    BY <2>1, <2>2 DEF Resolved, Busy
  <2>8. Resolved(q) /\ ~(q.pc = "write" /\ q.op = "patch")
    BY <2>4, <2>6, <2>7 DEF Resolved
  <2> HIDE DEF q
  <2>9. req' \in [Requests -> {NoRequest} \cup Busy] /\ RequestsResolved' /\ RowsLocked'
    BY <1>1, <1>3, <2>3, <2>5, <2>8, RequestStep
  <2>10. CatalogTypeOK'
    BY <1>1, <1>3, <2>9 DEF CatalogTypeOK
  <2>11. PinsOwnVersion' /\ MembershipsAreLive'
    BY <1>1 DEF PinsOwnVersion, MembershipsAreLive, Ref, Board, Coll
  <2> QED
    BY <2>9, <2>10, <2>11
<1> QED
  BY <1>2, <1>3 DEF ResolveBoard

LEMMA ResolveVersionStep ==
    ASSUME CatalogInv, NEW r \in Requests, ResolveVersion(r) PROVE CatalogInv'
<1> USE DEF CatalogInv
<1>1. UNCHANGED tables /\ UNCHANGED <<boards, count, colls, members, refs>>
  BY DEF ResolveVersion, tables
<1>2. CASE End(r)
  BY <1>1, <1>2, EndOnlyStep
<1>3. ASSUME NEW v \in VersionNumbered(req[r].board, req[r].number),
             req' = [req EXCEPT ![r].pin = v, ![r].pc = "write"],
             UNCHANGED lock
      PROVE  CatalogInv'
  <2> DEFINE q == [req[r] EXCEPT !.pin = v, !.pc = "write"]
  <2>1. req[r].pc = "version"
    BY DEF ResolveVersion
  <2>2. req[r] \in Busy /\ Resolved(req[r])
    BY <2>1, BusyRequest
  <2>3. req' = [req EXCEPT ![r] = q]
    BY <1>3 DEF CatalogTypeOK
  <2>4. v \in Version /\ v[1] = req[r].board
    BY <1>3 DEF VersionNumbered
  <2>5. q \in Busy
    BY <2>2, <2>4 DEF Busy
  <2>6. /\ q.board = req[r].board /\ q.op = req[r].op /\ q.pin = v /\ q.coll = req[r].coll
        /\ q.patch = req[r].patch /\ q.pc = "write"
    BY <2>2 DEF Busy
  <2>7. req[r].op = "pin" /\ req[r].board \in BoardIds
    BY <2>1, <2>2 DEF Resolved
  <2>8. Resolved(q) /\ ~(q.pc = "write" /\ q.op = "patch")
    BY <2>4, <2>6, <2>7 DEF Resolved
  <2> HIDE DEF q
  <2>9. req' \in [Requests -> {NoRequest} \cup Busy] /\ RequestsResolved' /\ RowsLocked'
    BY <1>1, <1>3, <2>3, <2>5, <2>8, RequestStep
  <2>10. CatalogTypeOK'
    BY <1>1, <1>3, <2>9 DEF CatalogTypeOK
  <2>11. PinsOwnVersion' /\ MembershipsAreLive'
    BY <1>1 DEF PinsOwnVersion, MembershipsAreLive, Ref, Board, Coll
  <2> QED
    BY <2>9, <2>10, <2>11
<1> QED
  BY <1>2, <1>3 DEF ResolveVersion

-----------------------------------------------------------------------------
LEMMA InsertReferenceStep ==
    ASSUME CatalogInv, NEW r \in Requests, InsertReference(r) PROVE CatalogInv'
<1> USE DEF CatalogInv
<1> DEFINE q == req[r]
<1>1. q.pc = "write" /\ q.op = "pin" /\ End(r) /\ UNCHANGED <<boards, count, colls, members>>
  BY DEF InsertReference
<1>2. /\ lock' \in [CollIds -> Requests \cup {None}]
      /\ req' \in [Requests -> {NoRequest} \cup Busy]
      /\ RequestsResolved' /\ RowsLocked'
  BY <1>1, EndStep
<1>3. MembershipsAreLive'
  BY <1>1 DEF MembershipsAreLive, Coll, Board
<1>4. CASE UNCHANGED refs
  <2>1. CatalogTypeOK'
    BY <1>1, <1>2, <1>4 DEF CatalogTypeOK
  <2>2. PinsOwnVersion'
    BY <1>1, <1>4 DEF PinsOwnVersion, Ref, Board
  <2> QED
    BY <1>2, <1>3, <2>1, <2>2
<1>5. ASSUME Board(q.board), q.pin # None => q.pin[2] <= count[q.pin[1]],
             NEW i \in RefIds,
             refs' = [refs EXCEPT ![i] = [board |-> q.board, pin |-> q.pin]]
      PROVE  CatalogInv'
  <2>1. q \in Busy /\ Resolved(q)
    BY <1>1, BusyRequest
  <2>2. q.board \in BoardIds /\ q.pin \in Version \cup {None} /\ (q.pin # None => q.pin[1] = q.board)
    BY <1>1, <2>1 DEF Resolved, Busy
  <2>3. [board |-> q.board, pin |-> q.pin] \in RefRow
    BY <2>2 DEF RefRow
  <2>4. CatalogTypeOK'
    BY <1>1, <1>2, <1>5, <2>3 DEF CatalogTypeOK
  <2>5. PinsOwnVersion'
    <3> SUFFICES ASSUME NEW k \in RefIds, refs'[k] \notin {None, Gone}
                 PROVE  /\ boards[refs'[k].board] \notin {None, Gone}
                        /\ refs'[k].pin # None =>
                              refs'[k].pin[1] = refs'[k].board /\ refs'[k].pin[2] <= count[refs'[k].board]
      BY <1>1 DEF PinsOwnVersion, Ref, Board
    <3>1. CASE k = i
      <4>1. refs'[k].board = q.board /\ refs'[k].pin = q.pin
        BY <1>5, <3>1 DEF CatalogTypeOK
      <4> QED
        BY <1>5, <2>2, <4>1 DEF Board
    <3>2. CASE k # i
      <4>1. refs'[k] = refs[k]
        BY <1>5, <3>2 DEF CatalogTypeOK
      <4> QED
        BY <4>1 DEF PinsOwnVersion, Ref, Board
    <3> QED
      BY <3>1, <3>2
  <2> QED
    BY <1>2, <1>3, <2>4, <2>5
<1> QED
  BY <1>4, <1>5 DEF InsertReference

LEMMA DeleteReferenceStep ==
    ASSUME CatalogInv, NEW r \in Requests, DeleteReference(r) PROVE CatalogInv'
<1> USE DEF CatalogInv
<1>1. /\ refs' = [i \in RefIds |-> IF IsOfBoard(req[r], i) THEN Gone ELSE refs[i]]
      /\ End(r) /\ UNCHANGED <<boards, count, colls, members>>
  BY DEF DeleteReference
<1>2. /\ lock' \in [CollIds -> Requests \cup {None}]
      /\ req' \in [Requests -> {NoRequest} \cup Busy]
      /\ RequestsResolved' /\ RowsLocked'
  BY <1>1, EndStep
<1>3. \A i \in RefIds : refs'[i] = Gone \/ refs'[i] = refs[i]
  BY <1>1
<1>4. CatalogTypeOK'
  <2>1. refs' \in [RefIds -> RefRow \cup {None, Gone}]
    BY <1>1, <1>3 DEF CatalogTypeOK
  <2> QED
    BY <1>1, <1>2, <2>1 DEF CatalogTypeOK
<1>5. PinsOwnVersion'
  BY <1>1, <1>3 DEF PinsOwnVersion, Ref, Board
<1>6. MembershipsAreLive'
  BY <1>1 DEF MembershipsAreLive, Coll, Board
<1> QED
  BY <1>2, <1>4, <1>5, <1>6

LEMMA InsertMembershipStep ==
    ASSUME CatalogInv, NEW r \in Requests, InsertMembership(r) PROVE CatalogInv'
<1> USE DEF CatalogInv
<1> DEFINE m == <<req[r].coll, req[r].board>>
<1>1. /\ req[r].pc = "write" /\ req[r].op = "add"
      /\ End(r) /\ UNCHANGED <<boards, count, colls, refs>>
  BY DEF InsertMembership
<1>2. /\ lock' \in [CollIds -> Requests \cup {None}]
      /\ req' \in [Requests -> {NoRequest} \cup Busy]
      /\ RequestsResolved' /\ RowsLocked'
  BY <1>1, EndStep
<1>3. \/ members' = members
      \/ members' = members \cup {m} /\ Coll(req[r].coll) /\ Board(req[r].board)
  BY DEF InsertMembership, MembershipAllowed
<1>4. req[r].coll \in CollIds /\ req[r].board \in BoardIds
  BY <1>1, BusyRequest DEF Resolved
<1>5. CatalogTypeOK'
  BY <1>1, <1>2, <1>3, <1>4 DEF CatalogTypeOK
<1>6. PinsOwnVersion'
  BY <1>1 DEF PinsOwnVersion, Ref, Board
<1>7. MembershipsAreLive'
  BY <1>1, <1>3 DEF MembershipsAreLive, Coll, Board
<1> QED
  BY <1>2, <1>5, <1>6, <1>7

LEMMA DeleteMembershipStep ==
    ASSUME CatalogInv, NEW r \in Requests, DeleteMembership(r) PROVE CatalogInv'
<1> USE DEF CatalogInv
<1>1. members' \subseteq members /\ End(r) /\ UNCHANGED <<boards, count, colls, refs>>
  BY DEF DeleteMembership
<1>2. /\ lock' \in [CollIds -> Requests \cup {None}]
      /\ req' \in [Requests -> {NoRequest} \cup Busy]
      /\ RequestsResolved' /\ RowsLocked'
  BY <1>1, EndStep
<1>3. CatalogTypeOK'
  BY <1>1, <1>2 DEF CatalogTypeOK
<1>4. PinsOwnVersion' /\ MembershipsAreLive'
  BY <1>1 DEF PinsOwnVersion, MembershipsAreLive, Ref, Board, Coll
<1> QED
  BY <1>2, <1>3, <1>4

LEMMA PatchedRow ==
    ASSUME NEW row \in CollRow, NEW p \in Patch
    PROVE  /\ Patched(row, p) \in CollRow
           /\ p.name = Absent => Patched(row, p).name = row.name
           /\ p.metadata = Absent => Patched(row, p).metadata = row.metadata
  BY DEF Patched, CollRow, Patch

\* What a PATCH writes: its own row, which it has locked.
LEMMA PatchWrites ==
    ASSUME CatalogInv, NEW r \in Requests, PatchCollection(r)
    PROVE  /\ req[r].coll \in CollIds /\ lock[req[r].coll] = r
           /\ colls[req[r].coll] \in CollRow /\ req[r].patch \in Patch
           /\ colls' = [colls EXCEPT ![req[r].coll] = Patched(colls[req[r].coll], req[r].patch)]
<1>1. req[r].pc = "write" /\ req[r].op = "patch"
  BY DEF PatchCollection
<1>2. req[r].coll \in CollIds /\ req[r].patch \in Patch
  BY <1>1, BusyRequest DEF Resolved
<1>3. lock[req[r].coll] = r /\ Coll(req[r].coll) /\ colls[req[r].coll] = req[r].row
  BY <1>1 DEF CatalogInv, RowsLocked
<1>4. colls[req[r].coll] \in CollRow
  BY <1>2, <1>3 DEF CatalogInv, CatalogTypeOK, Coll
<1> QED
  BY <1>2, <1>3, <1>4 DEF PatchCollection

LEMMA PatchCollectionStep ==
    ASSUME CatalogInv, NEW r \in Requests, PatchCollection(r) PROVE CatalogInv'
<1> USE DEF CatalogInv
<1> DEFINE c == req[r].coll
           row == Patched(colls[c], req[r].patch)
<1>1. c \in CollIds /\ lock[c] = r /\ row \in CollRow /\ colls' = [colls EXCEPT ![c] = row]
  BY PatchWrites, PatchedRow
<1>2. End(r) /\ UNCHANGED <<boards, count, members, refs>>
  BY DEF PatchCollection
<1> HIDE DEF c, row
<1>3. \A d \in CollIds : lock[d] \in Requests \ {r} => colls'[d] = colls[d]
  BY <1>1 DEF CatalogTypeOK
<1>4. /\ lock' \in [CollIds -> Requests \cup {None}]
      /\ req' \in [Requests -> {NoRequest} \cup Busy]
      /\ RequestsResolved' /\ RowsLocked'
  BY <1>2, <1>3, EndStep
<1>5. CatalogTypeOK'
  BY <1>1, <1>2, <1>4 DEF CatalogTypeOK
<1>6. PinsOwnVersion'
  BY <1>2 DEF PinsOwnVersion, Ref, Board
<1>7. \A d \in CollIds : Coll(d) => colls'[d] \notin {None, Gone}
  BY <1>1, RowsAreNotMarks DEF CatalogTypeOK, Coll
<1>8. MembershipsAreLive'
  BY <1>2, <1>7 DEF MembershipsAreLive, CatalogTypeOK, Coll, Board
<1> QED
  BY <1>4, <1>5, <1>6, <1>8

-----------------------------------------------------------------------------
LEMMA StepPreserves == CatalogInv /\ [CatalogNext]_catalogVars => CatalogInv'
<1> SUFFICES ASSUME CatalogInv, [CatalogNext]_catalogVars PROVE CatalogInv'
  OBVIOUS
<1>1. ASSUME NEW r \in Requests, Write(r) PROVE CatalogInv'
  BY <1>1, InsertReferenceStep, DeleteReferenceStep, InsertMembershipStep,
     DeleteMembershipStep, PatchCollectionStep DEF Write
<1>2. ASSUME NEW r \in Requests, Cancel(r) PROVE CatalogInv'
  BY <1>2, EndOnlyStep DEF Cancel
<1>3. CASE UNCHANGED catalogVars
  <2>1. UNCHANGED <<boards, count, colls, members, refs, lock, req>>
    BY <1>3 DEF catalogVars, tables
  <2>2. CatalogTypeOK'
    BY <2>1 DEF CatalogInv, CatalogTypeOK
  <2>3. PinsOwnVersion' /\ MembershipsAreLive'
    BY <2>1 DEF CatalogInv, PinsOwnVersion, MembershipsAreLive, Ref, Board, Coll
  <2>4. RequestsResolved' /\ RowsLocked'
    BY <2>1, TableStep DEF CatalogInv
  <2> QED
    BY <2>2, <2>3, <2>4 DEF CatalogInv
<1> QED
  BY <1>1, <1>2, <1>3, CreateBoardStep, CreateVersionStep, DeleteBoardStep,
     CreateCollectionStep, DeleteCollectionStep, StartStep, ResolveCollectionStep,
     ResolveBoardStep, ResolveVersionStep DEF CatalogNext

(***************************************************************************)
(* The invariant holds in every reachable state, however many requests on  *)
(* collections and references interleave (collections.rs, references.rs).  *)
(***************************************************************************)
THEOREM CatalogInvariance == CatalogSpec => []CatalogInv
  BY CatalogInitial, StepPreserves, PTL DEF CatalogSpec

(***************************************************************************)
(* The rows of collections, references and memberships, and what requests  *)
(* have read of them, keep their types.                                    *)
(***************************************************************************)
THEOREM CatalogTypeCorrect == CatalogSpec => []CatalogTypeOK
<1>1. CatalogInv => CatalogTypeOK
  BY DEF CatalogInv
<1> QED
  BY <1>1, CatalogInvariance, PTL

(***************************************************************************)
(* A reference is of a board that exists, and pins a version of it that    *)
(* exists (references::create, ON DELETE CASCADE).                         *)
(***************************************************************************)
THEOREM PinsAreOwn == CatalogSpec => []PinsOwnVersion
<1>1. CatalogInv => PinsOwnVersion
  BY DEF CatalogInv
<1> QED
  BY <1>1, CatalogInvariance, PTL

(***************************************************************************)
(* The boards of a collection exist, and so does the collection            *)
(* (collections::add_board, ON DELETE CASCADE).                            *)
(***************************************************************************)
THEOREM MembersAreLive == CatalogSpec => []MembershipsAreLive
<1>1. CatalogInv => MembershipsAreLive
  BY DEF CatalogInv
<1> QED
  BY <1>1, CatalogInvariance, PTL

(***************************************************************************)
(* A PATCH of a collection changes only the fields it mentions, of the row *)
(* as it is when the PATCH writes (collections::update, FOR UPDATE).       *)
(***************************************************************************)
THEOREM PatchesAreKept == CatalogSpec => CollectionPatchesKept
<1> DEFINE Kept == \A r \in Requests : PatchCollection(r) =>
                       \A c \in CollIds : Coll(c) =>
                           /\ req[r].patch.name = Absent => colls'[c].name = colls[c].name
                           /\ req[r].patch.metadata = Absent => colls'[c].metadata = colls[c].metadata
<1>1. CatalogInv /\ [CatalogNext]_catalogVars => [Kept]_catalogVars
  <2> SUFFICES ASSUME CatalogInv, NEW r \in Requests, PatchCollection(r),
                      NEW c \in CollIds, Coll(c)
               PROVE  /\ req[r].patch.name = Absent => colls'[c].name = colls[c].name
                      /\ req[r].patch.metadata = Absent => colls'[c].metadata = colls[c].metadata
    OBVIOUS
  <2> DEFINE own == req[r].coll
  <2>1. /\ own \in CollIds /\ colls[own] \in CollRow /\ req[r].patch \in Patch
        /\ colls' = [colls EXCEPT ![own] = Patched(colls[own], req[r].patch)]
    BY PatchWrites
  <2> HIDE DEF own
  <2>2. CASE c # own
    <3>1. colls'[c] = colls[c]
      BY <2>1, <2>2 DEF CatalogInv, CatalogTypeOK
    <3> QED
      BY <3>1
  <2>3. CASE c = own
    <3>1. colls'[c] = Patched(colls[c], req[r].patch)
      BY <2>1, <2>3 DEF CatalogInv, CatalogTypeOK
    <3> QED
      BY <2>1, <2>3, <3>1, PatchedRow
  <2> QED
    BY <2>2, <2>3
<1> QED
  BY <1>1, CatalogInvariance, PTL DEF CatalogSpec, CollectionPatchesKept
=============================================================================

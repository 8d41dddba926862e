------------------------------ MODULE PushSync ------------------------------
(***************************************************************************)
(* POST /webhooks/github: a push to the configured branch is answered with *)
(* 202 at once, and a background task then pulls the repository (git fetch *)
(* and git reset --hard, two child processes), syncs the database from the *)
(* files and announces the new version.  The tasks of different pushes are *)
(* serialised by a mutex.                                                  *)
(*                                                                         *)
(* A push is a number: the commit it makes the head of the branch.  GitHub *)
(* may deliver the pushes late, out of order, twice or never.  The task    *)
(* gives a git command 60 seconds; when they are over it stops waiting,    *)
(* but dropping tokio's Command::output() does not kill the child.         *)
(* Sync models what the sync does to one board: here it is one step.       *)
(* The files of a board that every commit has are followed; a sync that    *)
(* fails on them is no error of the task, which still reports completion.  *)
(***************************************************************************)
EXTENDS Naturals, Sequences, FiniteSets, SequencesExt

CONSTANTS
    Tasks,        \* background tasks, one per accepted delivery
    PushBound     \* bound: pushes to the branch

ASSUME PushAssumption == PushBound \in Nat

VARIABLES
    origin,     \* the head of the branch at GitHub
    tracking,   \* origin/<branch> in the local clone
    tree,       \* the commit whose files are in the working tree
    git,        \* the git process each task has started, while it runs
    mutex,      \* sync_mutex: the tasks in the order they ask, the first holds it
    task,       \* per task: where it is, the push it is for, the files it has read, its version,
                \* and whether the board was missed, which is only logged
    versions,   \* the versions of a board: the commit synced, the push whose message is the note
    announced,  \* the version numbers announced, in the order of the events
    hung        \* has a git command taken longer than its timeout? (not read)

clone == <<tracking, tree>>
vars  == <<origin, clone, git, mutex, task, versions, announced, hung>>

NoGit == [cmd |-> "none", commit |-> 0]

At(t, pc) == task[t].pc = pc

HasEnded(t) == task[t].pc \in {"done", "failed"}

(* Mutant: the git commands do not wait for their turn.                    *)
QueuedForMutex(t) == t \in {mutex[i] : i \in DOMAIN mutex}

HoldsMutex(t) == mutex # << >> /\ Head(mutex) = t

(* The guard is dropped when run_sync returns.                             *)
Release(t) == mutex' = RemoveFirst(mutex, t)

Goto(t, pc) == task' = [task EXCEPT ![t].pc = pc]

(* Mutant: an early return that keeps the guard.                           *)
FailHoldingMutex(t) == Goto(t, "failed") /\ UNCHANGED mutex

(* run_sync returns an error, which is logged.                             *)
Fail(t) == Goto(t, "failed") /\ Release(t)

Init ==
    /\ origin = 0 /\ tracking = 0 /\ tree = 0
    /\ git = [t \in Tasks |-> NoGit]
    /\ mutex = << >>
    /\ task = [t \in Tasks |-> [pc |-> "none", push |-> 0, files |-> 0, version |-> 0,
                              missed |-> FALSE]]
    /\ versions = << >> /\ announced = << >> /\ hung = FALSE

Push ==
    /\ origin < PushBound
    /\ origin' = origin + 1
    /\ UNCHANGED <<clone, git, mutex, task, versions, announced, hung>>

(* The handler answers a delivery of any push made so far and spawns the task. *)
Accept(t) ==
    /\ At(t, "none")
    /\ \E push \in 1..origin :
          task' = [task EXCEPT ![t].pc = "spawned", ![t].push = push]
    /\ UNCHANGED <<origin, clone, git, mutex, versions, announced, hung>>

(* The task asks for the mutex, which is fair: first come, first served.   *)
Lock(t) ==
    /\ At(t, "spawned")
    /\ Goto(t, "locking")
    /\ mutex' = Append(mutex, t)
    /\ UNCHANGED <<origin, clone, git, versions, announced, hung>>

StartFetch(t) ==
    /\ At(t, "locking") /\ HoldsMutex(t)
    /\ Goto(t, "fetch")
    /\ git' = [git EXCEPT ![t] = [cmd |-> "fetch", commit |-> origin]]
    /\ UNCHANGED <<origin, clone, mutex, versions, announced, hung>>

StartReset(t) ==
    /\ At(t, "fetched")
    /\ Goto(t, "reset")
    /\ git' = [git EXCEPT ![t] = [cmd |-> "reset", commit |-> tracking]]
    /\ UNCHANGED <<origin, clone, mutex, versions, announced, hung>>

-----------------------------------------------------------------------------
(* The git processes.  Nobody reads the exit of one whose task gave up.    *)

GitExits(t) == git' = [git EXCEPT ![t] = NoGit]

Awaited(t) == task[t].pc = git[t].cmd

(* fetch stores the head it was told, unless another one was stored meanwhile. *)
FetchEnds(t) ==
    /\ git[t].cmd = "fetch" /\ git[t].commit >= tracking
    /\ tracking' = git[t].commit
    /\ GitExits(t)
    /\ IF Awaited(t) THEN Goto(t, "fetched") ELSE UNCHANGED task
    /\ UNCHANGED <<origin, tree, mutex, versions, announced, hung>>

(* reset checks out the commit origin/<branch> named when it started.      *)
ResetEnds(t) ==
    /\ git[t].cmd = "reset"
    /\ tree' = git[t].commit
    /\ GitExits(t)
    /\ IF Awaited(t) THEN Goto(t, "read") ELSE UNCHANGED task
    /\ UNCHANGED <<origin, tracking, mutex, versions, announced, hung>>

(* Mutant: a fetch that fails is logged, and the task goes on.             *)
FetchFailureIgnored(t) ==
    /\ git[t].cmd # "none"
    /\ GitExits(t)
    /\ IF Awaited(t)
       THEN /\ Goto(t, IF git[t].cmd = "fetch" THEN "fetched" ELSE "failed")
            /\ IF git[t].cmd = "fetch" THEN UNCHANGED mutex ELSE Release(t)
       ELSE UNCHANGED <<mutex, task>>
    /\ UNCHANGED <<origin, clone, versions, announced, hung>>

(* The process cannot be started or exits with an error (no network, a lock file). *)
GitFails(t) ==
    /\ git[t].cmd # "none"
    /\ GitExits(t)
    /\ IF Awaited(t) THEN Fail(t) ELSE UNCHANGED <<mutex, task>>
    /\ UNCHANGED <<origin, clone, versions, announced, hung>>

(* The 60 seconds are over: the task ends, and its git process goes on.    *)
GitTimesOut(t) ==
    /\ task[t].pc \in {"fetch", "reset"}
    /\ Fail(t)
    /\ hung' = TRUE
    /\ UNCHANGED <<origin, clone, git, versions, announced>>

-----------------------------------------------------------------------------
(* sync_dir, and what run_sync does with its results.                      *)

ParseDirectory(t) ==
    /\ At(t, "read")
    /\ task' = [task EXCEPT ![t].pc = "sync", ![t].files = tree]
    /\ UNCHANGED <<origin, clone, git, mutex, versions, announced, hung>>

Changed(t) == ~(versions # << >> /\ Last(versions).commit = task[t].files)

(* What versions::create is given.                                         *)
VersionOf(t) == [commit |-> task[t].files, note |-> task[t].push]

(* The number the version gets in the database.                            *)
NextNumber == Len(versions) + 1

(* Mutant: the guard does not cover the announcement.                      *)
SyncBoardsAndRelease(t) ==
    /\ At(t, "sync")
    /\ \/ /\ Changed(t)
          /\ versions' = Append(versions, VersionOf(t))
          /\ task' = [task EXCEPT ![t].pc = "announce", ![t].version = NextNumber]
          /\ Release(t)
       \/ /\ ~Changed(t)
          /\ Goto(t, "done") /\ Release(t)
          /\ UNCHANGED versions
    /\ UNCHANGED <<origin, clone, git, announced, hung>>

(* Created or Updated if the files differ from the latest version, else NoChange. *)
SyncBoards(t) ==
    /\ At(t, "sync")
    /\ \/ /\ Changed(t)
          /\ versions' = Append(versions, VersionOf(t))
          /\ task' = [task EXCEPT ![t].pc = "announce", ![t].version = NextNumber]
          /\ UNCHANGED mutex
       \/ /\ ~Changed(t)
          /\ Goto(t, "done") /\ Release(t)
          /\ UNCHANGED versions
    /\ UNCHANGED <<origin, clone, git, announced, hung>>

(* boards_dir is not a directory or cannot be listed: an error of the task. *)
SyncFails(t) ==
    /\ At(t, "read")
    /\ Fail(t)
    /\ UNCHANGED <<origin, clone, git, versions, announced, hung>>

(* The directory of the board does not parse, and the sync goes without    *)
(* it; or a statement of its sync fails, where the COMMIT of the version   *)
(* may have taken effect.  run_sync passes over both and returns Ok.       *)
BoardFails(t) ==
    /\ task[t].pc \in {"read", "sync"}
    /\ \/ UNCHANGED versions
       \/ /\ At(t, "sync") /\ Changed(t)
          /\ versions' = Append(versions, VersionOf(t))
    /\ task' = [task EXCEPT ![t].pc = "done", ![t].missed = TRUE]
    /\ Release(t)
    /\ UNCHANGED <<origin, clone, git, announced, hung>>

(* The outbound webhooks are fired and the event published.                *)
Announce(t) ==
    /\ At(t, "announce")
    /\ announced' = Append(announced, task[t].version)
    /\ Goto(t, "done") /\ Release(t)
    /\ UNCHANGED <<origin, clone, git, versions, hung>>

Step(t) ==
    \/ Lock(t) \/ StartFetch(t) \/ StartReset(t)
    \/ FetchEnds(t) \/ ResetEnds(t) \/ GitFails(t) \/ GitTimesOut(t)
    \/ ParseDirectory(t) \/ SyncBoards(t) \/ SyncFails(t) \/ BoardFails(t)
    \/ Announce(t)

(* The deliveries are used up and every process has ended.                 *)
Quiet ==
    /\ origin = PushBound
    /\ \A t \in Tasks : HasEnded(t) /\ git[t] = NoGit
    /\ UNCHANGED vars

Next == Push \/ Quiet \/ \E t \in Tasks : Accept(t) \/ Step(t)

(* A spawned task is polled until it ends, and every command it waits for  *)
(* ends or times out; nothing forces GitHub to deliver, or a git process   *)
(* nobody waits for to end.                                                *)
Spec == Init /\ [][Next]_vars /\ \A t \in Tasks : WF_vars(~HasEnded(t) /\ Step(t))

-----------------------------------------------------------------------------
(* While git answers in time, pushes synced in any order of delivery never *)
(* bring the database back to older files: every version is of a later     *)
(* commit than the one before it (the mutex around fetch, reset and sync). *)
DatabaseAdvances ==
    ~hung => \A i, j \in DOMAIN versions : i < j => versions[i].commit < versions[j].commit

(* Events are published before the mutex is released, so subscribers hear  *)
(* of the versions of pushes, which all exist, in the order of their       *)
(* numbers.                                                                *)
AnnouncedInOrder ==
    \A j \in DOMAIN announced :
        /\ announced[j] \in DOMAIN versions
        /\ \A i \in 1 .. j - 1 : announced[i] < announced[j]

(* While git answers in time, a task whose sync of the board did not fail  *)
(* ends with the database at its push or at a later one, whatever the      *)
(* others did.  "webhook sync completed" does not say as much: a board     *)
(* that was skipped or failed is a warning in the log, and the task        *)
(* reports completion all the same.                                        *)
PushIsSynced ==
    ~hung => \A t \in Tasks : At(t, "done") /\ ~task[t].missed =>
                versions # << >> /\ Last(versions).commit >= task[t].push

(* Every accepted push comes to an end: a failed or hanging git command    *)
(* does not keep the mutex from the tasks behind it.                       *)
EveryTaskEnds == \A t \in Tasks : At(t, "spawned") ~> HasEnded(t)
=============================================================================

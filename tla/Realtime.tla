------------------------------ MODULE Realtime ------------------------------
(***************************************************************************)
(* A realtime board: its scores live in Redis, in a sorted set and a hash  *)
(* of names that are keyed by the slug of the board, and a snapshot copies *)
(* them into a version in Postgres.  The two stores share no transaction.  *)
(*                                                                         *)
(* A handler is a request in progress.  Each action is one command to      *)
(* Redis (a MULTI block is one command) or one statement to Postgres; the  *)
(* statements of a snapshot between FOR UPDATE and COMMIT are grouped      *)
(* where the lock of the board row makes that possible.  A request may end *)
(* at any point: the client disconnects, or Redis or Postgres returns an   *)
(* error.  Store models what the statements themselves do.                 *)
(***************************************************************************)
EXTENDS Integers, Sequences, FiniteSets

CONSTANTS
    None,
    Handlers,     \* requests that may be in progress at the same time
    BoardIds,     \* primary keys of boards
    Slugs,        \* entry slugs
    Settings,     \* [realtime, clear]: what a board may be created with or patched to
    MaxVersions,  \* max_versions_per_board
    MaxEntries,   \* max_entries_per_version
    RevBound      \* bound: no score is submitted for an entry with this many

ASSUME LimitsAssumption ==
    /\ MaxVersions \in Nat \ {0}
    /\ MaxEntries \in Nat \ {0}
    /\ RevBound \in Nat

(* clear_on_snapshot requires realtime (boards.rs).                        *)
ASSUME SettingsAssumption ==
    \A s \in Settings : /\ s \in [realtime : BOOLEAN, clear : BOOLEAN]
                        /\ s.clear => s.realtime

BoardRows == [id : BoardIds, realtime : BOOLEAN, clear : BOOLEAN]

(* NULL is not a row, and not a request.                                   *)
ASSUME NullAssumption == None \notin BoardRows /\ None \notin Handlers

VARIABLES
    board,      \* the board row [id, realtime, clear] in Postgres, or None
    entries,    \* the slugs that have an entry row
    versions,   \* the versions, in version_number order: scores, cleared or not
    lockedBy,   \* the handler that holds FOR UPDATE on the board row, or None
    live,       \* Redis, {prefix}:board:{slug}:scores: a set of [slug, rev]
    names,      \* Redis, {prefix}:board:{slug}:entries: a set of slugs
    h,          \* per handler: where it is and what it has read
    issued,     \* submissions so far, per slug (no code reads it)
    owed,       \* the last submission of each slug to this board (no code reads it)
    dropped     \* scores that a request took from Redis and did not save (nor this)

postgres == <<board, entries, versions>>
redis    == <<live, names>>
ledger   == <<issued, owed, dropped>>
vars     == <<postgres, lockedBy, redis, h, ledger>>

(* temp is what the renamed keys hold, rows what the version will hold.    *)
Idle == [pc |-> "idle", seen |-> None, slug |-> None, temp |-> {}, rows |-> {}]

At(p, pc) == h[p].pc = pc

Goto(p, pc) == h' = [h EXCEPT ![p].pc = pc]

(* The request is answered and its transaction, if any, ends.              *)
End(p) ==
    /\ h' = [h EXCEPT ![p] = Idle]
    /\ lockedBy' = IF lockedBy = p THEN None ELSE lockedBy

(* The request fails: the scores it had renamed away are not put back, and *)
(* no code looks for their keys again.                                     *)
Abort(p) ==
    /\ End(p)
    /\ dropped' = dropped \cup (IF At(p, "sn_cleanup") THEN {} ELSE h[p].temp)
    /\ UNCHANGED <<postgres, redis, issued, owed>>

BoardThere(p) == board # None /\ board.id = h[p].seen.id

Begin(p, pc, slug) ==
    /\ h[p] = Idle
    /\ board # None
    /\ h' = [h EXCEPT ![p] = [Idle EXCEPT !.pc = pc, !.seen = board, !.slug = slug]]
    /\ UNCHANGED <<postgres, lockedBy, redis, ledger>>

-----------------------------------------------------------------------------
(* The board row and the entries.                                          *)

(* boards::create.  Whatever Redis holds under the slug stays there.       *)
CreateBoard ==
    /\ board = None
    /\ \E s \in Settings,
          id \in BoardIds \ {h[p].seen.id : p \in {q \in Handlers : h[q].seen # None}} :
         board' = [id |-> id, realtime |-> s.realtime, clear |-> s.clear]
    /\ UNCHANGED <<entries, versions, lockedBy, redis, h, ledger>>

(* boards::update, in one transaction.                                     *)
PatchBoard ==
    /\ board # None
    /\ lockedBy = None
    /\ \E s \in Settings :
         board' = [board EXCEPT !.realtime = s.realtime, !.clear = s.clear]
    /\ UNCHANGED <<entries, versions, lockedBy, redis, h, ledger>>

StartDelete(p) ==
    Begin(p, IF board # None /\ board.realtime THEN "del_redis" ELSE "del_row", None)

(* realtime::clear; the route ignores an error of it.                      *)
ClearRedis(p) ==
    /\ At(p, "del_redis")
    /\ \/ live' = {} /\ names' = {} /\ dropped' = dropped \cup live
       \/ UNCHANGED <<redis, dropped>>
    /\ Goto(p, "del_row")
    /\ UNCHANGED <<postgres, lockedBy, issued, owed>>

DeleteRow(p) ==
    /\ At(p, "del_row")
    /\ \/ board = None /\ Abort(p)
       \/ /\ board # None
          /\ lockedBy = None
          /\ board' = None /\ entries' = {} /\ versions' = << >>
          /\ owed' = {} /\ dropped' = {}
          /\ End(p)
          /\ UNCHANGED <<redis, issued>>

(* entries::delete: refused while a placement names the entry, and made to *)
(* wait by a snapshot that is inserting one.  It does not look at Redis.   *)
DeleteEntry ==
    \E slug \in entries :
        /\ \A i \in 1..Len(versions) : \A x \in versions[i].rows : x.slug # slug
        /\ \A p \in Handlers : \A x \in h[p].rows : x.slug # slug
        /\ entries' = entries \ {slug}
        /\ UNCHANGED <<board, versions, lockedBy, redis, h, ledger>>

-----------------------------------------------------------------------------
(* realtime::submit.                                                       *)

StartSubmit(p) ==
    /\ board # None /\ board.realtime
    /\ \E slug \in Slugs : issued[slug] < RevBound /\ Begin(p, "su_entry", slug)

(* A new entry row needs the key of the board row, which a snapshot locks. *)
UpsertEntry(p) ==
    /\ At(p, "su_entry")
    /\ \/ ~BoardThere(p) /\ Abort(p)
       \/ /\ BoardThere(p)
          /\ h[p].slug \in entries \/ lockedBy = None
          /\ entries' = entries \cup {h[p].slug}
          /\ Goto(p, "su_redis")
          /\ UNCHANGED <<board, versions, lockedBy, redis, ledger>>

Latest(scores, score) == {x \in scores : x.slug # score.slug} \cup {score}

(* MULTI ZADD HSET EXEC.  The keys are those of the slug: a submission for *)
(* a board that was deleted meanwhile counts for the one that replaced it. *)
WriteScore(p) ==
    /\ At(p, "su_redis")
    /\ LET score == [slug |-> h[p].slug, rev |-> issued[h[p].slug] + 1]
       IN  /\ live' = Latest(live, score)
           /\ names' = names \cup {score.slug}
           /\ issued' = [issued EXCEPT ![score.slug] = score.rev]
           /\ owed' = IF board # None THEN Latest(owed, score) ELSE owed
    /\ End(p)
    /\ UNCHANGED <<postgres, dropped>>

-----------------------------------------------------------------------------
(* realtime::snapshot.                                                     *)

StartSnapshot(p) ==
    /\ board # None /\ board.realtime
    /\ Begin(p, IF board.clear THEN "sn_exists" ELSE "sn_lock", None)

(* EXISTS scores                                                           *)
FindScores(p) ==
    /\ At(p, "sn_exists")
    /\ \/ live = {} /\ Abort(p)
       \/ /\ live # {}
          /\ Goto(p, "sn_names")
          /\ UNCHANGED <<postgres, lockedBy, redis, ledger>>

(* EXISTS entries                                                          *)
FindNames(p) ==
    /\ At(p, "sn_names")
    /\ Goto(p, IF names # {} THEN "sn_both" ELSE "sn_scores")
    /\ UNCHANGED <<postgres, lockedBy, redis, ledger>>

(* Mutant: the scores are copied and stay where they are.                  *)
TakeCopy(p) ==
    /\ h' = [h EXCEPT ![p].pc = "sn_lock", ![p].temp = live]
    /\ live' = live

TakeScores(p) ==
    /\ h' = [h EXCEPT ![p].pc = "sn_lock", ![p].temp = live]
    /\ live' = {}

(* MULTI RENAME RENAME EXEC.  Redis runs the second RENAME although the    *)
(* first failed, and the other way round.                                  *)
RenameBoth(p) ==
    /\ At(p, "sn_both")
    /\ \/ /\ live # {} /\ names # {}
          /\ TakeScores(p)
          /\ names' = {}
          /\ UNCHANGED <<postgres, lockedBy, ledger>>
       \/ /\ live = {} \/ names = {}
          /\ live' = {} /\ names' = {} /\ dropped' = dropped \cup live
          /\ End(p)
          /\ UNCHANGED <<postgres, issued, owed>>

RenameScores(p) ==
    /\ At(p, "sn_scores")
    /\ \/ live = {} /\ Abort(p)
       \/ /\ live # {}
          /\ TakeScores(p)
          /\ UNCHANGED <<postgres, lockedBy, names, ledger>>

(* Mutant: the row is read without FOR UPDATE.                             *)
ReadBoard(p) ==
    /\ At(p, "sn_lock")
    /\ \/ ~BoardThere(p) /\ Abort(p)
       \/ /\ BoardThere(p)
          /\ Goto(p, "sn_check")
          /\ UNCHANGED <<postgres, lockedBy, redis, ledger>>

LockBoard(p) ==
    /\ At(p, "sn_lock")
    /\ \/ ~BoardThere(p) /\ Abort(p)
       \/ /\ BoardThere(p)
          /\ lockedBy = None
          /\ lockedBy' = p
          /\ Goto(p, "sn_check")
          /\ UNCHANGED <<postgres, redis, ledger>>

CheckLimit(p) ==
    /\ At(p, "sn_check")
    /\ \/ Len(versions) >= MaxVersions /\ Abort(p)
       \/ /\ Len(versions) < MaxVersions
          /\ Goto(p, "sn_read")
          /\ UNCHANGED <<postgres, lockedBy, redis, ledger>>

(* ZREVRANGE; then every slug is looked up and gets a placement.           *)
ReadScores(p) ==
    /\ At(p, "sn_read")
    /\ LET read == IF h[p].seen.clear THEN h[p].temp ELSE live
           ok   == /\ read # {}
                   /\ Cardinality(read) <= MaxEntries
                   /\ \A x \in read : x.slug \in entries
       IN  \/ ~ok /\ Abort(p)
           \/ /\ ok
              /\ h' = [h EXCEPT ![p].pc = "sn_commit", ![p].rows = read]
              /\ UNCHANGED <<postgres, lockedBy, redis, ledger>>

CommitSnapshot(p) ==
    /\ At(p, "sn_commit")
    /\ versions' = Append(versions, [rows |-> h[p].rows, cleared |-> h[p].seen.clear])
    /\ h' = [h EXCEPT ![p].pc = "sn_cleanup", ![p].rows = {}]
    /\ lockedBy' = None
    /\ UNCHANGED <<board, entries, redis, ledger>>

(* Mutant: the cleanup deletes the working keys.                           *)
DeleteWorkingKeys(p) ==
    /\ At(p, "sn_cleanup")
    /\ live' = {} /\ names' = {}
    /\ End(p)
    /\ UNCHANGED <<postgres, ledger>>

(* delete_snap_keys                                                        *)
DeleteSnapKeys(p) ==
    /\ At(p, "sn_cleanup")
    /\ End(p)
    /\ UNCHANGED <<postgres, redis, ledger>>

Fail(p) == h[p] # Idle /\ Abort(p)

-----------------------------------------------------------------------------
Init ==
    /\ board = None /\ entries = {} /\ versions = << >> /\ lockedBy = None
    /\ live = {} /\ names = {}
    /\ h = [p \in Handlers |-> Idle]
    /\ issued = [s \in Slugs |-> 0] /\ owed = {} /\ dropped = {}

Delete(p) == StartDelete(p) \/ ClearRedis(p) \/ DeleteRow(p)

Submit(p) == StartSubmit(p) \/ UpsertEntry(p) \/ WriteScore(p)

Snapshot(p) ==
    \/ StartSnapshot(p) \/ FindScores(p) \/ FindNames(p) \/ RenameBoth(p) \/ RenameScores(p)
    \/ LockBoard(p) \/ CheckLimit(p) \/ ReadScores(p) \/ CommitSnapshot(p) \/ DeleteSnapKeys(p)

Next ==
    \/ CreateBoard \/ PatchBoard \/ DeleteEntry
    \/ \E p \in Handlers : Delete(p) \/ Submit(p) \/ Snapshot(p) \/ Fail(p)

Spec == Init /\ [][Next]_vars

(* Nothing is deleted, no client disconnects and no command fails.         *)
SteadyNext ==
    CreateBoard \/ PatchBoard \/ \E p \in Handlers : Submit(p) \/ Snapshot(p)

SteadySpec == Init /\ [][SteadyNext]_vars

-----------------------------------------------------------------------------
(* Properties.                                                             *)

Held == live \cup (UNION {h[p].temp : p \in Handlers}) \cup (UNION {versions[i].rows : i \in 1..Len(versions)})

(* Every score that a client has submitted to the board, and not replaced  *)
(* since, is in Redis, in the keys of a running snapshot, or in a version  *)
(* (README.md, "Scores accumulate in Redis until you trigger a snapshot,   *)
(* which freezes them into an immutable version").                         *)
NoScoreLost == owed \subseteq Held

(* The only scores that get lost are those that a failed or rejected       *)
(* snapshot, or a delete, took: a snapshot that succeeds loses none, even  *)
(* those that are submitted while it runs (realtime.rs, "isolates the      *)
(* snapshot from concurrent submit() calls").                              *)
NoSilentLoss == owed \subseteq Held \cup dropped

GoesBack(v, w) == \E x \in v.rows, y \in w.rows : x.slug = y.slug /\ x.rev > y.rev

(* Of two snapshots that left the scores in Redis the later one never      *)
(* holds an older score of an entry, whatever submissions, clearings and   *)
(* deletions come between (realtime.rs, "Lock the board row to serialize   *)
(* concurrent snapshots").                                                 *)
SnapshotsDoNotGoBack ==
    \A i, j \in 1..Len(versions) :
        i < j /\ ~versions[i].cleared /\ ~versions[j].cleared => ~GoesBack(versions[i], versions[j])

(* A submission enters at most one version of those that cleared the       *)
(* board's scores, however many snapshots run at once.                     *)
SnapshottedOnce ==
    \A i, j \in 1..Len(versions) :
        i # j /\ versions[i].cleared /\ versions[j].cleared =>
            versions[i].rows \cap versions[j].rows = {}
=============================================================================

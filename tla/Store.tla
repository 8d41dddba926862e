------------------------------- MODULE Store -------------------------------
(***************************************************************************)
(* One board and what Postgres holds for it: the board row, its entries,   *)
(* its versions with their placements, and its accumulated scores.         *)
(*                                                                         *)
(* Handlers are requests in progress.  Each action is one statement of a   *)
(* repository function (or a run of statements that nothing can come       *)
(* between, because the rows they read are locked).  Row locks are         *)
(* modelled as Postgres takes them: FOR UPDATE and DELETE lock a row in    *)
(* mode "X", the upsert of an entry locks it in mode "NKU" (FOR NO KEY     *)
(* UPDATE), and a foreign key check locks the referenced row in mode "KS"  *)
(* (FOR KEY SHARE).  A handler's own writes are kept in its state and      *)
(* reach the tables when it commits; until then they are visible to it     *)
(* only.  A handler may be dropped between any two statements: axum drops  *)
(* the future of a client that disconnects, and the transaction rolls back.*)
(***************************************************************************)
EXTENDS Ranking

CONSTANTS
    Absent,       \* a field a PATCH does not mention (Nullable::Absent)
    Handlers,     \* requests that may be in progress at the same time
    BoardIds, EntryIds,   \* primary keys (UUIDs, drawn in no order)
    Slugs,        \* entry slugs
    Tiers,        \* tier keys
    TierConfigs,  \* tier_config values: functions from keys to positions, or None
    Configs,      \* boards a client may create: [type, accum, dir, tiers]
    Patches,      \* PATCH bodies: [dir, tiers], each a value or Absent
    Lists,        \* placement lists a client may send
    Scores,       \* scores a client may submit
    Limits,       \* the limits applied: {TRUE} for the API, FALSE for file sync
    MaxVersions,  \* max_versions_per_board
    MaxEntries,   \* max_entries_per_version
    PollLimit,    \* LIMIT of versions::since
    VersionBound, \* bound: no version is requested once there are this many
    RevBound      \* bound: no score is submitted for an entry with this many

ASSUME LimitsAssumption ==
    /\ MaxVersions \in Nat \ {0}
    /\ MaxEntries \in Nat \ {0}
    /\ PollLimit \in Nat \ {0}
    /\ VersionBound \in Nat
    /\ RevBound \in Nat
    /\ Limits \subseteq BOOLEAN

ASSUME IdsAssumption ==
    /\ EntryIds \subseteq Nat
    /\ None \notin BoardIds /\ None \notin Slugs

Directions == {"asc", "desc"}

Config == [type : {"ordered", "scored", "tiered"}, accum : BOOLEAN,
           dir : Directions, tiers : TierConfigs]

Patch == [dir : Directions \cup {Absent}, tiers : TierConfigs \cup {Absent}]

Placement == [slug : Slugs, pos : Int \cup {None},
              score : Int \cup {None, NotFinite}, tier : Tiers \cup {None}]

(* boards::create refuses an accumulative board that is not scored.        *)
ASSUME InputsAssumption ==
    /\ Configs \subseteq Config
    /\ \A c \in Configs : c.accum => c.type = "scored"
    /\ Patches \subseteq Patch
    /\ Lists \subseteq Seq(Placement)
    /\ Scores \subseteq Int

VARIABLES
    board,      \* the board row, or None
    entries,    \* committed entries: [id, slug]
    versions,   \* committed versions: [num, rows, cut, limited]
    acc,        \* committed accumulated scores: [id, score, rev]
    h,          \* per handler: where it is and what it has read
    boardX,     \* handlers that hold FOR UPDATE on the board row
    boardKS,    \* handlers that hold FOR KEY SHARE on it
    entryLocks, \* row locks on entries: [by, id, mode]
    received    \* the versions a polling client has been given, in order

tables == <<board, entries, versions, acc>>
locks  == <<boardX, boardKS, entryLocks>>
vars   == <<tables, h, locks, received>>

-----------------------------------------------------------------------------
(* Rows.  rev counts the submissions of an entry (submitted_at); cut is    *)
(* the set of [id, rev] a snapshot was taken from and limited records      *)
(* whether the limits applied.  No code reads these three.                 *)

BoardRows == [id : BoardIds, type : {"ordered", "scored", "tiered"},
              accum : BOOLEAN, dir : Directions, tiers : TierConfigs]

EntryRows == [id : EntryIds, slug : Slugs]

(* NULL is not a row.                                                      *)
ASSUME RowsAssumption == None \notin BoardRows

PlacementRow == [id : EntryIds, slug : Slugs, pos : Int \cup {None},
                 score : Int \cup {None, NotFinite}, tier : Tiers \cup {None}]

VersionRows == [num : Nat \ {0}, rows : SUBSET PlacementRow,
                cut : SUBSET [id : EntryIds, rev : Nat], limited : BOOLEAN]

ScoreRow == [id : EntryIds, score : Scores, rev : Nat]

Numbers == {v.num : v \in versions}

(* SELECT COALESCE(MAX(version_number), 0) + 1.                            *)
NextNumber == 1 + CHOOSE n \in Numbers \cup {0} : \A m \in Numbers : m <= n

(* Mutant: one version too many.                                           *)
OverLimit(p) == h[p].limited /\ Cardinality(versions) > MaxVersions

AtLimit(p) == h[p].limited /\ Cardinality(versions) >= MaxVersions

EntryIdOf(slug) == (CHOOSE e \in entries : e.slug = slug).id

HasEntry(slug) == \E e \in entries : e.slug = slug

LiveEntryIds == {e.id : e \in entries}

(* What a request carries (patch, slug, list, score, limited) and what it  *)
(* has read or written so far: the board row, the id of the entry it found *)
(* or inserted, its own uncommitted entry, and the version it is building. *)
Idle == [pc |-> "idle", seen |-> None,
         patch |-> None, slug |-> None, list |-> None, score |-> None, limited |-> FALSE,
         eid |-> None, fresh |-> None, num |-> 0, rows |-> {}, cut |-> {}]

(* Ids that some row or request still refers to are not drawn again.       *)
FreshBoardIds == BoardIds \ {h[q].seen.id : q \in {r \in Handlers : h[r].seen # None}}

FreshEntryIds ==
    EntryIds \ ( LiveEntryIds
            \cup (UNION {{r.id : r \in h[q].rows} : q \in Handlers})
            \cup {h[q].fresh.id : q \in {r \in Handlers : h[r].fresh # None}} )

-----------------------------------------------------------------------------
(* Row locks and the end of a transaction.                                 *)

Compatible(mode, held) ==
    \/ mode = "KS" /\ held \in {"KS", "NKU"}
    \/ mode = "NKU" /\ held = "KS"

CanLockBoardX(p) == boardX \cup boardKS \subseteq {p}

CanLockBoardKS(p) == boardX \subseteq {p}

CanLockEntry(p, id, mode) ==
    \A l \in entryLocks : l.id = id => l.by = p \/ Compatible(mode, l.mode)

(* Two upserts of one slug: the second waits for the first on the unique   *)
(* index on (board_id, slug).                                              *)
SlugFree(p, slug) ==
    \A q \in Handlers \ {p} : h[q].fresh # None => h[q].fresh.slug # slug

(* Mutant: a SELECT without FOR UPDATE.                                    *)
LockNothing(p) == UNCHANGED <<boardX, boardKS, entryLocks>>

LockBoardX(p) == boardX' = boardX \cup {p} /\ UNCHANGED <<boardKS, entryLocks>>

LockEntries(p, ids, mode) ==
    entryLocks' = entryLocks \cup {[by |-> p, id |-> i, mode |-> mode] : i \in ids}

(* Commit or roll back: the locks go, the request is answered.             *)
Finish(p) ==
    /\ h' = [h EXCEPT ![p] = Idle]
    /\ boardX' = boardX \ {p}
    /\ boardKS' = boardKS \ {p}
    /\ entryLocks' = {l \in entryLocks : l.by # p}

Rollback(p) == Finish(p) /\ UNCHANGED <<tables, received>>

(* A new request: the route loads the board by slug, outside any           *)
(* transaction, and the repository function starts from that copy.         *)
Begin(p, request) ==
    /\ h[p] = Idle
    /\ board # None
    /\ h' = [h EXCEPT ![p] = [request EXCEPT !.seen = board]]
    /\ UNCHANGED <<tables, locks, received>>

At(p, pc) == h[p].pc = pc

Goto(p, pc) == h' = [h EXCEPT ![p].pc = pc]

(* The row the request was started for is still there.                     *)
BoardThere(p) == board # None /\ board.id = h[p].seen.id

-----------------------------------------------------------------------------
(* boards::create, boards::update and boards::delete.                      *)

CreateBoard ==
    /\ board = None
    /\ \E c \in Configs, id \in FreshBoardIds :
         board' = [id |-> id, type |-> c.type, accum |-> c.accum,
                   dir |-> c.dir, tiers |-> c.tiers]
    /\ UNCHANGED <<entries, versions, acc, h, locks, received>>

StartUpdateBoard(p) ==
    \E patch \in Patches : Begin(p, [Idle EXCEPT !.pc = "ub_lock", !.patch = patch])

(* Mutant: the UPDATE is built from the copy the route loaded.             *)
LockForUpdateKeepingCopy(p) ==
    /\ At(p, "ub_lock")
    /\ \/ ~BoardThere(p) /\ Rollback(p)
       \/ /\ BoardThere(p)
          /\ CanLockBoardX(p)
          /\ Goto(p, "ub_write")
          /\ LockBoardX(p)
          /\ UNCHANGED <<tables, received>>

(* SELECT ... WHERE slug = $1 FOR UPDATE: whichever board has the slug.    *)
LockForUpdate(p) ==
    /\ At(p, "ub_lock")
    /\ \/ board = None /\ Rollback(p)
       \/ /\ board # None
          /\ CanLockBoardX(p)
          /\ h' = [h EXCEPT ![p].pc = "ub_write", ![p].seen = board]
          /\ LockBoardX(p)
          /\ UNCHANGED <<tables, received>>

PatchAllowed(row, patch) ==
    /\ patch.dir # Absent => row.type = "scored"
    /\ row.type = "tiered" => patch.tiers # None

Patched(row, patch) ==
    [row EXCEPT !.dir   = IF patch.dir = Absent THEN row.dir ELSE patch.dir,
                !.tiers = IF patch.tiers = Absent THEN row.tiers ELSE patch.tiers]

(* The UPDATE writes every column, from the row that was locked.           *)
WriteBoard(p) ==
    /\ At(p, "ub_write")
    /\ \/ ~PatchAllowed(h[p].seen, h[p].patch) /\ Rollback(p)
       \/ /\ PatchAllowed(h[p].seen, h[p].patch)
          /\ board' = Patched(h[p].seen, h[p].patch)
          /\ Finish(p)
          /\ UNCHANGED <<entries, versions, acc, received>>

StartDeleteBoard(p) == Begin(p, [Idle EXCEPT !.pc = "db_lock"])

LockForDelete(p) ==
    /\ At(p, "db_lock")
    /\ \/ board = None /\ Rollback(p)
       \/ /\ board # None
          /\ CanLockBoardX(p)
          /\ LockBoardX(p)
          /\ Goto(p, "db_cascade")
          /\ UNCHANGED <<tables, received>>

(* ON DELETE CASCADE: the entries have to be locked as well, so the        *)
(* delete waits for whoever holds one of them.                             *)
CascadeDelete(p) ==
    /\ At(p, "db_cascade")
    /\ \A l \in entryLocks : l.by = p
    /\ board' = None /\ entries' = {} /\ versions' = {} /\ acc' = {}
    /\ received' = << >>
    /\ Finish(p)

-----------------------------------------------------------------------------
(* entries::create and entries::delete.                                    *)

StartCreateEntry(p) ==
    \E slug \in Slugs : Begin(p, [Idle EXCEPT !.pc = "ce_insert", !.slug = slug])

InsertEntry(p) ==
    /\ At(p, "ce_insert")
    /\ \/ /\ BoardThere(p)
          /\ ~HasEntry(h[p].slug)
          /\ CanLockBoardKS(p)
          /\ SlugFree(p, h[p].slug)
          /\ \E id \in FreshEntryIds :
               entries' = entries \cup {[id |-> id, slug |-> h[p].slug]}
          /\ Finish(p)
          /\ UNCHANGED <<board, versions, acc, received>>
       \/ (BoardThere(p) => HasEntry(h[p].slug)) /\ Rollback(p)

StartDeleteEntry(p) ==
    \E slug \in Slugs : Begin(p, [Idle EXCEPT !.pc = "de_lock", !.slug = slug])

(* Mutant: the entry is read without FOR UPDATE.                           *)
ReadEntryForDelete(p) ==
    /\ At(p, "de_lock")
    /\ \/ ~(BoardThere(p) /\ HasEntry(h[p].slug)) /\ Rollback(p)
       \/ /\ BoardThere(p)
          /\ HasEntry(h[p].slug)
          /\ h' = [h EXCEPT ![p].pc = "de_count", ![p].eid = EntryIdOf(h[p].slug)]
          /\ UNCHANGED <<tables, locks, received>>

LockEntryForDelete(p) ==
    /\ At(p, "de_lock")
    /\ \/ ~(BoardThere(p) /\ HasEntry(h[p].slug)) /\ Rollback(p)
       \/ /\ BoardThere(p)
          /\ HasEntry(h[p].slug)
          /\ CanLockEntry(p, EntryIdOf(h[p].slug), "X")
          /\ LockEntries(p, {EntryIdOf(h[p].slug)}, "X")
          /\ h' = [h EXCEPT ![p].pc = "de_count", ![p].eid = EntryIdOf(h[p].slug)]
          /\ UNCHANGED <<tables, boardX, boardKS, received>>

(* Mutant: nobody looks for placements.                                    *)
NoPlacements(id) == FALSE

HasPlacements(id) == \E v \in versions : \E r \in v.rows : r.id = id

CountPlacements(p) ==
    /\ At(p, "de_count")
    /\ \/ HasPlacements(h[p].eid) /\ Rollback(p)
       \/ /\ ~HasPlacements(h[p].eid)
          /\ Goto(p, "de_delete")
          /\ UNCHANGED <<tables, locks, received>>

(* The foreign keys are ON DELETE CASCADE: deleting an entry takes its     *)
(* placements and its accumulated score with it.                           *)
DeleteEntry(p) ==
    /\ At(p, "de_delete")
    /\ entries' = {e \in entries : e.id # h[p].eid}
    /\ acc' = {a \in acc : a.id # h[p].eid}
    /\ versions' = {[v EXCEPT !.rows = {r \in v.rows : r.id # h[p].eid}] : v \in versions}
    /\ Finish(p)
    /\ UNCHANGED <<board, received>>

-----------------------------------------------------------------------------
(* versions::create, and the tail it shares with scores::snapshot.         *)

StartCreateVersion(p) ==
    /\ board # None /\ ~board.accum
    /\ Cardinality(versions) < VersionBound
    /\ \E list \in Lists, limited \in Limits :
         /\ ValidPlacements(board, list)
         /\ Begin(p, [Idle EXCEPT !.pc = "cv_lock", !.list = list, !.limited = limited])

(* Mutant: go on from the copy the route loaded.                           *)
LockForVersionKeepingCopy(p, from, to) ==
    /\ At(p, from)
    /\ \/ ~BoardThere(p) /\ Rollback(p)
       \/ /\ BoardThere(p)
          /\ CanLockBoardX(p)
          /\ Goto(p, to)
          /\ LockBoardX(p)
          /\ UNCHANGED <<tables, received>>

(* SELECT ... WHERE id = $1 FOR UPDATE, and go on from the locked row.     *)
LockForVersion(p, from, to) ==
    /\ At(p, from)
    /\ \/ ~BoardThere(p) /\ Rollback(p)
       \/ /\ BoardThere(p)
          /\ CanLockBoardX(p)
          /\ h' = [h EXCEPT ![p].pc = to, ![p].seen = board]
          /\ LockBoardX(p)
          /\ UNCHANGED <<tables, received>>

NumberVersion(p) ==
    /\ At(p, "cv_number")
    /\ LET ok == ~AtLimit(p) /\ ValidPlacements(h[p].seen, h[p].list)
       IN  \/ ~ok /\ Rollback(p)
           \/ /\ ok
              /\ h' = [h EXCEPT ![p].pc = "cv_resolve", ![p].num = NextNumber]
              /\ UNCHANGED <<tables, locks, received>>

ResolveEntries(p) ==
    /\ At(p, "cv_resolve")
    /\ LET slugs == SlugsOf(h[p].list)
           idOf  == [s \in slugs |-> EntryIdOf(s)]
       IN  \/ (\E s \in slugs : ~HasEntry(s)) /\ Rollback(p)
           \/ /\ \A s \in slugs : HasEntry(s)
              /\ h' = [h EXCEPT ![p].pc = "place",
                                ![p].rows = PlacementRows(h[p].seen, h[p].list, idOf)]
              /\ UNCHANGED <<tables, locks, received>>

(* The foreign key check of a placement locks its entry, and fails if the  *)
(* entry was deleted after it was read.                                    *)
InsertPlacements(p) ==
    /\ At(p, "place")
    /\ LET ids == {r.id : r \in h[p].rows}
       IN  /\ \A i \in ids : CanLockEntry(p, i, "KS")
           /\ \/ ~(ids \subseteq LiveEntryIds) /\ Rollback(p)
              \/ /\ ids \subseteq LiveEntryIds
                 /\ LockEntries(p, ids, "KS")
                 /\ Goto(p, "commit")
                 /\ UNCHANGED <<tables, boardX, boardKS, received>>

DerivedRows(row, rows) ==
    IF row.type = "scored" THEN DeriveScoredPositions(rows, row.dir) ELSE rows

CommitVersion(p) ==
    /\ At(p, "commit")
    /\ versions' = versions \cup
         {[num |-> h[p].num, rows |-> DerivedRows(h[p].seen, h[p].rows),
           cut |-> h[p].cut, limited |-> h[p].limited]}
    /\ Finish(p)
    /\ UNCHANGED <<board, entries, acc, received>>

-----------------------------------------------------------------------------
(* scores::submit and scores::snapshot.                                    *)

HasScore(id) == \E a \in acc : a.id = id

RevOf(id) == IF HasScore(id) THEN (CHOOSE a \in acc : a.id = id).rev ELSE 0

StartSubmit(p) ==
    /\ board # None /\ board.accum
    /\ \E s \in [slug : Slugs, score : Scores] :
         /\ HasEntry(s.slug) => RevOf(EntryIdOf(s.slug)) < RevBound
         /\ Begin(p, [Idle EXCEPT !.pc = "su_entry", !.slug = s.slug, !.score = s.score])

(* INSERT INTO entries ... ON CONFLICT DO UPDATE: either the row is there  *)
(* and is locked, or a new one is inserted under the board's key.          *)
UpsertEntry(p) ==
    /\ At(p, "su_entry")
    /\ LET slug == h[p].slug IN
       \/ /\ BoardThere(p) /\ HasEntry(slug)
          /\ CanLockEntry(p, EntryIdOf(slug), "NKU")
          /\ LockEntries(p, {EntryIdOf(slug)}, "NKU")
          /\ h' = [h EXCEPT ![p].pc = "su_score", ![p].eid = EntryIdOf(slug)]
          /\ UNCHANGED <<tables, boardX, boardKS, received>>
       \/ /\ BoardThere(p) /\ ~HasEntry(slug)
          /\ SlugFree(p, slug) /\ CanLockBoardKS(p)
          /\ boardKS' = boardKS \cup {p}
          /\ \E id \in FreshEntryIds :
               h' = [h EXCEPT ![p].pc = "su_score", ![p].eid = id,
                              ![p].fresh = [id |-> id, slug |-> slug]]
          /\ UNCHANGED <<tables, boardX, entryLocks, received>>
       \/ ~BoardThere(p) /\ Rollback(p)

(* INSERT INTO accumulated_scores ... ON CONFLICT DO UPDATE: only a new    *)
(* row checks the foreign key to the board, and so waits for its lock.     *)
UpsertScore(p) ==
    /\ At(p, "su_score")
    /\ \/ HasScore(h[p].eid) /\ UNCHANGED boardKS
       \/ /\ ~HasScore(h[p].eid)
          /\ CanLockBoardKS(p)
          /\ boardKS' = boardKS \cup {p}
    /\ Goto(p, "su_commit")
    /\ UNCHANGED <<tables, boardX, entryLocks, received>>

CommitSubmit(p) ==
    /\ At(p, "su_commit")
    /\ acc' = {a \in acc : a.id # h[p].eid} \cup
         {[id |-> h[p].eid, score |-> h[p].score, rev |-> RevOf(h[p].eid) + 1]}
    /\ entries' = IF h[p].fresh = None THEN entries ELSE entries \cup {h[p].fresh}
    /\ Finish(p)
    /\ UNCHANGED <<board, versions, received>>

StartSnapshot(p) ==
    /\ board # None /\ board.accum
    /\ Cardinality(versions) < VersionBound
    /\ \E limited \in Limits :
         Begin(p, [Idle EXCEPT !.pc = "sn_lock", !.limited = limited])

(* accumulated_scores JOIN entries.                                        *)
Joined == {a \in acc : a.id \in LiveEntryIds}

ScoreRows ==
    {[id |-> a.id, slug |-> (CHOOSE e \in entries : e.id = a.id).slug,
      pos |-> None, score |-> a.score, tier |-> None] : a \in Joined}

ReadScores(p) ==
    /\ At(p, "sn_read")
    /\ LET ok == /\ ~AtLimit(p)
                 /\ Joined # {}
                 /\ h[p].limited => Cardinality(Joined) <= MaxEntries
       IN  \/ ~ok /\ Rollback(p)
           \/ /\ ok
              /\ h' = [h EXCEPT ![p].pc = "place", ![p].num = NextNumber,
                                ![p].rows = ScoreRows,
                                ![p].cut = {[id |-> a.id, rev |-> a.rev] : a \in Joined}]
              /\ UNCHANGED <<tables, locks, received>>

-----------------------------------------------------------------------------
(* versions::since, by a client that passes the last number it has.        *)

Cursor == IF received = << >> THEN 0 ELSE received[Len(received)].num

(* Mutant: the client's own version comes first.                           *)
InBatchFrom(v) ==
    /\ v.num >= Cursor
    /\ Cardinality({w \in versions : Cursor <= w.num /\ w.num < v.num}) < PollLimit

(* WHERE version_number > $2 ORDER BY version_number ASC LIMIT $3.         *)
InBatch(v) ==
    /\ v.num > Cursor
    /\ Cardinality({w \in versions : Cursor < w.num /\ w.num < v.num}) < PollLimit

Poll ==
    LET batch == {v \in versions : InBatch(v)}
        place(v) == 1 + Cardinality({w \in batch : w.num < v.num})
    IN  /\ batch # {}
        /\ received' = received \o
             [i \in 1..Cardinality(batch) |-> CHOOSE v \in batch : place(v) = i]
        /\ UNCHANGED <<tables, h, locks>>

-----------------------------------------------------------------------------
(* A request that ends early, and the deadlock Postgres resolves.          *)

Cancel(p) == h[p] # Idle /\ Rollback(p)

(* A submission that holds an entry waits for the board; the delete that   *)
(* holds the board waits for the entry.  Postgres aborts one of them.      *)
Deadlocked(d, s) ==
    /\ At(d, "db_cascade")
    /\ At(s, "su_score")
    /\ ~HasScore(h[s].eid)
    /\ \E l \in entryLocks : l.by = s

(* Mutant: the aborted transaction is tried again, as often as it takes.   *)
RetryDeadlockVictim(p) ==
    /\ \E q \in Handlers : Deadlocked(p, q) \/ Deadlocked(q, p)
    /\ h' = [h EXCEPT ![p].pc = IF At(p, "db_cascade") THEN "db_lock" ELSE "su_entry"]
    /\ boardX' = boardX \ {p}
    /\ boardKS' = boardKS \ {p}
    /\ entryLocks' = {l \in entryLocks : l.by # p}
    /\ UNCHANGED <<tables, received>>

(* The error of the aborted transaction is the answer: nothing retries it. *)
DeadlockVictim(p) ==
    /\ \E q \in Handlers : Deadlocked(p, q) \/ Deadlocked(q, p)
    /\ Rollback(p)

-----------------------------------------------------------------------------
Init ==
    /\ board = None /\ entries = {} /\ versions = {} /\ acc = {}
    /\ h = [p \in Handlers |-> Idle]
    /\ boardX = {} /\ boardKS = {} /\ entryLocks = {}
    /\ received = << >>

Start(p) ==
    \/ StartUpdateBoard(p) \/ StartDeleteBoard(p)
    \/ StartCreateEntry(p) \/ StartDeleteEntry(p)
    \/ StartCreateVersion(p) \/ StartSubmit(p) \/ StartSnapshot(p)

BoardStep(p) ==
    LockForUpdate(p) \/ WriteBoard(p) \/ LockForDelete(p) \/ CascadeDelete(p)

EntryStep(p) ==
    InsertEntry(p) \/ LockEntryForDelete(p) \/ CountPlacements(p) \/ DeleteEntry(p)

VersionStep(p) ==
    \/ LockForVersion(p, "cv_lock", "cv_number") \/ NumberVersion(p) \/ ResolveEntries(p)
    \/ LockForVersion(p, "sn_lock", "sn_read") \/ ReadScores(p)
    \/ InsertPlacements(p) \/ CommitVersion(p)

SubmitStep(p) == UpsertEntry(p) \/ UpsertScore(p) \/ CommitSubmit(p)

(* What the server does by itself for a request in progress.               *)
Step(p) ==
    BoardStep(p) \/ EntryStep(p) \/ VersionStep(p) \/ SubmitStep(p) \/ DeadlockVictim(p)

Next ==
    \/ CreateBoard
    \/ Poll
    \/ \E p \in Handlers : Start(p) \/ Step(p) \/ Cancel(p)

Spec == Init /\ [][Next]_vars

(* A blocked request waits in the row's queue, which Postgres serves in    *)
(* order: a request that can go on again and again does go on.             *)
FairSpec == Spec /\ \A p \in Handlers : SF_vars(Step(p))

-----------------------------------------------------------------------------
(* Properties.                                                             *)

HolderPcs == {"ub_write", "db_cascade", "cv_number", "cv_resolve", "sn_read",
              "place", "commit"}

Pcs == HolderPcs \cup {"idle", "ub_lock", "db_lock", "ce_insert", "de_lock",
                       "de_count", "de_delete", "cv_lock", "sn_lock",
                       "su_entry", "su_score", "su_commit"}

Requests ==
    [pc : Pcs, seen : BoardRows \cup {None},
     patch : Patches \cup {None}, slug : Slugs \cup {None}, list : Lists \cup {None},
     score : Scores \cup {None}, limited : BOOLEAN,
     eid : EntryIds \cup {None}, fresh : EntryRows \cup {None},
     num : Nat, rows : SUBSET PlacementRow, cut : SUBSET [id : EntryIds, rev : Nat]]

EntryLock == [by : Handlers, id : EntryIds, mode : {"KS", "NKU", "X"}]

(* What a request has at hand at each of its steps.                        *)
RequestOK(r) ==
    /\ r.pc # "idle" => r.seen \in BoardRows
    /\ r.pc \in {"ub_lock", "ub_write"} => r.patch \in Patches
    /\ r.pc \in {"ce_insert", "de_lock", "su_entry"} => r.slug \in Slugs
    /\ r.pc \in {"cv_lock", "cv_number", "cv_resolve"} => r.list \in Lists
    /\ r.pc \in {"su_entry", "su_score", "su_commit"} => r.score \in Scores
    /\ r.pc \in {"su_score", "su_commit", "de_count", "de_delete"} => r.eid \in EntryIds

(* The tables have the shape the schema gives them, version numbers start  *)
(* at 1, and a request has what its repository function needs next.        *)
TypeOK ==
    /\ board \in BoardRows \cup {None}
    /\ entries \subseteq EntryRows
    /\ versions \subseteq VersionRows
    /\ acc \subseteq ScoreRow
    /\ h \in [Handlers -> Requests]
    /\ \A p \in Handlers : RequestOK(h[p])
    /\ boardX \subseteq Handlers
    /\ boardKS \subseteq Handlers
    /\ entryLocks \subseteq EntryLock

(* Version numbers are 1, 2, ..., n and no two versions share one, however *)
(* many creations, snapshots and deletions run at once: the number is      *)
(* computed under the lock of the board row (versions.rs, "serializes      *)
(* concurrent version creation").                                          *)
NumbersContiguous ==
    /\ \A v \in versions : 1..v.num \subseteq Numbers
    /\ \A v, w \in versions : v.num = w.num => v = w

(* No request to which max_versions_per_board applies creates a version    *)
(* beyond it, however many run at once or wait for the lock (versions.rs,  *)
(* "checked inside tx after FOR UPDATE to avoid TOCTOU").                  *)
VersionLimitHolds == \A v \in versions : v.limited => v.num <= MaxVersions

(* Every placement of every version names an entry that is still there,    *)
(* under the slug it was placed under: deleting an entry never takes       *)
(* placements with it, although the foreign key would (entries.rs,         *)
(* "silently mutate historical versions via CASCADE").                     *)
PlacementsKeepTheirEntries ==
    \A v \in versions : /\ v.rows # {}
                        /\ \A r \in v.rows : [id |-> r.id, slug |-> r.slug] \in entries

(* An accumulative board never loses or takes back a score: a later        *)
(* snapshot holds every entry of an earlier one, with the same submission  *)
(* or a more recent one.                                                   *)
SnapshotsAdvance ==
    \A v, w \in versions : v.num < w.num =>
        \A c \in v.cut : \E d \in w.cut : d.id = c.id /\ d.rev >= c.rev

(* A version is ranked and validated by the configuration the board has at *)
(* the moment the version appears, not by the copy the route loaded: the   *)
(* positions of a scored board follow its current sort_direction and every *)
(* tier is in its current tier_config (versions.rs, "ensures we use the    *)
(* latest board state").                                                   *)
FollowsConfig(row, rows) ==
    /\ row.type = "scored" =>
         \A r, q \in rows : RanksBefore(r, q, row.dir) <=> r.pos < q.pos
    /\ row.type = "tiered" /\ row.tiers # None =>
         \A r \in rows : r.tier \in DOMAIN row.tiers

RankedUnderCurrentConfig ==
    [][\A v \in versions' \ versions : FollowsConfig(board, v.rows)]_vars

(* A PATCH changes the fields it mentions and no other, although its       *)
(* UPDATE writes all of them (boards.rs, "prevent lost updates from        *)
(* concurrent PATCHes").                                                   *)
PatchesDoNotOverwrite ==
    [][\A p \in Handlers :
         h[p].pc = "ub_write" /\ h'[p].pc = "idle" /\ board # None /\ board' # None =>
             /\ h[p].patch.dir = Absent => board'.dir = board.dir
             /\ h[p].patch.tiers = Absent => board'.tiers = board.tiers]_vars

(* The versions of the board, and a client that polls for them with since, *)
(* behave as an append-only log and a reader of it.                        *)
VersionNumbered(n) == CHOOSE v \in versions : v.num = n

Published == [n \in 1..Cardinality(versions) |-> VersionNumbered(n)]

Log == INSTANCE VersionLog WITH log <- Published, received <- received

ImplementsVersionLog == Log!Spec

(* Every request is answered: waiting for row locks never lasts for ever,  *)
(* and the one deadlock the lock order allows is resolved.                 *)
EveryRequestFinishes == \A p \in Handlers : h[p] # Idle ~> h[p] = Idle
=============================================================================

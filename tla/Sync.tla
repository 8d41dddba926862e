-------------------------------- MODULE Sync --------------------------------
(***************************************************************************)
(* File sync: a board is described by files (board.toml, rankings.toml),   *)
(* and sync_board brings the database to what they say.  It is a series of *)
(* transactions, each of which commits by itself: the board row, then one  *)
(* entry at a time, then a version.  The process may stop between any two  *)
(* of them, and a later statement may reject what an earlier one has       *)
(* already applied part of.  A rerun starts from whatever is there.        *)
(*                                                                         *)
(* Several syncs may run at once: the webhook's are serialised by a mutex, *)
(* but the command line runs its own.                                      *)
(***************************************************************************)
EXTENDS Ranking

CONSTANTS
    Syncers,      \* syncs that may run at the same time
    EntryIds,     \* primary keys of entries
    Slugs,        \* slugs of entries
    Tiers,        \* keys of tiers
    TierConfigs,  \* the tables of tiers a board.toml may have, or None
    Files,        \* what the files may say
    VersionBound  \* bound: no sync starts once there are this many versions

ASSUME BoundAssumption == VersionBound \in Nat

ASSUME EntryIdsAssumption == EntryIds \subseteq Nat

BoardTypes == {"ordered", "scored", "tiered"}

Directions == {"asc", "desc"}

Placement == [slug : Slugs, pos : Int \cup {None},
              score : Int \cup {None, NotFinite}, tier : Tiers \cup {None}]

(* A board.toml may have any words for its type and its direction.         *)
ParsedBoard == [type : STRING, dir : STRING, tiers : TierConfigs,
                list : Seq(Placement), accum : BOOLEAN]

ASSUME FilesAssumption == Files \subseteq ParsedBoard

BoardRows == [type : BoardTypes, dir : Directions, tiers : TierConfigs]

(* NULL is not a row, and not a file.                                      *)
ASSUME NullAssumption == None \notin BoardRows /\ None \notin Files

VARIABLES
    board,      \* the board row [type, dir, tiers], or None
    entries,    \* the entries of the board: [id, slug]
    versions,   \* the rows of each version, in version_number order
    s,          \* per sync: where it is and what it has read
    synced,     \* the files of the last sync to end if it reported success, or None
    steady      \* has every sync so far been alone and come to its list? (not read)

db   == <<board, entries, versions>>
vars == <<db, s, synced, steady>>

(* parsed is the sync's copy of the files, seen the board row it has.      *)
Idle == [pc |-> "idle", parsed |-> None, seen |-> None, missing |-> {}, forced |-> FALSE]

At(p, pc) == s[p].pc = pc

Parsed(p) == s[p].parsed

Quiet == \A p \in Syncers : s[p] = Idle

(* The sync ends: with Failed, or without a result at all.                 *)
Fail(p) ==
    /\ s' = [s EXCEPT ![p] = Idle]
    /\ synced' = None
    /\ steady' = FALSE
    /\ UNCHANGED db

(* The sync ends with Created, Updated or NoChange.                        *)
Succeed(p) ==
    /\ s' = [s EXCEPT ![p] = Idle]
    /\ synced' = Parsed(p)

(* The files say whatever the last commit to them left.  A board that they *)
(* call accumulative is skipped.                                           *)
Start(p) ==
    /\ s[p] = Idle
    /\ Len(versions) < VersionBound
    /\ \E file \in Files :
         /\ ~file.accum
         /\ s' = [s EXCEPT ![p] = [Idle EXCEPT !.pc = "read", !.parsed = file]]
    /\ steady' = (steady /\ Quiet)
    /\ UNCHANGED <<db, synced>>

ReadBoard(p) ==
    /\ At(p, "read")
    /\ s' = [s EXCEPT ![p].seen = board,
                      ![p].pc = IF board = None THEN "create" ELSE "update"]
    /\ UNCHANGED <<db, synced, steady>>

-----------------------------------------------------------------------------
(* boards::create and boards::update, as the sync calls them.              *)

AfterBoard(f) == IF f.list = << >> THEN "empty" ELSE "entries"

CreateAllowed(f) ==
    /\ f.type \in BoardTypes /\ f.dir \in Directions
    /\ f.type = "tiered" => f.tiers # None
    /\ f.type # "scored" => f.dir = "desc"

CreateBoard(p) ==
    /\ At(p, "create")
    /\ LET f == Parsed(p)
           ok == board = None /\ CreateAllowed(f)
       IN  \/ ~ok /\ Fail(p)
           \/ /\ ok
              /\ board' = [type |-> f.type, dir |-> f.dir, tiers |-> f.tiers]
              /\ s' = [s EXCEPT ![p].seen = board', ![p].pc = AfterBoard(f)]
              /\ UNCHANGED <<entries, versions, synced, steady>>

RankingConfigChanged(row, f) == row.dir # f.dir \/ row.tiers # f.tiers

(* Mutant: a change of the ranking configuration forces no version.        *)
NothingForced(row, f) == FALSE

ForcesVersion(row, f) == RankingConfigChanged(row, f)

UpdateAllowed(row, changesDir, f) ==
    /\ changesDir => f.dir \in Directions /\ row.type = "scored"
    /\ row.type = "tiered" => f.tiers # None

(* Only the columns that differ from the row the sync has read are in the  *)
(* update; the type of a board never changes.                              *)
UpdateBoard(p) ==
    /\ At(p, "update")
    /\ LET f   == Parsed(p)
           old == s[p].seen
           new == [board EXCEPT !.dir   = IF old.dir = f.dir THEN board.dir ELSE f.dir,
                                !.tiers = IF old.tiers = f.tiers THEN board.tiers ELSE f.tiers]
           ok  == UpdateAllowed(board, old.dir # f.dir, f) \/ ~RankingConfigChanged(old, f)
       IN  \/ ~ok /\ Fail(p)
           \/ /\ ok
              /\ board' = IF RankingConfigChanged(old, f) THEN new ELSE board
              /\ s' = [s EXCEPT ![p].seen = IF RankingConfigChanged(old, f) THEN new ELSE old,
                                ![p].forced = ForcesVersion(old, f),
                                ![p].pc = AfterBoard(f)]
              /\ UNCHANGED <<entries, versions, synced, steady>>

(* No entries in the files: nothing to version.                            *)
NoEntries(p) ==
    /\ At(p, "empty")
    /\ Succeed(p)
    /\ steady' = FALSE
    /\ UNCHANGED db

-----------------------------------------------------------------------------
(* The entries, then the version.                                          *)

EntrySlugs == {e.slug : e \in entries}

ListEntries(p) ==
    /\ At(p, "entries")
    /\ s' = [s EXCEPT ![p].pc = "add", ![p].missing = SlugsOf(Parsed(p).list) \ EntrySlugs]
    /\ UNCHANGED <<db, synced, steady>>

(* entries::create; another sync may have added the entry meanwhile.       *)
AddEntry(p) ==
    /\ At(p, "add")
    /\ \E slug \in s[p].missing :
         \/ slug \in EntrySlugs /\ Fail(p)
         \/ /\ slug \notin EntrySlugs
            /\ \E id \in EntryIds \ {e.id : e \in entries} :
                 entries' = entries \cup {[id |-> id, slug |-> slug]}
            /\ s' = [s EXCEPT ![p].missing = @ \ {slug}]
            /\ UNCHANGED <<board, versions, synced, steady>>

(* Does the list differ from the latest version?                           *)
NeedsVersion(p) ==
    \/ s[p].forced
    \/ versions = << >>
    \/ /\ versions # << >>
       /\ PlacementsChanged(s[p].seen, versions[Len(versions)], Parsed(p).list)

Compare(p) ==
    /\ At(p, "add")
    /\ s[p].missing = {}
    /\ IF NeedsVersion(p)
       THEN s' = [s EXCEPT ![p].pc = "version"] /\ UNCHANGED synced
       ELSE Succeed(p)
    /\ UNCHANGED <<db, steady>>

(* versions::create, without the limit: from the board row as it is now.   *)
CreateVersion(p) ==
    /\ At(p, "version")
    /\ LET list == Parsed(p).list
           idOf == [slug \in SlugsOf(list) |-> (CHOOSE e \in entries : e.slug = slug).id]
       IN  \/ ~ValidPlacements(board, list) /\ Fail(p)
           \/ /\ ValidPlacements(board, list)
              /\ versions' = Append(versions, StoredRows(board, list, idOf))
              /\ Succeed(p)
              /\ UNCHANGED <<board, entries, steady>>

(* The process is stopped; what has been committed stays.                  *)
Stop(p) == s[p] # Idle /\ Fail(p)

-----------------------------------------------------------------------------
Init ==
    /\ board = None /\ entries = {} /\ versions = << >>
    /\ s = [p \in Syncers |-> Idle]
    /\ synced = None /\ steady = TRUE

Step(p) ==
    \/ ReadBoard(p) \/ CreateBoard(p) \/ UpdateBoard(p) \/ NoEntries(p)
    \/ ListEntries(p) \/ AddEntry(p) \/ Compare(p) \/ CreateVersion(p)

(* No sync runs and the bound keeps another from starting.                 *)
BoundReached == Quiet /\ Len(versions) >= VersionBound /\ UNCHANGED vars

Next == BoundReached \/ \E p \in Syncers : Start(p) \/ Step(p) \/ Stop(p)

Spec == Init /\ [][Next]_vars

-----------------------------------------------------------------------------
(* Properties.                                                             *)

Latest == versions[Len(versions)]

HasContent(rows, list) ==
    /\ RowSlugs(rows) = SlugsOf(list)
    /\ \A i \in Indices(list) :
         LET r == RowOf(rows, list[i].slug)
         IN  r.score = list[i].score /\ r.tier = list[i].tier

(* After a sync that reports success the latest version has the entries,   *)
(* scores and tiers of its files, and the positions if the board is        *)
(* ordered, whatever syncs were stopped or failed before (execute.rs,      *)
(* "create/update as needed").  A list that names an entry twice is not    *)
(* reported: see README.md.                                                *)
ContentIsSynced ==
    synced # None /\ synced.list # << >> /\ DistinctSlugs(synced.list) =>
        /\ versions # << >>
        /\ HasContent(Latest, synced.list)
        /\ board.type = "ordered" =>
             \A i \in Indices(synced.list) :
                 RowOf(Latest, synced.list[i].slug).pos = ResolvedPosition(board, synced.list, i)

FollowsConfig(row, rows) ==
    /\ row.type = "scored" => rows = DeriveScoredPositions(rows, row.dir)
    /\ row.type = "tiered" => \A r \in rows : r.tier \in DOMAIN row.tiers

(* After a sync that reports success the latest version is ranked by the   *)
(* configuration in the files (execute.rs, "sort_direction and tier_config *)
(* affect ranking -- force a new version"), while syncs run one at a time  *)
(* and none is stopped, rejected or without entries, however the files     *)
(* change between them.                                                    *)
RankingIsSynced ==
    steady /\ Quiet /\ synced # None /\ synced.list # << >> =>
        /\ versions # << >>
        /\ board.type = "scored" => board.dir = synced.dir
        /\ FollowsConfig(board, Latest)

GivesNoPositions(list) == \A i \in Indices(list) : list[i].pos = None

(* While syncs run one at a time and none is stopped, rejected or without  *)
(* entries, a sync of files that have not changed since the last one       *)
(* creates no version (DESIGN.md, "no new version is created").  On a      *)
(* scored board this takes files that leave the positions to it: an        *)
(* explicit one is compared with the derived one, and each sync of files   *)
(* whose positions are not the derived ones creates another version.       *)
NoRepeatedVersion ==
    [][\A p \in Syncers :
         /\ steady /\ At(p, "version") /\ Parsed(p) = synced
         /\ board.type = "scored" => GivesNoPositions(Parsed(p).list)
         => versions' = versions]_vars
=============================================================================

----------------------------- MODULE SyncProofs -----------------------------
(***************************************************************************)
(* Proofs about Sync, for every set of syncs and of files.                 *)
(*                                                                         *)
(* ContentIsSynced: what a sync compares or stores are rows with one row   *)
(* per slug (VersionsTabular), so a list of distinct slugs that agrees     *)
(* with them in number and slug by slug has their content; and the board   *)
(* it has read has the type of the row, which never changes (SeenBoard).   *)
(*                                                                         *)
(* RankingIsSynced: while steady one sync runs at a time (OneAtATime), the *)
(* row it has read or written is the row of the board, which has the       *)
(* configuration in its files once it has been updated; and the latest     *)
(* version follows that configuration unless a new one is forced (Steady). *)
(* Positions derived from derived rows are the same positions.             *)
(*                                                                         *)
(* NoRepeatedVersion: what a version stores, and what the comparison has   *)
(* found, is what it finds again (StoredAgrees, Repeats).                  *)
(***************************************************************************)
EXTENDS Sync, RankingProofs

Row == [id : EntryIds, slug : Slugs, pos : Int \cup {None},
        score : Int \cup {None, NotFinite}, tier : Tiers \cup {None}]

ListPcs == {"entries", "add", "version"}

SeenPcs == ListPcs \cup {"update", "empty"}

Pcs == SeenPcs \cup {"idle", "read", "create"}

Syncs == [pc : Pcs, parsed : Files \cup {None}, seen : BoardRows \cup {None},
          missing : SUBSET Slugs, forced : BOOLEAN]

TypeOK ==
    /\ board \in BoardRows \cup {None}
    /\ entries \subseteq [id : EntryIds, slug : Slugs]
    /\ versions \in Seq(SUBSET Row)
    /\ s \in [Syncers -> Syncs]
    /\ synced \in Files \cup {None}
    /\ steady \in BOOLEAN

(* A sync that runs has its files; one that goes on after its board row    *)
(* has a copy of it, and the type of the copy is the board's.              *)
SeenBoard ==
    \A p \in Syncers :
        /\ s[p].pc = "idle" => s[p] = Idle
        /\ s[p].pc # "idle" => s[p].parsed \in Files
        /\ s[p].pc = "empty" => s[p].parsed.list = << >>
        /\ s[p].pc \in SeenPcs =>
             board # None /\ s[p].seen # None /\ s[p].seen.type = board.type

(* A tiered board has tiers, and there are no versions without a board.    *)
BoardComplete ==
    /\ board # None /\ board.type = "tiered" => board.tiers # None
    /\ board = None => versions = << >>

(* Once a sync has no entry left to add, each slug of its list has one.    *)
EntriesFound ==
    \A p \in Syncers :
        /\ s[p].pc = "add" => SlugsOf(s[p].parsed.list) \ s[p].missing \subseteq EntrySlugs
        /\ s[p].pc = "version" => SlugsOf(s[p].parsed.list) \subseteq EntrySlugs

VersionsTabular ==
    \A i \in 1..Len(versions) : IsFiniteSet(versions[i]) /\ OnePerSlug(versions[i])

OneAtATime == steady => \A p, q \in Syncers : s[p].pc # "idle" /\ s[q].pc # "idle" => p = q

(* The latest version is ranked as the board is configured, and there is   *)
(* one if there is a board.                                                *)
Ranked == versions # << >> => FollowsConfig(board, Latest)

Steady ==
    steady =>
        /\ (\A p \in Syncers : s[p].pc \in {"idle", "read", "create", "update"}) =>
             /\ board # None => versions # << >>
             /\ Ranked
        /\ (\A p \in Syncers : s[p].pc = "idle") /\ synced # None =>
             board # None /\ board.dir = synced.dir
        /\ \A p \in Syncers :
             /\ s[p].pc = "create" => board = None
             /\ s[p].pc = "update" => s[p].seen = board
             /\ s[p].pc \in ListPcs =>
                  /\ s[p].seen = board
                  /\ board.dir = s[p].parsed.dir
                  /\ s[p].forced \/ Ranked

(* A list that the comparison finds in the latest version, unless it gives *)
(* the positions of a scored board.                                        *)
PositionsLeft(row, list) == row.type = "scored" => GivesNoPositions(list)

Found(row, list) ==
    /\ versions # << >>
    /\ PositionsLeft(row, list) => ~PlacementsChanged(row, Latest, list)

(* The board is configured as the files of the last sync say, and has      *)
(* their list; a sync of the same files finds both.                        *)
Repeats ==
    steady =>
        /\ (\A p \in Syncers : s[p].pc \in {"idle", "read", "create", "update"})
             /\ synced # None =>
               /\ board # None /\ board.dir = synced.dir /\ board.tiers = synced.tiers
               /\ Found(board, synced.list)
        /\ \A p \in Syncers : s[p].pc \in ListPcs =>
             /\ board.dir = s[p].parsed.dir /\ board.tiers = s[p].parsed.tiers
             /\ s[p].parsed = synced =>
                  /\ ~s[p].forced /\ Found(board, synced.list)
                  /\ s[p].pc = "version" => ~PositionsLeft(board, synced.list)

IInv ==
    /\ TypeOK
    /\ SeenBoard /\ BoardComplete
    /\ EntriesFound /\ VersionsTabular
    /\ ContentIsSynced
    /\ OneAtATime /\ Steady /\ Repeats

-----------------------------------------------------------------------------
(* What a version stores, and what the comparison finds equal, has the     *)
(* content of the list.                                                    *)

LEMMA StoredRowsType ==
    ASSUME NEW row, NEW list \in Seq(Placement), NEW idOf, DistinctSlugs(list),
           \A x \in SlugsOf(list) : idOf[x] \in EntryIds
    PROVE  /\ StoredRows(row, list, idOf) \subseteq Row
           /\ Tabular(StoredRows(row, list, idOf))
<1> DEFINE plain == PlacementRows(row, list, idOf)
<1>1. Len(list) \in Nat /\ \A i \in 1..Len(list) : list[i] \in Placement
  OBVIOUS
<1>2. plain = {RowAt(row, list, idOf, i) : i \in 1..Len(list)}
  BY PlacementRowsAre DEF Indices
<1>3. ASSUME NEW i \in 1..Len(list)
      PROVE  RowAt(row, list, idOf, i) \in Row
  <2>1. idOf[list[i].slug] \in EntryIds
    BY DEF SlugsOf, Indices
  <2>2. list[i] \in Placement
    BY <1>1
  <2>3. ResolvedPosition(row, list, i) \in Int \cup {None}
    BY <2>2 DEF ResolvedPosition, Placement
  <2> QED
    BY <2>1, <2>2, <2>3 DEF RowAt, Row, Placement
<1>4. IsFiniteSet(plain)
  BY <1>1, PlacementRowsFinite
<1> HIDE DEF plain
<1>5. ASSUME NEW r \in plain
      PROVE  Derived(r, plain, row.dir) \in Row
  <2>1. r \in Row
    BY <1>2, <1>3
  <2>2. DerivedPosition(r, plain, row.dir) \in Int
    BY <1>4, DerivedPositionType
  <2> QED
    BY <2>1, <2>2 DEF Derived, Row
<1>6. StoredRows(row, list, idOf) \subseteq Row
  <2>1. StoredRows(row, list, idOf) = IF row.type = "scored"
                                      THEN DeriveScoredPositions(plain, row.dir) ELSE plain
    BY DEF StoredRows, plain
  <2>2. DeriveScoredPositions(plain, row.dir) = {Derived(r, plain, row.dir) : r \in plain}
    BY DerivedRowsAre
  <2>3. plain \subseteq Row
    BY <1>2, <1>3
  <2>4. DeriveScoredPositions(plain, row.dir) \subseteq Row
    BY <1>5, <2>2
  <2> QED
    BY <2>1, <2>3, <2>4
<1> QED
  BY <1>1, <1>6, StoredRowOf

Positioned(row, rows, list) ==
    row.type = "ordered" =>
        \A i \in Indices(list) : RowOf(rows, list[i].slug).pos = ResolvedPosition(row, list, i)

LEMMA StoredHasContent ==
    ASSUME NEW row, NEW list \in Seq(Placement), NEW idOf, DistinctSlugs(list),
           NEW rows, rows = StoredRows(row, list, idOf)
    PROVE  HasContent(rows, list) /\ Positioned(row, rows, list)
<1>1. /\ RowSlugs(rows) = SlugsOf(list)
      /\ \A i \in Indices(list) : StoresAt(row, rows, list, i)
  <2>1. Len(list) \in Nat
    OBVIOUS
  <2> QED
    BY <2>1, StoredRowOf
<1> QED
  BY <1>1 DEF HasContent, Positioned, StoresAt

LEMMA AgreesContent ==
    ASSUME NEW row, NEW list \in Seq(Placement), DistinctSlugs(list),
           NEW rows, IsFiniteSet(rows), OnePerSlug(rows), ~PlacementsChanged(row, rows, list)
    PROVE  HasContent(rows, list) /\ Positioned(row, rows, list)
<1>1. /\ RowSlugs(rows) = SlugsOf(list)
      /\ \A i \in Indices(list) :
           LET r == RowOf(rows, list[i].slug)
           IN  /\ ~PositionChanged(row, list, i, r)
               /\ r.score = list[i].score /\ r.tier = list[i].tier
  <2>1. Len(list) \in Nat
    OBVIOUS
  <2> QED
    BY <2>1, ComparisonMeans
<1> QED
  BY <1>1 DEF HasContent, Positioned, PositionChanged, ResolvedPosition

(* What a version stores is ranked as the board is configured.             *)
LEMMA StoredFollows ==
    ASSUME NEW row, NEW list \in Seq(Placement), NEW idOf,
           ValidPlacements(row, list), row.type = "tiered" => row.tiers # None
    PROVE  FollowsConfig(row, StoredRows(row, list, idOf))
<1> DEFINE plain == PlacementRows(row, list, idOf)
<1>1. plain = {RowAt(row, list, idOf, i) : i \in Indices(list)}
  BY PlacementRowsAre
<1>2. Tabular(plain)
  <2>1. Len(list) \in Nat /\ DistinctSlugs(list)
    BY DEF ValidPlacements
  <2> QED
    BY <2>1, PlacementRowsTabular
<1>3. CASE row.type = "scored"
  <2>1. StoredRows(row, list, idOf) = DeriveScoredPositions(plain, row.dir)
    BY <1>3 DEF StoredRows
  <2> HIDE DEF plain
  <2>2. DeriveScoredPositions(DeriveScoredPositions(plain, row.dir), row.dir)
          = DeriveScoredPositions(plain, row.dir)
    BY <1>2, DerivedAgain
  <2> QED
    BY <1>3, <2>1, <2>2 DEF FollowsConfig
<1>4. CASE row.type = "tiered"
  <2>1. \A i \in Indices(list) : list[i].tier \in DOMAIN row.tiers
    BY <1>4 DEF ValidPlacements, EveryTierKnown
  <2>2. StoredRows(row, list, idOf) = plain
    BY <1>4 DEF StoredRows
  <2>3. \A i \in Indices(list) : RowAt(row, list, idOf, i).tier = list[i].tier
    BY RowAtFields
  <2> HIDE DEF plain
  <2> QED
    BY <1>1, <1>4, <2>1, <2>2, <2>3 DEF FollowsConfig
<1> QED
  BY <1>3, <1>4 DEF FollowsConfig

-----------------------------------------------------------------------------
(* What each action does to the sync that takes it.                        *)

OthersStay(p) ==
    /\ s' \in [Syncers -> Syncs]
    /\ \A q \in Syncers : q # p => s'[q] = s[q]

LEMMA Moves ==
    ASSUME TypeOK, NEW p \in Syncers, NEW r, s' = [s EXCEPT ![p] = r], r \in Syncs
    PROVE  OthersStay(p) /\ s'[p] = r
BY DEF TypeOK, OthersStay

LEMMA IdleFields ==
    /\ Idle \in Syncs
    /\ Idle.pc = "idle" /\ Idle.parsed = None /\ Idle.seen = None
    /\ Idle.missing = {} /\ Idle.forced = FALSE
BY DEF Idle, Syncs, Pcs, SeenPcs, ListPcs

LEMMA Ends ==
    ASSUME TypeOK, NEW p \in Syncers, s' = [s EXCEPT ![p] = Idle]
    PROVE  OthersStay(p) /\ s'[p] = Idle
BY Moves, IdleFields

LEMMA StartForm ==
    ASSUME TypeOK, NEW p \in Syncers, Start(p)
    PROVE  /\ s[p] = Idle /\ OthersStay(p)
           /\ s'[p].pc = "read" /\ s'[p].parsed \in Files
           /\ steady' = (steady /\ Quiet)
           /\ UNCHANGED <<board, entries, versions, synced>>
<1>1. PICK file \in Files : s' = [s EXCEPT ![p] = [Idle EXCEPT !.pc = "read", !.parsed = file]]
  BY DEF Start
<1> DEFINE r == [Idle EXCEPT !.pc = "read", !.parsed = file]
<1>2. r \in Syncs /\ r.pc = "read" /\ r.parsed = file
  BY IdleFields DEF Idle, Syncs, Pcs, SeenPcs, ListPcs
<1>3. s' = [s EXCEPT ![p] = r]
  BY <1>1
<1> HIDE DEF r
<1>4. OthersStay(p) /\ s'[p] = r
  BY <1>2, <1>3, Moves
<1> QED
  BY <1>2, <1>4 DEF Start, db

LEMMA ReadBoardForm ==
    ASSUME TypeOK, NEW p \in Syncers, ReadBoard(p)
    PROVE  /\ s[p].pc = "read" /\ OthersStay(p)
           /\ s'[p].pc = IF board = None THEN "create" ELSE "update"
           /\ s'[p].parsed = s[p].parsed /\ s'[p].seen = board
           /\ UNCHANGED <<board, entries, versions, synced, steady>>
<1> DEFINE r == [s[p] EXCEPT !.seen = board,
                             !.pc = IF board = None THEN "create" ELSE "update"]
<1>1. s[p] \in Syncs /\ board \in BoardRows \cup {None}
  BY DEF TypeOK
<1>2. /\ r \in Syncs /\ r.pc = (IF board = None THEN "create" ELSE "update")
      /\ r.parsed = s[p].parsed /\ r.seen = board
  BY <1>1 DEF Syncs, Pcs, SeenPcs, ListPcs
<1>3. s' = [s EXCEPT ![p] = r]
  BY <1>1 DEF ReadBoard, Syncs, TypeOK
<1> HIDE DEF r
<1>4. OthersStay(p) /\ s'[p] = r
  BY <1>2, <1>3, Moves
<1> QED
  BY <1>2, <1>4 DEF ReadBoard, At, db

LEMMA ListEntriesForm ==
    ASSUME TypeOK, NEW p \in Syncers, ListEntries(p), SlugsOf(s[p].parsed.list) \subseteq Slugs
    PROVE  /\ s[p].pc = "entries" /\ OthersStay(p) /\ s'[p].pc = "add"
           /\ s'[p].parsed = s[p].parsed /\ s'[p].seen = s[p].seen
           /\ s'[p].forced = s[p].forced
           /\ s'[p].missing = SlugsOf(s[p].parsed.list) \ EntrySlugs
           /\ UNCHANGED <<board, entries, versions, synced, steady>>
<1> DEFINE lacking == SlugsOf(s[p].parsed.list) \ EntrySlugs
           r == [s[p] EXCEPT !.pc = "add", !.missing = lacking]
<1>1. s[p] \in Syncs /\ lacking \subseteq Slugs
  BY DEF TypeOK
<1>2. s' = [s EXCEPT ![p] = r]
  BY <1>1 DEF ListEntries, Syncs, TypeOK, Parsed
<1>3. s[p].pc = "entries" /\ UNCHANGED <<board, entries, versions, synced, steady>>
  BY DEF ListEntries, At, db
<1> HIDE DEF lacking
<1>4. /\ r \in Syncs /\ r.pc = "add" /\ r.missing = lacking
      /\ r.parsed = s[p].parsed /\ r.seen = s[p].seen /\ r.forced = s[p].forced
  BY <1>1 DEF Syncs, Pcs, SeenPcs, ListPcs
<1> HIDE DEF r
<1>5. OthersStay(p) /\ s'[p] = r
  BY <1>2, <1>4, Moves
<1> QED
  BY <1>3, <1>4, <1>5 DEF lacking

LEMMA FailForm ==
    ASSUME TypeOK, NEW p \in Syncers, Fail(p)
    PROVE  /\ OthersStay(p) /\ s'[p] = Idle /\ synced' = None /\ steady' = FALSE
           /\ UNCHANGED <<board, entries, versions>>
BY Ends DEF Fail, db

LEMMA NoEntriesForm ==
    ASSUME TypeOK, NEW p \in Syncers, NoEntries(p)
    PROVE  /\ s[p].pc = "empty" /\ OthersStay(p) /\ s'[p] = Idle
           /\ synced' = s[p].parsed /\ steady' = FALSE
           /\ UNCHANGED <<board, entries, versions>>
BY Ends DEF NoEntries, Succeed, Parsed, At, db

(* What the files say of a board, and where its list sends the sync.       *)
LEMMA ParsedIs ==
    ASSUME NEW f \in Files
    PROVE  /\ f.tiers \in TierConfigs
           /\ f.list \in Seq(Placement) /\ SlugsOf(f.list) \subseteq Slugs
           /\ AfterBoard(f) \in {"empty", "entries"}
           /\ AfterBoard(f) = "empty" => f.list = << >>
<1>1. f \in ParsedBoard
  BY FilesAssumption
<1>2. \A i \in 1..Len(f.list) : f.list[i].slug \in Slugs
  <2>1. f.list \in Seq(Placement)
    BY <1>1 DEF ParsedBoard
  <2>2. \A i \in 1..Len(f.list) : f.list[i] \in Placement
    BY <2>1
  <2> QED
    BY <2>2 DEF Placement
<1> QED
  BY <1>1, <1>2 DEF ParsedBoard, SlugsOf, Indices, AfterBoard

LEMMA CreateBoardForm ==
    ASSUME TypeOK, NEW p \in Syncers, s[p].parsed \in Files, CreateBoard(p), ~Fail(p)
    PROVE  /\ s[p].pc = "create" /\ OthersStay(p)
           /\ s'[p].pc \in {"empty", "entries"}
           /\ s'[p].pc = "empty" => s[p].parsed.list = << >>
           /\ s'[p].parsed = s[p].parsed /\ s'[p].seen = board'
           /\ board = None
           /\ board' \in BoardRows /\ board'.dir = s[p].parsed.dir
           /\ board'.tiers = s[p].parsed.tiers
           /\ board'.type = "tiered" => board'.tiers # None
           /\ UNCHANGED <<entries, versions, synced, steady>>
<1> DEFINE f == s[p].parsed
           new == [type |-> f.type, dir |-> f.dir, tiers |-> f.tiers]
           r == [s[p] EXCEPT !.seen = new, !.pc = AfterBoard(f)]
<1>1. /\ s[p].pc = "create" /\ board = None /\ CreateAllowed(f)
      /\ board' = new /\ UNCHANGED <<entries, versions, synced, steady>>
      /\ s' = [s EXCEPT ![p].seen = board', ![p].pc = AfterBoard(f)]
  BY DEF CreateBoard, At, Parsed
<1>2. /\ f.tiers \in TierConfigs
      /\ AfterBoard(f) \in {"empty", "entries"}
      /\ AfterBoard(f) = "empty" => f.list = << >>
  BY ParsedIs
<1>3. /\ new \in BoardRows /\ new.dir = f.dir /\ new.tiers = f.tiers
      /\ new.type = "tiered" => new.tiers # None
  BY <1>1, <1>2 DEF BoardRows, CreateAllowed
<1>4. s[p] \in Syncs
  BY DEF TypeOK
<1> HIDE DEF new, f
<1>5. s' = [s EXCEPT ![p] = r]
  BY <1>1, <1>4 DEF Syncs, TypeOK
<1>6. r \in Syncs /\ r.pc = AfterBoard(f) /\ r.parsed = s[p].parsed /\ r.seen = new
  BY <1>2, <1>3, <1>4 DEF Syncs, Pcs, SeenPcs, ListPcs
<1> HIDE DEF r
<1>7. OthersStay(p) /\ s'[p] = r
  BY <1>5, <1>6, Moves
<1> QED
  BY <1>1, <1>2, <1>3, <1>6, <1>7 DEF f

(* A change of the configuration forces a version, and without one the row *)
(* stays as it is.                                                         *)
LEMMA UpdateBoardForm ==
    ASSUME TypeOK, SeenBoard, BoardComplete, NEW p \in Syncers, UpdateBoard(p), ~Fail(p)
    PROVE  /\ s[p].pc = "update" /\ OthersStay(p)
           /\ s'[p].pc \in {"empty", "entries"}
           /\ s'[p].pc = "empty" => s[p].parsed.list = << >>
           /\ s'[p].parsed = s[p].parsed
           /\ board' \in BoardRows /\ s'[p].seen \in BoardRows
           /\ board'.type = board.type /\ s'[p].seen.type = board.type
           /\ board'.type = "tiered" => board'.tiers # None
           /\ s[p].seen = board =>
                /\ s'[p].seen = board'
                /\ board'.dir = s[p].parsed.dir /\ board'.tiers = s[p].parsed.tiers
                /\ s'[p].forced \/ board' = board
                /\ s'[p].forced => RankingConfigChanged(board, s[p].parsed)
           /\ UNCHANGED <<entries, versions, synced, steady>>
<1> DEFINE f == s[p].parsed
           old == s[p].seen
           new == [board EXCEPT !.dir   = IF old.dir = f.dir THEN board.dir ELSE f.dir,
                                !.tiers = IF old.tiers = f.tiers THEN board.tiers ELSE f.tiers]
           changed == RankingConfigChanged(old, f)
           r == [s[p] EXCEPT !.seen = IF changed THEN new ELSE old,
                             !.forced = ForcesVersion(old, f), !.pc = AfterBoard(f)]
<1>1. /\ s[p].pc = "update"
      /\ UpdateAllowed(board, old.dir # f.dir, f) \/ ~changed
      /\ board' = (IF changed THEN new ELSE board)
      /\ s' = [s EXCEPT ![p].seen = IF changed THEN new ELSE old,
                        ![p].forced = ForcesVersion(old, f), ![p].pc = AfterBoard(f)]
      /\ UNCHANGED <<entries, versions, synced, steady>>
  BY DEF UpdateBoard, At, Parsed
<1>2. s[p] \in Syncs
  BY DEF TypeOK
<1>3. /\ f \in Files /\ board \in BoardRows /\ old \in BoardRows /\ old.type = board.type
  BY <1>1, <1>2 DEF SeenBoard, TypeOK, SeenPcs, Syncs
<1>4. /\ f.tiers \in TierConfigs
      /\ old.dir # f.dir => f.dir \in Directions
      /\ AfterBoard(f) \in {"empty", "entries"}
      /\ AfterBoard(f) = "empty" => f.list = << >>
  BY <1>1, <1>3, ParsedIs DEF UpdateAllowed, RankingConfigChanged
<1>5. ForcesVersion(old, f) \in BOOLEAN /\ (ForcesVersion(old, f) <=> changed)
  BY DEF ForcesVersion, RankingConfigChanged
<1> HIDE DEF f, old
<1>6. /\ new \in BoardRows /\ new.type = board.type
      /\ new.dir = (IF old.dir = f.dir THEN board.dir ELSE f.dir)
      /\ new.tiers = (IF old.tiers = f.tiers THEN board.tiers ELSE f.tiers)
  BY <1>3, <1>4 DEF BoardRows
<1>7. changed /\ board.type = "tiered" => new.tiers # None
  BY <1>1, <1>3, <1>6, NullAssumption DEF UpdateAllowed, BoardComplete
<1>8. ~changed => old.dir = f.dir /\ old.tiers = f.tiers
  BY DEF RankingConfigChanged
<1>9. board.type = "tiered" => board.tiers # None
  BY <1>3, NullAssumption DEF BoardComplete
<1> HIDE DEF new, changed
<1>10. s' = [s EXCEPT ![p] = r]
  BY <1>1, <1>2 DEF Syncs, TypeOK
<1>11. r \in Syncs /\ r.pc = AfterBoard(f) /\ r.parsed = s[p].parsed
       /\ r.seen = (IF changed THEN new ELSE old) /\ r.forced = ForcesVersion(old, f)
  BY <1>2, <1>3, <1>4, <1>5, <1>6 DEF Syncs, Pcs, SeenPcs, ListPcs
<1> HIDE DEF r
<1>12. OthersStay(p) /\ s'[p] = r
  BY <1>10, <1>11, Moves
<1>13. /\ board' \in BoardRows /\ s'[p].seen \in BoardRows
       /\ board'.type = board.type /\ s'[p].seen.type = board.type
       /\ board'.type = "tiered" => board'.tiers # None
  BY <1>1, <1>3, <1>6, <1>7, <1>9, <1>11, <1>12
<1>14. old = board =>
         /\ s'[p].seen = board' /\ board'.dir = f.dir /\ board'.tiers = f.tiers
         /\ s'[p].forced \/ board' = board
  BY <1>1, <1>5, <1>6, <1>8, <1>11, <1>12
<1>15. old = board /\ s'[p].forced => RankingConfigChanged(board, f)
  BY <1>5, <1>11, <1>12 DEF changed
<1> QED
  BY <1>1, <1>4, <1>11, <1>12, <1>13, <1>14, <1>15 DEF f, old

LEMMA AddEntryForm ==
    ASSUME TypeOK, NEW p \in Syncers, AddEntry(p), ~Fail(p)
    PROVE  /\ s[p].pc = "add" /\ OthersStay(p) /\ s'[p].pc = "add"
           /\ s'[p].parsed = s[p].parsed /\ s'[p].seen = s[p].seen
           /\ s'[p].forced = s[p].forced
           /\ \E slug \in Slugs, id \in EntryIds :
                /\ entries' = entries \cup {[id |-> id, slug |-> slug]}
                /\ s'[p].missing = s[p].missing \ {slug}
           /\ UNCHANGED <<board, versions, synced, steady>>
<1>1. s[p] \in Syncs /\ s[p].missing \subseteq Slugs
  BY DEF TypeOK, Syncs
<1>2. PICK slug \in s[p].missing :
        /\ \E id \in EntryIds \ {e.id : e \in entries} :
             entries' = entries \cup {[id |-> id, slug |-> slug]}
        /\ s' = [s EXCEPT ![p].missing = @ \ {slug}]
        /\ UNCHANGED <<board, versions, synced, steady>>
  BY DEF AddEntry
<1>3. PICK id \in EntryIds : entries' = entries \cup {[id |-> id, slug |-> slug]}
  BY <1>2
<1> DEFINE r == [s[p] EXCEPT !.missing = s[p].missing \ {slug}]
<1>4. s[p].pc = "add"
  BY DEF AddEntry, At
<1>5. s' = [s EXCEPT ![p] = r]
  BY <1>1, <1>2 DEF Syncs, TypeOK
<1>6. /\ r \in Syncs /\ r.pc = s[p].pc /\ r.missing = s[p].missing \ {slug}
      /\ r.parsed = s[p].parsed /\ r.seen = s[p].seen /\ r.forced = s[p].forced
  BY <1>1 DEF Syncs
<1> HIDE DEF r
<1>7. OthersStay(p) /\ s'[p] = r
  BY <1>5, <1>6, Moves
<1>8. slug \in Slugs /\ s'[p].missing = s[p].missing \ {slug}
  BY <1>1, <1>6, <1>7
<1> QED
  BY <1>2, <1>3, <1>4, <1>6, <1>7, <1>8

LEMMA CompareForm ==
    ASSUME TypeOK, NEW p \in Syncers, Compare(p)
    PROVE  /\ s[p].pc = "add" /\ s[p].missing = {} /\ OthersStay(p)
           /\ \/ /\ NeedsVersion(p)
                 /\ s'[p].pc = "version" /\ s'[p].parsed = s[p].parsed
                 /\ s'[p].seen = s[p].seen /\ s'[p].forced = s[p].forced
                 /\ UNCHANGED synced
              \/ ~NeedsVersion(p) /\ s'[p] = Idle /\ synced' = s[p].parsed
           /\ UNCHANGED <<board, entries, versions, steady>>
<1>1. /\ s[p].pc = "add" /\ s[p].missing = {}
      /\ UNCHANGED <<board, entries, versions, steady>>
  BY DEF Compare, At, db
<1>2. CASE NeedsVersion(p)
  <2> DEFINE r == [s[p] EXCEPT !.pc = "version"]
  <2>1. s[p] \in Syncs
    BY DEF TypeOK
  <2>2. s' = [s EXCEPT ![p] = r] /\ UNCHANGED synced
    BY <1>2, <2>1 DEF Compare, Syncs, TypeOK
  <2>3. /\ r \in Syncs /\ r.pc = "version"
        /\ r.parsed = s[p].parsed /\ r.seen = s[p].seen /\ r.forced = s[p].forced
    BY <2>1 DEF Syncs, Pcs, SeenPcs, ListPcs
  <2> HIDE DEF r
  <2>4. OthersStay(p) /\ s'[p] = r
    BY <2>2, <2>3, Moves
  <2> QED
    BY <1>1, <1>2, <2>2, <2>3, <2>4
<1>3. CASE ~NeedsVersion(p)
  <2>1. s' = [s EXCEPT ![p] = Idle] /\ synced' = s[p].parsed
    BY <1>3 DEF Compare, Succeed, Parsed
  <2> QED
    BY <1>1, <1>3, <2>1, Ends
<1> QED
  BY <1>2, <1>3

(* The rows that the version of a sync stores.                             *)
VersionOf(p) ==
    StoredRows(board, s[p].parsed.list,
               [slug \in SlugsOf(s[p].parsed.list) |-> (CHOOSE e \in entries : e.slug = slug).id])

LEMMA CreateVersionForm ==
    ASSUME TypeOK, NEW p \in Syncers, CreateVersion(p), ~Fail(p)
    PROVE  /\ s[p].pc = "version" /\ OthersStay(p) /\ s'[p] = Idle
           /\ synced' = s[p].parsed /\ ValidPlacements(board, s[p].parsed.list)
           /\ versions' = Append(versions, VersionOf(p))
           /\ UNCHANGED <<board, entries, steady>>
<1>1. /\ s[p].pc = "version" /\ ValidPlacements(board, s[p].parsed.list)
      /\ versions' = Append(versions, VersionOf(p))
      /\ Succeed(p) /\ UNCHANGED <<board, entries, steady>>
  BY DEF CreateVersion, At, Parsed, VersionOf
<1> QED
  BY <1>1, Ends DEF Succeed, Parsed

(* Every entry that a version names is there when it is stored.            *)
LEMMA VersionOfIs ==
    ASSUME IInv, NEW p \in Syncers, s[p].pc = "version",
           ValidPlacements(board, s[p].parsed.list)
    PROVE  /\ VersionOf(p) \in SUBSET Row /\ IsFiniteSet(VersionOf(p))
           /\ OnePerSlug(VersionOf(p))
           /\ HasContent(VersionOf(p), s[p].parsed.list)
           /\ Positioned(board, VersionOf(p), s[p].parsed.list)
           /\ FollowsConfig(board, VersionOf(p))
           /\ PositionsLeft(board, s[p].parsed.list) =>
                ~PlacementsChanged(board, VersionOf(p), s[p].parsed.list)
<1> DEFINE list == s[p].parsed.list
           idOf == [slug \in SlugsOf(list) |-> (CHOOSE e \in entries : e.slug = slug).id]
<1>1. s[p].parsed \in Files /\ board # None
  BY DEF IInv, SeenBoard, SeenPcs, ListPcs
<1>2. list \in Seq(Placement) /\ DistinctSlugs(list)
  BY <1>1, ParsedIs DEF ValidPlacements
<1>3. \A x \in SlugsOf(list) : idOf[x] \in EntryIds
  <2> SUFFICES ASSUME NEW x \in SlugsOf(list)
               PROVE  idOf[x] \in EntryIds
    OBVIOUS
  <2>1. \E e \in entries : e.slug = x
    BY DEF IInv, EntriesFound, EntrySlugs
  <2>2. (CHOOSE e \in entries : e.slug = x) \in entries
    BY <2>1
  <2>3. (CHOOSE e \in entries : e.slug = x).id \in EntryIds
    BY <2>2 DEF IInv, TypeOK
  <2> QED
    BY <2>3
<1>4. board.type = "tiered" => board.tiers # None
  BY <1>1 DEF IInv, BoardComplete
<1>5. VersionOf(p) = StoredRows(board, list, idOf)
  BY DEF VersionOf
<1>6. ValidPlacements(board, list)
  OBVIOUS
<1> HIDE DEF list, idOf
<1>7. /\ VersionOf(p) \in SUBSET Row /\ IsFiniteSet(VersionOf(p))
      /\ OnePerSlug(VersionOf(p))
  BY <1>2, <1>3, <1>5, StoredRowsType DEF Tabular
<1>8. HasContent(VersionOf(p), list) /\ Positioned(board, VersionOf(p), list)
  BY <1>2, <1>5, StoredHasContent
<1>9. FollowsConfig(board, VersionOf(p))
  BY <1>2, <1>4, <1>5, <1>6, StoredFollows
<1>10. PositionsLeft(board, list) => ~PlacementsChanged(board, VersionOf(p), list)
  <2>1. Len(list) \in Nat
    BY <1>2
  <2> QED
    BY <1>2, <1>5, <2>1, StoredAgrees DEF PositionsLeft, GivesNoPositions
<1> QED
  BY <1>7, <1>8, <1>9, <1>10 DEF list

-----------------------------------------------------------------------------
(* The invariant.                                                          *)

(* A step stutters, or is the step of one sync, which may end in failure.  *)
LEMMA NextIs ==
    ASSUME [Next]_vars
    PROVE  \/ UNCHANGED <<board, entries, versions, s, synced, steady>>
           \/ \E p \in Syncers :
                \/ Fail(p) \/ Start(p) \/ ReadBoard(p)
                \/ CreateBoard(p) /\ ~Fail(p)
                \/ UpdateBoard(p) /\ ~Fail(p)
                \/ NoEntries(p) \/ ListEntries(p)
                \/ AddEntry(p) /\ ~Fail(p)
                \/ Compare(p)
                \/ CreateVersion(p) /\ ~Fail(p)
BY DEF Next, BoundReached, Step, Stop, vars, db

LEMMA NextType ==
    ASSUME IInv, [Next]_vars
    PROVE  TypeOK'
<1> USE DEF IInv
<1>1. CASE UNCHANGED <<board, entries, versions, s, synced, steady>>
  BY <1>1 DEF TypeOK
<1>2. ASSUME NEW p \in Syncers, Fail(p)
      PROVE  TypeOK'
  BY <1>2, FailForm DEF TypeOK, OthersStay
<1>3. ASSUME NEW p \in Syncers, Start(p)
      PROVE  TypeOK'
  <2>1. steady' = (steady /\ Quiet)
    BY <1>3, StartForm
  <2>2. steady' \in BOOLEAN
    BY <2>1
  <2> QED
    BY <1>3, <2>2, StartForm DEF TypeOK, OthersStay
<1>4. ASSUME NEW p \in Syncers, ReadBoard(p)
      PROVE  TypeOK'
  BY <1>4, ReadBoardForm DEF TypeOK, OthersStay
<1>5. ASSUME NEW p \in Syncers, s[p].pc # "idle"
      PROVE  s[p].parsed \in Files /\ SlugsOf(s[p].parsed.list) \subseteq Slugs
  <2>1. s[p].parsed \in Files
    BY <1>5 DEF SeenBoard
  <2> QED
    BY <2>1, ParsedIs
<1>6. ASSUME NEW p \in Syncers, CreateBoard(p), ~Fail(p)
      PROVE  TypeOK'
  <2>1. s[p].parsed \in Files
    BY <1>5, <1>6 DEF CreateBoard, At
  <2> QED
    BY <1>6, <2>1, CreateBoardForm DEF TypeOK, OthersStay
<1>7. ASSUME NEW p \in Syncers, UpdateBoard(p), ~Fail(p)
      PROVE  TypeOK'
  BY <1>7, UpdateBoardForm DEF TypeOK, OthersStay
<1>8. ASSUME NEW p \in Syncers, NoEntries(p)
      PROVE  TypeOK'
  <2>1. synced' \in Files /\ steady' \in BOOLEAN
    BY <1>5, <1>8, NoEntriesForm DEF NoEntries
  <2> QED
    BY <1>8, <2>1, NoEntriesForm DEF TypeOK, OthersStay
<1>9. ASSUME NEW p \in Syncers, ListEntries(p)
      PROVE  TypeOK'
  <2>1. SlugsOf(s[p].parsed.list) \subseteq Slugs
    BY <1>5, <1>9 DEF ListEntries, At
  <2> QED
    BY <1>9, <2>1, ListEntriesForm DEF TypeOK, OthersStay
<1>10. ASSUME NEW p \in Syncers, AddEntry(p), ~Fail(p)
       PROVE  TypeOK'
  <2>1. entries' \subseteq [id : EntryIds, slug : Slugs]
    <3>1. PICK slug \in Slugs, id \in EntryIds :
            entries' = entries \cup {[id |-> id, slug |-> slug]}
      BY <1>10, AddEntryForm
    <3> QED
      BY <3>1 DEF TypeOK
  <2> QED
    BY <1>10, <2>1, AddEntryForm DEF TypeOK, OthersStay
<1>11. ASSUME NEW p \in Syncers, Compare(p)
       PROVE  TypeOK'
  <2>1. s[p].parsed \in Files
    BY <1>5, <1>11, CompareForm
  <2> QED
    BY <1>11, <2>1, CompareForm DEF TypeOK, OthersStay
<1>12. ASSUME NEW p \in Syncers, CreateVersion(p), ~Fail(p)
       PROVE  TypeOK'
  <2>1. /\ s[p].pc = "version" /\ ValidPlacements(board, s[p].parsed.list)
        /\ versions' = Append(versions, VersionOf(p))
        /\ OthersStay(p) /\ synced' = s[p].parsed
        /\ UNCHANGED <<board, entries, steady>>
    BY <1>12, CreateVersionForm
  <2>2. VersionOf(p) \in SUBSET Row
    BY <2>1, VersionOfIs
  <2>3. versions' \in Seq(SUBSET Row)
    BY <2>1, <2>2 DEF TypeOK
  <2>4. s[p].parsed \in Files
    BY <1>5, <2>1
  <2> QED
    BY <2>1, <2>3, <2>4 DEF TypeOK, OthersStay
<1> QED
  BY <1>1, <1>2, <1>3, <1>4, <1>6, <1>7, <1>8, <1>9, <1>10, <1>11, <1>12, NextIs

(* The type of a board never changes, and it keeps its tiers.              *)
LEMMA NextBoard ==
    ASSUME IInv, [Next]_vars
    PROVE  /\ board # None => board' # None /\ board'.type = board.type
           /\ BoardComplete'
<1> USE DEF IInv
<1>1. CASE UNCHANGED <<board, entries, versions, s, synced, steady>>
  BY <1>1 DEF BoardComplete
<1>2. ASSUME NEW p \in Syncers, Fail(p)
      PROVE  UNCHANGED <<board, versions>>
  BY <1>2, FailForm
<1>3. ASSUME NEW p \in Syncers, Start(p)
      PROVE  UNCHANGED <<board, versions>>
  BY <1>3, StartForm
<1>4. ASSUME NEW p \in Syncers, ReadBoard(p)
      PROVE  UNCHANGED <<board, versions>>
  BY <1>4, ReadBoardForm
<1>5. ASSUME NEW p \in Syncers, CreateBoard(p), ~Fail(p)
      PROVE  board = None /\ board' # None /\ (board'.type = "tiered" => board'.tiers # None)
  <2>1. s[p].parsed \in Files
    BY <1>5 DEF CreateBoard, At, SeenBoard
  <2> QED
    BY <1>5, <2>1, CreateBoardForm, NullAssumption
<1>6. ASSUME NEW p \in Syncers, UpdateBoard(p), ~Fail(p)
      PROVE  /\ board' # None /\ board'.type = board.type
             /\ board'.type = "tiered" => board'.tiers # None
  BY <1>6, UpdateBoardForm, NullAssumption
<1>7. ASSUME NEW p \in Syncers, NoEntries(p)
      PROVE  UNCHANGED <<board, versions>>
  BY <1>7, NoEntriesForm
<1>8. ASSUME NEW p \in Syncers, ListEntries(p)
      PROVE  UNCHANGED <<board, versions>>
  BY <1>8 DEF ListEntries, db
<1>9. ASSUME NEW p \in Syncers, AddEntry(p), ~Fail(p)
      PROVE  UNCHANGED <<board, versions>>
  BY <1>9, AddEntryForm
<1>10. ASSUME NEW p \in Syncers, Compare(p)
       PROVE  UNCHANGED <<board, versions>>
  BY <1>10, CompareForm
<1>11. ASSUME NEW p \in Syncers, CreateVersion(p), ~Fail(p)
       PROVE  board # None /\ UNCHANGED board
  <2>1. s[p].pc = "version" /\ UNCHANGED board
    BY <1>11, CreateVersionForm
  <2> QED
    BY <2>1 DEF SeenBoard, SeenPcs, ListPcs
<1>12. \/ UNCHANGED <<board, versions>>
       \/ board # None /\ UNCHANGED board
       \/ /\ board' # None /\ (board'.type = "tiered" => board'.tiers # None)
          /\ board = None \/ board'.type = board.type
  BY <1>1, <1>2, <1>3, <1>4, <1>5, <1>6, <1>7, <1>8, <1>9, <1>10, <1>11, NextIs
<1> QED
  BY <1>12 DEF BoardComplete

(* A sync is where SeenBoard wants it.                                     *)
SeenAt(p) ==
    /\ s[p].pc = "idle" => s[p] = Idle
    /\ s[p].pc # "idle" => s[p].parsed \in Files
    /\ s[p].pc = "empty" => s[p].parsed.list = << >>
    /\ s[p].pc \in SeenPcs =>
         board # None /\ s[p].seen # None /\ s[p].seen.type = board.type

LEMMA NextSeen ==
    ASSUME IInv, [Next]_vars
    PROVE  SeenBoard'
<1> USE DEF IInv
<1>1. board # None => board' # None /\ board'.type = board.type
  BY NextBoard
<1>2. \A q \in Syncers : SeenAt(q)
  BY DEF SeenBoard, SeenAt
<1>3. ASSUME NEW p \in Syncers, OthersStay(p), SeenAt(p)'
      PROVE  SeenBoard'
  <2> SUFFICES ASSUME NEW q \in Syncers
               PROVE  SeenAt(q)'
    BY DEF SeenBoard, SeenAt
  <2>1. CASE q = p
    BY <1>3, <2>1
  <2>2. CASE q # p
    BY <1>1, <1>2, <1>3, <2>2 DEF OthersStay, SeenAt
  <2> QED
    BY <2>1, <2>2
<1>4. ASSUME NEW p \in Syncers, s'[p] = Idle
      PROVE  SeenAt(p)'
  BY <1>4, IdleFields DEF SeenAt, SeenPcs, ListPcs, Idle
<1>5. CASE UNCHANGED <<board, entries, versions, s, synced, steady>>
  BY <1>5 DEF SeenBoard
<1>6. ASSUME NEW p \in Syncers, Fail(p) \/ NoEntries(p)
      PROVE  SeenBoard'
  BY <1>3, <1>4, <1>6, FailForm, NoEntriesForm
<1>7. ASSUME NEW p \in Syncers, Start(p)
      PROVE  SeenBoard'
  <2>1. OthersStay(p) /\ s'[p].pc = "read" /\ s'[p].parsed \in Files
    BY <1>7, StartForm
  <2>2. SeenAt(p)'
    BY <2>1 DEF SeenAt, SeenPcs, ListPcs
  <2> QED
    BY <1>3, <2>1, <2>2
<1>8. ASSUME NEW p \in Syncers, ReadBoard(p)
      PROVE  SeenBoard'
  <2>1. /\ s[p].pc = "read" /\ OthersStay(p)
        /\ s'[p].pc = IF board = None THEN "create" ELSE "update"
        /\ s'[p].parsed = s[p].parsed /\ s'[p].seen = board /\ board' = board
    BY <1>8, ReadBoardForm
  <2>2. SeenAt(p)'
    BY <1>2, <2>1 DEF SeenAt, SeenPcs, ListPcs
  <2> QED
    BY <1>3, <2>1, <2>2
<1>9. ASSUME NEW p \in Syncers, CreateBoard(p), ~Fail(p)
      PROVE  SeenBoard'
  <2>1. s[p].parsed \in Files
    BY <1>2, <1>9 DEF CreateBoard, At, SeenAt
  <2>2. /\ OthersStay(p) /\ s'[p].pc \in {"empty", "entries"}
        /\ s'[p].pc = "empty" => s[p].parsed.list = << >>
        /\ s'[p].parsed = s[p].parsed /\ s'[p].seen = board' /\ board' \in BoardRows
    BY <1>9, <2>1, CreateBoardForm
  <2>3. SeenAt(p)'
    BY <2>1, <2>2, NullAssumption DEF SeenAt, SeenPcs, ListPcs
  <2> QED
    BY <1>3, <2>2, <2>3
<1>10. ASSUME NEW p \in Syncers, UpdateBoard(p), ~Fail(p)
       PROVE  SeenBoard'
  <2>1. /\ s[p].pc = "update" /\ OthersStay(p) /\ s'[p].pc \in {"empty", "entries"}
        /\ s'[p].pc = "empty" => s[p].parsed.list = << >>
        /\ s'[p].parsed = s[p].parsed /\ board' \in BoardRows /\ s'[p].seen \in BoardRows
        /\ board'.type = board.type /\ s'[p].seen.type = board.type
    BY <1>10, UpdateBoardForm
  <2>2. s[p].parsed \in Files
    BY <1>2, <2>1 DEF SeenAt
  <2>3. SeenAt(p)'
    BY <2>1, <2>2, NullAssumption DEF SeenAt, SeenPcs, ListPcs
  <2> QED
    BY <1>3, <2>1, <2>3
<1>11. ASSUME NEW p \in Syncers, s[p].pc \in ListPcs, OthersStay(p), s'[p].pc \in ListPcs,
              s'[p].parsed = s[p].parsed, s'[p].seen = s[p].seen, board' = board
       PROVE  SeenBoard'
  <2>1. SeenAt(p)'
    BY <1>2, <1>11 DEF SeenAt, SeenPcs, ListPcs
  <2> QED
    BY <1>3, <1>11, <2>1
<1>12. ASSUME NEW p \in Syncers, ListEntries(p)
       PROVE  SeenBoard'
  <2>1. s[p].pc = "entries" /\ s[p].parsed \in Files
    BY <1>2, <1>12 DEF ListEntries, At, SeenAt
  <2>2. SlugsOf(s[p].parsed.list) \subseteq Slugs
    BY <2>1, ParsedIs
  <2>3. /\ OthersStay(p) /\ s'[p].pc = "add" /\ s'[p].parsed = s[p].parsed
        /\ s'[p].seen = s[p].seen /\ board' = board
    BY <1>12, <2>2, ListEntriesForm
  <2> QED
    BY <1>11, <2>1, <2>3 DEF ListPcs
<1>13. ASSUME NEW p \in Syncers, AddEntry(p), ~Fail(p)
       PROVE  SeenBoard'
  BY <1>11, <1>13, AddEntryForm DEF ListPcs
<1>14. ASSUME NEW p \in Syncers, Compare(p)
       PROVE  SeenBoard'
  <2>1. /\ s[p].pc = "add" /\ OthersStay(p) /\ board' = board
        /\ \/ /\ s'[p].pc = "version" /\ s'[p].parsed = s[p].parsed
              /\ s'[p].seen = s[p].seen
           \/ s'[p] = Idle
    BY <1>14, CompareForm
  <2> QED
    BY <1>3, <1>4, <1>11, <2>1 DEF ListPcs
<1>15. ASSUME NEW p \in Syncers, CreateVersion(p), ~Fail(p)
       PROVE  SeenBoard'
  BY <1>3, <1>4, <1>15, CreateVersionForm
<1> QED
  BY <1>5, <1>6, <1>7, <1>8, <1>9, <1>10, <1>12, <1>13, <1>14, <1>15, NextIs

EntriesAt(p) ==
    /\ s[p].pc = "add" => SlugsOf(s[p].parsed.list) \ s[p].missing \subseteq EntrySlugs
    /\ s[p].pc = "version" => SlugsOf(s[p].parsed.list) \subseteq EntrySlugs

LEMMA NextEntries ==
    ASSUME IInv, [Next]_vars
    PROVE  EntriesFound'
<1> USE DEF IInv
<1>1. \A q \in Syncers : EntriesAt(q)
  BY DEF EntriesFound, EntriesAt
<1>2. ASSUME NEW p \in Syncers, OthersStay(p), EntriesAt(p)', entries \subseteq entries'
      PROVE  EntriesFound'
  <2>1. EntrySlugs \subseteq EntrySlugs'
    BY <1>2 DEF EntrySlugs
  <2> SUFFICES ASSUME NEW q \in Syncers
               PROVE  EntriesAt(q)'
    BY DEF EntriesFound, EntriesAt
  <2>2. CASE q = p
    BY <1>2, <2>2
  <2>3. CASE q # p
    BY <1>1, <1>2, <2>1, <2>3 DEF OthersStay, EntriesAt
  <2> QED
    BY <2>2, <2>3
<1>3. ASSUME NEW p \in Syncers, s'[p].pc \notin {"add", "version"}
      PROVE  EntriesAt(p)'
  BY <1>3 DEF EntriesAt
<1>4. ASSUME NEW p \in Syncers, s'[p] = Idle
      PROVE  EntriesAt(p)'
  BY <1>4, IdleFields DEF EntriesAt
<1>5. CASE UNCHANGED <<board, entries, versions, s, synced, steady>>
  BY <1>5 DEF EntriesFound, EntrySlugs
<1>6. ASSUME NEW p \in Syncers, Fail(p) \/ NoEntries(p)
      PROVE  EntriesFound'
  BY <1>2, <1>4, <1>6, FailForm, NoEntriesForm
<1>7. ASSUME NEW p \in Syncers, Start(p)
      PROVE  EntriesFound'
  BY <1>2, <1>3, <1>7, StartForm
<1>8. ASSUME NEW p \in Syncers, ReadBoard(p)
      PROVE  EntriesFound'
  BY <1>2, <1>3, <1>8, ReadBoardForm
<1>9. ASSUME NEW p \in Syncers, CreateBoard(p), ~Fail(p)
      PROVE  EntriesFound'
  <2>1. s[p].parsed \in Files
    BY <1>9 DEF CreateBoard, At, SeenBoard
  <2>2. OthersStay(p) /\ s'[p].pc \in {"empty", "entries"} /\ entries' = entries
    BY <1>9, <2>1, CreateBoardForm
  <2> QED
    BY <1>2, <1>3, <2>2
<1>10. ASSUME NEW p \in Syncers, UpdateBoard(p), ~Fail(p)
       PROVE  EntriesFound'
  <2>1. OthersStay(p) /\ s'[p].pc \in {"empty", "entries"} /\ entries' = entries
    BY <1>10, UpdateBoardForm
  <2> QED
    BY <1>2, <1>3, <2>1
<1>11. ASSUME NEW p \in Syncers, ListEntries(p)
       PROVE  EntriesFound'
  <2>1. s[p].pc = "entries" /\ s[p].parsed \in Files
    BY <1>11 DEF ListEntries, At, SeenBoard
  <2>2. SlugsOf(s[p].parsed.list) \subseteq Slugs
    BY <2>1, ParsedIs
  <2>3. /\ OthersStay(p) /\ s'[p].pc = "add" /\ s'[p].parsed = s[p].parsed
        /\ s'[p].missing = SlugsOf(s[p].parsed.list) \ EntrySlugs /\ entries' = entries
    BY <1>11, <2>2, ListEntriesForm
  <2>4. EntriesAt(p)'
    BY <2>3 DEF EntriesAt, EntrySlugs
  <2> QED
    BY <1>2, <2>3, <2>4
<1>12. ASSUME NEW p \in Syncers, AddEntry(p), ~Fail(p)
       PROVE  EntriesFound'
  <2>1. /\ s[p].pc = "add" /\ OthersStay(p) /\ s'[p].pc = "add"
        /\ s'[p].parsed = s[p].parsed
    BY <1>12, AddEntryForm
  <2>2. PICK slug \in Slugs, id \in EntryIds :
          /\ entries' = entries \cup {[id |-> id, slug |-> slug]}
          /\ s'[p].missing = s[p].missing \ {slug}
    BY <1>12, AddEntryForm
  <2>3. EntrySlugs \subseteq EntrySlugs' /\ slug \in EntrySlugs'
    <3> DEFINE e == [id |-> id, slug |-> slug]
    <3>1. e.slug = slug /\ entries' = entries \cup {e}
      BY <2>2
    <3> HIDE DEF e
    <3> QED
      BY <3>1 DEF EntrySlugs
  <2>4. EntriesAt(p)'
    BY <1>1, <2>1, <2>2, <2>3 DEF EntriesAt
  <2>5. entries \subseteq entries'
    BY <2>2
  <2> QED
    BY <1>2, <2>1, <2>4, <2>5
<1>13. ASSUME NEW p \in Syncers, Compare(p)
       PROVE  EntriesFound'
  <2>1. /\ s[p].pc = "add" /\ s[p].missing = {} /\ OthersStay(p) /\ entries' = entries
        /\ \/ s'[p].pc = "version" /\ s'[p].parsed = s[p].parsed
           \/ s'[p] = Idle
    BY <1>13, CompareForm
  <2>2. CASE s'[p] = Idle
    BY <1>2, <1>4, <2>1, <2>2
  <2>3. CASE s'[p].pc = "version" /\ s'[p].parsed = s[p].parsed
    <3>1. EntriesAt(p)'
      BY <1>1, <2>1, <2>3 DEF EntriesAt, EntrySlugs
    <3> QED
      BY <1>2, <2>1, <3>1
  <2> QED
    BY <2>1, <2>2, <2>3
<1>14. ASSUME NEW p \in Syncers, CreateVersion(p), ~Fail(p)
       PROVE  EntriesFound'
  BY <1>2, <1>4, <1>14, CreateVersionForm
<1> QED
  BY <1>5, <1>6, <1>7, <1>8, <1>9, <1>10, <1>11, <1>12, <1>13, <1>14, NextIs

(* Versions are appended, each by a sync that has just stored its rows.    *)
LEMMA NextVersionsIs ==
    ASSUME IInv, [Next]_vars
    PROVE  \/ UNCHANGED versions
           \/ \E p \in Syncers : CreateVersion(p) /\ ~Fail(p)
<1> USE DEF IInv
<1>1. ASSUME NEW p \in Syncers, CreateBoard(p), ~Fail(p)
      PROVE  UNCHANGED versions
  BY <1>1 DEF CreateBoard
<1>2. ASSUME NEW p \in Syncers, UpdateBoard(p), ~Fail(p)
      PROVE  UNCHANGED versions
  BY <1>2 DEF UpdateBoard
<1>3. ASSUME NEW p \in Syncers,
             \/ Fail(p) \/ Start(p) \/ ReadBoard(p) \/ NoEntries(p) \/ ListEntries(p) \/ Compare(p)
      PROVE  UNCHANGED versions
  BY <1>3 DEF Fail, Start, ReadBoard, NoEntries, ListEntries, Compare, db
<1>4. ASSUME NEW p \in Syncers, AddEntry(p), ~Fail(p)
      PROVE  UNCHANGED versions
  BY <1>4, AddEntryForm
<1> QED
  BY <1>1, <1>2, <1>3, <1>4, NextIs

LEMMA NextVersions ==
    ASSUME IInv, [Next]_vars
    PROVE  VersionsTabular'
<1> USE DEF IInv
<1>1. CASE UNCHANGED versions
  BY <1>1 DEF VersionsTabular
<1>2. ASSUME NEW p \in Syncers, CreateVersion(p), ~Fail(p)
      PROVE  VersionsTabular'
  <2>1. /\ s[p].pc = "version" /\ ValidPlacements(board, s[p].parsed.list)
        /\ versions' = Append(versions, VersionOf(p))
    BY <1>2, CreateVersionForm
  <2>2. IsFiniteSet(VersionOf(p)) /\ OnePerSlug(VersionOf(p))
    BY <2>1, VersionOfIs
  <2>3. versions \in Seq(SUBSET Row)
    BY DEF TypeOK
  <2>4. /\ Len(versions') = Len(versions) + 1 /\ Len(versions) \in Nat
        /\ \A i \in 1..Len(versions) : versions'[i] = versions[i]
        /\ versions'[Len(versions) + 1] = VersionOf(p)
    BY <2>1, <2>3
  <2>5. ASSUME NEW i \in 1..Len(versions')
        PROVE  IsFiniteSet(versions'[i]) /\ OnePerSlug(versions'[i])
    <3>1. CASE i \in 1..Len(versions)
      BY <2>4, <3>1 DEF VersionsTabular
    <3>2. CASE i = Len(versions) + 1
      BY <2>2, <2>4, <3>2
    <3> QED
      BY <2>4, <3>1, <3>2
  <2> QED
    BY <2>5 DEF VersionsTabular, OnePerSlug
<1> QED
  BY <1>1, <1>2, NextVersionsIs

(* Positioned looks at no column of the board row but its type.            *)
LEMMA PositionedByType ==
    ASSUME NEW row, NEW other, row.type = other.type, NEW rows, NEW list
    PROVE  Positioned(row, rows, list) <=> Positioned(other, rows, list)
BY DEF Positioned, ResolvedPosition

LEMMA ContentIs ==
    ContentIsSynced <=>
        (synced # None /\ synced.list # << >> /\ DistinctSlugs(synced.list) =>
            versions # << >> /\ HasContent(Latest, synced.list)
                             /\ Positioned(board, Latest, synced.list))
BY DEF ContentIsSynced, Positioned

LEMMA NextContent ==
    ASSUME IInv, [Next]_vars
    PROVE  ContentIsSynced'
<1> USE DEF IInv
<1> DEFINE Synced == synced' # None /\ synced'.list # << >> /\ DistinctSlugs(synced'.list)
<1>1. board # None => board' # None /\ board'.type = board.type
  BY NextBoard
<1>2. CASE UNCHANGED <<versions, synced>>
  <2> SUFFICES ASSUME Synced
               PROVE  versions # << >> /\ HasContent(Latest, synced.list)
                                       /\ Positioned(board', Latest, synced.list)
    BY <1>2 DEF ContentIsSynced, Positioned, Latest
  <2>1. versions # << >> /\ HasContent(Latest, synced.list)
                         /\ Positioned(board, Latest, synced.list)
    BY <1>2, ContentIs
  <2>2. board'.type = board.type
    BY <1>1, <2>1 DEF BoardComplete
  <2> QED
    BY <2>1, <2>2, PositionedByType
<1>3. CASE synced' = None
  BY <1>3 DEF ContentIsSynced
<1>4. ASSUME NEW p \in Syncers, NoEntries(p)
      PROVE  ContentIsSynced'
  <2>1. s[p].pc = "empty" /\ synced' = s[p].parsed
    BY <1>4, NoEntriesForm
  <2>2. synced'.list = << >>
    BY <2>1 DEF SeenBoard
  <2> QED
    BY <2>2 DEF ContentIsSynced
<1>5. ASSUME NEW p \in Syncers, Compare(p)
      PROVE  ContentIsSynced'
  <2>1. s[p].pc = "add" /\ UNCHANGED <<board, versions>>
    BY <1>5, CompareForm
  <2>2. UNCHANGED synced \/ (~NeedsVersion(p) /\ synced' = s[p].parsed)
    BY <1>5, CompareForm
  <2>3. CASE UNCHANGED synced
    BY <1>2, <2>1, <2>3
  <2>4. CASE ~NeedsVersion(p) /\ synced' = s[p].parsed
    <3> DEFINE list == s[p].parsed.list
    <3> SUFFICES ASSUME DistinctSlugs(list)
                 PROVE  versions # << >> /\ HasContent(Latest, list)
                                         /\ Positioned(board, Latest, list)
      BY <2>1, <2>4 DEF ContentIsSynced, Positioned, Latest
    <3>1. /\ versions # << >>
          /\ ~PlacementsChanged(s[p].seen, versions[Len(versions)], list)
      BY <2>4 DEF NeedsVersion, Parsed
    <3>2. s[p].parsed \in Files /\ s[p].seen.type = board.type
      BY <2>1 DEF SeenBoard, SeenPcs, ListPcs
    <3>3. list \in Seq(Placement)
      BY <3>2, ParsedIs
    <3>4. versions \in Seq(SUBSET Row)
      BY DEF TypeOK
    <3>5. Len(versions) \in 1..Len(versions)
      BY <3>1, <3>4
    <3>6. IsFiniteSet(Latest) /\ OnePerSlug(Latest)
      BY <3>5 DEF VersionsTabular, Latest
    <3> HIDE DEF list
    <3>7. HasContent(Latest, list) /\ Positioned(s[p].seen, Latest, list)
      BY <3>1, <3>3, <3>6, AgreesContent DEF Latest
    <3>8. Positioned(board, Latest, list)
      BY <3>2, <3>7, PositionedByType
    <3> QED
      BY <3>1, <3>7, <3>8
  <2> QED
    BY <2>2, <2>3, <2>4
<1>6. ASSUME NEW p \in Syncers, CreateVersion(p), ~Fail(p)
      PROVE  ContentIsSynced'
  <2>1. /\ s[p].pc = "version" /\ ValidPlacements(board, s[p].parsed.list)
        /\ versions' = Append(versions, VersionOf(p))
        /\ synced' = s[p].parsed /\ board' = board
    BY <1>6, CreateVersionForm
  <2>2. /\ HasContent(VersionOf(p), s[p].parsed.list)
        /\ Positioned(board, VersionOf(p), s[p].parsed.list)
    BY <2>1, VersionOfIs
  <2>3. versions' # << >> /\ versions'[Len(versions')] = VersionOf(p)
    <3>1. versions \in Seq(SUBSET Row)
      BY DEF TypeOK
    <3> DEFINE new == VersionOf(p)
    <3>2. versions' = Append(versions, new)
      BY <2>1
    <3> HIDE DEF new
    <3>3. versions' # << >> /\ versions'[Len(versions')] = new
      BY <3>1, <3>2
    <3> QED
      BY <3>3 DEF new
  <2>4. Latest' = VersionOf(p)
    BY <2>3 DEF Latest
  <2> QED
    BY <2>1, <2>2, <2>3, <2>4 DEF ContentIsSynced, Positioned
<1>7. ASSUME NEW p \in Syncers,
             \/ Start(p) \/ ReadBoard(p) \/ ListEntries(p)
             \/ CreateBoard(p) /\ ~Fail(p)
             \/ UpdateBoard(p) /\ ~Fail(p)
             \/ AddEntry(p) /\ ~Fail(p)
      PROVE  UNCHANGED <<versions, synced>>
  <2>1. CASE Start(p) \/ ReadBoard(p) \/ ListEntries(p)
    BY <2>1 DEF Start, ReadBoard, ListEntries, db
  <2>2. CASE CreateBoard(p) /\ ~Fail(p)
    BY <2>2 DEF CreateBoard
  <2>3. CASE UpdateBoard(p) /\ ~Fail(p)
    BY <2>3 DEF UpdateBoard
  <2>4. CASE AddEntry(p) /\ ~Fail(p)
    BY <2>4, AddEntryForm
  <2> QED
    BY <1>7, <2>1, <2>2, <2>3, <2>4
<1>8. ASSUME NEW p \in Syncers, Fail(p)
      PROVE  synced' = None
  BY <1>8 DEF Fail
<1> QED
  BY <1>2, <1>3, <1>4, <1>5, <1>6, <1>7, <1>8, NextIs

(* While steady a sync that runs runs alone, and one starts if none does.  *)
LEMMA NextAlone ==
    ASSUME IInv, [Next]_vars
    PROVE  OneAtATime'
<1> USE DEF IInv
<1>1. CASE UNCHANGED <<board, entries, versions, s, synced, steady>>
  BY <1>1 DEF OneAtATime
<1>2. ASSUME NEW p \in Syncers, OthersStay(p), s[p].pc # "idle", steady' => steady
      PROVE  OneAtATime'
  <2>1. ASSUME NEW q \in Syncers, q # p, steady'
        PROVE  s'[q].pc = "idle"
    BY <1>2, <2>1 DEF OneAtATime, OthersStay
  <2> QED
    BY <2>1 DEF OneAtATime
<1>3. ASSUME NEW p \in Syncers, Start(p)
      PROVE  OneAtATime'
  <2>1. OthersStay(p) /\ steady' = (steady /\ Quiet)
    BY <1>3, StartForm
  <2>2. ASSUME NEW q \in Syncers, q # p, steady'
        PROVE  s'[q].pc = "idle"
    BY <2>1, <2>2, IdleFields DEF Quiet, OthersStay
  <2> QED
    BY <2>2 DEF OneAtATime
<1>4. ASSUME NEW p \in Syncers, Fail(p) \/ NoEntries(p)
      PROVE  OneAtATime'
  BY <1>4, FailForm, NoEntriesForm DEF OneAtATime
<1>5. ASSUME NEW p \in Syncers, s[p].pc # "idle"
      PROVE  s[p].parsed \in Files /\ SlugsOf(s[p].parsed.list) \subseteq Slugs
  <2>1. s[p].parsed \in Files
    BY <1>5 DEF SeenBoard
  <2> QED
    BY <2>1, ParsedIs
<1>6. ASSUME NEW p \in Syncers,
             \/ ReadBoard(p) \/ ListEntries(p) \/ Compare(p)
             \/ CreateBoard(p) /\ ~Fail(p)
             \/ UpdateBoard(p) /\ ~Fail(p)
             \/ AddEntry(p) /\ ~Fail(p)
             \/ CreateVersion(p) /\ ~Fail(p)
      PROVE  OneAtATime'
  <2>1. CASE ReadBoard(p)
    BY <1>2, <2>1, ReadBoardForm
  <2>2. CASE ListEntries(p)
    <3>1. s[p].pc = "entries"
      BY <2>2 DEF ListEntries, At
    <3>2. OthersStay(p) /\ steady' = steady
      BY <1>5, <2>2, <3>1, ListEntriesForm
    <3> QED
      BY <1>2, <3>1, <3>2
  <2>3. CASE Compare(p)
    BY <1>2, <2>3, CompareForm
  <2>4. CASE CreateBoard(p) /\ ~Fail(p)
    <3>1. s[p].pc = "create"
      BY <2>4 DEF CreateBoard, At
    <3>2. OthersStay(p) /\ steady' = steady
      BY <1>5, <2>4, <3>1, CreateBoardForm
    <3> QED
      BY <1>2, <3>1, <3>2
  <2>5. CASE UpdateBoard(p) /\ ~Fail(p)
    <3>1. s[p].pc = "update" /\ OthersStay(p) /\ steady' = steady
      BY <2>5, UpdateBoardForm
    <3> QED
      BY <1>2, <3>1
  <2>6. CASE AddEntry(p) /\ ~Fail(p)
    BY <1>2, <2>6, AddEntryForm
  <2>7. CASE CreateVersion(p) /\ ~Fail(p)
    BY <1>2, <2>7, CreateVersionForm
  <2> QED
    BY <1>6, <2>1, <2>2, <2>3, <2>4, <2>5, <2>6, <2>7
<1> QED
  BY <1>1, <1>3, <1>4, <1>6, NextIs

(* Steady, when p is the only sync that may be running.                    *)
SteadyAt(p) ==
    /\ s[p].pc \in {"idle", "read", "create", "update"} =>
         (board # None => versions # << >>) /\ Ranked
    /\ s[p].pc = "idle" /\ synced # None => board # None /\ board.dir = synced.dir
    /\ s[p].pc = "create" => board = None
    /\ s[p].pc = "update" => s[p].seen = board
    /\ s[p].pc \in ListPcs =>
         s[p].seen = board /\ board.dir = s[p].parsed.dir /\ (s[p].forced \/ Ranked)

Alone(p) == \A q \in Syncers : q # p => s[q].pc = "idle"

LEMMA SteadyIs ==
    ASSUME NEW p \in Syncers, Alone(p)
    PROVE  steady => (Steady <=> SteadyAt(p))
<1>1. ASSUME steady, Steady
      PROVE  SteadyAt(p)
  <2>1. s[p].pc \in {"idle", "read", "create", "update"} =>
          (board # None => versions # << >>) /\ Ranked
    BY <1>1 DEF Alone, Steady
  <2>2. s[p].pc = "idle" /\ synced # None => board # None /\ board.dir = synced.dir
    BY <1>1 DEF Alone, Steady
  <2> QED
    BY <1>1, <2>1, <2>2 DEF Steady, SteadyAt
<1>2. ASSUME steady, SteadyAt(p)
      PROVE  Steady
  <2>1. ASSUME NEW q \in Syncers, q # p
        PROVE  s[q].pc \notin ListPcs \cup {"create", "update"}
    BY <2>1 DEF Alone, ListPcs
  <2> QED
    BY <1>2, <2>1 DEF Steady, SteadyAt
<1> QED
  BY <1>1, <1>2

LEMMA NextSteady ==
    ASSUME IInv, [Next]_vars
    PROVE  Steady'
<1> USE DEF IInv
<1>1. CASE UNCHANGED <<board, entries, versions, s, synced, steady>>
  BY <1>1 DEF Steady, Ranked, FollowsConfig, Latest
<1>2. CASE steady' = FALSE
  BY <1>2 DEF Steady
<1>3. ASSUME NEW p \in Syncers, OthersStay(p), Alone(p), SteadyAt(p)'
      PROVE  Steady'
  <2>1. ASSUME NEW q \in Syncers, q # p
        PROVE  s'[q].pc = "idle" /\ s'[q].pc \notin ListPcs \cup {"create", "update"}
    BY <1>3, <2>1 DEF Alone, OthersStay, ListPcs
  <2> QED
    BY <1>3, <2>1 DEF Steady, SteadyAt
<1>4. ASSUME NEW p \in Syncers, s[p].pc # "idle", steady
      PROVE  Alone(p) /\ SteadyAt(p)
  <2>1. Alone(p)
    BY <1>4 DEF OneAtATime, Alone
  <2> QED
    BY <1>4, <2>1, SteadyIs
<1>5. ASSUME NEW p \in Syncers, Start(p), steady'
      PROVE  Steady'
  <2>1. /\ s[p] = Idle /\ OthersStay(p) /\ s'[p].pc = "read" /\ steady /\ Quiet
        /\ UNCHANGED <<board, entries, versions, synced>>
    BY <1>5, StartForm
  <2>2. Alone(p)
    BY <2>1, IdleFields DEF Quiet, Alone
  <2>3. (board # None => versions # << >>) /\ Ranked
    BY <2>1, <2>2, SteadyIs, IdleFields DEF SteadyAt
  <2>4. Ranked'
    BY <2>1, <2>3 DEF Ranked, FollowsConfig, Latest
  <2>5. SteadyAt(p)'
    BY <2>1, <2>3, <2>4 DEF SteadyAt, ListPcs
  <2> QED
    BY <1>3, <2>1, <2>2, <2>5
<1>6. ASSUME NEW p \in Syncers, ReadBoard(p), steady'
      PROVE  Steady'
  <2>1. /\ s[p].pc = "read" /\ OthersStay(p) /\ steady
        /\ s'[p].pc = IF board = None THEN "create" ELSE "update"
        /\ s'[p].seen = board /\ UNCHANGED <<board, entries, versions, synced>>
    BY <1>6, ReadBoardForm
  <2>2. Alone(p) /\ SteadyAt(p)
    BY <1>4, <2>1
  <2>3. Ranked'
    BY <2>1, <2>2 DEF SteadyAt, Ranked, FollowsConfig, Latest
  <2>4. SteadyAt(p)'
    BY <2>1, <2>2, <2>3 DEF SteadyAt, ListPcs
  <2> QED
    BY <1>3, <2>1, <2>2, <2>4
<1>7. ASSUME NEW p \in Syncers, CreateBoard(p), ~Fail(p), steady'
      PROVE  Steady'
  <2>1. s[p].pc = "create" /\ s[p].parsed \in Files
    BY <1>7 DEF CreateBoard, At, SeenBoard
  <2>2. /\ OthersStay(p) /\ s'[p].pc \in {"empty", "entries"}
        /\ s'[p].parsed = s[p].parsed /\ s'[p].seen = board'
        /\ board = None /\ board'.dir = s[p].parsed.dir
        /\ steady /\ versions' = versions
    BY <1>7, <2>1, CreateBoardForm
  <2>3. Alone(p)
    BY <1>4, <2>1, <2>2
  <2>4. Ranked'
    BY <2>2 DEF Ranked, BoardComplete
  <2>5. SteadyAt(p)'
    BY <2>2, <2>4 DEF SteadyAt
  <2> QED
    BY <1>3, <2>2, <2>3, <2>5
<1>8. ASSUME NEW p \in Syncers, UpdateBoard(p), ~Fail(p), steady'
      PROVE  Steady'
  <2>1. /\ s[p].pc = "update" /\ OthersStay(p) /\ s'[p].pc \in {"empty", "entries"}
        /\ s'[p].parsed = s[p].parsed /\ steady /\ versions' = versions
        /\ s[p].seen = board =>
             /\ s'[p].seen = board' /\ board'.dir = s[p].parsed.dir
             /\ s'[p].forced \/ board' = board
    BY <1>8, UpdateBoardForm
  <2>2. Alone(p) /\ SteadyAt(p)
    BY <1>4, <2>1
  <2>3. s[p].seen = board /\ Ranked
    BY <2>1, <2>2 DEF SteadyAt
  <2>4. s'[p].forced \/ Ranked'
    BY <2>1, <2>3 DEF Ranked, FollowsConfig, Latest
  <2>5. SteadyAt(p)'
    BY <2>1, <2>3, <2>4 DEF SteadyAt
  <2> QED
    BY <1>3, <2>1, <2>2, <2>5
<1>9. ASSUME NEW p \in Syncers, s[p].pc \in ListPcs, OthersStay(p), s'[p].pc \in ListPcs,
             s'[p].parsed = s[p].parsed, s'[p].seen = s[p].seen,
             s'[p].forced = s[p].forced, UNCHANGED <<board, versions, steady>>, steady'
      PROVE  Steady'
  <2>1. Alone(p) /\ SteadyAt(p)
    BY <1>4, <1>9 DEF ListPcs
  <2>2. Ranked => Ranked'
    BY <1>9 DEF Ranked, FollowsConfig, Latest
  <2>3. SteadyAt(p)'
    BY <1>9, <2>1, <2>2 DEF SteadyAt, ListPcs
  <2> QED
    BY <1>3, <1>9, <2>1, <2>3
<1>10. ASSUME NEW p \in Syncers, ListEntries(p), steady'
       PROVE  Steady'
  <2>1. s[p].pc = "entries" /\ s[p].parsed \in Files
    BY <1>10 DEF ListEntries, At, SeenBoard
  <2>2. SlugsOf(s[p].parsed.list) \subseteq Slugs
    BY <2>1, ParsedIs
  <2> QED
    BY <1>9, <1>10, <2>1, <2>2, ListEntriesForm DEF ListPcs
<1>11. ASSUME NEW p \in Syncers, AddEntry(p), ~Fail(p), steady'
       PROVE  Steady'
  BY <1>9, <1>11, AddEntryForm DEF ListPcs
<1>12. ASSUME NEW p \in Syncers, Compare(p), steady'
       PROVE  Steady'
  <2>1. /\ s[p].pc = "add" /\ OthersStay(p)
        /\ UNCHANGED <<board, versions, steady>>
        /\ \/ /\ s'[p].pc = "version" /\ s'[p].parsed = s[p].parsed
              /\ s'[p].seen = s[p].seen /\ s'[p].forced = s[p].forced
           \/ ~NeedsVersion(p) /\ s'[p] = Idle /\ synced' = s[p].parsed
    BY <1>12, CompareForm
  <2>2. CASE s'[p].pc = "version" /\ s'[p].parsed = s[p].parsed
             /\ s'[p].seen = s[p].seen /\ s'[p].forced = s[p].forced
    BY <1>9, <1>12, <2>1, <2>2 DEF ListPcs
  <2>3. CASE ~NeedsVersion(p) /\ s'[p] = Idle /\ synced' = s[p].parsed
    <3>1. Alone(p) /\ SteadyAt(p)
      BY <1>4, <1>12, <2>1
    <3>2. ~s[p].forced /\ versions # << >>
      BY <2>3 DEF NeedsVersion
    <3>3. Ranked /\ board.dir = s[p].parsed.dir
      BY <2>1, <3>1, <3>2 DEF SteadyAt, ListPcs
    <3>4. Ranked'
      BY <2>1, <3>3 DEF Ranked, FollowsConfig, Latest
    <3>5. board # None
      BY <2>1 DEF SeenBoard, SeenPcs, ListPcs
    <3>6. SteadyAt(p)'
      BY <2>1, <2>3, <3>2, <3>3, <3>4, <3>5, IdleFields DEF SteadyAt, ListPcs
    <3> QED
      BY <1>3, <2>1, <3>1, <3>6
  <2> QED
    BY <2>1, <2>2, <2>3
<1>13. ASSUME NEW p \in Syncers, CreateVersion(p), ~Fail(p), steady'
       PROVE  Steady'
  <2>1. /\ s[p].pc = "version" /\ ValidPlacements(board, s[p].parsed.list)
        /\ versions' = Append(versions, VersionOf(p)) /\ OthersStay(p) /\ s'[p] = Idle
        /\ synced' = s[p].parsed /\ board' = board /\ steady
    BY <1>13, CreateVersionForm
  <2>2. Alone(p) /\ SteadyAt(p)
    BY <1>4, <2>1
  <2>3. FollowsConfig(board, VersionOf(p))
    BY <2>1, VersionOfIs
  <2>4. versions' # << >> /\ Latest' = VersionOf(p)
    <3>1. versions \in Seq(SUBSET Row)
      BY DEF TypeOK
    <3> DEFINE new == VersionOf(p)
    <3>2. versions' = Append(versions, new)
      BY <2>1
    <3> HIDE DEF new
    <3>3. versions' # << >> /\ versions'[Len(versions')] = new
      BY <3>1, <3>2
    <3> QED
      BY <3>3 DEF new, Latest
  <2>5. Ranked'
    BY <2>1, <2>3, <2>4 DEF Ranked, FollowsConfig
  <2>6. board # None /\ board.dir = s[p].parsed.dir
    BY <2>1, <2>2 DEF SteadyAt, SeenBoard, SeenPcs, ListPcs
  <2>7. SteadyAt(p)'
    BY <2>1, <2>4, <2>5, <2>6, IdleFields DEF SteadyAt, ListPcs
  <2> QED
    BY <1>3, <2>1, <2>2, <2>7
<1>14. ASSUME NEW p \in Syncers, Fail(p) \/ NoEntries(p)
       PROVE  steady' = FALSE
  BY <1>14, FailForm, NoEntriesForm
<1>15. steady' \in BOOLEAN
  BY NextType DEF TypeOK
<1>16. steady' = FALSE \/ steady'
  BY <1>15
<1> QED
  BY <1>1, <1>2, <1>5, <1>6, <1>7, <1>8, <1>10, <1>11, <1>12, <1>13, <1>14, <1>16, NextIs

(* Repeats, when p is the only sync that may be running.                   *)
RepeatsAt(p) ==
    /\ s[p].pc \in {"idle", "read", "create", "update"} /\ synced # None =>
         /\ board # None /\ board.dir = synced.dir /\ board.tiers = synced.tiers
         /\ Found(board, synced.list)
    /\ s[p].pc \in ListPcs =>
         /\ board.dir = s[p].parsed.dir /\ board.tiers = s[p].parsed.tiers
         /\ s[p].parsed = synced =>
              /\ ~s[p].forced /\ Found(board, synced.list)
              /\ s[p].pc = "version" => ~PositionsLeft(board, synced.list)

LEMMA RepeatsIs ==
    ASSUME NEW p \in Syncers, Alone(p), steady, Repeats
    PROVE  RepeatsAt(p)
BY DEF Alone, Repeats, RepeatsAt

LEMMA NextRepeats ==
    ASSUME IInv, [Next]_vars
    PROVE  Repeats'
<1> USE DEF IInv
<1>1. CASE UNCHANGED <<board, entries, versions, s, synced, steady>>
  BY <1>1 DEF Repeats, Found, Latest
<1>2. CASE steady' = FALSE
  BY <1>2 DEF Repeats
<1>3. ASSUME NEW p \in Syncers, OthersStay(p), Alone(p), RepeatsAt(p)'
      PROVE  Repeats'
  <2>1. ASSUME NEW q \in Syncers, q # p
        PROVE  s'[q].pc \notin ListPcs
    BY <1>3, <2>1 DEF Alone, OthersStay, ListPcs
  <2> QED
    BY <1>3, <2>1 DEF Repeats, RepeatsAt
<1>4. ASSUME NEW p \in Syncers, s[p].pc # "idle", steady
      PROVE  Alone(p) /\ SteadyAt(p) /\ RepeatsAt(p)
  <2>1. Alone(p)
    BY <1>4 DEF OneAtATime, Alone
  <2> QED
    BY <1>4, <2>1, SteadyIs, RepeatsIs
<1>5. ASSUME NEW p \in Syncers, Start(p), steady'
      PROVE  Repeats'
  <2>1. /\ s[p] = Idle /\ OthersStay(p) /\ s'[p].pc = "read" /\ steady /\ Quiet
        /\ UNCHANGED <<board, entries, versions, synced>>
    BY <1>5, StartForm
  <2>2. Alone(p)
    BY <2>1, IdleFields DEF Quiet, Alone
  <2>3. RepeatsAt(p) /\ s[p].pc = "idle"
    BY <2>1, <2>2, RepeatsIs, IdleFields
  <2>4. RepeatsAt(p)'
    BY <2>1, <2>3 DEF RepeatsAt, Found, Latest, ListPcs
  <2> QED
    BY <1>3, <2>1, <2>2, <2>4
<1>6. ASSUME NEW p \in Syncers, ReadBoard(p), steady'
      PROVE  Repeats'
  <2>1. /\ s[p].pc = "read" /\ OthersStay(p) /\ steady
        /\ s'[p].pc = IF board = None THEN "create" ELSE "update"
        /\ s'[p].seen = board /\ UNCHANGED <<board, entries, versions, synced>>
    BY <1>6, ReadBoardForm
  <2>2. Alone(p) /\ RepeatsAt(p)
    BY <1>4, <2>1
  <2>3. RepeatsAt(p)'
    BY <2>1, <2>2 DEF RepeatsAt, Found, Latest, ListPcs
  <2> QED
    BY <1>3, <2>1, <2>2, <2>3
<1>7. ASSUME NEW p \in Syncers, CreateBoard(p), ~Fail(p), steady'
      PROVE  Repeats'
  <2>1. s[p].pc = "create" /\ s[p].parsed \in Files
    BY <1>7 DEF CreateBoard, At, SeenBoard
  <2>2. /\ OthersStay(p) /\ s'[p].pc \in {"empty", "entries"}
        /\ s'[p].parsed = s[p].parsed /\ board = None
        /\ board'.dir = s[p].parsed.dir /\ board'.tiers = s[p].parsed.tiers
        /\ steady /\ synced' = synced
    BY <1>7, <2>1, CreateBoardForm
  <2>3. Alone(p) /\ RepeatsAt(p)
    BY <1>4, <2>1, <2>2
  <2>4. synced = None
    BY <2>1, <2>2, <2>3 DEF RepeatsAt
  <2>5. s'[p].parsed # synced'
    BY <2>1, <2>2, <2>4, NullAssumption
  <2>6. RepeatsAt(p)'
    BY <2>2, <2>5 DEF RepeatsAt
  <2> QED
    BY <1>3, <2>2, <2>3, <2>6
<1>8. ASSUME NEW p \in Syncers, UpdateBoard(p), ~Fail(p), steady'
      PROVE  Repeats'
  <2>1. /\ s[p].pc = "update" /\ OthersStay(p) /\ s'[p].pc \in {"empty", "entries"}
        /\ s'[p].parsed = s[p].parsed /\ steady /\ versions' = versions /\ synced' = synced
        /\ s[p].seen = board =>
             /\ board'.dir = s[p].parsed.dir /\ board'.tiers = s[p].parsed.tiers
             /\ s'[p].forced \/ board' = board
             /\ s'[p].forced => RankingConfigChanged(board, s[p].parsed)
    BY <1>8, UpdateBoardForm
  <2>2. Alone(p) /\ SteadyAt(p) /\ RepeatsAt(p)
    BY <1>4, <2>1
  <2>3. s[p].seen = board
    BY <2>1, <2>2 DEF SteadyAt
  <2>4. s[p].parsed \in Files /\ s[p].parsed # None
    BY <2>1, NullAssumption DEF SeenBoard
  <2>5. ASSUME s[p].parsed = synced
        PROVE  ~s'[p].forced /\ Found(board, synced.list) /\ board' = board
    <3>1. board.dir = synced.dir /\ board.tiers = synced.tiers /\ Found(board, synced.list)
      BY <2>1, <2>2, <2>4, <2>5 DEF RepeatsAt
    <3>2. ~RankingConfigChanged(board, s[p].parsed)
      BY <2>5, <3>1 DEF RankingConfigChanged
    <3> QED
      BY <2>1, <2>3, <3>1, <3>2
  <2>6. RepeatsAt(p)'
    BY <2>1, <2>3, <2>5 DEF RepeatsAt, Found, Latest
  <2> QED
    BY <1>3, <2>1, <2>2, <2>6
<1>9. ASSUME NEW p \in Syncers, s[p].pc \in ListPcs, OthersStay(p),
             s'[p].pc \in ListPcs \ {"version"}, s'[p].parsed = s[p].parsed,
             s'[p].forced = s[p].forced,
             UNCHANGED <<board, versions, synced, steady>>, steady'
      PROVE  Repeats'
  <2>1. Alone(p) /\ RepeatsAt(p)
    BY <1>4, <1>9 DEF ListPcs
  <2>2. RepeatsAt(p)'
    BY <1>9, <2>1 DEF RepeatsAt, ListPcs, Found, Latest
  <2> QED
    BY <1>3, <1>9, <2>1, <2>2
<1>10. ASSUME NEW p \in Syncers, ListEntries(p), steady'
       PROVE  Repeats'
  <2>1. s[p].pc = "entries" /\ s[p].parsed \in Files
    BY <1>10 DEF ListEntries, At, SeenBoard
  <2>2. SlugsOf(s[p].parsed.list) \subseteq Slugs
    BY <2>1, ParsedIs
  <2> QED
    BY <1>9, <1>10, <2>1, <2>2, ListEntriesForm DEF ListPcs
<1>11. ASSUME NEW p \in Syncers, AddEntry(p), ~Fail(p), steady'
       PROVE  Repeats'
  BY <1>9, <1>11, AddEntryForm DEF ListPcs
<1>12. ASSUME NEW p \in Syncers, Compare(p), steady'
       PROVE  Repeats'
  <2>1. /\ s[p].pc = "add" /\ OthersStay(p)
        /\ UNCHANGED <<board, versions, steady>>
    BY <1>12, CompareForm
  <2>2. Alone(p) /\ SteadyAt(p) /\ RepeatsAt(p)
    BY <1>4, <1>12, <2>1
  <2>3. s[p].seen = board /\ board # None
    BY <2>1, <2>2 DEF SteadyAt, ListPcs, SeenBoard, SeenPcs
  <2>4. CASE NeedsVersion(p)
    <3>1. /\ s'[p].pc = "version" /\ s'[p].parsed = s[p].parsed
          /\ s'[p].forced = s[p].forced /\ synced' = synced
      BY <1>12, <2>4, CompareForm
    <3>2. ASSUME s[p].parsed = synced
          PROVE  ~PositionsLeft(board, synced.list)
      <4>1. ~s[p].forced /\ Found(board, synced.list)
        BY <2>1, <2>2, <3>2 DEF RepeatsAt, ListPcs
      <4>2. PlacementsChanged(board, Latest, synced.list)
        BY <2>3, <2>4, <3>2, <4>1 DEF NeedsVersion, Parsed, Latest, Found
      <4> QED
        BY <4>1, <4>2 DEF Found
    <3>3. RepeatsAt(p)'
      BY <2>1, <2>2, <3>1, <3>2 DEF RepeatsAt, ListPcs, Found, Latest
    <3> QED
      BY <1>3, <2>1, <2>2, <3>3
  <2>5. CASE ~NeedsVersion(p)
    <3>1. s'[p] = Idle /\ synced' = s[p].parsed
      BY <1>12, <2>5, CompareForm
    <3>2. /\ versions # << >>
          /\ ~PlacementsChanged(board, Latest, s[p].parsed.list)
      BY <2>3, <2>5 DEF NeedsVersion, Parsed, Latest
    <3>3. board.dir = s[p].parsed.dir /\ board.tiers = s[p].parsed.tiers
      BY <2>1, <2>2 DEF RepeatsAt, ListPcs
    <3>4. Found(board, synced.list)'
      BY <2>1, <3>1, <3>2 DEF Found, Latest
    <3>5. RepeatsAt(p)'
      BY <2>1, <2>3, <3>1, <3>3, <3>4, IdleFields DEF RepeatsAt, ListPcs
    <3> QED
      BY <1>3, <2>1, <2>2, <3>5
  <2> QED
    BY <2>4, <2>5
<1>13. ASSUME NEW p \in Syncers, CreateVersion(p), ~Fail(p), steady'
       PROVE  Repeats'
  <2>1. /\ s[p].pc = "version" /\ ValidPlacements(board, s[p].parsed.list)
        /\ versions' = Append(versions, VersionOf(p)) /\ OthersStay(p) /\ s'[p] = Idle
        /\ synced' = s[p].parsed /\ board' = board /\ steady
    BY <1>13, CreateVersionForm
  <2>2. Alone(p) /\ RepeatsAt(p)
    BY <1>4, <2>1
  <2>3. PositionsLeft(board, s[p].parsed.list) =>
          ~PlacementsChanged(board, VersionOf(p), s[p].parsed.list)
    BY <2>1, VersionOfIs
  <2>4. versions' # << >> /\ Latest' = VersionOf(p)
    <3>1. versions \in Seq(SUBSET Row)
      BY DEF TypeOK
    <3> DEFINE new == VersionOf(p)
    <3>2. versions' = Append(versions, new)
      BY <2>1
    <3> HIDE DEF new
    <3>3. versions' # << >> /\ versions'[Len(versions')] = new
      BY <3>1, <3>2
    <3> QED
      BY <3>3 DEF new, Latest
  <2>5. Found(board, synced.list)'
    BY <2>1, <2>3, <2>4 DEF Found
  <2>6. board # None /\ board.dir = s[p].parsed.dir /\ board.tiers = s[p].parsed.tiers
    BY <2>1, <2>2 DEF RepeatsAt, SeenBoard, SeenPcs, ListPcs
  <2>7. RepeatsAt(p)'
    BY <2>1, <2>5, <2>6, IdleFields DEF RepeatsAt, ListPcs
  <2> QED
    BY <1>3, <2>1, <2>2, <2>7
<1>14. ASSUME NEW p \in Syncers, Fail(p) \/ NoEntries(p)
       PROVE  steady' = FALSE
  BY <1>14, FailForm, NoEntriesForm
<1>15. steady' = FALSE \/ steady'
  BY NextType DEF TypeOK
<1> QED
  BY <1>1, <1>2, <1>5, <1>6, <1>7, <1>8, <1>10, <1>11, <1>12, <1>13, <1>14, <1>15, NextIs

LEMMA InitInv == Init => IInv
<1> SUFFICES ASSUME Init
             PROVE  IInv
  OBVIOUS
<1>1. \A p \in Syncers : s[p] = Idle
  BY DEF Init
<1>2. versions = << >> /\ Len(versions) = 0 /\ board = None /\ synced = None
  BY DEF Init
<1>3. TypeOK
  BY IdleFields DEF Init, TypeOK
<1>4. SeenBoard /\ EntriesFound
  BY <1>1, IdleFields DEF SeenBoard, EntriesFound, SeenPcs, ListPcs
<1>5. BoardComplete /\ VersionsTabular /\ ContentIsSynced
  BY <1>2 DEF BoardComplete, VersionsTabular, ContentIsSynced
<1>6. OneAtATime /\ Steady
  BY <1>1, <1>2, IdleFields DEF OneAtATime, Steady, Ranked, ListPcs
<1>7. Repeats
  BY <1>1, <1>2, IdleFields DEF Repeats, ListPcs
<1> QED
  BY <1>3, <1>4, <1>5, <1>6, <1>7 DEF IInv

LEMMA NextInv == IInv /\ [Next]_vars => IInv'
BY NextType, NextBoard, NextSeen, NextEntries, NextVersions, NextContent, NextAlone,
   NextSteady, NextRepeats DEF IInv

(* The inductive invariant: whatever syncs run, stop and fail, and         *)
(* whatever the files say, sync_board's steps keep it.                     *)
THEOREM Invariance == Spec => []IInv
BY InitInv, NextInv, PTL DEF Spec

(* The board, its entries and versions, and the copies that the syncs have *)
(* of them and of their files are well typed.                              *)
THEOREM TypeCorrect == Spec => []TypeOK
<1>1. IInv => TypeOK
  BY DEF IInv
<1> QED
  BY <1>1, Invariance, PTL

(* After a sync that reports success the latest version has the content of *)
(* its files: every entry with its score and tier, no other, and on an     *)
(* ordered board the positions, whether execute.rs created a version or    *)
(* found that none is needed, and whatever other syncs did meanwhile.      *)
THEOREM Synced == Spec => []ContentIsSynced
<1>1. IInv => ContentIsSynced
  BY DEF IInv
<1> QED
  BY <1>1, Invariance, PTL

(* While syncs run one at a time and none is stopped, rejected or without  *)
(* entries, the latest version is ranked by the direction and the tiers in *)
(* the files, since execute.rs forces a version when either changes.       *)
THEOREM RankedAsSynced == Spec => []RankingIsSynced
<1>1. IInv => RankingIsSynced
  <2> SUFFICES ASSUME IInv, steady, Quiet, synced # None
               PROVE  /\ versions # << >>
                      /\ board.type = "scored" => board.dir = synced.dir
                      /\ FollowsConfig(board, Latest)
    BY DEF RankingIsSynced
  <2>1. \A p \in Syncers : s[p].pc = "idle"
    BY IdleFields DEF Quiet
  <2>2. board # None /\ board.dir = synced.dir
    BY <2>1 DEF IInv, Steady
  <2>3. versions # << >> /\ Ranked
    BY <2>1, <2>2 DEF IInv, Steady
  <2> QED
    BY <2>2, <2>3 DEF Ranked
<1> QED
  BY <1>1, Invariance, PTL

(* While syncs run one at a time and none is stopped, rejected or without  *)
(* entries, a sync of files that have not changed creates no version:      *)
(* placements_changed finds in the version what versions::create stored,   *)
(* unless the files give the positions of a scored board.                  *)
THEOREM NothingRepeated == Spec => NoRepeatedVersion
<1>1. IInv /\ [Next]_vars =>
        [\A p \in Syncers :
           /\ steady /\ At(p, "version") /\ Parsed(p) = synced
           /\ board.type = "scored" => GivesNoPositions(Parsed(p).list)
           => versions' = versions]_vars
  <2> SUFFICES ASSUME IInv, NEW p \in Syncers,
                      steady, At(p, "version"), Parsed(p) = synced,
                      board.type = "scored" => GivesNoPositions(Parsed(p).list)
               PROVE  FALSE
    OBVIOUS
  <2>1. s[p].pc = "version" /\ s[p].parsed = synced
    BY DEF At, Parsed
  <2>2. ~PositionsLeft(board, synced.list)
    BY <2>1 DEF IInv, Repeats, ListPcs
  <2> QED
    BY <2>2 DEF PositionsLeft, Parsed
<1> QED
  BY <1>1, Invariance, PTL DEF Spec, NoRepeatedVersion
=============================================================================

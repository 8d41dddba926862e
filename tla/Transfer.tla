------------------------------ MODULE Transfer ------------------------------
(***************************************************************************)
(* The versions a board gathers while its configuration is patched, the    *)
(* differences between them, and the export of the board and its import    *)
(* into a database that does not have it.                                  *)
(*                                                                         *)
(* An export is three statements without a transaction; versions, patches  *)
(* and the deletion of the board come between them.  Every other action is *)
(* one call: what can come between its statements is the subject of Store. *)
(***************************************************************************)
EXTENDS Ranking, SequencesExt

CONSTANTS
    Slugs,         \* entry slugs
    Tiers,         \* tier keys
    TierConfigs,   \* tier_config values: functions from keys to positions, or None
    Configs,       \* boards that may be created: [type, dir, tiers]
    Patches,       \* [dir, tiers] a board may be patched to (the present one: not mentioned)
    Lists,         \* placement lists a client may send
    VersionBound   \* bound: no more versions than this

Directions == {"asc", "desc"}

BoardRows == [type : {"ordered", "scored", "tiered"}, dir : Directions, tiers : TierConfigs]

Placement == [slug : Slugs, pos : Int \cup {None},
              score : Int \cup {None, NotFinite}, tier : Tiers \cup {None}]

ASSUME BoundsAssumption == IsFiniteSet(Slugs) /\ VersionBound \in Nat

ASSUME InputsAssumption ==
    /\ Configs \subseteq BoardRows
    /\ Patches \subseteq [dir : Directions, tiers : TierConfigs]
    /\ Lists \subseteq Seq(Placement)

VARIABLES
    board,      \* [type, dir, tiers]
    ids,        \* the primary key of each entry
    versions,   \* the versions in order: sets of rows
    under,      \* the board each of them was made under (no code reads it)
    alive,      \* whether the board is still there; versions keeps what it had
    reader,     \* the export that is under way
    file,       \* the export, or None
    imported,   \* what the import made of each version of it, or None
    refused     \* whether the import refused the file

vars == <<board, ids, versions, under, alive, reader, file, imported, refused>>

NoExport == [pc |-> 1, board |-> None, listed |-> 0, rows |-> 0]

(* Keys are drawn in no particular order.                                  *)
KeyOrders == {f \in [Slugs -> 1..Cardinality(Slugs)] : IsInjective(f)}

-----------------------------------------------------------------------------
(* versions::create and boards::update.                                    *)

CreateVersion ==
    /\ alive /\ Len(versions) < VersionBound
    /\ \E list \in Lists :
         /\ ValidPlacements(board, list)
         /\ versions' = Append(versions, StoredRows(board, list, ids))
    /\ under' = Append(under, board)
    /\ UNCHANGED <<board, ids, alive, reader, file, imported, refused>>

PatchBoard ==
    /\ alive
    /\ \E p \in Patches :
         /\ board.type # "scored" => p.dir = board.dir
         /\ board.type = "tiered" => p.tiers # None
         /\ board' = [board EXCEPT !.dir = p.dir, !.tiers = p.tiers]
    /\ UNCHANGED <<ids, versions, under, alive, reader, file, imported, refused>>

(* boards::delete: the versions go with the board.                         *)
DeleteBoard ==
    /\ alive /\ alive' = FALSE
    /\ UNCHANGED <<board, ids, versions, under, reader, file, imported, refused>>

(* Another board takes the slug, once no export of the old one is under    *)
(* way; the old board's file is left aside.                                *)
CreateBoard ==
    /\ ~alive /\ reader = NoExport
    /\ board' \in Configs
    /\ versions' = << >> /\ under' = << >> /\ alive' = TRUE
    /\ file' = None /\ imported' = None /\ refused' = FALSE
    /\ UNCHANGED <<ids, reader>>

-----------------------------------------------------------------------------
(* export_board and import_board.                                          *)

(* A placement without the key of its entry.  The order of the list does   *)
(* not matter: wherever it could, every position is explicit.              *)
PlacementExport(r) == [slug |-> r.slug, pos |-> r.pos, score |-> r.score, tier |-> r.tier]

VersionExport(rows) == SetToSeq({PlacementExport(r) : r \in rows})

Present == IF alive THEN Len(versions) ELSE 0

(* Mutant: the placements are read before the list of versions.            *)
PlacementsFirst(n) ==
    IF n = 2 THEN [reader EXCEPT !.pc = 3, !.rows = Present]
             ELSE [reader EXCEPT !.pc = 1, !.listed = Present]

(* What the second and the third statement see: versions 1..listed, and    *)
(* the rows of versions 1..rows (versions are never changed).              *)
Statement(n) ==
    IF n = 2 THEN [reader EXCEPT !.pc = 3, !.listed = Present]
             ELSE [reader EXCEPT !.pc = 1, !.rows = Present]

(* A new export; the file of an earlier one is left aside.                 *)
ExportBoard ==
    /\ alive /\ reader.pc = 1
    /\ reader' = [NoExport EXCEPT !.pc = 2, !.board = board]
    /\ file' = None /\ imported' = None /\ refused' = FALSE
    /\ UNCHANGED <<board, ids, versions, under, alive>>

ExportVersions ==
    /\ reader.pc = 2
    /\ reader' = Statement(2)
    /\ UNCHANGED <<board, ids, versions, under, alive, file, imported, refused>>

(* The versions of the list with the placements found for each.            *)
ExportPlacements ==
    /\ reader.pc = 3
    /\ LET r == Statement(3)
       IN  file' = [board |-> r.board,
                    versions |-> [i \in 1..r.listed |->
                                    IF i <= r.rows THEN VersionExport(versions[i]) ELSE << >>],
                    under |-> SubSeq(under, 1, r.listed)]
    /\ reader' = NoExport
    /\ UNCHANGED <<board, ids, versions, under, alive, imported, refused>>

ExplicitRows(list, idOf) ==
    {[id |-> idOf[list[i].slug], slug |-> list[i].slug, pos |-> list[i].pos,
      score |-> list[i].score, tier |-> list[i].tier] : i \in Indices(list)}

(* Mutant: positions are always those of the list.                         *)
ImportedInOrder(row, list, idOf) ==
    LET rows == {[id |-> idOf[list[i].slug], slug |-> list[i].slug, pos |-> i,
                  score |-> list[i].score, tier |-> list[i].tier] : i \in Indices(list)}
    IN  IF row.type = "scored" THEN DeriveScoredPositions(rows, row.dir) ELSE rows

ImportedRows(row, list, idOf) ==
    IF row.type = "scored"
    THEN DeriveScoredPositions(ExplicitRows(list, idOf), row.dir)
    ELSE ExplicitRows(list, idOf)

(* All or nothing; the entries are inserted in no particular order.        *)
Import ==
    /\ file # None /\ imported = None
    /\ LET lists == file.versions
           ok    == \A i \in 1..Len(lists) : ValidPlacements(file.board, lists[i])
       IN  \/ /\ ok
              /\ \E keys \in KeyOrders :
                   imported' = [i \in 1..Len(lists) |-> ImportedRows(file.board, lists[i], keys)]
              /\ UNCHANGED refused
           \/ /\ ~ok
              /\ refused' = TRUE
              /\ UNCHANGED imported
    /\ UNCHANGED <<board, ids, versions, under, alive, reader, file>>

-----------------------------------------------------------------------------
Init ==
    /\ board \in Configs
    /\ ids \in KeyOrders
    /\ versions = << >> /\ under = << >>
    /\ alive = TRUE /\ reader = NoExport
    /\ file = None /\ imported = None /\ refused = FALSE

Next == CreateBoard \/ CreateVersion \/ PatchBoard \/ DeleteBoard
        \/ ExportBoard \/ ExportVersions \/ ExportPlacements \/ Import

Spec == Init /\ [][Next]_vars

-----------------------------------------------------------------------------
(* Properties.                                                             *)

Ranked(rows, keys) == {PlacementExport(r) : r \in {q \in rows : q.slug \in keys}}

(* A client that has one version and applies the difference to another has *)
(* the other: it keeps what is unchanged, drops what is removed, and takes *)
(* what is moved or added; and nothing it is told has moved is the same    *)
(* (README.md, "diffs between any two versions").                          *)
DiffApplies ==
    \A i, j \in 1..Len(versions) :
        LET d == Diff(versions[i], versions[j])
            kept == RowSlugs(versions[i]) \ (d.removed \cup d.moved)
        IN  /\ Ranked(versions[i], kept) \cup Ranked(versions[j], d.moved \cup d.added)
                 = Ranked(versions[j], Slugs)
            /\ kept = d.unchanged
            /\ \A s \in d.moved : Ranked(versions[i], {s}) # Ranked(versions[j], {s})

(* The positions of a scored version are 1..n, in the order of the scores, *)
(* and of the keys where scores are equal: listing the rows by position is *)
(* sorting them (versions.rs, "Use a window function to assign positions   *)
(* based on score").                                                       *)
Precedes(r, q, dir) ==
    \/ IF dir = "asc" THEN r.score < q.score ELSE r.score > q.score
    \/ r.score = q.score /\ r.id < q.id

PositionsAreRanks ==
    board.type = "scored" =>
        \A v \in 1..Len(versions) :
            /\ {r.pos : r \in versions[v]} = 1..Cardinality(versions[v])
            /\ \A r, q \in versions[v] : r.pos < q.pos <=> Precedes(r, q, under[v].dir)

(* The sync creates a version exactly when the difference between the      *)
(* latest one and the one it would create is not empty, as long as the     *)
(* board is as it was and positions are given on ordered boards only       *)
(* (execute.rs, "Compare current placements against proposed placements").  *)
Plain(list) == \A i \in Indices(list) : list[i].pos = None

SyncAgreesWithDiff ==
    LET n == Len(versions) IN
    n > 0 /\ under[n] = board =>
        \A list \in Lists :
            ValidPlacements(board, list) /\ (board.type = "ordered" \/ Plain(list))
            /\ (board.type = "tiered" => \A r \in versions[n] : r.pos = None) =>
                LET d == Diff(versions[n], StoredRows(board, list, ids))
                IN  PlacementsChanged(board, versions[n], list)
                        <=> d.added \cup d.removed \cup d.moved # {}

Tied(list) == \E i, j \in Indices(list) : i # j /\ list[i].score = list[j].score

SameVersion(rows, list) == {PlacementExport(r) : r \in rows} = ToSet(list)

(* An imported version is the exported one, unless the board is scored and *)
(* the version was made under another sort_direction or has equal scores   *)
(* (README.md, "all versions with placements").                            *)
ImportKeepsVersions ==
    imported # None =>
        /\ Len(imported) = Len(file.versions)
        /\ \A i \in 1..Len(imported) :
             \/ SameVersion(imported[i], file.versions[i])
             \/ /\ file.board.type = "scored"
                /\ file.under[i].dir # file.board.dir \/ Tied(file.versions[i])

(* However versions, patches and the deletion of the board fall between    *)
(* the statements of an export, it never has a part of a version: each one *)
(* is whole, or, if the board was deleted, without a placement; and a file *)
(* with such a version is not imported (CHANGELOG.md, "full board          *)
(* serialization (all versions with placements)").                         *)
ExportIsWhole ==
    file # None =>
        /\ \A i \in 1..Len(file.versions) :
             \/ SameVersion(versions[i], file.versions[i])
             \/ ~alive /\ file.versions[i] = << >>
        /\ imported # None =>
             \A i \in 1..Len(file.versions) : SameVersion(versions[i], file.versions[i])
=============================================================================

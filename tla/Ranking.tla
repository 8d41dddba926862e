------------------------------ MODULE Ranking ------------------------------
(***************************************************************************)
(* The pure part of a leaderboard: which placement lists a board accepts,  *)
(* which rows a version stores for them, the positions a scored board      *)
(* derives, the difference of two versions, and the comparison with which  *)
(* the file sync decides that a board needs a new version.                 *)
(*                                                                         *)
(* A placement list is a sequence of records [slug, pos, score, tier]; a   *)
(* stored version is a set of rows [id, slug, pos, score, tier].  Absent   *)
(* fields are None.  Entry names and metadata are left out: nothing below  *)
(* depends on them except the last key of a display order.                 *)
(***************************************************************************)
EXTENDS Integers, Sequences, FiniteSets

CONSTANTS
    None,       \* SQL NULL, Rust None
    NotFinite   \* a NaN or infinite f64, which a TOML file may contain

Indices(list) == 1..Len(list)

SlugsOf(list) == {list[i].slug : i \in Indices(list)}

(* Ordered boards place an entry without an explicit position at its       *)
(* one-based index; the other kinds store what the list says.              *)
ResolvedPosition(board, list, i) ==
    IF board.type = "ordered" /\ list[i].pos = None THEN i ELSE list[i].pos

-----------------------------------------------------------------------------
(* What versions::create, and import, refuse.                              *)

NonEmpty(list) == list # << >>

DistinctSlugs(list) ==
    \A i, j \in Indices(list) : list[i].slug = list[j].slug => i = j

ExplicitPositionsPositive(list) ==
    \A i \in Indices(list) : list[i].pos # None => list[i].pos >= 1

DistinctPositions(board, list) ==
    \A i, j \in Indices(list) :
        ResolvedPosition(board, list, i) = ResolvedPosition(board, list, j) => i = j

EveryScoreFinite(list) ==
    \A i \in Indices(list) : list[i].score \notin {None, NotFinite}

(* A tiered board whose tier_config is absent accepts any tier.            *)
EveryTierKnown(board, list) ==
    \A i \in Indices(list) :
        /\ list[i].tier # None
        /\ board.tiers # None => list[i].tier \in DOMAIN board.tiers

ValidPlacements(board, list) ==
    /\ NonEmpty(list)
    /\ DistinctSlugs(list)
    /\ ExplicitPositionsPositive(list)
    /\ board.type = "ordered" => DistinctPositions(board, list)
    /\ board.type = "scored" => EveryScoreFinite(list)
    /\ board.type = "tiered" => EveryTierKnown(board, list)

-----------------------------------------------------------------------------
(* The rows a version stores.                                              *)

(* ORDER BY score {ASC|DESC} NULLS LAST, entry_id ASC.                     *)
RanksBefore(r, q, dir) ==
    \/ r.score # None /\ q.score = None
    \/ /\ r.score # None /\ q.score # None
       /\ IF dir = "asc" THEN r.score < q.score ELSE r.score > q.score
    \/ r.score = q.score /\ r.id < q.id

(* Mutant: RANK() instead, which gives entries with one score one position.*)
SharedPosition(r, rows, dir) ==
    1 + Cardinality({q \in rows : q.score # r.score /\ RanksBefore(q, r, dir)})

(* ROW_NUMBER() over that order.                                           *)
DerivedPosition(r, rows, dir) ==
    1 + Cardinality({q \in rows : RanksBefore(q, r, dir)})

DeriveScoredPositions(rows, dir) ==
    {[r EXCEPT !.pos = DerivedPosition(r, rows, dir)] : r \in rows}

PlacementRows(board, list, idOf) ==
    {[id |-> idOf[list[i].slug], slug |-> list[i].slug,
      pos |-> ResolvedPosition(board, list, i),
      score |-> list[i].score, tier |-> list[i].tier] : i \in Indices(list)}

StoredRows(board, list, idOf) ==
    LET rows == PlacementRows(board, list, idOf)
    IN  IF board.type = "scored" THEN DeriveScoredPositions(rows, board.dir) ELSE rows

-----------------------------------------------------------------------------
(* versions::diff: the slugs that appear, disappear, change or stay.       *)

RowOf(rows, slug) == CHOOSE r \in rows : r.slug = slug

RowSlugs(rows) == {r.slug : r \in rows}

(* Mutant: an entry that keeps its position is unchanged.                  *)
SamePosition(r, q) == r.pos = q.pos

SameRanking(r, q) == r.pos = q.pos /\ r.score = q.score /\ r.tier = q.tier

Diff(from, to) ==
    LET common == RowSlugs(from) \cap RowSlugs(to)
        same   == {s \in common : SameRanking(RowOf(from, s), RowOf(to, s))}
    IN  [added     |-> RowSlugs(to) \ RowSlugs(from),
         removed   |-> RowSlugs(from) \ RowSlugs(to),
         moved     |-> common \ same,
         unchanged |-> same]

-----------------------------------------------------------------------------
(* placements_changed: does the latest version differ from the file?  An   *)
(* implicit position is compared on ordered boards only.                   *)

(* Mutant: implicit positions are compared on every board.                 *)
AnyPositionChanged(board, list, i, row) ==
    \/ list[i].pos # None /\ row.pos # list[i].pos
    \/ list[i].pos = None /\ row.pos # i

PositionChanged(board, list, i, row) ==
    \/ list[i].pos # None /\ row.pos # list[i].pos
    \/ list[i].pos = None /\ board.type = "ordered" /\ row.pos # i

(* Mutant: tiers are not compared.                                         *)
TierIgnored(board, rows, list, i) ==
    \/ list[i].slug \notin RowSlugs(rows)
    \/ LET row == RowOf(rows, list[i].slug)
       IN  PositionChanged(board, list, i, row) \/ row.score # list[i].score

PlacementChanged(board, rows, list, i) ==
    \/ list[i].slug \notin RowSlugs(rows)
    \/ LET row == RowOf(rows, list[i].slug)
       IN  \/ PositionChanged(board, list, i, row)
           \/ row.score # list[i].score
           \/ row.tier # list[i].tier

(* Mutant: only the number of placements is compared.                      *)
CountChanged(board, rows, list) == Cardinality(rows) # Len(list)

PlacementsChanged(board, rows, list) ==
    \/ Cardinality(rows) # Len(list)
    \/ \E i \in Indices(list) : PlacementChanged(board, rows, list, i)
=============================================================================

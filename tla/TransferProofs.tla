--------------------------- MODULE TransferProofs ---------------------------
(***************************************************************************)
(* Proofs about Transfer, for any finite set of slugs, any boards, patches *)
(* and lists, and any number of versions.                                  *)
(*                                                                         *)
(* A version is a table with one row per entry, and on a scored board its  *)
(* positions are the ones that its scores and its keys derive under the    *)
(* board it was made under (Kept).  From these two facts the difference of *)
(* two versions applies, positions are ranks, and the comparison of the    *)
(* sync agrees with the difference.  An export lists versions and then     *)
(* reads their placements; the versions it has listed stay as long as the  *)
(* board, so it finds all of the placements or none (Reading, Exported).   *)
(* The import derives positions anew, from the same scores and new keys:   *)
(* they are the same where no two scores are equal.                        *)
(***************************************************************************)
EXTENDS Transfer, RankingProofs

Row == [id : Int, slug : Slugs, pos : Int \cup {None},
        score : Int \cup {None, NotFinite}, tier : Tiers \cup {None}]

Readers == [pc : 1..3, board : BoardRows \cup {None}, listed : Nat, rows : Nat]

Exports == [board : BoardRows, versions : Seq(Seq(Placement)), under : Seq(BoardRows)]

TypeOK ==
    /\ board \in BoardRows
    /\ ids \in KeyOrders
    /\ versions \in Seq(SUBSET Row)
    /\ under \in Seq(BoardRows)
    /\ alive \in BOOLEAN
    /\ reader \in Readers
    /\ file \in Exports \cup {None}
    /\ imported \in Seq(SUBSET Row) \cup {None}
    /\ refused \in BOOLEAN

(* The rows of one version, made under row, of entries with these keys.    *)
KeptRows(rows, row, keys) ==
    /\ rows \subseteq Row /\ Tabular(rows)
    /\ \A r \in rows : r.id = keys[r.slug]
    /\ row.type = "scored" =>
         /\ \A r \in rows : r.score \in Int \ {None}
         /\ rows = DeriveScoredPositions(rows, row.dir)

(* Each version has the rows its board gave it, and the type of the board  *)
(* is the one it has now.                                                  *)
Kept ==
    /\ Len(under) = Len(versions)
    /\ \A i \in 1..Len(versions) :
         under[i].type = board.type /\ KeptRows(versions[i], under[i], ids)

(* An export under way has read the board it exports, and has listed no    *)
(* version that is not there, or was there when the board was deleted; it  *)
(* has no file yet.                                                        *)
Reading ==
    /\ reader.pc = 1 => reader = NoExport
    /\ reader.pc # 1 =>
         reader.board \in BoardRows /\ reader.board.type = board.type /\ file = None
    /\ reader.pc = 3 => reader.listed <= Len(versions)

(* A file has the placements of the versions it lists, or it has none of   *)
(* a board that is gone.                                                   *)
Exported ==
    file # None =>
        /\ file \in Exports
        /\ file.board.type = board.type
        /\ Len(file.versions) <= Len(versions) /\ Len(file.under) = Len(file.versions)
        /\ \A i \in 1..Len(file.versions) :
             /\ file.under[i] = under[i]
             /\ \/ file.versions[i] = VersionExport(versions[i])
                \/ ~alive /\ file.versions[i] = << >>

(* What was imported are the lists of the file, each of them valid.        *)
Imported ==
    imported # None =>
        /\ file # None
        /\ \A i \in 1..Len(file.versions) : ValidPlacements(file.board, file.versions[i])
        /\ \E keys \in KeyOrders :
             imported = [i \in 1..Len(file.versions) |->
                           ImportedRows(file.board, file.versions[i], keys)]

IInv == TypeOK /\ Kept /\ Reading /\ Exported /\ Imported

-----------------------------------------------------------------------------
(* Keys, and lists made of sets.                                           *)

LEMMA KeysAre ==
    ASSUME NEW keys \in KeyOrders
    PROVE  /\ \A x \in Slugs : keys[x] \in Int
           /\ \A x, y \in Slugs : keys[x] = keys[y] => x = y
<1>1. keys \in [Slugs -> 1..Cardinality(Slugs)] /\ IsInjective(keys)
  BY DEF KeyOrders
<1>2. Cardinality(Slugs) \in Nat
  BY BoundsAssumption, FS_CardinalityType
<1> QED
  BY <1>1, <1>2 DEF IsInjective

(* SetToSeq lists a finite set, each element once.                         *)
LEMMA SetToSeqIs ==
    ASSUME NEW S, IsFiniteSet(S)
    PROVE  /\ SetToSeq(S) \in Seq(S)
           /\ ToSet(SetToSeq(S)) = S
           /\ \A i, j \in 1..Len(SetToSeq(S)) : SetToSeq(S)[i] = SetToSeq(S)[j] => i = j
<1> DEFINE n == Cardinality(S)
           q == SetToSeq(S)
<1>1. n \in Nat
  BY FS_CardinalityType
<1>2. PICK f : f \in Bijection(1..n, S)
  <2>1. ExistsBijection(1..n, S)
    BY FS_CardinalityType
  <2> QED
    BY <2>1 DEF ExistsBijection
<1>3. f \in [1..n -> S] /\ IsInjective(f)
  BY <1>2 DEF Bijection, Injection
<1>4. q \in [1..n -> S] /\ IsInjective(q)
  BY <1>3 DEF SetToSeq
<1> HIDE DEF q
<1>5. q \in Seq(S) /\ Len(q) = n
  BY <1>1, <1>4
<1>6. \A i, j \in 1..n : q[i] = q[j] => i = j
  BY <1>4 DEF IsInjective
<1>7. ToSet(q) = S
  <2> DEFINE dom == 1..n
             got == {q[i] : i \in dom}
  <2>1. ToSet(q) = got
    BY <1>4, <1>5 DEF ToSet
  <2>2. IsFiniteSet(dom) /\ Cardinality(dom) = n
    BY <1>1, IndicesFinite
  <2>3. \A i, j \in dom : q[i] = q[j] => i = j
    BY <1>6
  <2>4. got \in SUBSET S
    BY <1>4
  <2> HIDE DEF dom
  <2>5. Cardinality(got) = n
    BY <2>2, <2>3, ImageSize
  <2> HIDE DEF got
  <2>6. got = S
    BY <2>4, <2>5, FS_Subset
  <2> QED
    BY <2>1, <2>6
<1> QED
  BY <1>5, <1>6, <1>7 DEF q

LEMMA ExportFields ==
    ASSUME NEW r
    PROVE  /\ PlacementExport(r).slug = r.slug /\ PlacementExport(r).pos = r.pos
           /\ PlacementExport(r).score = r.score /\ PlacementExport(r).tier = r.tier
           /\ r \in Row => PlacementExport(r) \in Placement
BY DEF PlacementExport, Row, Placement

(* The export of a version is a list of its placements, each once.         *)
LEMMA VersionExportIs ==
    ASSUME NEW rows, rows \subseteq Row, IsFiniteSet(rows)
    PROVE  /\ VersionExport(rows) \in Seq(Placement)
           /\ ToSet(VersionExport(rows)) = {PlacementExport(r) : r \in rows}
           /\ \A i, j \in 1..Len(VersionExport(rows)) :
                VersionExport(rows)[i] = VersionExport(rows)[j] => i = j
<1> DEFINE S == {PlacementExport(r) : r \in rows}
           as == [r \in rows |-> PlacementExport(r)]
<1>1. S = {as[r] : r \in rows}
  OBVIOUS
<1>2. S \subseteq Placement
  BY ExportFields
<1>3. VersionExport(rows) = SetToSeq(S)
  BY DEF VersionExport
<1>4. IsFiniteSet(S)
  <2> HIDE DEF S, as
  <2> QED
    BY <1>1, ImageFinite
<1> HIDE DEF S
<1>5. SetToSeq(S) \in Seq(Placement)
  <2>1. SetToSeq(S) \in Seq(S)
    BY <1>4, SetToSeqIs
  <2> QED
    BY <1>2, <2>1
<1> QED
  BY <1>3, <1>4, <1>5, SetToSeqIs DEF S

-----------------------------------------------------------------------------
(* What a version stores, and what an import makes of a list.              *)

LEMMA DerivedRowsType ==
    ASSUME NEW rows, rows \subseteq Row, IsFiniteSet(rows), NEW dir
    PROVE  DeriveScoredPositions(rows, dir) \subseteq Row
<1>1. ASSUME NEW r \in rows
      PROVE  Derived(r, rows, dir) \in Row
  <2>1. DerivedPosition(r, rows, dir) \in Int
    BY DerivedPositionType
  <2> QED
    BY <2>1 DEF Derived, Row
<1> QED
  BY <1>1, DerivedRowsAre

LEMMA PlacementRowsType ==
    ASSUME NEW row, NEW list \in Seq(Placement), NEW keys \in KeyOrders
    PROVE  PlacementRows(row, list, keys) \subseteq Row
<1>1. ASSUME NEW i \in 1..Len(list)
      PROVE  RowAt(row, list, keys, i) \in Row
  <2>1. list[i] \in Placement
    OBVIOUS
  <2>2. keys[list[i].slug] \in Int
    BY <2>1, KeysAre DEF Placement
  <2>3. ResolvedPosition(row, list, i) \in Int \cup {None}
    BY <2>1 DEF ResolvedPosition, Placement
  <2> QED
    BY <2>1, <2>2, <2>3 DEF RowAt, Row, Placement
<1> QED
  BY <1>1, PlacementRowsAre DEF Indices

LEMMA StoredKept ==
    ASSUME NEW row, NEW list \in Seq(Placement), ids \in KeyOrders, ValidPlacements(row, list)
    PROVE  KeptRows(StoredRows(row, list, ids), row, ids)
<1> DEFINE plain == PlacementRows(row, list, ids)
           rows == StoredRows(row, list, ids)
<1>1. Len(list) \in Nat /\ DistinctSlugs(list)
  BY DEF ValidPlacements
<1>2. plain \subseteq Row /\ Tabular(plain)
  BY <1>1, PlacementRowsType, PlacementRowsTabular
<1>3. rows = IF row.type = "scored" THEN DeriveScoredPositions(plain, row.dir) ELSE plain
  BY DEF StoredRows
<1>4. /\ Tabular(rows) /\ RowSlugs(rows) = SlugsOf(list)
      /\ \A r \in rows : r.id = ids[r.slug]
      /\ \A i \in Indices(list) : StoresAt(row, rows, list, i)
  BY <1>1, StoredRowOf
<1> HIDE DEF plain, rows
<1>5. rows \subseteq Row
  BY <1>2, <1>3, DerivedRowsType DEF Tabular
<1>6. ASSUME row.type = "scored", NEW r \in rows
      PROVE  r.score \in Int \ {None}
  <2>1. PICK i \in Indices(list) : r.slug = list[i].slug
    BY <1>4 DEF RowSlugs, SlugsOf
  <2>2. RowOf(rows, list[i].slug) = r
    BY <1>4, <2>1, RowOfIs DEF Tabular
  <2>3. r.score = list[i].score
    BY <1>4, <2>2 DEF StoresAt
  <2>4. list[i].score \notin {None, NotFinite}
    BY <1>6 DEF ValidPlacements, EveryScoreFinite
  <2>5. list[i] \in Placement
    BY DEF Indices
  <2> QED
    BY <2>3, <2>4, <2>5 DEF Placement
<1>7. ASSUME row.type = "scored"
      PROVE  rows = DeriveScoredPositions(rows, row.dir)
  BY <1>2, <1>3, <1>7, DerivedAgain
<1> QED
  BY <1>4, <1>5, <1>6, <1>7 DEF KeptRows, rows

(* The rows of an imported list that is not ranked anew.                   *)
LEMMA ExplicitRowsAre ==
    ASSUME NEW list \in Seq(Placement), NEW keys \in KeyOrders, DistinctSlugs(list)
    PROVE  /\ ExplicitRows(list, keys) \subseteq Row
           /\ Tabular(ExplicitRows(list, keys))
           /\ {PlacementExport(r) : r \in ExplicitRows(list, keys)} = ToSet(list)
           /\ \A r \in ExplicitRows(list, keys) : r.id = keys[r.slug]
<1> DEFINE Given(i) == [id |-> keys[list[i].slug], slug |-> list[i].slug, pos |-> list[i].pos,
                        score |-> list[i].score, tier |-> list[i].tier]
           rows == ExplicitRows(list, keys)
           at == [i \in 1..Len(list) |-> Given(i)]
<1>1. rows = {Given(i) : i \in 1..Len(list)}
  BY DEF ExplicitRows, Indices
<1>2. ASSUME NEW i \in 1..Len(list)
      PROVE  /\ Given(i) \in Row /\ IsRow(Given(i))
             /\ Given(i).slug = list[i].slug /\ Given(i).id = keys[Given(i).slug]
             /\ PlacementExport(Given(i)) = list[i]
  <2>1. list[i] \in Placement
    OBVIOUS
  <2>2. keys[list[i].slug] \in Int
    BY <2>1, KeysAre DEF Placement
  <2> QED
    BY <2>1, <2>2 DEF Row, IsRow, Placement, PlacementExport
<1>3. IsFiniteSet(rows)
  <2>1. rows = {at[i] : i \in 1..Len(list)}
    BY <1>1
  <2>2. Len(list) \in Nat
    OBVIOUS
  <2>3. IsFiniteSet({at[i] : i \in 1..Len(list)})
    <3> HIDE DEF at
    <3> QED
      BY <2>2, IndicesFinite, ImageFinite
  <2> QED
    BY <2>1, <2>3
<1> HIDE DEF rows, Given
<1>4. OnePerSlug(rows)
  <2>1. \A i, j \in 1..Len(list) : Given(i).slug = Given(j).slug => i = j
    BY <1>2 DEF DistinctSlugs, Indices
  <2> QED
    BY <1>1, <2>1 DEF OnePerSlug
<1>5. rows \subseteq Row /\ Tabular(rows)
  BY <1>1, <1>2, <1>3, <1>4 DEF Tabular
<1>6. {PlacementExport(r) : r \in rows} = ToSet(list)
  <2>1. ToSet(list) = {list[i] : i \in 1..Len(list)}
    BY DEF ToSet
  <2> QED
    BY <1>1, <1>2, <2>1
<1>7. \A r \in rows : r.id = keys[r.slug]
  BY <1>1, <1>2
<1> QED
  BY <1>5, <1>6, <1>7 DEF rows

LEMMA ImportedRowsType ==
    ASSUME NEW row, NEW list \in Seq(Placement), NEW keys \in KeyOrders, DistinctSlugs(list)
    PROVE  ImportedRows(row, list, keys) \subseteq Row
BY ExplicitRowsAre, DerivedRowsType DEF ImportedRows, Tabular

-----------------------------------------------------------------------------
(* The invariant.                                                          *)

LEMMA Initial == Init => IInv
<1> SUFFICES ASSUME Init PROVE IInv
  OBVIOUS
<1>1. TypeOK
  <2>1. board \in BoardRows /\ NoExport \in Readers
    BY InputsAssumption DEF Init, NoExport, Readers
  <2>2. versions \in Seq(SUBSET Row) /\ under \in Seq(BoardRows)
    BY DEF Init
  <2>3. alive \in BOOLEAN /\ refused \in BOOLEAN
    BY DEF Init
  <2> QED
    BY <2>1, <2>2, <2>3 DEF Init, TypeOK
<1>2. Kept
  BY DEF Init, Kept
<1>3. Reading /\ Exported /\ Imported
  BY DEF Init, Reading, Exported, Imported, NoExport
<1> QED
  BY <1>1, <1>2, <1>3 DEF IInv

(* A version is appended with the board it is made under.                  *)
LEMMA CreateVersionKeeps ==
    ASSUME IInv, CreateVersion
    PROVE  IInv'
<1>1. PICK list \in Lists : /\ ValidPlacements(board, list)
                            /\ versions' = Append(versions, StoredRows(board, list, ids))
  BY DEF CreateVersion
<1>2. list \in Seq(Placement)
  BY InputsAssumption
<1> DEFINE rows == StoredRows(board, list, ids)
<1>3. KeptRows(rows, board, ids)
  BY <1>1, <1>2, StoredKept DEF IInv, TypeOK
<1>4. /\ versions' = Append(versions, rows) /\ under' = Append(under, board)
      /\ UNCHANGED <<board, ids, alive, reader, file, imported, refused>>
  BY <1>1 DEF CreateVersion
<1> HIDE DEF rows
<1>5. /\ versions \in Seq(SUBSET Row) /\ under \in Seq(BoardRows) /\ board \in BoardRows
      /\ rows \in SUBSET Row
  BY <1>3 DEF IInv, TypeOK, KeptRows
<1>6. versions' \in Seq(SUBSET Row) /\ under' \in Seq(BoardRows)
  BY <1>4, <1>5
<1>7. /\ Len(versions') = Len(versions) + 1 /\ Len(under') = Len(under) + 1
      /\ \A i \in 1..Len(versions) : versions'[i] = versions[i]
      /\ \A i \in 1..Len(under) : under'[i] = under[i]
      /\ versions'[Len(versions) + 1] = rows /\ under'[Len(under) + 1] = board
  BY <1>4, <1>5
<1>8. Len(under) = Len(versions) /\ Len(versions) \in Nat
  BY <1>5 DEF IInv, Kept
<1>9. TypeOK'
  BY <1>4, <1>6 DEF IInv, TypeOK, KeyOrders
<1>10. Kept'
  <2> SUFFICES ASSUME NEW i \in 1..Len(versions')
               PROVE  under'[i].type = board'.type /\ KeptRows(versions'[i], under'[i], ids')
    BY <1>7, <1>8 DEF Kept
  <2>1. CASE i = Len(versions) + 1
    BY <1>3, <1>4, <1>7, <1>8, <2>1
  <2>2. CASE i # Len(versions) + 1
    <3>1. i \in 1..Len(versions) /\ versions'[i] = versions[i] /\ under'[i] = under[i]
      BY <1>7, <1>8, <2>2
    <3>2. under[i].type = board.type /\ KeptRows(versions[i], under[i], ids)
      BY <3>1 DEF IInv, Kept
    <3> QED
      BY <1>4, <3>1, <3>2
  <2> QED
    BY <2>1, <2>2
<1>11. Reading'
  BY <1>4, <1>7, <1>8 DEF IInv, Reading, TypeOK, Readers
<1>12. Exported'
  <2> SUFFICES ASSUME file # None
               PROVE  Exported'
    BY <1>4 DEF Exported
  <2>1. Len(file.versions) \in Nat /\ Len(file.versions) <= Len(versions)
    BY DEF IInv, Exported, Exports
  <2>2. \A i \in 1..Len(file.versions) : versions'[i] = versions[i] /\ under'[i] = under[i]
    BY <1>7, <1>8, <2>1
  <2>3. Len(file.versions) <= Len(versions')
    BY <1>7, <1>8, <2>1
  <2> QED
    BY <1>4, <2>2, <2>3 DEF IInv, Exported
<1>13. Imported'
  BY <1>4 DEF IInv, Imported, KeyOrders
<1> QED
  BY <1>9, <1>10, <1>11, <1>12, <1>13 DEF IInv

(* A patch changes neither the type of the board nor a version.            *)
LEMMA PatchBoardKeeps ==
    ASSUME IInv, PatchBoard
    PROVE  IInv'
<1>1. PICK p \in Patches : board' = [board EXCEPT !.dir = p.dir, !.tiers = p.tiers]
  BY DEF PatchBoard
<1>2. p.dir \in Directions /\ p.tiers \in TierConfigs
  BY InputsAssumption
<1>3. board' \in BoardRows /\ board'.type = board.type
  BY <1>1, <1>2 DEF IInv, TypeOK, BoardRows
<1>4. UNCHANGED <<ids, versions, under, alive, reader, file, imported, refused>>
  BY DEF PatchBoard
<1>5. TypeOK'
  BY <1>3, <1>4 DEF IInv, TypeOK
<1>6. Kept'
  BY <1>3, <1>4 DEF IInv, Kept
<1>7. Reading' /\ Exported' /\ Imported'
  BY <1>3, <1>4 DEF IInv, Reading, Exported, Imported
<1> QED
  BY <1>5, <1>6, <1>7 DEF IInv

LEMMA DeleteBoardKeeps ==
    ASSUME IInv, DeleteBoard
    PROVE  IInv'
<1>1. alive' = FALSE /\ UNCHANGED <<board, ids, versions, under, reader, file, imported, refused>>
  BY DEF DeleteBoard
<1>2. TypeOK' /\ Kept'
  BY <1>1 DEF IInv, TypeOK, Kept
<1>3. Reading' /\ Exported' /\ Imported'
  BY <1>1 DEF IInv, Reading, Exported, Imported
<1> QED
  BY <1>2, <1>3 DEF IInv

LEMMA CreateBoardKeeps ==
    ASSUME IInv, CreateBoard
    PROVE  IInv'
<1>1. /\ board' \in BoardRows
      /\ versions' = << >> /\ under' = << >> /\ alive' = TRUE
      /\ file' = None /\ imported' = None /\ refused' = FALSE
      /\ ids' = ids /\ reader' = NoExport /\ reader = NoExport
  BY InputsAssumption DEF CreateBoard
<1>2. TypeOK'
  <2>1. ids' \in KeyOrders /\ reader' \in Readers
    BY <1>1 DEF IInv, TypeOK
  <2>2. versions' \in Seq(SUBSET Row) /\ under' \in Seq(BoardRows)
    BY <1>1
  <2>3. alive' \in BOOLEAN /\ refused' \in BOOLEAN
    BY <1>1
  <2> QED
    BY <1>1, <2>1, <2>2, <2>3 DEF TypeOK, KeyOrders
<1>3. Kept' /\ Exported' /\ Imported'
  BY <1>1 DEF Kept, Exported, Imported
<1>4. Reading'
  BY <1>1 DEF Reading, NoExport
<1> QED
  BY <1>2, <1>3, <1>4 DEF IInv

LEMMA ExportBoardKeeps ==
    ASSUME IInv, ExportBoard
    PROVE  IInv'
<1>1. /\ reader' = [pc |-> 2, board |-> board, listed |-> 0, rows |-> 0]
      /\ file' = None /\ imported' = None /\ refused' = FALSE
      /\ UNCHANGED <<board, ids, versions, under, alive>>
  BY DEF ExportBoard, NoExport
<1>2. board \in BoardRows
  BY DEF IInv, TypeOK
<1>3. reader' \in Readers
  BY <1>1, <1>2 DEF Readers
<1>4. refused' \in BOOLEAN
  BY <1>1
<1>5. TypeOK' /\ Kept'
  BY <1>1, <1>3, <1>4 DEF IInv, TypeOK, Kept
<1>6. Reading' /\ Exported' /\ Imported'
  BY <1>1, <1>2 DEF Reading, Exported, Imported
<1> QED
  BY <1>5, <1>6 DEF IInv

LEMMA PresentIs ==
    ASSUME IInv
    PROVE  /\ Present \in Nat /\ Present <= Len(versions)
           /\ alive => Present = Len(versions)
           /\ alive = FALSE => Present = 0
BY DEF IInv, TypeOK, Present

LEMMA ExportVersionsKeeps ==
    ASSUME IInv, ExportVersions
    PROVE  IInv'
<1>1. /\ reader' = [reader EXCEPT !.pc = 3, !.listed = Present] /\ reader.pc = 2
      /\ UNCHANGED <<board, ids, versions, under, alive, file, imported, refused>>
  BY DEF ExportVersions, Statement
<1>2. Present \in Nat /\ Present <= Len(versions)
  BY PresentIs
<1>3. reader' \in Readers
  <2>1. reader \in Readers /\ 3 \in 1..3
    BY DEF IInv, TypeOK
  <2> QED
    BY <1>1, <1>2, <2>1 DEF Readers
<1>4. reader'.pc = 3 /\ reader'.board = reader.board /\ reader'.listed = Present
  BY <1>1 DEF IInv, TypeOK, Readers
<1>5. TypeOK' /\ Kept' /\ Exported' /\ Imported'
  BY <1>1, <1>3 DEF IInv, TypeOK, Kept, Exported, Imported
<1>6. Reading'
  BY <1>1, <1>4, <1>2 DEF IInv, Reading
<1> QED
  BY <1>5, <1>6 DEF IInv

(* The placements of the versions listed, or of none if the board is gone. *)
LEMMA ExportPlacementsKeeps ==
    ASSUME IInv, ExportPlacements
    PROVE  IInv'
<1> DEFINE n == reader.listed
           lists == [i \in 1..n |-> IF i <= Present THEN VersionExport(versions[i]) ELSE << >>]
<1>1. /\ file' = [board |-> reader.board, versions |-> lists, under |-> SubSeq(under, 1, n)]
      /\ reader' = NoExport /\ reader.pc = 3
      /\ UNCHANGED <<board, ids, versions, under, alive, imported, refused>>
  <2>1. LET r == Statement(3)
        IN  r.board = reader.board /\ r.listed = n /\ r.rows = Present
    BY DEF Statement, IInv, TypeOK, Readers
  <2> QED
    BY <2>1 DEF ExportPlacements
<1>2. /\ reader.board \in BoardRows /\ reader.board.type = board.type
      /\ n \in Nat /\ n <= Len(versions) /\ Len(under) = Len(versions)
  BY <1>1 DEF IInv, Reading, Kept, TypeOK, Readers
<1>3. ASSUME NEW i \in 1..n
      PROVE  /\ lists[i] \in Seq(Placement)
             /\ \/ lists[i] = VersionExport(versions[i])
                \/ alive = FALSE /\ lists[i] = << >>
  <2>1. i \in 1..Len(versions)
    BY <1>2 DEF IInv, TypeOK
  <2>2. VersionExport(versions[i]) \in Seq(Placement)
    BY <2>1, VersionExportIs DEF IInv, Kept, KeptRows, Tabular
  <2>3. CASE i <= Present
    BY <2>2, <2>3
  <2>4. CASE ~(i <= Present)
    <3>1. alive = FALSE
      <4>1. alive => Present = Len(versions)
        BY PresentIs
      <4>2. alive \in BOOLEAN
        BY DEF IInv, TypeOK
      <4>3. ~alive
        BY <2>1, <2>4, <4>1
      <4> QED
        BY <4>2, <4>3
    <3>2. << >> \in Seq(Placement)
      OBVIOUS
    <3> QED
      BY <2>4, <3>1, <3>2
  <2> QED
    BY <2>3, <2>4
<1>4. lists \in Seq(Seq(Placement)) /\ Len(lists) = n
  <2>1. lists \in [1..n -> Seq(Placement)]
    BY <1>3
  <2> HIDE DEF lists
  <2> QED
    BY <1>2, <2>1
<1>5. /\ SubSeq(under, 1, n) \in Seq(BoardRows) /\ Len(SubSeq(under, 1, n)) = n
      /\ \A i \in 1..n : SubSeq(under, 1, n)[i] = under[i]
  <2>1. under \in Seq(BoardRows) /\ n \in 0..Len(under)
    BY <1>2 DEF IInv, TypeOK
  <2> HIDE DEF n
  <2> QED
    BY <2>1
<1> HIDE DEF lists, n
<1>6. /\ file'.board = reader.board /\ file'.versions = lists
      /\ file'.under = SubSeq(under, 1, n)
  BY <1>1
<1>7. file' \in Exports
  BY <1>1, <1>2, <1>4, <1>5 DEF Exports
<1>8. Exported'
  BY <1>1, <1>2, <1>3, <1>4, <1>5, <1>6, <1>7 DEF Exported
<1>9. Reading'
  BY <1>1 DEF Reading, NoExport
<1>10. reader' \in Readers
  BY <1>1 DEF NoExport, Readers
<1>11. TypeOK' /\ Kept'
  BY <1>1, <1>7, <1>10 DEF IInv, TypeOK, Kept
<1>12. Imported'
  <2>1. file = None
    BY <1>1 DEF IInv, Reading
  <2>2. imported = None
    BY <2>1 DEF IInv, Imported
  <2> QED
    BY <1>1, <2>2 DEF Imported
<1> QED
  BY <1>8, <1>9, <1>11, <1>12 DEF IInv

(* What is imported are the lists of the file, under the keys drawn.       *)
LEMMA ImportKeeps ==
    ASSUME IInv, Import
    PROVE  IInv'
<1> DEFINE lists == file.versions
           ok == \A i \in 1..Len(lists) : ValidPlacements(file.board, lists[i])
<1>1. file # None /\ imported = None /\ UNCHANGED <<board, ids, versions, under, alive, reader, file>>
  BY DEF Import
<1>2. Kept' /\ Reading' /\ Exported'
  BY <1>1 DEF IInv, Kept, Reading, Exported
<1>3. CASE ~ok
  <2>1. refused' = TRUE /\ imported' = imported
    BY <1>3 DEF Import
  <2>2. refused' \in BOOLEAN
    BY <2>1
  <2>3. TypeOK' /\ Imported'
    BY <1>1, <2>1, <2>2 DEF IInv, TypeOK, Imported
  <2> QED
    BY <1>2, <2>3 DEF IInv
<1>4. CASE ok
  <2>1. PICK keys \in KeyOrders :
          imported' = [i \in 1..Len(lists) |-> ImportedRows(file.board, lists[i], keys)]
    BY <1>4 DEF Import
  <2>2. refused' = refused
    BY <1>4 DEF Import
  <2>3. lists \in Seq(Seq(Placement))
    BY <1>1 DEF IInv, Exported, Exports
  <2>4. \A i \in 1..Len(lists) : ValidPlacements(file.board, lists[i])
    BY <1>4
  <2>5. ASSUME NEW i \in 1..Len(lists)
        PROVE  ImportedRows(file.board, lists[i], keys) \in SUBSET Row
    <3> DEFINE list == lists[i]
    <3>1. list \in Seq(Placement)
      BY <2>3
    <3>2. DistinctSlugs(list)
      BY <2>4 DEF ValidPlacements
    <3> HIDE DEF list
    <3>3. ImportedRows(file.board, list, keys) \subseteq Row
      BY <3>1, <3>2, ImportedRowsType
    <3> QED
      BY <3>3 DEF list
  <2>6. imported' \in Seq(SUBSET Row)
    <3>1. Len(lists) \in Nat
      BY <2>3
    <3> HIDE DEF lists
    <3>2. imported' \in [1..Len(lists) -> SUBSET Row]
      BY <2>1, <2>5
    <3> QED
      BY <3>1, <3>2
  <2>7. TypeOK'
    BY <1>1, <2>2, <2>6 DEF IInv, TypeOK
  <2>8. Imported'
    BY <1>1, <2>1, <2>4 DEF Imported, KeyOrders
  <2> QED
    BY <1>2, <2>7, <2>8 DEF IInv
<1> QED
  BY <1>3, <1>4

LEMMA Inductive == IInv /\ [Next]_vars => IInv'
<1> SUFFICES ASSUME IInv, [Next]_vars PROVE IInv'
  OBVIOUS
<1>1. CASE UNCHANGED vars
  BY <1>1 DEF IInv, TypeOK, Kept, Reading, Exported, Imported, vars
<1> QED
  BY <1>1, CreateBoardKeeps, CreateVersionKeeps, PatchBoardKeeps, DeleteBoardKeeps,
     ExportBoardKeeps, ExportVersionsKeeps, ExportPlacementsKeeps, ImportKeeps DEF Next

(* Versions are tables whose positions are those their scores derive, an   *)
(* export has whole versions, and an import has the lists of its file:     *)
(* the inductive invariant, for any slugs, boards, patches and lists.      *)
THEOREM Invariance == Spec => []IInv
<1> QED
  BY Initial, Inductive, PTL DEF Spec

(* Every variable keeps its type.                                          *)
THEOREM TypeCorrect == Spec => []TypeOK
<1>1. IInv => TypeOK
  BY DEF IInv
<1> QED
  BY <1>1, Invariance, PTL

-----------------------------------------------------------------------------
(* The properties follow from the invariant.                               *)

LEMMA ExportedWhole ==
    ASSUME IInv, file # None, NEW i \in 1..Len(file.versions)
    PROVE  /\ i \in 1..Len(versions) /\ KeptRows(versions[i], file.under[i], ids)
           /\ file.under[i].type = file.board.type
           /\ file.versions[i] \in Seq(Placement)
           /\ \/ /\ file.versions[i] = VersionExport(versions[i])
                 /\ SameVersion(versions[i], file.versions[i])
              \/ ~alive /\ file.versions[i] = << >>
<1>1. /\ file \in Exports /\ Len(file.versions) <= Len(versions)
      /\ file.under[i] = under[i] /\ file.board.type = board.type
      /\ \/ file.versions[i] = VersionExport(versions[i])
         \/ ~alive /\ file.versions[i] = << >>
  BY DEF IInv, Exported
<1>2. i \in 1..Len(versions)
  BY <1>1 DEF IInv, TypeOK, Exports
<1>3. KeptRows(versions[i], under[i], ids) /\ under[i].type = board.type
  BY <1>2 DEF IInv, Kept
<1>4. file.versions[i] \in Seq(Placement)
  BY <1>1 DEF Exports
<1>5. SameVersion(versions[i], VersionExport(versions[i]))
  BY <1>3, VersionExportIs DEF KeptRows, Tabular, SameVersion
<1> QED
  BY <1>1, <1>2, <1>3, <1>4, <1>5

(* However versions, patches and the deletion of the board fall between    *)
(* the three statements of export_board, the file has whole versions, or   *)
(* versions without a placement of a board that is gone; and import_board  *)
(* refuses the latter, since a list without placements is not valid.       *)
THEOREM WholeExports == Spec => []ExportIsWhole
<1>1. ASSUME IInv
      PROVE  ExportIsWhole
  <2> SUFFICES ASSUME file # None
               PROVE  ExportIsWhole
    BY DEF ExportIsWhole
  <2>1. \A i \in 1..Len(file.versions) :
          \/ SameVersion(versions[i], file.versions[i])
          \/ ~alive /\ file.versions[i] = << >>
    BY <1>1, ExportedWhole
  <2>2. ASSUME imported # None, NEW i \in 1..Len(file.versions)
        PROVE  file.versions[i] # << >>
    BY <1>1, <2>2 DEF IInv, Imported, ValidPlacements, NonEmpty
  <2> QED
    BY <2>1, <2>2 DEF ExportIsWhole
<1> QED
  BY <1>1, Invariance, PTL

LEMMA RankedOne ==
    ASSUME NEW rows, OnePerSlug(rows), NEW x \in RowSlugs(rows)
    PROVE  /\ RowOf(rows, x) \in rows /\ RowOf(rows, x).slug = x
           /\ Ranked(rows, {x}) = {PlacementExport(RowOf(rows, x))}
<1>1. PICK r \in rows : r.slug = x
  BY DEF RowSlugs
<1>2. RowOf(rows, x) = r
  BY <1>1, RowOfIs
<1>3. \A q \in rows : q.slug = x <=> q = r
  BY <1>1 DEF OnePerSlug
<1> QED
  BY <1>1, <1>2, <1>3 DEF Ranked

LEMMA RankedIs ==
    ASSUME NEW rows, OnePerSlug(rows), NEW keys
    PROVE  Ranked(rows, keys) = {PlacementExport(RowOf(rows, x)) : x \in RowSlugs(rows) \cap keys}
<1>1. \A r \in rows : RowOf(rows, r.slug) = r /\ r.slug \in RowSlugs(rows)
  BY RowOfIs DEF RowSlugs
<1>2. \A x \in RowSlugs(rows) : RowOf(rows, x) \in rows /\ RowOf(rows, x).slug = x
  BY RankedOne
<1> QED
  BY <1>1, <1>2 DEF Ranked

(* Two rows of one entry are exported alike exactly when they rank alike.  *)
LEMMA ExportsAlike ==
    ASSUME NEW r, NEW q, r.slug = q.slug
    PROVE  SameRanking(r, q) <=> PlacementExport(r) = PlacementExport(q)
<1>1. SameRanking(r, q) => PlacementExport(r) = PlacementExport(q)
  BY DEF SameRanking, PlacementExport
<1>2. PlacementExport(r) = PlacementExport(q) => SameRanking(r, q)
  <2>1. ASSUME PlacementExport(r) = PlacementExport(q)
        PROVE  r.pos = q.pos /\ r.score = q.score /\ r.tier = q.tier
    BY <2>1, ExportFields
  <2> QED
    BY <2>1 DEF SameRanking
<1> QED
  BY <1>1, <1>2

(* versions::diff is right between any two versions of a board, also when  *)
(* patches came between them: what a client keeps, drops and takes by it   *)
(* is the other version, and it is told of no move that is none.           *)
THEOREM DiffsApply == Spec => []DiffApplies
<1>1. ASSUME IInv
      PROVE  DiffApplies
  <2> SUFFICES ASSUME NEW i \in 1..Len(versions), NEW j \in 1..Len(versions)
               PROVE  LET d == Diff(versions[i], versions[j])
                          kept == RowSlugs(versions[i]) \ (d.removed \cup d.moved)
                      IN  /\ Ranked(versions[i], kept) \cup Ranked(versions[j], d.moved \cup d.added)
                               = Ranked(versions[j], Slugs)
                          /\ kept = d.unchanged
                          /\ \A s \in d.moved : Ranked(versions[i], {s}) # Ranked(versions[j], {s})
    BY DEF DiffApplies
  <2> DEFINE A == versions[i]
             B == versions[j]
             d == Diff(A, B)
             kept == RowSlugs(A) \ (d.removed \cup d.moved)
             same == {x \in RowSlugs(A) \cap RowSlugs(B) :
                        SameRanking(RowOf(A, x), RowOf(B, x))}
  <2>1. OnePerSlug(A) /\ OnePerSlug(B) /\ B \subseteq Row
    BY <1>1 DEF IInv, Kept, KeptRows, Tabular
  <2>2. /\ d.added = RowSlugs(B) \ RowSlugs(A)
        /\ d.removed = RowSlugs(A) \ RowSlugs(B)
        /\ d.moved = (RowSlugs(A) \cap RowSlugs(B)) \ same
        /\ d.unchanged = same
    <3> HIDE DEF A, B
    <3> QED
      BY DEF Diff
  <2> HIDE DEF A, B, d
  <2>3. kept = same
    BY <2>2
  <2>4. RowSlugs(B) \subseteq Slugs
    BY <2>1 DEF Row, RowSlugs
  <2>5. \A x \in RowSlugs(A) : RowOf(A, x).slug = x
    BY <2>1, RankedOne
  <2>6. \A x \in RowSlugs(B) : RowOf(B, x).slug = x
    BY <2>1, RankedOne
  <2>7. \A x \in RowSlugs(A) \cap RowSlugs(B) :
          x \in same <=> PlacementExport(RowOf(A, x)) = PlacementExport(RowOf(B, x))
    BY <2>5, <2>6, ExportsAlike
  <2> HIDE DEF same, kept
  <2>8. Ranked(A, kept) \cup Ranked(B, d.moved \cup d.added) = Ranked(B, Slugs)
    <3>1. Ranked(A, kept) = {PlacementExport(RowOf(A, x)) : x \in same}
      <4>1. RowSlugs(A) \cap kept = same
        BY <2>3 DEF same
      <4> QED
        BY <2>1, <4>1, RankedIs
    <3>2. {PlacementExport(RowOf(A, x)) : x \in same} = {PlacementExport(RowOf(B, x)) : x \in same}
      BY <2>7 DEF same
    <3>3. Ranked(B, d.moved \cup d.added)
            = {PlacementExport(RowOf(B, x)) : x \in RowSlugs(B) \ same}
      <4>1. RowSlugs(B) \cap (d.moved \cup d.added) = RowSlugs(B) \ same
        BY <2>2 DEF same
      <4> QED
        BY <2>1, <4>1, RankedIs
    <3>4. Ranked(B, Slugs) = {PlacementExport(RowOf(B, x)) : x \in RowSlugs(B)}
      <4>1. RowSlugs(B) \cap Slugs = RowSlugs(B)
        BY <2>4
      <4> QED
        BY <2>1, <4>1, RankedIs
    <3>5. same \subseteq RowSlugs(B)
      BY DEF same
    <3> QED
      BY <3>1, <3>2, <3>3, <3>4, <3>5
  <2>9. ASSUME NEW x \in d.moved
        PROVE  Ranked(A, {x}) # Ranked(B, {x})
    <3>1. x \in RowSlugs(A) \cap RowSlugs(B) /\ x \notin same
      BY <2>2
    <3>2. /\ Ranked(A, {x}) = {PlacementExport(RowOf(A, x))}
          /\ Ranked(B, {x}) = {PlacementExport(RowOf(B, x))}
      BY <2>1, <3>1, RankedOne
    <3> QED
      BY <2>7, <3>1, <3>2
  <2> QED
    BY <2>2, <2>3, <2>8, <2>9 DEF A, B, d, kept
<1> QED
  BY <1>1, Invariance, PTL

-----------------------------------------------------------------------------
(* Positions.                                                              *)

(* The rows of a scored version can be ranked, and have their ranks.       *)
LEMMA KeptScored ==
    ASSUME NEW keys \in KeyOrders, NEW row, row.type = "scored", NEW rows, KeptRows(rows, row, keys)
    PROVE  /\ Comparable(rows)
           /\ \A r \in rows : r.pos = DerivedPosition(r, rows, row.dir)
<1>1. /\ rows \subseteq Row /\ Tabular(rows)
      /\ \A r \in rows : r.id = keys[r.slug] /\ r.score \in Int \ {None}
      /\ rows = DeriveScoredPositions(rows, row.dir)
  BY DEF KeptRows
<1>2. \A r \in rows : r.slug \in Slugs
  BY <1>1 DEF Row
<1>3. Comparable(rows)
  <2>1. \A r \in rows : r.id \in Int /\ r.score \in Int
    BY <1>1, <1>2, KeysAre
  <2>2. \A r, q \in rows : r.id = q.id => r = q
    BY <1>1, <1>2, KeysAre DEF Tabular, OnePerSlug
  <2> QED
    BY <2>1, <2>2 DEF Comparable
<1>4. ASSUME NEW r \in rows
      PROVE  r.pos = DerivedPosition(r, rows, row.dir)
  <2>1. r \in {Derived(q, rows, row.dir) : q \in rows}
    BY <1>1, DerivedRowsAre
  <2>2. PICK q \in rows : r = Derived(q, rows, row.dir)
    BY <2>1
  <2>3. r.slug = q.slug /\ r.pos = DerivedPosition(q, rows, row.dir)
    BY <1>1, <2>2, DerivedFields DEF Tabular
  <2>4. r = q
    BY <1>1, <2>3 DEF Tabular, OnePerSlug
  <2> QED
    BY <2>3, <2>4
<1> QED
  BY <1>3, <1>4

(* The positions that versions::create derives on a scored board are 1..n  *)
(* in the order of the scores, in the direction the board had when the     *)
(* version was made, and of the keys where scores are equal.               *)
THEOREM PositionsRank == Spec => []PositionsAreRanks
<1>1. ASSUME IInv
      PROVE  PositionsAreRanks
  <2> SUFFICES ASSUME board.type = "scored", NEW v \in 1..Len(versions)
               PROVE  /\ {r.pos : r \in versions[v]} = 1..Cardinality(versions[v])
                      /\ \A r, q \in versions[v] : r.pos < q.pos <=> Precedes(r, q, under[v].dir)
    BY DEF PositionsAreRanks
  <2> DEFINE rows == versions[v]
             dir == under[v].dir
  <2>1. ids \in KeyOrders /\ under[v].type = "scored" /\ KeptRows(rows, under[v], ids)
    BY <1>1 DEF IInv, TypeOK, Kept
  <2>2. Comparable(rows) /\ \A r \in rows : r.pos = DerivedPosition(r, rows, dir)
    BY <2>1, KeptScored
  <2>3. IsFiniteSet(rows) /\ \A r \in rows : r.score \in Int \ {None}
    BY <2>1 DEF KeptRows, Tabular
  <2> HIDE DEF rows, dir
  <2>4. {DerivedPosition(r, rows, dir) : r \in rows} = 1..Cardinality(rows)
    BY <2>2, <2>3, DerivedPositionsNumber
  <2>5. {r.pos : r \in rows} = 1..Cardinality(rows)
    BY <2>2, <2>4
  <2>6. ASSUME NEW r \in rows, NEW q \in rows
        PROVE  r.pos < q.pos <=> Precedes(r, q, dir)
    <3>1. RanksBefore(r, q, dir)
            <=> DerivedPosition(r, rows, dir) < DerivedPosition(q, rows, dir)
      BY <2>2, <2>3, DerivedPositionOrders
    <3>2. RanksBefore(r, q, dir) <=> Precedes(r, q, dir)
      BY <2>3 DEF RanksBefore, Precedes
    <3> QED
      BY <2>2, <3>1, <3>2
  <2> QED
    BY <2>5, <2>6 DEF rows, dir
<1> QED
  BY <1>1, Invariance, PTL

(* On the same board, a version and a list with the same slugs and scores  *)
(* derive the same positions: the entries have the same keys.              *)
LEMMA StoredPositions ==
    ASSUME ids \in KeyOrders, NEW row, row.type = "scored", NEW rows, KeptRows(rows, row, ids),
           NEW stored, KeptRows(stored, row, ids), RowSlugs(rows) = RowSlugs(stored),
           \A x \in RowSlugs(rows) : RowOf(rows, x).score = RowOf(stored, x).score,
           NEW x \in RowSlugs(rows)
    PROVE  RowOf(rows, x).pos = RowOf(stored, x).pos
<1>1. Tabular(rows) /\ Tabular(stored)
  BY DEF KeptRows
<1>2. /\ \A r \in rows : r.id = ids[r.slug] /\ RowOf(rows, r.slug) = r /\ r.slug \in RowSlugs(rows)
      /\ \A r \in stored : r.id = ids[r.slug] /\ RowOf(stored, r.slug) = r
  BY <1>1, RowOfIs DEF KeptRows, Tabular, RowSlugs
<1>3. \A a \in rows, b \in stored : a.slug = b.slug => a.id = b.id /\ a.score = b.score
  BY <1>2
<1>4. \A a, c \in rows, b, d \in stored :
        a.slug = b.slug /\ c.slug = d.slug =>
            (RanksBefore(c, a, row.dir) <=> RanksBefore(d, b, row.dir))
  <2> SUFFICES ASSUME NEW a \in rows, NEW c \in rows, NEW b \in stored, NEW d \in stored,
                      a.slug = b.slug, c.slug = d.slug
               PROVE  RanksBefore(c, a, row.dir) <=> RanksBefore(d, b, row.dir)
    OBVIOUS
  <2>1. a.id = b.id /\ a.score = b.score /\ c.id = d.id /\ c.score = d.score
    BY <1>3
  <2> QED
    BY <2>1 DEF RanksBefore
<1>5. PICK a \in rows, b \in stored : a.slug = x /\ b.slug = x
  BY DEF RowSlugs
<1>6. a = RowOf(rows, x) /\ b = RowOf(stored, x)
  BY <1>2, <1>5
<1>7. DerivedPosition(a, rows, row.dir) = DerivedPosition(b, stored, row.dir)
  BY <1>1, <1>4, <1>5, SamePositions DEF Tabular
<1>8. a.pos = DerivedPosition(a, rows, row.dir) /\ b.pos = DerivedPosition(b, stored, row.dir)
  BY KeptScored
<1> QED
  BY <1>6, <1>7, <1>8

(* placements_changed, with which the file sync decides, agrees with       *)
(* versions::diff on what a new version would change, although it neither  *)
(* sees the positions a scored board derives nor looks at a row that the   *)
(* list does not name.                                                     *)
THEOREM SyncAgrees == Spec => []SyncAgreesWithDiff
<1>1. ASSUME IInv
      PROVE  SyncAgreesWithDiff
  <2> DEFINE n == Len(versions)
  <2> SUFFICES ASSUME n > 0, under[n] = board, NEW list \in Lists,
                      ValidPlacements(board, list), board.type = "ordered" \/ Plain(list),
                      board.type = "tiered" => \A r \in versions[n] : r.pos = None
               PROVE  LET d == Diff(versions[n], StoredRows(board, list, ids))
                      IN  PlacementsChanged(board, versions[n], list)
                            <=> d.added \cup d.removed \cup d.moved # {}
    BY DEF SyncAgreesWithDiff
  <2> DEFINE rows == versions[n]
             stored == StoredRows(board, list, ids)
             Same(x) == SameRanking(RowOf(rows, x), RowOf(stored, x))
             Found(i) == /\ ~PositionChanged(board, list, i, RowOf(rows, list[i].slug))
                         /\ RowOf(rows, list[i].slug).score = list[i].score
                         /\ RowOf(rows, list[i].slug).tier = list[i].tier
  <2>1. n \in 1..Len(versions) /\ ids \in KeyOrders /\ board \in BoardRows
    BY <1>1 DEF IInv, TypeOK
  <2>2. KeptRows(rows, board, ids)
    BY <1>1, <2>1 DEF IInv, Kept
  <2>3. list \in Seq(Placement) /\ Len(list) \in Nat /\ DistinctSlugs(list)
    BY InputsAssumption DEF ValidPlacements
  <2>4. KeptRows(stored, board, ids)
    BY <2>1, <2>3, StoredKept
  <2>5. RowSlugs(stored) = SlugsOf(list) /\ \A i \in Indices(list) : StoresAt(board, stored, list, i)
    BY <2>3, StoredRowOf
  <2>6. ~PlacementsChanged(board, rows, list)
          <=> RowSlugs(rows) = SlugsOf(list) /\ \A i \in Indices(list) : Found(i)
    <3> HIDE DEF rows
    <3> QED
      BY <2>2, <2>3, ComparisonMeans DEF KeptRows, Tabular
  <2> DEFINE d == Diff(rows, stored)
  <2>7. d.added \cup d.removed \cup d.moved = {}
          <=> RowSlugs(rows) = RowSlugs(stored) /\ \A x \in RowSlugs(stored) : Same(x)
    BY NoDifference
  <2>8. board.type = "tiered" => \A r \in rows : r.pos = None
    OBVIOUS
  <2> HIDE DEF rows, stored, d
  <2>9. ASSUME RowSlugs(rows) = SlugsOf(list), \A i \in Indices(list) : Found(i),
               NEW x \in RowSlugs(stored)
        PROVE  Same(x)
    <3>1. PICK i \in Indices(list) : list[i].slug = x
      BY <2>5 DEF SlugsOf
    <3>2. ASSUME NEW y \in RowSlugs(rows)
          PROVE  RowOf(rows, y).score = RowOf(stored, y).score
      <4>1. PICK j \in Indices(list) : list[j].slug = y
        BY <2>9 DEF SlugsOf
      <4> QED
        BY <2>5, <2>9, <4>1 DEF StoresAt
    <3>3. RowOf(rows, x).tier = RowOf(stored, x).tier
      BY <2>5, <2>9, <3>1 DEF StoresAt
    <3>4. RowOf(rows, x).pos = RowOf(stored, x).pos
      <4>1. CASE board.type = "scored"
        BY <2>1, <2>2, <2>4, <2>5, <2>9, <3>2, <4>1, StoredPositions
      <4>2. CASE board.type = "ordered"
        <5>1. RowOf(rows, x).pos = ResolvedPosition(board, list, i)
          BY <2>9, <3>1, <4>2 DEF PositionChanged, ResolvedPosition
        <5> QED
          BY <2>5, <3>1, <4>2, <5>1 DEF StoresAt
      <4>3. CASE board.type = "tiered"
        <5>1. RowOf(stored, x).pos = None
          BY <2>5, <3>1, <4>3 DEF StoresAt, ResolvedPosition, Plain
        <5>2. RowOf(rows, x) \in rows
          BY <2>2, <2>5, <2>9, RankedOne DEF KeptRows, Tabular
        <5> QED
          BY <2>8, <4>3, <5>1, <5>2
      <4> QED
        BY <2>1, <4>1, <4>2, <4>3 DEF BoardRows
    <3>5. x \in RowSlugs(rows)
      BY <2>5, <2>9
    <3> QED
      BY <3>2, <3>3, <3>4, <3>5 DEF SameRanking
  <2>10. ASSUME \A x \in RowSlugs(stored) : Same(x), NEW i \in Indices(list)
         PROVE  Found(i)
    <3> DEFINE x == list[i].slug
    <3>1. x \in RowSlugs(stored)
      BY <2>5 DEF SlugsOf
    <3>2. /\ RowOf(rows, x).pos = RowOf(stored, x).pos
          /\ RowOf(rows, x).score = RowOf(stored, x).score
          /\ RowOf(rows, x).tier = RowOf(stored, x).tier
      BY <2>10, <3>1 DEF SameRanking
    <3>3. StoresAt(board, stored, list, i)
      BY <2>5
    <3>4. ~PositionChanged(board, list, i, RowOf(rows, x))
      <4>1. CASE board.type = "ordered"
        BY <3>2, <3>3, <4>1 DEF StoresAt, PositionChanged, ResolvedPosition
      <4>2. CASE board.type # "ordered"
        BY <4>2 DEF PositionChanged, Plain
      <4> QED
        BY <4>1, <4>2
    <3> QED
      BY <3>2, <3>3, <3>4 DEF StoresAt
  <2> HIDE DEF Same, Found
  <2>11. PlacementsChanged(board, rows, list) <=> d.added \cup d.removed \cup d.moved # {}
    BY <2>5, <2>6, <2>7, <2>9, <2>10
  <2> QED
    BY <2>11 DEF rows, stored, d
<1> QED
  BY <1>1, Invariance, PTL

-----------------------------------------------------------------------------
(* The import.                                                             *)

(* A list of the placements of a scored version, imported under other keys *)
(* and ranked anew in the same direction: with no two scores equal the     *)
(* keys do not matter, and each row gets the position it came with.        *)
LEMMA RankedAnew ==
    ASSUME ids \in KeyOrders, NEW row, row.type = "scored", NEW rows, KeptRows(rows, row, ids),
           NEW keys \in KeyOrders, NEW list \in Seq(Placement), DistinctSlugs(list),
           SameVersion(rows, list), ~Tied(list)
    PROVE  DeriveScoredPositions(ExplicitRows(list, keys), row.dir) = ExplicitRows(list, keys)
<1> DEFINE given == ExplicitRows(list, keys)
<1>1. /\ given \subseteq Row /\ Tabular(given)
      /\ {PlacementExport(r) : r \in given} = ToSet(list)
      /\ \A r \in given : r.id = keys[r.slug]
  BY ExplicitRowsAre
<1>2. /\ rows \subseteq Row /\ Tabular(rows) /\ \A r \in rows : r.score \in Int \ {None}
      /\ {PlacementExport(r) : r \in rows} = ToSet(list)
  BY DEF KeptRows, SameVersion
<1>3. Comparable(rows) /\ \A r \in rows : r.pos = DerivedPosition(r, rows, row.dir)
  BY KeptScored
<1> HIDE DEF given
<1>4. \A r \in given : r.id \in Int
  BY <1>1 DEF Row
<1>5. ASSUME NEW r \in rows, NEW q \in given, r.slug = q.slug
      PROVE  r.pos = q.pos /\ r.score = q.score
  <2>1. PICK t \in rows : PlacementExport(t) = PlacementExport(q)
    BY <1>1, <1>2
  <2>2. t.slug = q.slug /\ t.pos = q.pos /\ t.score = q.score
    BY <2>1, ExportFields
  <2>3. t = r
    BY <1>2, <1>5, <2>2 DEF Tabular, OnePerSlug
  <2> QED
    BY <2>2, <2>3
<1>6. RowSlugs(rows) = RowSlugs(given)
  <2>1. ASSUME NEW r \in rows
        PROVE  \E q \in given : q.slug = r.slug
    <3>1. PICK q \in given : PlacementExport(q) = PlacementExport(r)
      BY <1>1, <1>2
    <3> QED
      BY <3>1, ExportFields
  <2>2. ASSUME NEW q \in given
        PROVE  \E r \in rows : r.slug = q.slug
    <3>1. PlacementExport(q) \in {PlacementExport(r) : r \in rows}
      BY <1>1, <1>2
    <3>2. PICK r \in rows : PlacementExport(r) = PlacementExport(q)
      BY <3>1
    <3> QED
      BY <3>2, ExportFields
  <2> QED
    BY <2>1, <2>2 DEF RowSlugs
<1>7. ASSUME NEW a \in rows, NEW c \in rows, a.score = c.score
      PROVE  a = c
  <2>1. PICK k \in 1..Len(list), l \in 1..Len(list) :
          list[k] = PlacementExport(a) /\ list[l] = PlacementExport(c)
    <3>1. ToSet(list) = {list[k] : k \in 1..Len(list)}
      BY DEF ToSet
    <3>2. PlacementExport(a) \in ToSet(list) /\ PlacementExport(c) \in ToSet(list)
      BY <1>2
    <3> QED
      BY <3>1, <3>2
  <2>2. list[k].score = list[l].score
    BY <1>7, <2>1, ExportFields
  <2>3. k = l
    BY <2>2 DEF Tied, Indices
  <2>4. a.slug = c.slug
    BY <2>1, <2>3, ExportFields
  <2> QED
    BY <1>2, <2>4 DEF Tabular, OnePerSlug
<1>8. ASSUME NEW a \in rows, NEW c \in rows, NEW b \in given, NEW d \in given,
             a.slug = b.slug, c.slug = d.slug
      PROVE  RanksBefore(c, a, row.dir) <=> RanksBefore(d, b, row.dir)
  <2>1. a.score = b.score /\ c.score = d.score
    BY <1>5, <1>8
  <2>2. CASE a = c
    <3>1. b = d
      BY <1>1, <1>8, <2>2 DEF Tabular, OnePerSlug
    <3>2. a.id \in Int /\ b.id \in Int /\ a.score \in Int \ {None}
      BY <1>2, <1>3, <1>4 DEF Comparable
    <3> QED
      BY <2>1, <2>2, <3>1, <3>2 DEF RanksBefore
  <2>3. CASE a # c
    <3>1. a.score # c.score
      BY <1>7, <2>3
    <3> QED
      BY <2>1, <3>1 DEF RanksBefore
  <2> QED
    BY <2>2, <2>3
<1>9. ASSUME NEW q \in given
      PROVE  Derived(q, given, row.dir) = q
  <2>1. PICK r \in rows : r.slug = q.slug
    BY <1>6 DEF RowSlugs
  <2>2. DerivedPosition(r, rows, row.dir) = DerivedPosition(q, given, row.dir)
    BY <1>1, <1>2, <1>6, <1>8, <2>1, SamePositions DEF Tabular
  <2>3. q.pos = DerivedPosition(q, given, row.dir)
    BY <1>3, <1>5, <2>1, <2>2
  <2> QED
    BY <1>1, <2>3, DerivedKeeps DEF Tabular
<1>10. DeriveScoredPositions(given, row.dir) = {Derived(q, given, row.dir) : q \in given}
  BY DerivedRowsAre
<1> QED
  BY <1>9, <1>10 DEF given

(* import_board gives each version back as it was exported.  The exception *)
(* is a scored board whose version was made in the other sort_direction or *)
(* has equal scores: its positions are derived anew, in the direction the  *)
(* board has now and with new keys.                                        *)
THEOREM ImportsKeep == Spec => []ImportKeepsVersions
<1>1. ASSUME IInv
      PROVE  ImportKeepsVersions
  <2> SUFFICES ASSUME imported # None
               PROVE  /\ Len(imported) = Len(file.versions)
                      /\ \A i \in 1..Len(imported) :
                           \/ SameVersion(imported[i], file.versions[i])
                           \/ /\ file.board.type = "scored"
                              /\ file.under[i].dir # file.board.dir \/ Tied(file.versions[i])
    BY DEF ImportKeepsVersions
  <2>1. /\ file # None /\ ids \in KeyOrders
        /\ \A i \in 1..Len(file.versions) : ValidPlacements(file.board, file.versions[i])
    BY <1>1 DEF IInv, TypeOK, Imported
  <2>2. PICK keys \in KeyOrders :
          imported = [i \in 1..Len(file.versions) |->
                        ImportedRows(file.board, file.versions[i], keys)]
    BY <1>1 DEF IInv, Imported
  <2>3. Len(file.versions) \in Nat
    BY <1>1, <2>1 DEF IInv, Exported, Exports
  <2>4. Len(imported) = Len(file.versions)
    BY <2>2, <2>3
  <2>5. ASSUME NEW i \in 1..Len(file.versions),
               file.board.type = "scored" =>
                   file.under[i].dir = file.board.dir /\ ~Tied(file.versions[i])
        PROVE  SameVersion(imported[i], file.versions[i])
    <3> DEFINE list == file.versions[i]
               row == file.under[i]
               rows == versions[i]
    <3>1. /\ KeptRows(rows, row, ids) /\ row.type = file.board.type
          /\ list \in Seq(Placement)
          /\ SameVersion(rows, list) \/ list = << >>
      BY <1>1, <2>1, ExportedWhole
    <3>2. DistinctSlugs(list) /\ list # << >>
      BY <2>1 DEF ValidPlacements, NonEmpty
    <3>3. imported[i] = ImportedRows(file.board, list, keys)
      BY <2>2
    <3>4. file.board.type = "scored" => row.dir = file.board.dir /\ ~Tied(list)
      BY <2>5
    <3> HIDE DEF list, row, rows
    <3>5. {PlacementExport(r) : r \in ExplicitRows(list, keys)} = ToSet(list)
      BY <3>1, <3>2, ExplicitRowsAre
    <3>6. imported[i] = ExplicitRows(list, keys)
      <4>1. CASE file.board.type = "scored"
        <5>1. DeriveScoredPositions(ExplicitRows(list, keys), row.dir) = ExplicitRows(list, keys)
          BY <2>1, <3>1, <3>2, <3>4, <4>1, RankedAnew
        <5> QED
          BY <3>3, <3>4, <4>1, <5>1 DEF ImportedRows
      <4>2. CASE file.board.type # "scored"
        BY <3>3, <4>2 DEF ImportedRows
      <4> QED
        BY <4>1, <4>2
    <3>7. SameVersion(imported[i], list)
      BY <3>5, <3>6 DEF SameVersion
    <3> QED
      BY <3>7 DEF list
  <2> QED
    BY <2>4, <2>5
<1> QED
  BY <1>1, Invariance, PTL
=============================================================================

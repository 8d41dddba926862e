--------------------------- MODULE RankingProofs ---------------------------
(***************************************************************************)
(* Facts about the operators of Ranking, for any rows and lists: what the  *)
(* rows of a list are, that derived positions number the rows in their     *)
(* order and depend on nothing but keys and scores, and what the           *)
(* comparison of a file with a version amounts to.  The proofs about       *)
(* Store, Sync and Transfer rest on them.                                  *)
(***************************************************************************)
EXTENDS Ranking, FiniteSetTheorems, FunctionTheorems, SequenceTheorems, TLAPS

IsRow(r) == r = [id |-> r.id, slug |-> r.slug, pos |-> r.pos,
                 score |-> r.score, tier |-> r.tier]

OnePerSlug(rows) == \A r, q \in rows : r.slug = q.slug => r = q

(* What a table of placements holds for one version: finitely many rows,   *)
(* one for each entry.                                                     *)
Tabular(rows) ==
    /\ IsFiniteSet(rows)
    /\ OnePerSlug(rows)
    /\ \A r \in rows : IsRow(r)

-----------------------------------------------------------------------------
(* Finite sets.                                                            *)

(* The image of a finite set is finite, and not larger.                    *)
LEMMA ImageFinite ==
    ASSUME NEW S, IsFiniteSet(S), NEW f
    PROVE  /\ IsFiniteSet({f[x] : x \in S})
           /\ Cardinality({f[x] : x \in S}) <= Cardinality(S)
<1> DEFINE T == {f[x] : x \in S}
           g == [x \in S |-> f[x]]
<1>1. g \in Surjection(S, T)
  BY DEF Surjection
<1> HIDE DEF g, T
<1>2. IsFiniteSet(T) /\ Cardinality(T) <= Cardinality(S)
  BY <1>1, FS_Surjection
<1> QED
  BY <1>2 DEF T

(* A one-to-one image is as large.                                         *)
LEMMA ImageSize ==
    ASSUME NEW S, IsFiniteSet(S), NEW f, \A x, y \in S : f[x] = f[y] => x = y
    PROVE  /\ IsFiniteSet({f[x] : x \in S})
           /\ Cardinality({f[x] : x \in S}) = Cardinality(S)
<1> DEFINE T == {f[x] : x \in S}
           g == [x \in S |-> f[x]]
<1>1. g \in Bijection(S, T)
  <2>1. g \in [S -> T] /\ \A t \in T : \E x \in S : g[x] = t
    OBVIOUS
  <2>2. \A x, y \in S : g[x] = g[y] => x = y
    OBVIOUS
  <2> HIDE DEF g, T
  <2> QED
    BY <2>1, <2>2 DEF Bijection, Injection, Surjection, IsInjective
<1> HIDE DEF g, T
<1>2. ExistsBijection(S, T)
  BY <1>1 DEF ExistsBijection
<1>3. IsFiniteSet(T) /\ Cardinality(T) = Cardinality(S)
  BY <1>2, FS_Bijection
<1> QED
  BY <1>3 DEF T

LEMMA IndicesFinite ==
    ASSUME NEW n \in Nat
    PROVE  IsFiniteSet(1..n) /\ Cardinality(1..n) = n
<1>1. 1 \in Int /\ n \in Int
  OBVIOUS
<1> QED
  BY <1>1, FS_Interval

-----------------------------------------------------------------------------
(* The rows of a list.                                                     *)

RowAt(row, list, idOf, i) ==
    [id |-> idOf[list[i].slug], slug |-> list[i].slug,
     pos |-> ResolvedPosition(row, list, i),
     score |-> list[i].score, tier |-> list[i].tier]

LEMMA RowAtFields ==
    ASSUME NEW row, NEW list, NEW idOf, NEW i
    PROVE  /\ IsRow(RowAt(row, list, idOf, i))
           /\ RowAt(row, list, idOf, i).id = idOf[list[i].slug]
           /\ RowAt(row, list, idOf, i).slug = list[i].slug
           /\ RowAt(row, list, idOf, i).pos = ResolvedPosition(row, list, i)
           /\ RowAt(row, list, idOf, i).score = list[i].score
           /\ RowAt(row, list, idOf, i).tier = list[i].tier
BY DEF RowAt, IsRow

LEMMA PlacementRowsAre ==
    ASSUME NEW row, NEW list, NEW idOf
    PROVE  PlacementRows(row, list, idOf) = {RowAt(row, list, idOf, i) : i \in Indices(list)}
BY DEF PlacementRows, RowAt

LEMMA PlacementRowsFinite ==
    ASSUME NEW row, NEW list, Len(list) \in Nat, NEW idOf
    PROVE  IsFiniteSet(PlacementRows(row, list, idOf))
<1> DEFINE at == [i \in 1..Len(list) |-> RowAt(row, list, idOf, i)]
<1>1. PlacementRows(row, list, idOf) = {at[i] : i \in 1..Len(list)}
  BY PlacementRowsAre DEF Indices
<1>2. IsFiniteSet({at[i] : i \in 1..Len(list)})
  BY IndicesFinite, ImageFinite
<1> QED
  BY <1>1, <1>2

(* A list of distinct slugs gives one row for each of them.                *)
LEMMA PlacementRowsTabular ==
    ASSUME NEW row, NEW list, Len(list) \in Nat, NEW idOf, DistinctSlugs(list)
    PROVE  Tabular(PlacementRows(row, list, idOf))
<1> DEFINE rows == PlacementRows(row, list, idOf)
<1>1. rows = {RowAt(row, list, idOf, i) : i \in Indices(list)}
  BY PlacementRowsAre
<1>2. IsFiniteSet(rows)
  BY PlacementRowsFinite
<1>3. \A r \in rows : IsRow(r)
  BY <1>1, RowAtFields
<1>4. ASSUME NEW i \in Indices(list), NEW j \in Indices(list),
             RowAt(row, list, idOf, i).slug = RowAt(row, list, idOf, j).slug
      PROVE  RowAt(row, list, idOf, i) = RowAt(row, list, idOf, j)
  <2>1. list[i].slug = list[j].slug
    BY <1>4, RowAtFields
  <2> QED
    BY <2>1 DEF DistinctSlugs
<1> HIDE DEF rows
<1>5. OnePerSlug(rows)
  BY <1>1, <1>4 DEF OnePerSlug
<1>6. Tabular(rows)
  BY <1>2, <1>3, <1>5 DEF Tabular
<1> QED
  BY <1>6 DEF rows

-----------------------------------------------------------------------------
(* Derived positions.                                                      *)

Derived(r, rows, dir) == [r EXCEPT !.pos = DerivedPosition(r, rows, dir)]

(* Deriving a position changes nothing but the position.                   *)
LEMMA DerivedFields ==
    ASSUME NEW rows, NEW r, IsRow(r), NEW dir
    PROVE  /\ IsRow(Derived(r, rows, dir))
           /\ Derived(r, rows, dir).id = r.id /\ Derived(r, rows, dir).slug = r.slug
           /\ Derived(r, rows, dir).score = r.score /\ Derived(r, rows, dir).tier = r.tier
           /\ Derived(r, rows, dir).pos = DerivedPosition(r, rows, dir)
<1>1. Derived(r, rows, dir) = [id |-> r.id, slug |-> r.slug, pos |-> DerivedPosition(r, rows, dir),
                               score |-> r.score, tier |-> r.tier]
  BY DEF Derived, IsRow
<1> QED
  BY <1>1 DEF IsRow

(* A row that has the position is not changed.                             *)
LEMMA DerivedKeeps ==
    ASSUME NEW rows, NEW r, IsRow(r), NEW dir, r.pos = DerivedPosition(r, rows, dir)
    PROVE  Derived(r, rows, dir) = r
BY DEF Derived, IsRow

LEMMA DerivedRowsAre ==
    ASSUME NEW rows, NEW dir
    PROVE  DeriveScoredPositions(rows, dir) = {Derived(r, rows, dir) : r \in rows}
BY DEF DeriveScoredPositions, Derived

LEMMA DerivedPositionType ==
    ASSUME NEW rows, IsFiniteSet(rows), NEW r, NEW dir
    PROVE  DerivedPosition(r, rows, dir) \in Int
<1> DEFINE before == {q \in rows : RanksBefore(q, r, dir)}
<1>1. before \in SUBSET rows
  OBVIOUS
<1>2. Cardinality(before) \in Nat
  BY <1>1, FS_Subset, FS_CardinalityType
<1> QED
  BY <1>2 DEF DerivedPosition

LEMMA DerivedTabular ==
    ASSUME NEW rows, Tabular(rows), NEW dir
    PROVE  /\ Tabular(DeriveScoredPositions(rows, dir))
           /\ RowSlugs(DeriveScoredPositions(rows, dir)) = RowSlugs(rows)
<1> DEFINE with == [r \in rows |-> Derived(r, rows, dir)]
           ranked == DeriveScoredPositions(rows, dir)
<1>1. ranked = {with[r] : r \in rows}
  BY DerivedRowsAre
<1>2. \A r \in rows : IsRow(with[r]) /\ with[r].slug = r.slug
  BY DerivedFields DEF Tabular
<1> HIDE DEF with, ranked
<1>3. IsFiniteSet(ranked)
  BY <1>1, ImageFinite DEF Tabular
<1>4. \A r, q \in rows : with[r].slug = with[q].slug => r = q
  BY <1>2 DEF Tabular, OnePerSlug
<1>5. Tabular(ranked)
  BY <1>1, <1>2, <1>3, <1>4 DEF Tabular, OnePerSlug
<1>6. RowSlugs(ranked) = RowSlugs(rows)
  BY <1>1, <1>2 DEF RowSlugs
<1> QED
  BY <1>5, <1>6 DEF ranked

(* Positions depend on nothing but who ranks before whom: two tables of    *)
(* the same entries in which that is the same derive the same positions.   *)
LEMMA SamePositions ==
    ASSUME NEW A, NEW B, IsFiniteSet(A), OnePerSlug(A), OnePerSlug(B),
           RowSlugs(A) = RowSlugs(B), NEW dir,
           \A a, c \in A, b, d \in B :
               a.slug = b.slug /\ c.slug = d.slug =>
                   (RanksBefore(c, a, dir) <=> RanksBefore(d, b, dir)),
           NEW a \in A, NEW b \in B, a.slug = b.slug
    PROVE  DerivedPosition(a, A, dir) = DerivedPosition(b, B, dir)
<1> DEFINE BeforeA == {c \in A : RanksBefore(c, a, dir)}
           BeforeB == {d \in B : RanksBefore(d, b, dir)}
           slugA == [c \in A |-> c.slug]
           slugB == [d \in B |-> d.slug]
<1>1. {slugA[c] : c \in BeforeA} = {slugB[d] : d \in BeforeB}
  <2>1. ASSUME NEW c \in BeforeA
        PROVE  \E d \in BeforeB : d.slug = c.slug
    <3>1. PICK d \in B : d.slug = c.slug
      BY DEF RowSlugs
    <3> QED
      BY <3>1
  <2>2. ASSUME NEW d \in BeforeB
        PROVE  \E c \in BeforeA : c.slug = d.slug
    <3>1. PICK c \in A : c.slug = d.slug
      BY DEF RowSlugs
    <3> QED
      BY <3>1
  <2>3. BeforeA \subseteq A /\ BeforeB \subseteq B
    OBVIOUS
  <2> HIDE DEF BeforeA, BeforeB
  <2> QED
    BY <2>1, <2>2, <2>3
<1>2. IsFiniteSet(BeforeA)
  <2>1. BeforeA \in SUBSET A
    OBVIOUS
  <2> QED
    BY <2>1, FS_Subset
<1>3. \A c, e \in BeforeA : slugA[c] = slugA[e] => c = e
  BY DEF OnePerSlug
<1>4. \A d, e \in BeforeB : slugB[d] = slugB[e] => d = e
  BY DEF OnePerSlug
<1>5. IsFiniteSet(BeforeB)
  <2> DEFINE rowB == [x \in RowSlugs(B) |-> RowOf(B, x)]
             slugs == {slugB[d] : d \in BeforeB}
             images == {rowB[x] : x \in slugs}
  <2>1. IsFiniteSet({slugA[c] : c \in BeforeA})
    <3> HIDE DEF BeforeA, slugA
    <3> QED
      BY <1>2, ImageFinite
  <2>2. \A d \in BeforeB : rowB[slugB[d]] = d
    BY DEF RowOf, RowSlugs, OnePerSlug
  <2>3. images = BeforeB
    <3> HIDE DEF rowB, slugB, BeforeB
    <3> QED
      BY <2>2
  <2>4. IsFiniteSet(images)
    <3>1. IsFiniteSet(slugs)
      BY <1>1, <2>1
    <3> HIDE DEF rowB, slugs
    <3> QED
      BY <3>1, ImageFinite
  <2> QED
    BY <2>3, <2>4
<1> HIDE DEF BeforeA, BeforeB, slugA, slugB
<1>6. Cardinality({slugA[c] : c \in BeforeA}) = Cardinality(BeforeA)
  BY <1>2, <1>3, ImageSize
<1>7. Cardinality({slugB[d] : d \in BeforeB}) = Cardinality(BeforeB)
  BY <1>4, <1>5, ImageSize
<1>8. Cardinality(BeforeA) = Cardinality(BeforeB)
  BY <1>1, <1>6, <1>7
<1> QED
  BY <1>8 DEF DerivedPosition, BeforeA, BeforeB

(* Positions are derived from keys and scores, so deriving them again      *)
(* changes nothing.                                                        *)
LEMMA DerivedAgain ==
    ASSUME NEW rows, Tabular(rows), NEW dir
    PROVE  DeriveScoredPositions(DeriveScoredPositions(rows, dir), dir)
             = DeriveScoredPositions(rows, dir)
<1> DEFINE ranked == DeriveScoredPositions(rows, dir)
           with(r) == Derived(r, rows, dir)
<1>1. ranked = {with(r) : r \in rows}
  BY DerivedRowsAre
<1>2. Tabular(ranked) /\ RowSlugs(ranked) = RowSlugs(rows)
  BY DerivedTabular
<1>3. \A r \in rows : /\ with(r).id = r.id /\ with(r).slug = r.slug /\ with(r).score = r.score
                      /\ with(r).pos = DerivedPosition(r, rows, dir)
  BY DerivedFields DEF Tabular
<1> HIDE DEF ranked, with
<1>4. ASSUME NEW a \in rows, NEW c \in rows, NEW b \in ranked, NEW d \in ranked,
             a.slug = b.slug, c.slug = d.slug
      PROVE  RanksBefore(c, a, dir) <=> RanksBefore(d, b, dir)
  <2>1. with(a) \in ranked /\ with(c) \in ranked
    BY <1>1
  <2>2. b = with(a) /\ d = with(c)
    BY <1>2, <1>3, <1>4, <2>1 DEF Tabular, OnePerSlug
  <2> QED
    BY <1>3, <2>2 DEF RanksBefore
<1>5. ASSUME NEW r \in rows
      PROVE  Derived(with(r), ranked, dir) = with(r)
  <2>1. with(r) \in ranked /\ with(r).slug = r.slug
    BY <1>1, <1>3
  <2>2. DerivedPosition(r, rows, dir) = DerivedPosition(with(r), ranked, dir)
    BY <1>2, <1>4, <2>1, SamePositions DEF Tabular
  <2> QED
    BY <1>2, <1>3, <2>1, <2>2, DerivedKeeps DEF Tabular
<1>6. DeriveScoredPositions(ranked, dir) = {Derived(r, ranked, dir) : r \in ranked}
  BY DerivedRowsAre
<1> QED
  BY <1>1, <1>5, <1>6 DEF ranked

(* Rows a scored board can rank: each has a score, and a key of its own.   *)
Comparable(rows) ==
    /\ \A r \in rows : r.id \in Int /\ r.score \in Int
    /\ \A r, q \in rows : r.id = q.id => r = q

(* They are in a strict and total order.                                   *)
LEMMA RanksAlong ==
    ASSUME NEW rows, Comparable(rows), NEW dir
    PROVE  /\ \A r \in rows : ~RanksBefore(r, r, dir)
           /\ \A r, q \in rows : r = q \/ RanksBefore(r, q, dir) \/ RanksBefore(q, r, dir)
           /\ \A r, q, s \in rows :
                RanksBefore(r, q, dir) /\ RanksBefore(q, s, dir) => RanksBefore(r, s, dir)
BY DEF RanksBefore, Comparable

(* A derived position is smaller exactly when the row ranks before.        *)
LEMMA DerivedPositionOrders ==
    ASSUME NEW rows, IsFiniteSet(rows), Comparable(rows), NEW dir,
           NEW r \in rows, NEW q \in rows
    PROVE  RanksBefore(r, q, dir) <=> DerivedPosition(r, rows, dir) < DerivedPosition(q, rows, dir)
<1> DEFINE Before(s) == {t \in rows : RanksBefore(t, s, dir)}
<1>1. ASSUME NEW s \in rows
      PROVE  /\ IsFiniteSet(Before(s)) /\ Cardinality(Before(s)) \in Nat
             /\ DerivedPosition(s, rows, dir) = 1 + Cardinality(Before(s))
  <2>1. Before(s) \in SUBSET rows
    OBVIOUS
  <2>2. IsFiniteSet(Before(s))
    BY <2>1, FS_Subset
  <2> QED
    BY <2>2, FS_CardinalityType DEF DerivedPosition
<1>2. ASSUME NEW s \in rows, NEW t \in rows, RanksBefore(s, t, dir)
      PROVE  Cardinality(Before(s)) < Cardinality(Before(t))
  <2>1. Before(s) \cup {s} \in SUBSET Before(t)
    BY <1>2, RanksAlong
  <2>2. s \notin Before(s)
    BY RanksAlong
  <2>3. Cardinality(Before(s) \cup {s}) = Cardinality(Before(s)) + 1
    BY <1>1, <2>2, FS_AddElement
  <2>4. Cardinality(Before(s) \cup {s}) <= Cardinality(Before(t))
    BY <1>1, <2>1, FS_Subset
  <2> HIDE DEF Before
  <2> QED
    BY <1>1, <2>3, <2>4
<1>3. r = q \/ RanksBefore(r, q, dir) \/ RanksBefore(q, r, dir)
  BY RanksAlong
<1>4. ~RanksBefore(r, r, dir) /\ ~(RanksBefore(r, q, dir) /\ RanksBefore(q, r, dir))
  BY RanksAlong
<1> HIDE DEF Before
<1>5. CASE RanksBefore(r, q, dir)
  BY <1>1, <1>2, <1>5
<1>6. CASE RanksBefore(q, r, dir)
  <2>1. Cardinality(Before(q)) < Cardinality(Before(r))
    BY <1>2, <1>6
  <2> QED
    BY <1>1, <1>4, <1>6, <2>1
<1>7. CASE r = q
  BY <1>1, <1>4, <1>7
<1> QED
  BY <1>3, <1>5, <1>6, <1>7

(* The derived positions are 1..n: they differ, and none exceeds n.        *)
LEMMA DerivedPositionsNumber ==
    ASSUME NEW rows, IsFiniteSet(rows), Comparable(rows), NEW dir
    PROVE  {DerivedPosition(r, rows, dir) : r \in rows} = 1..Cardinality(rows)
<1> DEFINE n == Cardinality(rows)
           at == [r \in rows |-> DerivedPosition(r, rows, dir)]
           given == {at[r] : r \in rows}
<1>1. n \in Nat
  BY FS_CardinalityType
<1>2. ASSUME NEW r \in rows
      PROVE  at[r] \in 1..n
  <2> DEFINE before == {q \in rows : RanksBefore(q, r, dir)}
  <2>1. before \in SUBSET rows /\ before # rows
    BY RanksAlong
  <2>2. Cardinality(before) \in Nat /\ Cardinality(before) < n
    BY <2>1, FS_Subset, FS_CardinalityType
  <2>3. at[r] = 1 + Cardinality(before)
    BY DEF DerivedPosition
  <2> HIDE DEF before, at, n
  <2> QED
    BY <1>1, <2>2, <2>3
<1>3. ASSUME NEW r \in rows, NEW q \in rows, at[r] = at[q]
      PROVE  r = q
  <2>1. ~(at[r] < at[q]) /\ ~(at[q] < at[r])
    <3>1. at[r] \in Int /\ at[q] \in Int
      BY <1>2
    <3> HIDE DEF at
    <3> QED
      BY <1>3, <3>1
  <2>2. ~RanksBefore(r, q, dir) /\ ~RanksBefore(q, r, dir)
    BY <2>1, DerivedPositionOrders
  <2> QED
    BY <2>2, RanksAlong
<1> HIDE DEF at, n
<1>4. IsFiniteSet(given) /\ Cardinality(given) = Cardinality(rows)
  BY <1>3, ImageSize
<1>5. given \in SUBSET (1..n)
  BY <1>2
<1>6. IsFiniteSet(1..n) /\ Cardinality(1..n) = n
  BY <1>1, IndicesFinite
<1> HIDE DEF given
<1>7. given = 1..n
  <2> DEFINE all == 1..n
  <2>1. IsFiniteSet(all) /\ given \in SUBSET all /\ Cardinality(all) = n
    BY <1>5, <1>6
  <2> HIDE DEF all
  <2>2. Cardinality(given) = n
    BY <1>4 DEF n
  <2>3. given = all
    BY <2>1, <2>2, FS_Subset
  <2> QED
    BY <2>3 DEF all
<1> QED
  BY <1>7 DEF given, n, at

-----------------------------------------------------------------------------
(* What a version stores, and what the comparison finds equal to a list.   *)

(* The row of a slug is the one that has it.                               *)
LEMMA RowOfIs ==
    ASSUME NEW rows, OnePerSlug(rows), NEW r \in rows
    PROVE  RowOf(rows, r.slug) = r
<1>1. RowOf(rows, r.slug) \in rows /\ RowOf(rows, r.slug).slug = r.slug
  BY DEF RowOf
<1> QED
  BY <1>1 DEF OnePerSlug

(* A table has as many rows as slugs.                                      *)
LEMMA SlugCount ==
    ASSUME NEW rows, IsFiniteSet(rows), OnePerSlug(rows)
    PROVE  IsFiniteSet(RowSlugs(rows)) /\ Cardinality(RowSlugs(rows)) = Cardinality(rows)
<1> DEFINE slugOf == [r \in rows |-> r.slug]
<1>1. RowSlugs(rows) = {slugOf[r] : r \in rows}
  BY DEF RowSlugs
<1>2. \A r, q \in rows : slugOf[r] = slugOf[q] => r = q
  BY DEF OnePerSlug
<1> HIDE DEF slugOf
<1> QED
  BY <1>1, <1>2, ImageSize

(* A list of distinct slugs has as many as placements.                     *)
LEMMA DistinctCount ==
    ASSUME NEW list, Len(list) \in Nat, DistinctSlugs(list)
    PROVE  IsFiniteSet(SlugsOf(list)) /\ Cardinality(SlugsOf(list)) = Len(list)
<1> DEFINE n == Len(list)
           at == [i \in 1..n |-> list[i].slug]
<1>1. SlugsOf(list) = {at[i] : i \in 1..n}
  BY DEF SlugsOf, Indices
<1>2. \A i, j \in 1..n : at[i] = at[j] => i = j
  BY DEF DistinctSlugs, Indices
<1>3. IsFiniteSet(1..n) /\ Cardinality(1..n) = n
  BY IndicesFinite
<1> HIDE DEF at, n
<1> QED
  BY <1>1, <1>2, <1>3, ImageSize DEF n

(* The row of a placement has its slug, score and tier, and has its        *)
(* position unless the board derives them.                                 *)
StoresAt(row, rows, list, i) ==
    LET r == RowOf(rows, list[i].slug)
    IN  /\ r \in rows /\ r.slug = list[i].slug
        /\ r.score = list[i].score /\ r.tier = list[i].tier
        /\ row.type # "scored" => r.pos = ResolvedPosition(row, list, i)

(* A version stores one row for each placement of a list.                  *)
LEMMA StoredRowOf ==
    ASSUME NEW row, NEW list, Len(list) \in Nat, DistinctSlugs(list), NEW idOf,
           NEW rows, rows = StoredRows(row, list, idOf)
    PROVE  /\ Tabular(rows)
           /\ RowSlugs(rows) = SlugsOf(list)
           /\ \A r \in rows : r.id = idOf[r.slug]
           /\ \A i \in Indices(list) : StoresAt(row, rows, list, i)
<1> DEFINE plain == PlacementRows(row, list, idOf)
           At(i) == RowAt(row, list, idOf, i)
<1>1. plain = {At(i) : i \in Indices(list)} /\ Tabular(plain)
  BY PlacementRowsAre, PlacementRowsTabular
<1>2. \A i \in Indices(list) :
        /\ At(i).id = idOf[At(i).slug] /\ At(i).slug = list[i].slug
        /\ At(i).score = list[i].score /\ At(i).tier = list[i].tier
        /\ At(i).pos = ResolvedPosition(row, list, i)
  BY RowAtFields
<1>3. row.type # "scored" => rows = plain
  BY DEF StoredRows
<1>4. row.type = "scored" =>
        /\ rows = {Derived(r, plain, row.dir) : r \in plain}
        /\ rows = DeriveScoredPositions(plain, row.dir)
  BY DerivedRowsAre DEF StoredRows
<1>5. \A r \in plain :
        /\ Derived(r, plain, row.dir).id = r.id /\ Derived(r, plain, row.dir).slug = r.slug
        /\ Derived(r, plain, row.dir).score = r.score /\ Derived(r, plain, row.dir).tier = r.tier
  <2> HIDE DEF plain
  <2> QED
    BY <1>1, DerivedFields DEF Tabular
<1> HIDE DEF plain, At
<1>6. Tabular(rows) /\ RowSlugs(rows) = RowSlugs(plain)
  BY <1>1, <1>3, <1>4, DerivedTabular
<1>7. RowSlugs(plain) = SlugsOf(list)
  BY <1>1, <1>2 DEF RowSlugs, SlugsOf
<1>8. \A r \in rows : r.id = idOf[r.slug]
  BY <1>1, <1>2, <1>3, <1>4, <1>5
<1>9. ASSUME NEW i \in Indices(list)
      PROVE  StoresAt(row, rows, list, i)
  <2>1. At(i) \in plain
    BY <1>1
  <2>2. PICK r \in rows : /\ r.slug = list[i].slug
                          /\ r.score = list[i].score /\ r.tier = list[i].tier
                          /\ row.type # "scored" => r.pos = ResolvedPosition(row, list, i)
    BY <1>2, <1>3, <1>4, <1>5, <2>1
  <2>3. RowOf(rows, list[i].slug) = r
    BY <1>6, <2>2, RowOfIs DEF Tabular
  <2> QED
    BY <2>2, <2>3 DEF StoresAt
<1> QED
  BY <1>6, <1>7, <1>8, <1>9

(* placements_changed counts, and looks each placement up.  With one row   *)
(* for each slug that is enough: a list of distinct slugs that agrees in   *)
(* number and slug by slug has no other slugs than the rows have.          *)
LEMMA ComparisonMeans ==
    ASSUME NEW row, NEW list, Len(list) \in Nat, DistinctSlugs(list),
           NEW rows, IsFiniteSet(rows), OnePerSlug(rows)
    PROVE  ~PlacementsChanged(row, rows, list) <=>
             /\ RowSlugs(rows) = SlugsOf(list)
             /\ \A i \in Indices(list) :
                  LET r == RowOf(rows, list[i].slug)
                  IN  /\ ~PositionChanged(row, list, i, r)
                      /\ r.score = list[i].score /\ r.tier = list[i].tier
<1>1. /\ IsFiniteSet(RowSlugs(rows)) /\ Cardinality(RowSlugs(rows)) = Cardinality(rows)
      /\ Cardinality(SlugsOf(list)) = Len(list)
  BY SlugCount, DistinctCount
<1>2. \A i \in Indices(list) : list[i].slug \in SlugsOf(list)
  BY DEF SlugsOf
<1>3. ASSUME ~PlacementsChanged(row, rows, list)
      PROVE  RowSlugs(rows) = SlugsOf(list)
  <2>1. SlugsOf(list) \subseteq RowSlugs(rows)
    BY <1>3 DEF PlacementsChanged, PlacementChanged, SlugsOf
  <2>2. Cardinality(RowSlugs(rows)) = Cardinality(SlugsOf(list))
    BY <1>1, <1>3 DEF PlacementsChanged
  <2> QED
    BY <1>1, <2>1, <2>2, FS_Subset
<1>4. RowSlugs(rows) = SlugsOf(list) => Cardinality(rows) = Len(list)
  BY <1>1
<1> QED
  BY <1>2, <1>3, <1>4 DEF PlacementsChanged, PlacementChanged

(* The comparison finds what a version has just stored, unless it was told *)
(* positions that the board derives.                                       *)
LEMMA StoredAgrees ==
    ASSUME NEW row, NEW list, Len(list) \in Nat, DistinctSlugs(list), NEW idOf,
           NEW rows, rows = StoredRows(row, list, idOf),
           row.type = "scored" => \A i \in Indices(list) : list[i].pos = None
    PROVE  ~PlacementsChanged(row, rows, list)
<1>1. /\ Tabular(rows) /\ RowSlugs(rows) = SlugsOf(list)
      /\ \A i \in Indices(list) : StoresAt(row, rows, list, i)
  BY StoredRowOf
<1>2. ASSUME NEW i \in Indices(list)
      PROVE  LET r == RowOf(rows, list[i].slug)
             IN  /\ ~PositionChanged(row, list, i, r)
                 /\ r.score = list[i].score /\ r.tier = list[i].tier
  BY <1>1 DEF StoresAt, PositionChanged, ResolvedPosition
<1> QED
  BY <1>1, <1>2, ComparisonMeans DEF Tabular

(* No difference: the same slugs, and the same ranking of each.            *)
LEMMA NoDifference ==
    ASSUME NEW from, NEW to, NEW d, d = Diff(from, to)
    PROVE  d.added \cup d.removed \cup d.moved = {} <=>
             /\ RowSlugs(from) = RowSlugs(to)
             /\ \A x \in RowSlugs(to) : SameRanking(RowOf(from, x), RowOf(to, x))
<1> DEFINE common == RowSlugs(from) \cap RowSlugs(to)
           same   == {x \in common : SameRanking(RowOf(from, x), RowOf(to, x))}
<1>1. /\ d.added = RowSlugs(to) \ RowSlugs(from)
      /\ d.removed = RowSlugs(from) \ RowSlugs(to)
      /\ d.moved = common \ same
  BY DEF Diff
<1> QED
  BY <1>1
=============================================================================

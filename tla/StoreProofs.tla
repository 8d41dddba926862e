---------------------------- MODULE StoreProofs ----------------------------
(***************************************************************************)
(* Proofs about Store, for every set of handlers, ids, entries and inputs. *)
(*                                                                         *)
(* The argument has two parts.  Every statement that reads the version     *)
(* table to number a version runs while the handler holds FOR UPDATE on    *)
(* the board row (HoldersExclude), so the number it computed is still the  *)
(* next one when it commits (NumberIsNext), and the table always holds the *)
(* numbers 1..n: this is IInv.  FullInv adds what else a transaction has   *)
(* read and may rely on until it commits: the board row it goes on from is *)
(* the current one, the entries it places cannot be deleted under it, the  *)
(* entry it deletes cannot be placed under it, the rows it has built can   *)
(* be ranked and the scores it has read cover every earlier snapshot.  The *)
(* last part maps every step to a step of VersionLog or to a stutter.      *)
(***************************************************************************)
EXTENDS Store, RankingProofs

(* The handlers that hold the lock are those whose program counter says so,*)
(* and there is one at a time.                                             *)
HoldersExclude ==
    /\ \A p \in Handlers : p \in boardX <=> h[p].pc \in HolderPcs
    /\ \A p, q \in Handlers : p \in boardX /\ q \in boardX => p = q

(* The table holds versions 1..n, each once.                               *)
Counted == \E n \in Nat : Numbers = 1..n

NumbersUnique == \A v, w \in versions : v.num = w.num => v = w

(* The steps at which a handler has computed a number.                     *)
BuildPcs == {"cv_resolve", "place", "commit"}

(* The number a handler has computed is the next one.                      *)
NumberIsNext ==
    \A p \in Handlers : h[p].pc \in BuildPcs =>
        /\ h[p].num >= 1
        /\ Numbers = 1..(h[p].num - 1)

(* The limit held when the number was computed.                            *)
NumberInLimit ==
    \A p \in Handlers : h[p].pc \in BuildPcs /\ h[p].limited => h[p].num <= MaxVersions

(* Requests and tables hold finitely many rows.                            *)
FinitelyMany ==
    /\ IsFiniteSet(acc)
    /\ \A p \in Handlers : IsFiniteSet(h[p].rows)

IInv ==
    /\ TypeOK
    /\ FinitelyMany
    /\ HoldersExclude
    /\ Counted
    /\ NumbersUnique
    /\ NumberIsNext
    /\ NumberInLimit
    /\ VersionLimitHolds

-----------------------------------------------------------------------------
(* What NextNumber returns.                                                *)

(* COALESCE(MAX, 0) + 1 of the numbers 1..n is n + 1.                      *)
LEMMA NextNumberIs ==
    ASSUME NEW n \in Nat, Numbers = 1..n
    PROVE  NextNumber = n + 1
<1> DEFINE Largest(k) == k \in Numbers \cup {0} /\ \A m \in Numbers : m <= k
<1>1. Largest(n)
  OBVIOUS
<1>2. \A k : Largest(k) => k = n
  OBVIOUS
<1>3. (CHOOSE k \in Numbers \cup {0} : \A m \in Numbers : m <= k) = n
  BY <1>1, <1>2
<1>4. NextNumber = 1 + n
  BY <1>3, Zenon DEF NextNumber
<1> QED
  BY <1>4

-----------------------------------------------------------------------------
(* The rows that requests build and versions store have the right shape.   *)

(* Looking an entry up by slug returns the id of an entry.                 *)
LEMMA EntryIdOfType ==
    ASSUME NEW slug, entries \subseteq EntryRows, HasEntry(slug)
    PROVE  EntryIdOf(slug) \in EntryIds
<1>1. PICK e \in entries : e.slug = slug
  BY DEF HasEntry
<1>2. (CHOOSE d \in entries : d.slug = slug) \in entries
  BY <1>1
<1> QED
  BY <1>2 DEF EntryIdOf, EntryRows

(* The rows built for a placement list are placement rows, finitely many.  *)
LEMMA PlacementRowsType ==
    ASSUME NEW row, NEW list \in Lists, NEW idOf,
           \A s \in SlugsOf(list) : idOf[s] \in EntryIds
    PROVE  /\ PlacementRows(row, list, idOf) \subseteq PlacementRow
           /\ IsFiniteSet(PlacementRows(row, list, idOf))
<1>1. /\ list \in Seq(Placement)
      /\ Len(list) \in Nat
  BY InputsAssumption
<1>2. \A i \in 1..Len(list) : list[i] \in Placement
  BY <1>1
<1>3. PlacementRows(row, list, idOf) = {RowAt(row, list, idOf, i) : i \in 1..Len(list)}
  BY PlacementRowsAre DEF Indices
<1>4. ASSUME NEW i \in 1..Len(list)
      PROVE  RowAt(row, list, idOf, i) \in PlacementRow
  <2>1. idOf[list[i].slug] \in EntryIds
    BY DEF SlugsOf, Indices
  <2>2. list[i] \in Placement
    BY <1>2
  <2>3. ResolvedPosition(row, list, i) \in Int \cup {None}
    BY <2>2 DEF ResolvedPosition, Placement
  <2> QED
    BY <2>1, <2>2, <2>3 DEF PlacementRow, Placement, RowAt
<1> QED
  BY <1>1, <1>3, <1>4, PlacementRowsFinite

(* Deriving positions keeps the rows placement rows.                       *)
LEMMA DerivedRowsType ==
    ASSUME NEW row, NEW rows \in SUBSET PlacementRow, IsFiniteSet(rows)
    PROVE  DerivedRows(row, rows) \subseteq PlacementRow
<1>1. ASSUME NEW r \in rows
      PROVE  DerivedPosition(r, rows, row.dir) \in Int
  BY DerivedPositionType
<1>2. ASSUME NEW r \in rows
      PROVE  [r EXCEPT !.pos = DerivedPosition(r, rows, row.dir)] \in PlacementRow
  BY <1>1 DEF PlacementRow
<1> QED
  BY <1>2 DEF DerivedRows, DeriveScoredPositions

(* The rows of a snapshot are placement rows, finitely many.               *)
LEMMA ScoreRowsType ==
    ASSUME entries \subseteq EntryRows, acc \subseteq ScoreRow, IsFiniteSet(acc)
    PROVE  /\ ScoreRows \subseteq PlacementRow
           /\ IsFiniteSet(ScoreRows)
           /\ {[id |-> a.id, rev |-> a.rev] : a \in Joined} \subseteq [id : EntryIds, rev : Nat]
<1> DEFINE slugOf(a) == (CHOOSE e \in entries : e.id = a.id).slug
           RowFor(a) == [id |-> a.id, slug |-> slugOf(a),
                         pos |-> None, score |-> a.score, tier |-> None]
           for == [a \in Joined |-> RowFor(a)]
<1>1. Joined \in SUBSET acc
  BY DEF Joined
<1>2. IsFiniteSet(Joined)
  BY <1>1, FS_Subset
<1>3. ASSUME NEW a \in Joined
      PROVE  RowFor(a) \in PlacementRow
  <2>1. PICK e \in entries : e.id = a.id
    BY DEF Joined, LiveEntryIds
  <2>2. (CHOOSE d \in entries : d.id = a.id) \in entries
    BY <2>1
  <2>3. slugOf(a) \in Slugs
    BY <2>2 DEF EntryRows
  <2>4. a.id \in EntryIds /\ a.score \in Int
    BY <1>1, InputsAssumption DEF ScoreRow
  <2> QED
    BY <2>3, <2>4 DEF PlacementRow
<1>4. ScoreRows = {for[a] : a \in Joined}
  BY DEF ScoreRows
<1>5. IsFiniteSet({for[a] : a \in Joined})
  <2> HIDE DEF for
  <2> QED
    BY <1>2, ImageFinite
<1>6. {[id |-> a.id, rev |-> a.rev] : a \in Joined} \subseteq [id : EntryIds, rev : Nat]
  BY <1>1 DEF ScoreRow
<1> QED
  BY <1>3, <1>4, <1>5, <1>6

-----------------------------------------------------------------------------
(* The two ways a request's own state changes.                             *)

(* Ending a request keeps the types of the requests and locks.             *)
LEMMA FinishType ==
    ASSUME NEW p \in Handlers, TypeOK, FinitelyMany, Finish(p)
    PROVE  /\ h' \in [Handlers -> Requests]
           /\ \A q \in Handlers : RequestOK(h'[q]) /\ IsFiniteSet(h'[q].rows)
           /\ boardX' \subseteq Handlers /\ boardKS' \subseteq Handlers
           /\ entryLocks' \subseteq EntryLock
<1>1. /\ Idle \in Requests
      /\ RequestOK(Idle)
      /\ Idle.rows = {}
  BY DEF Idle, Requests, Pcs, RequestOK
<1>2. IsFiniteSet({})
  BY FS_EmptySet
<1>3. /\ h' \in [Handlers -> Requests]
      /\ \A q \in Handlers : h'[q] = IF q = p THEN Idle ELSE h[q]
  BY <1>1 DEF Finish, TypeOK
<1>4. \A q \in Handlers : RequestOK(h'[q])
  BY <1>1, <1>3, Zenon DEF TypeOK
<1>5. \A q \in Handlers : IsFiniteSet(h'[q].rows)
  BY <1>1, <1>2, <1>3 DEF FinitelyMany
<1> QED
  BY <1>3, <1>4, <1>5 DEF Finish, TypeOK

(* Rolling back changes nothing else.                                      *)
LEMMA RollbackType ==
    ASSUME NEW p \in Handlers, TypeOK, FinitelyMany, Rollback(p)
    PROVE  TypeOK' /\ FinitelyMany'
BY FinishType DEF Rollback, TypeOK, FinitelyMany, tables

(* A request that moves on to a state of the right type.                   *)
LEMMA MoveType ==
    ASSUME NEW p \in Handlers, NEW r \in Requests, RequestOK(r), IsFiniteSet(r.rows),
           TypeOK, FinitelyMany,
           h' = [h EXCEPT ![p] = r], UNCHANGED tables,
           boardX' \subseteq Handlers, boardKS' \subseteq Handlers,
           entryLocks' \subseteq EntryLock
    PROVE  TypeOK' /\ FinitelyMany'
<1>1. \A q \in Handlers : h'[q] = IF q = p THEN r ELSE h[q]
  BY DEF TypeOK
<1>2. h' \in [Handlers -> Requests]
  BY DEF TypeOK
<1>3. \A q \in Handlers : RequestOK(h'[q])
  BY <1>1, Zenon DEF TypeOK
<1>4. \A q \in Handlers : IsFiniteSet(h'[q].rows)
  BY <1>1 DEF FinitelyMany
<1> QED
  BY <1>2, <1>3, <1>4 DEF TypeOK, FinitelyMany, tables

(* The start of a request.                                                 *)
LEMMA BeginType ==
    ASSUME NEW p \in Handlers, NEW r \in Requests, r.rows = {},
           RequestOK([r EXCEPT !.seen = board]), Begin(p, r),
           TypeOK, FinitelyMany
    PROVE  TypeOK' /\ FinitelyMany'
<1> DEFINE new == [r EXCEPT !.seen = board]
<1>1. new \in Requests /\ new.rows = {}
  BY DEF Requests, TypeOK
<1>2. IsFiniteSet(new.rows)
  BY <1>1, FS_EmptySet
<1>3. /\ h' = [h EXCEPT ![p] = new]
      /\ UNCHANGED <<tables, locks>>
  BY DEF Begin
<1>4. /\ boardX' \subseteq Handlers /\ boardKS' \subseteq Handlers
      /\ entryLocks' \subseteq EntryLock
  BY <1>3 DEF locks, TypeOK
<1> HIDE DEF new
<1>5. RequestOK(new)
  BY DEF new
<1> QED
  BY <1>1, <1>2, <1>3, <1>4, <1>5, MoveType

(* Every request that may start begins with a well-formed record that      *)
(* holds no lock and has built nothing.                                    *)
LEMMA StartBegins ==
    ASSUME NEW p \in Handlers, Start(p), TypeOK
    PROVE  \E r \in Requests : /\ Begin(p, r)
                               /\ r.rows = {}
                               /\ r.pc \notin HolderPcs
                               /\ RequestOK([r EXCEPT !.seen = board])
<1> DEFINE Good(r) == /\ r \in Requests /\ r.rows = {} /\ r.pc \notin HolderPcs
                      /\ RequestOK([r EXCEPT !.seen = board])
<1>1. ASSUME NEW r, Good(r), Begin(p, r)
      PROVE  \E q \in Requests : Begin(p, q) /\ Good(q)
  BY <1>1
<1>2. board # None => board \in BoardRows
  BY DEF TypeOK
<1>3. CASE StartUpdateBoard(p)
  <2>1. PICK patch \in Patches :
          Begin(p, [Idle EXCEPT !.pc = "ub_lock", !.patch = patch])
    BY <1>3 DEF StartUpdateBoard
  <2>2. Good([Idle EXCEPT !.pc = "ub_lock", !.patch = patch])
    BY <2>1, <1>2 DEF Begin, Idle, Requests, Pcs, HolderPcs, RequestOK
  <2> QED
    BY <2>1, <2>2, <1>1
<1>4. CASE StartDeleteBoard(p)
  <2>1. Begin(p, [Idle EXCEPT !.pc = "db_lock"])
    BY <1>4 DEF StartDeleteBoard
  <2>2. Good([Idle EXCEPT !.pc = "db_lock"])
    BY <2>1, <1>2 DEF Begin, Idle, Requests, Pcs, HolderPcs, RequestOK
  <2> QED
    BY <2>1, <2>2, <1>1
<1>5. CASE StartCreateEntry(p)
  <2>1. PICK slug \in Slugs :
          Begin(p, [Idle EXCEPT !.pc = "ce_insert", !.slug = slug])
    BY <1>5 DEF StartCreateEntry
  <2>2. Good([Idle EXCEPT !.pc = "ce_insert", !.slug = slug])
    BY <2>1, <1>2 DEF Begin, Idle, Requests, Pcs, HolderPcs, RequestOK
  <2> QED
    BY <2>1, <2>2, <1>1
<1>6. CASE StartDeleteEntry(p)
  <2>1. PICK slug \in Slugs :
          Begin(p, [Idle EXCEPT !.pc = "de_lock", !.slug = slug])
    BY <1>6 DEF StartDeleteEntry
  <2>2. Good([Idle EXCEPT !.pc = "de_lock", !.slug = slug])
    BY <2>1, <1>2 DEF Begin, Idle, Requests, Pcs, HolderPcs, RequestOK
  <2> QED
    BY <2>1, <2>2, <1>1
<1>7. CASE StartCreateVersion(p)
  <2>1. PICK list \in Lists, limited \in Limits :
          Begin(p, [Idle EXCEPT !.pc = "cv_lock", !.list = list, !.limited = limited])
    BY <1>7 DEF StartCreateVersion
  <2>2. Good([Idle EXCEPT !.pc = "cv_lock", !.list = list, !.limited = limited])
    BY <2>1, <1>2, LimitsAssumption DEF Begin, Idle, Requests, Pcs, HolderPcs, RequestOK
  <2> QED
    BY <2>1, <2>2, <1>1
<1>8. CASE StartSubmit(p)
  <2>1. PICK s \in [slug : Slugs, score : Scores] :
          Begin(p, [Idle EXCEPT !.pc = "su_entry", !.slug = s.slug, !.score = s.score])
    BY <1>8 DEF StartSubmit
  <2>2. Good([Idle EXCEPT !.pc = "su_entry", !.slug = s.slug, !.score = s.score])
    BY <2>1, <1>2 DEF Begin, Idle, Requests, Pcs, HolderPcs, RequestOK
  <2> QED
    BY <2>1, <2>2, <1>1
<1>9. CASE StartSnapshot(p)
  <2>1. PICK limited \in Limits :
          Begin(p, [Idle EXCEPT !.pc = "sn_lock", !.limited = limited])
    BY <1>9 DEF StartSnapshot
  <2>2. Good([Idle EXCEPT !.pc = "sn_lock", !.limited = limited])
    BY <2>1, <1>2, LimitsAssumption DEF Begin, Idle, Requests, Pcs, HolderPcs, RequestOK
  <2> QED
    BY <2>1, <2>2, <1>1
<1> QED
  BY <1>3, <1>4, <1>5, <1>6, <1>7, <1>8, <1>9 DEF Start

(* The statements that only move their request on, and its locks.          *)
LEMMA StatementType ==
    ASSUME NEW p \in Handlers, TypeOK, FinitelyMany,
           \/ LockForUpdate(p) \/ LockForDelete(p)
           \/ LockEntryForDelete(p) \/ CountPlacements(p)
           \/ LockForVersion(p, "cv_lock", "cv_number")
           \/ LockForVersion(p, "sn_lock", "sn_read")
           \/ UpsertEntry(p) \/ UpsertScore(p)
    PROVE  TypeOK' /\ FinitelyMany'
<1> DEFINE Moved(r) == /\ r \in Requests /\ RequestOK(r) /\ r.rows = h[p].rows
                       /\ h' = [h EXCEPT ![p] = r] /\ UNCHANGED tables
                       /\ boardX' \subseteq Handlers /\ boardKS' \subseteq Handlers
                       /\ entryLocks' \subseteq EntryLock
<1>1. \A r : Moved(r) => TypeOK' /\ FinitelyMany'
  BY MoveType DEF FinitelyMany
<1>2. /\ h[p] \in Requests /\ RequestOK(h[p])
      /\ board # None => board \in BoardRows
      /\ boardX \cup {p} \subseteq Handlers /\ boardKS \cup {p} \subseteq Handlers
      /\ boardX \subseteq Handlers /\ boardKS \subseteq Handlers
      /\ entryLocks \subseteq EntryLock
      /\ entries \subseteq EntryRows
  BY DEF TypeOK
<1>3. ASSUME NEW id \in EntryIds, NEW mode \in {"KS", "NKU", "X"}
      PROVE  LockEntries(p, {id}, mode) => entryLocks' \subseteq EntryLock
  BY <1>2 DEF LockEntries, EntryLock
<1>4. ASSUME NEW slug, HasEntry(slug)
      PROVE  EntryIdOf(slug) \in EntryIds
  BY <1>2, <1>4, EntryIdOfType
<1>5. CASE Rollback(p)
  BY <1>5, RollbackType
<1>6. CASE LockForUpdate(p) /\ ~Rollback(p)
  <2>1. Moved([h[p] EXCEPT !.pc = "ub_write", !.seen = board])
    BY <1>2, <1>6 DEF LockForUpdate, LockBoardX, At, Requests, RequestOK, Pcs, HolderPcs, TypeOK
  <2> QED
    BY <2>1, <1>1
<1>7. CASE LockForDelete(p) /\ ~Rollback(p)
  <2>1. Moved([h[p] EXCEPT !.pc = "db_cascade"])
    BY <1>2, <1>7 DEF LockForDelete, LockBoardX, Goto, At, Requests, RequestOK, Pcs, HolderPcs, TypeOK
  <2> QED
    BY <2>1, <1>1
<1>8. CASE LockEntryForDelete(p) /\ ~Rollback(p)
  <2>1. Moved([h[p] EXCEPT !.pc = "de_count", !.eid = EntryIdOf(h[p].slug)])
    BY <1>2, <1>3, <1>4, <1>8 DEF LockEntryForDelete, At, Requests, RequestOK, Pcs, TypeOK
  <2> QED
    BY <2>1, <1>1
<1>9. CASE CountPlacements(p) /\ ~Rollback(p)
  <2>1. Moved([h[p] EXCEPT !.pc = "de_delete"])
    BY <1>2, <1>9 DEF CountPlacements, Goto, At, locks, Requests, RequestOK, Pcs, TypeOK
  <2> QED
    BY <2>1, <1>1
<1>10. CASE LockForVersion(p, "cv_lock", "cv_number") /\ ~Rollback(p)
  <2>1. Moved([h[p] EXCEPT !.pc = "cv_number", !.seen = board])
    BY <1>2, <1>10 DEF LockForVersion, BoardThere, LockBoardX, At, Requests, RequestOK, Pcs,
                       HolderPcs, TypeOK
  <2> QED
    BY <2>1, <1>1
<1>11. CASE LockForVersion(p, "sn_lock", "sn_read") /\ ~Rollback(p)
  <2>1. Moved([h[p] EXCEPT !.pc = "sn_read", !.seen = board])
    BY <1>2, <1>11 DEF LockForVersion, BoardThere, LockBoardX, At, Requests, RequestOK, Pcs,
                       HolderPcs, TypeOK
  <2> QED
    BY <2>1, <1>1
<1>12. CASE UpsertEntry(p) /\ ~Rollback(p)
  <2>1. CASE HasEntry(h[p].slug)
    <3>1. Moved([h[p] EXCEPT !.pc = "su_score", !.eid = EntryIdOf(h[p].slug)])
      BY <1>2, <1>3, <1>4, <1>12, <2>1 DEF UpsertEntry, At, Requests, RequestOK, Pcs, TypeOK
    <3> QED
      BY <3>1, <1>1
  <2>2. CASE ~HasEntry(h[p].slug)
    <3>1. PICK id \in FreshEntryIds :
            h' = [h EXCEPT ![p].pc = "su_score", ![p].eid = id,
                           ![p].fresh = [id |-> id, slug |-> h[p].slug]]
      BY <1>12, <2>2 DEF UpsertEntry
    <3>2. id \in EntryIds
      BY DEF FreshEntryIds
    <3>3. Moved([h[p] EXCEPT !.pc = "su_score", !.eid = id,
                             !.fresh = [id |-> id, slug |-> h[p].slug]])
      BY <1>2, <1>12, <2>2, <3>1, <3>2
         DEF UpsertEntry, At, Requests, RequestOK, Pcs, TypeOK, EntryRows
    <3> QED
      BY <3>3, <1>1
  <2> QED
    BY <2>1, <2>2
<1>13. CASE UpsertScore(p) /\ ~Rollback(p)
  <2>1. Moved([h[p] EXCEPT !.pc = "su_commit"])
    BY <1>2, <1>13 DEF UpsertScore, Goto, At, Requests, RequestOK, Pcs, TypeOK
  <2> QED
    BY <2>1, <1>1
<1> QED
  BY <1>5, <1>6, <1>7, <1>8, <1>9, <1>10, <1>11, <1>12, <1>13

(* The statements that build a version.                                    *)
LEMMA BuildType ==
    ASSUME NEW p \in Handlers, TypeOK, FinitelyMany, Counted,
           NumberVersion(p) \/ ResolveEntries(p) \/ ReadScores(p) \/ InsertPlacements(p)
    PROVE  TypeOK' /\ FinitelyMany'
<1> DEFINE Moved(r) == /\ r \in Requests /\ RequestOK(r) /\ IsFiniteSet(r.rows)
                       /\ h' = [h EXCEPT ![p] = r] /\ UNCHANGED tables
                       /\ boardX' \subseteq Handlers /\ boardKS' \subseteq Handlers
                       /\ entryLocks' \subseteq EntryLock
<1>1. \A r : Moved(r) => TypeOK' /\ FinitelyMany'
  BY MoveType
<1>2. /\ h[p] \in Requests /\ RequestOK(h[p]) /\ IsFiniteSet(h[p].rows)
      /\ boardX \subseteq Handlers /\ boardKS \subseteq Handlers
      /\ entryLocks \subseteq EntryLock
      /\ entries \subseteq EntryRows /\ acc \subseteq ScoreRow /\ IsFiniteSet(acc)
  BY DEF TypeOK, FinitelyMany
<1>3. NextNumber \in Nat
  <2>1. PICK n \in Nat : Numbers = 1..n
    BY DEF Counted
  <2> QED
    BY <2>1, NextNumberIs
<1>4. CASE Rollback(p)
  BY <1>4, RollbackType
<1>5. CASE NumberVersion(p) /\ ~Rollback(p)
  <2>1. Moved([h[p] EXCEPT !.pc = "cv_resolve", !.num = NextNumber])
    BY <1>2, <1>3, <1>5 DEF NumberVersion, At, locks, Requests, RequestOK, Pcs, HolderPcs, TypeOK
  <2> QED
    BY <2>1, <1>1
<1>6. CASE ResolveEntries(p) /\ ~Rollback(p)
  <2> DEFINE slugs == SlugsOf(h[p].list)
             idOf  == [s \in slugs |-> EntryIdOf(s)]
             found == PlacementRows(h[p].seen, h[p].list, idOf)
  <2>1. /\ At(p, "cv_resolve")
        /\ \A s \in slugs : HasEntry(s)
        /\ h' = [h EXCEPT ![p].pc = "place", ![p].rows = found]
        /\ UNCHANGED <<tables, locks, received>>
    BY <1>6 DEF ResolveEntries
  <2>2. \A s \in slugs : idOf[s] \in EntryIds
    BY <1>2, <2>1, EntryIdOfType
  <2>3. h[p].list \in Lists
    BY <1>2, <2>1 DEF RequestOK, At
  <2> HIDE DEF idOf
  <2>4. found \subseteq PlacementRow /\ IsFiniteSet(found)
    BY <2>2, <2>3, PlacementRowsType
  <2> HIDE DEF found
  <2>5. Moved([h[p] EXCEPT !.pc = "place", !.rows = found])
    BY <1>2, <2>1, <2>4 DEF At, locks, Requests, RequestOK, Pcs, HolderPcs, TypeOK
  <2> QED
    BY <2>5, <1>1
<1>7. CASE ReadScores(p) /\ ~Rollback(p)
  <2> DEFINE read == {[id |-> a.id, rev |-> a.rev] : a \in Joined}
  <2>1. /\ At(p, "sn_read")
        /\ h' = [h EXCEPT ![p].pc = "place", ![p].num = NextNumber,
                          ![p].rows = ScoreRows, ![p].cut = read]
        /\ UNCHANGED <<tables, locks, received>>
    BY <1>7 DEF ReadScores
  <2>2. /\ ScoreRows \subseteq PlacementRow /\ IsFiniteSet(ScoreRows)
        /\ read \subseteq [id : EntryIds, rev : Nat]
    BY <1>2, ScoreRowsType
  <2> HIDE DEF read
  <2>3. Moved([h[p] EXCEPT !.pc = "place", !.num = NextNumber, !.rows = ScoreRows, !.cut = read])
    BY <1>2, <1>3, <2>1, <2>2 DEF At, locks, Requests, RequestOK, Pcs, HolderPcs, TypeOK
  <2> QED
    BY <2>3, <1>1
<1>8. CASE InsertPlacements(p) /\ ~Rollback(p)
  <2>1. entryLocks' \subseteq EntryLock
    <3>1. \A r \in h[p].rows : r.id \in EntryIds
      BY <1>2 DEF Requests, PlacementRow
    <3> QED
      BY <1>2, <1>8, <3>1 DEF InsertPlacements, LockEntries, EntryLock
  <2>2. Moved([h[p] EXCEPT !.pc = "commit"])
    BY <1>2, <1>8, <2>1 DEF InsertPlacements, Goto, At, Requests, RequestOK, Pcs, HolderPcs, TypeOK
  <2> QED
    BY <2>2, <1>1
<1> QED
  BY <1>4, <1>5, <1>6, <1>7, <1>8

(* The statements that commit to the tables.                               *)
LEMMA CommitType ==
    ASSUME NEW p \in Handlers, TypeOK, FinitelyMany, NumberIsNext,
           \/ WriteBoard(p) \/ CascadeDelete(p) \/ InsertEntry(p)
           \/ DeleteEntry(p) \/ CommitVersion(p) \/ CommitSubmit(p)
    PROVE  TypeOK' /\ FinitelyMany'
<1> DEFINE TablesOK == /\ board' \in BoardRows \cup {None}
                       /\ entries' \subseteq EntryRows
                       /\ versions' \subseteq VersionRows
                       /\ acc' \subseteq ScoreRow /\ IsFiniteSet(acc')
<1>1. Finish(p) /\ TablesOK => TypeOK' /\ FinitelyMany'
  BY FinishType DEF TypeOK, FinitelyMany
<1>2. /\ h[p] \in Requests /\ RequestOK(h[p]) /\ IsFiniteSet(h[p].rows)
      /\ board \in BoardRows \cup {None}
      /\ entries \subseteq EntryRows /\ versions \subseteq VersionRows
      /\ acc \subseteq ScoreRow /\ IsFiniteSet(acc)
  BY DEF TypeOK, FinitelyMany
<1>3. CASE Rollback(p)
  BY <1>3, RollbackType
<1>4. CASE WriteBoard(p) /\ ~Rollback(p)
  <2>1. /\ At(p, "ub_write") /\ Finish(p)
        /\ board' = Patched(h[p].seen, h[p].patch)
        /\ UNCHANGED <<entries, versions, acc>>
    BY <1>4 DEF WriteBoard
  <2>2. h[p].seen \in BoardRows /\ h[p].patch \in Patch
    BY <1>2, <2>1, InputsAssumption DEF RequestOK, At
  <2>3. Patched(h[p].seen, h[p].patch) \in BoardRows
    BY <2>2 DEF Patched, BoardRows, Patch
  <2> QED
    BY <1>1, <1>2, <2>1, <2>3
<1>5. CASE CascadeDelete(p)
  BY <1>1, <1>5, FS_EmptySet DEF CascadeDelete
<1>6. CASE InsertEntry(p) /\ ~Rollback(p)
  <2>1. PICK id \in FreshEntryIds : entries' = entries \cup {[id |-> id, slug |-> h[p].slug]}
    BY <1>6 DEF InsertEntry
  <2>2. /\ At(p, "ce_insert") /\ Finish(p)
        /\ UNCHANGED <<board, versions, acc>>
    BY <1>6 DEF InsertEntry
  <2>3. [id |-> id, slug |-> h[p].slug] \in EntryRows
    BY <1>2, <2>2 DEF FreshEntryIds, RequestOK, At, EntryRows
  <2> QED
    BY <1>1, <1>2, <2>1, <2>2, <2>3
<1>7. CASE DeleteEntry(p)
  <2>1. versions' \subseteq VersionRows
    BY <1>2, <1>7 DEF DeleteEntry, VersionRows
  <2>2. acc' \in SUBSET acc /\ entries' \subseteq entries
    BY <1>7 DEF DeleteEntry
  <2>3. IsFiniteSet(acc')
    BY <1>2, <2>2, FS_Subset
  <2> QED
    BY <1>1, <1>2, <1>7, <2>1, <2>2, <2>3 DEF DeleteEntry
<1>8. CASE CommitVersion(p)
  <2> DEFINE new == [num |-> h[p].num, rows |-> DerivedRows(h[p].seen, h[p].rows),
                     cut |-> h[p].cut, limited |-> h[p].limited]
  <2>1. h[p].num \in Nat \ {0}
    BY <1>2, <1>8 DEF CommitVersion, At, NumberIsNext, BuildPcs, Requests
  <2>2. h[p].rows \in SUBSET PlacementRow
    BY <1>2 DEF Requests
  <2>3. DerivedRows(h[p].seen, h[p].rows) \subseteq PlacementRow
    BY <1>2, <2>2, DerivedRowsType
  <2>4. new \in VersionRows
    BY <1>2, <2>1, <2>3 DEF VersionRows, Requests
  <2>5. /\ versions' = versions \cup {new} /\ Finish(p)
        /\ UNCHANGED <<board, entries, acc>>
    BY <1>8 DEF CommitVersion
  <2> HIDE DEF new
  <2> QED
    BY <1>1, <1>2, <2>4, <2>5
<1>9. CASE CommitSubmit(p)
  <2>1. /\ At(p, "su_commit") /\ Finish(p)
        /\ UNCHANGED <<board, versions>>
        /\ entries' = IF h[p].fresh = None THEN entries ELSE entries \cup {h[p].fresh}
        /\ acc' = {a \in acc : a.id # h[p].eid} \cup
             {[id |-> h[p].eid, score |-> h[p].score, rev |-> RevOf(h[p].eid) + 1]}
    BY <1>9 DEF CommitSubmit
  <2>2. h[p].eid \in EntryIds /\ h[p].score \in Scores
    BY <1>2, <2>1 DEF RequestOK, At
  <2>3. RevOf(h[p].eid) \in Nat
    <3>1. HasScore(h[p].eid) => (CHOOSE a \in acc : a.id = h[p].eid) \in acc
      BY DEF HasScore
    <3> QED
      BY <1>2, <3>1 DEF RevOf, ScoreRow
  <2>4. acc' \subseteq ScoreRow
    BY <1>2, <2>1, <2>2, <2>3 DEF ScoreRow
  <2>5. IsFiniteSet(acc')
    <3>1. {a \in acc : a.id # h[p].eid} \in SUBSET acc
      OBVIOUS
    <3>2. IsFiniteSet({a \in acc : a.id # h[p].eid})
      BY <1>2, <3>1, FS_Subset
    <3> QED
      BY <2>1, <3>2, FS_AddElement
  <2>6. entries' \subseteq EntryRows
    BY <1>2, <2>1 DEF Requests
  <2> QED
    BY <1>1, <1>2, <2>1, <2>4, <2>5, <2>6
<1> QED
  BY <1>3, <1>4, <1>5, <1>6, <1>7, <1>8, <1>9

(* Every step keeps the types.                                             *)
LEMMA NextType ==
    ASSUME IInv, [Next]_vars
    PROVE  TypeOK' /\ FinitelyMany'
<1> USE DEF IInv
<1>1. CASE UNCHANGED vars
  BY <1>1 DEF vars, tables, locks, TypeOK, FinitelyMany
<1>2. CASE CreateBoard
  <2>1. PICK c \in Configs, id \in FreshBoardIds :
          board' = [id |-> id, type |-> c.type, accum |-> c.accum,
                    dir |-> c.dir, tiers |-> c.tiers]
    BY <1>2 DEF CreateBoard
  <2>2. c \in Config /\ id \in BoardIds
    BY InputsAssumption DEF FreshBoardIds
  <2>3. board' \in BoardRows
    BY <2>1, <2>2 DEF Config, BoardRows
  <2> QED
    BY <1>2, <2>3 DEF CreateBoard, locks, TypeOK, FinitelyMany
<1>3. CASE Poll
  BY <1>3 DEF Poll, tables, locks, TypeOK, FinitelyMany
<1>4. ASSUME NEW p \in Handlers, Start(p)
      PROVE  TypeOK' /\ FinitelyMany'
  BY <1>4, StartBegins, BeginType
<1>5. ASSUME NEW p \in Handlers, Cancel(p) \/ DeadlockVictim(p)
      PROVE  TypeOK' /\ FinitelyMany'
  BY <1>5, RollbackType DEF Cancel, DeadlockVictim
<1>6. ASSUME NEW p \in Handlers, BoardStep(p) \/ EntryStep(p) \/ VersionStep(p) \/ SubmitStep(p)
      PROVE  TypeOK' /\ FinitelyMany'
  BY <1>6, StatementType, BuildType, CommitType
     DEF BoardStep, EntryStep, VersionStep, SubmitStep
<1> QED
  BY <1>1, <1>2, <1>3, <1>4, <1>5, <1>6 DEF Next, Step

-----------------------------------------------------------------------------
(* The lock of the board row.                                              *)

(* A request that ends gives the lock back; one that goes on keeps what    *)
(* its new step says it holds.                                             *)
LEMMA NextHolders ==
    ASSUME IInv, [Next]_vars
    PROVE  HoldersExclude'
<1> DEFINE Kept(p) == /\ \A q \in Handlers : q # p => h'[q] = h[q]
                      /\ \A q \in Handlers : q # p => (q \in boardX' <=> q \in boardX)
                      /\ p \in boardX' <=> h'[p].pc \in HolderPcs
                      /\ p \in boardX' => p \in boardX \/ boardX \subseteq {p}
<1> USE DEF IInv
<1>1. ASSUME NEW p \in Handlers, Kept(p)
      PROVE  HoldersExclude'
  BY <1>1 DEF HoldersExclude
<1>2. /\ h \in [Handlers -> Requests]
      /\ \A p \in Handlers : p \in boardX <=> h[p].pc \in HolderPcs
  BY DEF TypeOK, HoldersExclude
<1>3. CASE UNCHANGED <<h, boardX>>
  BY <1>3 DEF HoldersExclude
<1>4. ASSUME NEW p \in Handlers, Finish(p)
      PROVE  HoldersExclude'
  <2>1. Kept(p)
    BY <1>2, <1>4 DEF Finish, Idle, HolderPcs
  <2> QED
    BY <2>1, <1>1
<1>5. ASSUME NEW p \in Handlers, Rollback(p)
      PROVE  HoldersExclude'
  BY <1>4, <1>5 DEF Rollback
<1>6. ASSUME NEW p \in Handlers, Start(p)
      PROVE  HoldersExclude'
  <2>1. PICK r \in Requests : Begin(p, r) /\ r.pc \notin HolderPcs
    BY <1>6, StartBegins
  <2>2. Kept(p)
    BY <1>2, <2>1 DEF Begin, Idle, Requests, HolderPcs, locks
  <2> QED
    BY <2>2, <1>1
<1>7. ASSUME NEW p \in Handlers, BoardStep(p), ~Finish(p)
      PROVE  HoldersExclude'
  <2>1. Kept(p)
    BY <1>2, <1>7 DEF BoardStep, LockForUpdate, WriteBoard, LockForDelete, CascadeDelete,
       Rollback, LockBoardX, CanLockBoardX, Goto, At, Requests, HolderPcs
  <2> QED
    BY <2>1, <1>1
<1>8. ASSUME NEW p \in Handlers, EntryStep(p), ~Finish(p)
      PROVE  HoldersExclude'
  <2>1. Kept(p)
    BY <1>2, <1>8 DEF EntryStep, InsertEntry, LockEntryForDelete, CountPlacements, DeleteEntry,
       Rollback, Goto, At, Requests, HolderPcs, locks
  <2> QED
    BY <2>1, <1>1
<1>9. ASSUME NEW p \in Handlers, VersionStep(p), ~Finish(p)
      PROVE  HoldersExclude'
  <2>1. Kept(p)
    BY <1>2, <1>9 DEF VersionStep, LockForVersion, NumberVersion, ResolveEntries, ReadScores,
       InsertPlacements, CommitVersion, Rollback, LockBoardX, CanLockBoardX, Goto, At,
       Requests, HolderPcs, locks
  <2> QED
    BY <2>1, <1>1
<1>10. ASSUME NEW p \in Handlers, SubmitStep(p), ~Finish(p)
       PROVE  HoldersExclude'
  <2>1. boardX' = boardX /\ h[p].pc \notin HolderPcs
    BY <1>10 DEF SubmitStep, UpsertEntry, UpsertScore, CommitSubmit, Rollback, At, HolderPcs
  <2>2. h' = [h EXCEPT ![p] = h'[p]] /\ h'[p].pc \notin HolderPcs
    <3>1. CASE UpsertEntry(p) /\ HasEntry(h[p].slug)
      <4>1. h' = [h EXCEPT ![p] = [h[p] EXCEPT !.pc = "su_score", !.eid = EntryIdOf(h[p].slug)]]
        BY <1>2, <1>10, <3>1 DEF UpsertEntry, Rollback
      <4> QED
        BY <1>2, <4>1 DEF Requests, HolderPcs
    <3>2. CASE UpsertEntry(p) /\ ~HasEntry(h[p].slug)
      <4>1. PICK id \in FreshEntryIds :
              h' = [h EXCEPT ![p] = [h[p] EXCEPT !.pc = "su_score", !.eid = id,
                                                 !.fresh = [id |-> id, slug |-> h[p].slug]]]
        BY <1>2, <1>10, <3>2 DEF UpsertEntry, Rollback
      <4> QED
        BY <1>2, <4>1 DEF Requests, HolderPcs
    <3>3. CASE UpsertScore(p)
      <4>1. h' = [h EXCEPT ![p] = [h[p] EXCEPT !.pc = "su_commit"]]
        BY <1>2, <1>10, <3>3 DEF UpsertScore, Goto
      <4> QED
        BY <1>2, <4>1 DEF Requests, HolderPcs
    <3> QED
      BY <1>10, <3>1, <3>2, <3>3 DEF SubmitStep, CommitSubmit
  <2>3. Kept(p)
    BY <1>2, <2>1, <2>2
  <2> QED
    BY <2>3, <1>1
<1> QED
  BY <1>3, <1>4, <1>5, <1>6, <1>7, <1>8, <1>9, <1>10
     DEF Next, Step, vars, locks, CreateBoard, Poll, Cancel, DeadlockVictim
-----------------------------------------------------------------------------
(* The numbers.                                                            *)

(* n versions numbered 1..n, each once, are n versions.                    *)
LEMMA AsManyAsNumbers ==
    ASSUME NEW S, NEW n \in Nat, {v.num : v \in S} = 1..n, \A v, w \in S : v.num = w.num => v = w
    PROVE  Cardinality(S) = n
<1> DEFINE num == [v \in S |-> v.num]
<1>1. num \in Bijection(S, 1..n)
  <2>1. num \in [S -> 1..n]
    OBVIOUS
  <2>2. num \in Injection(S, 1..n)
    BY <2>1 DEF Injection, IsInjective
  <2>3. num \in Surjection(S, 1..n)
    BY <2>1 DEF Surjection
  <2> QED
    BY <2>2, <2>3 DEF Bijection
<1> HIDE DEF num
<1>2. ExistsBijection(S, 1..n)
  BY <1>1 DEF ExistsBijection
<1>3. ExistsBijection(1..n, S)
  BY <1>2, Fun_ExistsBijSymmetric
<1> QED
  BY <1>3, FS_CountingElements

(* What the statements say of the numbers.                                 *)
NumbersInv == Counted /\ NumbersUnique /\ NumberIsNext /\ NumberInLimit /\ VersionLimitHolds

(* A step that leaves the versions alone, and lets no handler come by a    *)
(* number, keeps the numbers right.                                        *)
LEMMA NumbersFrame ==
    ASSUME NumbersInv, UNCHANGED versions,
           \A q \in Handlers : h'[q].pc \in BuildPcs =>
               /\ h[q].pc \in BuildPcs
               /\ h'[q].num = h[q].num /\ h'[q].limited = h[q].limited
    PROVE  NumbersInv'
BY DEF NumbersInv, Counted, NumbersUnique, NumberIsNext, NumberInLimit, VersionLimitHolds, Numbers

(* A request that ends, or moves on without computing a number.            *)
LEMMA NumbersMove ==
    ASSUME NEW p \in Handlers, h \in [Handlers -> Requests], NumbersInv, UNCHANGED versions,
           h' = [h EXCEPT ![p] = h'[p]],
           h'[p].pc \in BuildPcs =>
               /\ h[p].pc \in BuildPcs
               /\ h'[p].num = h[p].num /\ h'[p].limited = h[p].limited
    PROVE  NumbersInv'
<1>1. \A q \in Handlers : q # p => h'[q] = h[q]
  OBVIOUS
<1> QED
  BY <1>1, NumbersFrame

(* A request that computes the number of its version.                      *)
LEMMA NumbersComputed ==
    ASSUME NEW p \in Handlers, h \in [Handlers -> Requests], NumbersInv, UNCHANGED versions,
           h' = [h EXCEPT ![p] = h'[p]],
           h'[p].num = NextNumber, h'[p].limited = h[p].limited, ~AtLimit(p),
           h[p].limited \in BOOLEAN
    PROVE  NumbersInv'
<1>1. \A q \in Handlers : q # p => h'[q] = h[q]
  OBVIOUS
<1>2. PICK n \in Nat : Numbers = 1..n
  BY DEF NumbersInv, Counted
<1>3. NextNumber = n + 1
  BY <1>2, NextNumberIs
<1>4. Cardinality(versions) = n
  BY <1>2, AsManyAsNumbers DEF NumbersInv, NumbersUnique, Numbers
<1>5. h[p].limited => n + 1 <= MaxVersions
  BY <1>4, LimitsAssumption DEF AtLimit
<1>6. Numbers' = Numbers
  BY DEF Numbers
<1>7. Counted' /\ NumbersUnique' /\ VersionLimitHolds'
  BY <1>6 DEF NumbersInv, Counted, NumbersUnique, VersionLimitHolds
<1>8. NumberIsNext'
  BY <1>1, <1>2, <1>3, <1>6 DEF NumbersInv, NumberIsNext
<1>9. NumberInLimit'
  BY <1>1, <1>3, <1>5 DEF NumbersInv, NumberInLimit
<1> QED
  BY <1>7, <1>8, <1>9 DEF NumbersInv

(* While a handler is at a step that holds the lock, no other handler has  *)
(* a number.                                                               *)
LEMMA OneBuilder ==
    ASSUME NEW p \in Handlers, HoldersExclude, h[p].pc \in HolderPcs,
           h \in [Handlers -> Requests], Finish(p)
    PROVE  \A q \in Handlers : h'[q].pc \notin BuildPcs
BY DEF HoldersExclude, Finish, Idle, BuildPcs, HolderPcs

(* Every step keeps the numbers right.                                     *)
LEMMA NextNumbers ==
    ASSUME IInv, [Next]_vars
    PROVE  NumbersInv'
<1>1. /\ NumbersInv /\ HoldersExclude
      /\ h \in [Handlers -> Requests]
      /\ \A p \in Handlers : h[p].limited \in BOOLEAN
  BY DEF IInv, NumbersInv, TypeOK, Requests
<1>2. CASE UNCHANGED <<h, versions>>
  BY <1>1, <1>2, NumbersFrame
<1>3. ASSUME NEW p \in Handlers, Finish(p), UNCHANGED versions
      PROVE  NumbersInv'
  <2>1. h' = [h EXCEPT ![p] = h'[p]] /\ h'[p].pc \notin BuildPcs
    BY <1>1, <1>3 DEF Finish, Idle, BuildPcs
  <2> QED
    BY <1>1, <1>3, <2>1, NumbersMove
<1>4. ASSUME NEW p \in Handlers, Rollback(p)
      PROVE  NumbersInv'
  BY <1>3, <1>4 DEF Rollback, tables
<1>5. ASSUME NEW p \in Handlers, Start(p)
      PROVE  NumbersInv'
  <2>1. PICK r \in Requests : Begin(p, r) /\ r.pc \notin HolderPcs
    BY <1>5, StartBegins DEF IInv
  <2>2. /\ h' = [h EXCEPT ![p] = h'[p]] /\ h'[p].pc \notin BuildPcs
        /\ UNCHANGED versions
    BY <1>1, <2>1 DEF Begin, Requests, HolderPcs, BuildPcs, tables
  <2> QED
    BY <1>1, <2>2, NumbersMove
<1>6. ASSUME NEW p \in Handlers, ~Rollback(p),
             \/ LockForUpdate(p) \/ LockForDelete(p)
             \/ LockEntryForDelete(p) \/ CountPlacements(p)
      PROVE  NumbersInv'
  <2>1. /\ h' = [h EXCEPT ![p] = h'[p]] /\ h'[p].pc \notin BuildPcs
        /\ UNCHANGED versions
    BY <1>1, <1>6 DEF LockForUpdate, LockForDelete, LockEntryForDelete, CountPlacements,
       Goto, At, tables, Requests, BuildPcs
  <2> QED
    BY <1>1, <2>1, NumbersMove
<1>7. ASSUME NEW p \in Handlers, ~Rollback(p),
             \/ LockForVersion(p, "cv_lock", "cv_number") \/ ResolveEntries(p)
             \/ LockForVersion(p, "sn_lock", "sn_read") \/ InsertPlacements(p)
      PROVE  NumbersInv'
  <2>1. /\ h' = [h EXCEPT ![p] = h'[p]]
        /\ h'[p].pc \in BuildPcs =>
             /\ h[p].pc \in BuildPcs
             /\ h'[p].num = h[p].num /\ h'[p].limited = h[p].limited
        /\ UNCHANGED versions
    BY <1>1, <1>7 DEF LockForVersion, ResolveEntries, InsertPlacements,
       Goto, At, tables, Requests, BuildPcs
  <2> QED
    BY <1>1, <2>1, NumbersMove
<1>8. ASSUME NEW p \in Handlers, ~Rollback(p), UpsertEntry(p) \/ UpsertScore(p)
      PROVE  NumbersInv'
  <2>1. UNCHANGED versions
    BY <1>8 DEF UpsertEntry, UpsertScore, tables
  <2>2. h' = [h EXCEPT ![p] = h'[p]] /\ h'[p].pc \notin BuildPcs
    <3>1. CASE UpsertEntry(p)
      <4>1. \/ h' = [h EXCEPT ![p] = [h[p] EXCEPT !.pc = "su_score", !.eid = EntryIdOf(h[p].slug)]]
            \/ \E id \in FreshEntryIds :
                 h' = [h EXCEPT ![p] = [h[p] EXCEPT !.pc = "su_score", !.eid = id,
                                                    !.fresh = [id |-> id, slug |-> h[p].slug]]]
        BY <1>1, <1>8, <3>1 DEF UpsertEntry
      <4> QED
        BY <1>1, <4>1 DEF Requests, BuildPcs
    <3>2. CASE UpsertScore(p)
      BY <1>1, <3>2 DEF UpsertScore, Goto, Requests, BuildPcs
    <3> QED
      BY <1>8, <3>1, <3>2
  <2> QED
    BY <1>1, <2>1, <2>2, NumbersMove
<1>9. ASSUME NEW p \in Handlers, ~Rollback(p), NumberVersion(p) \/ ReadScores(p)
      PROVE  NumbersInv'
  <2>1. /\ h' = [h EXCEPT ![p] = h'[p]]
        /\ h'[p].num = NextNumber /\ h'[p].limited = h[p].limited
        /\ ~AtLimit(p) /\ UNCHANGED versions
    BY <1>1, <1>9 DEF NumberVersion, ReadScores, tables, Requests
  <2> QED
    BY <1>1, <2>1, NumbersComputed
<1>10. ASSUME NEW p \in Handlers, CommitVersion(p)
       PROVE  NumbersInv'
  <2> DEFINE n == h[p].num
             new == [num |-> n, rows |-> DerivedRows(h[p].seen, h[p].rows),
                     cut |-> h[p].cut, limited |-> h[p].limited]
  <2>1. /\ h[p].pc \in HolderPcs /\ h[p].pc \in BuildPcs
        /\ Finish(p)
        /\ versions' = versions \cup {new}
    BY <1>10 DEF CommitVersion, At, HolderPcs, BuildPcs
  <2>2. n \in Nat /\ n >= 1 /\ Numbers = 1..(n - 1)
    BY <1>1, <2>1 DEF NumbersInv, NumberIsNext, Requests
  <2>3. \A q \in Handlers : h'[q].pc \notin BuildPcs
    BY <1>1, <2>1, OneBuilder
  <2>4. NumberIsNext' /\ NumberInLimit'
    BY <2>3 DEF NumberIsNext, NumberInLimit
  <2>5. new.num = n /\ new.limited = h[p].limited
    OBVIOUS
  <2> HIDE DEF new
  <2>6. Numbers' = Numbers \cup {n}
    BY <2>1, <2>5 DEF Numbers
  <2>7. Counted'
    <3>1. Numbers' = 1..n
      BY <2>2, <2>6
    <3> QED
      BY <2>2, <3>1 DEF Counted
  <2>8. NumbersUnique'
    <3>1. \A v \in versions : v.num # n
      BY <2>2 DEF Numbers
    <3> QED
      BY <1>1, <2>1, <2>5, <3>1 DEF NumbersInv, NumbersUnique
  <2>9. VersionLimitHolds'
    BY <1>1, <2>1, <2>5 DEF NumbersInv, VersionLimitHolds, NumberInLimit
  <2> QED
    BY <2>4, <2>7, <2>8, <2>9 DEF NumbersInv
<1>11. ASSUME NEW p \in Handlers, DeleteEntry(p)
       PROVE  NumbersInv'
  <2> DEFINE kept(v) == [v EXCEPT !.rows = {r \in v.rows : r.id # h[p].eid}]
  <2>1. versions' = {kept(v) : v \in versions} /\ Finish(p)
    BY <1>11 DEF DeleteEntry
  <2>2. \A v \in versions : kept(v).num = v.num /\ kept(v).limited = v.limited
    BY DEF IInv, TypeOK, VersionRows
  <2> HIDE DEF kept
  <2>3. Numbers' = Numbers
    BY <2>1, <2>2 DEF Numbers
  <2>4. Counted' /\ NumbersUnique' /\ VersionLimitHolds'
    BY <1>1, <2>1, <2>2, <2>3 DEF NumbersInv, Counted, NumbersUnique, VersionLimitHolds
  <2>5. \A q \in Handlers : h'[q].pc \in BuildPcs => h'[q] = h[q]
    BY <1>1, <2>1 DEF Finish, Idle, BuildPcs
  <2>6. NumberIsNext' /\ NumberInLimit'
    BY <1>1, <2>3, <2>5 DEF NumbersInv, NumberIsNext, NumberInLimit
  <2> QED
    BY <2>4, <2>6 DEF NumbersInv
<1>12. ASSUME NEW p \in Handlers, CascadeDelete(p)
       PROVE  NumbersInv'
  <2>1. h[p].pc \in HolderPcs /\ Finish(p) /\ versions' = {}
    BY <1>12 DEF CascadeDelete, At, HolderPcs
  <2>2. \A q \in Handlers : h'[q].pc \notin BuildPcs
    BY <1>1, <2>1, OneBuilder
  <2>3. Numbers' = 1..0
    BY <2>1 DEF Numbers
  <2> QED
    BY <2>1, <2>2, <2>3
       DEF NumbersInv, Counted, NumbersUnique, NumberIsNext, NumberInLimit, VersionLimitHolds
<1>13. ASSUME NEW p \in Handlers, WriteBoard(p) \/ InsertEntry(p) \/ CommitSubmit(p)
       PROVE  NumbersInv'
  <2>1. Finish(p) /\ UNCHANGED versions
    BY <1>13 DEF WriteBoard, InsertEntry, CommitSubmit, Rollback, tables
  <2> QED
    BY <2>1, <1>3
<1>14. ASSUME NEW p \in Handlers, Step(p) \/ Cancel(p)
       PROVE  NumbersInv'
  <2>1. CASE Rollback(p)
    BY <2>1, <1>4
  <2>2. CASE ~Rollback(p)
    BY <1>14, <2>2, <1>6, <1>7, <1>8, <1>9, <1>10, <1>11, <1>12, <1>13
       DEF Step, BoardStep, EntryStep, VersionStep, SubmitStep, DeadlockVictim, Cancel
  <2> QED
    BY <2>1, <2>2
<1> QED
  BY <1>2, <1>5, <1>14 DEF Next, vars, tables, CreateBoard, Poll

-----------------------------------------------------------------------------
(* The inductive invariant, and what follows from it.                      *)

LEMMA InitInv == Init => IInv
<1> SUFFICES ASSUME Init PROVE IInv
  OBVIOUS
<1>1. /\ Idle \in Requests /\ RequestOK(Idle) /\ Idle.rows = {}
      /\ Idle.pc \notin HolderPcs /\ Idle.pc \notin BuildPcs
  BY DEF Idle, Requests, Pcs, HolderPcs, BuildPcs, RequestOK
<1>2. \A p \in Handlers : h[p] = Idle
  BY DEF Init
<1>3. IsFiniteSet({})
  BY FS_EmptySet
<1>4. TypeOK /\ FinitelyMany
  BY <1>1, <1>2, <1>3 DEF Init, TypeOK, FinitelyMany
<1>5. HoldersExclude
  BY <1>1, <1>2 DEF Init, HoldersExclude
<1>6. Numbers = 1..0
  BY DEF Init, Numbers
<1>7. NumbersInv
  BY <1>1, <1>2, <1>6 DEF Init, NumbersInv, Counted, NumbersUnique, NumberIsNext,
                          NumberInLimit, VersionLimitHolds
<1> QED
  BY <1>4, <1>5, <1>7 DEF IInv, NumbersInv

LEMMA NextInv == IInv /\ [Next]_vars => IInv'
BY NextType, NextHolders, NextNumbers DEF IInv, NumbersInv

(* The invariant holds in every reachable state.                           *)
THEOREM Invariance == Spec => []IInv
BY InitInv, NextInv, PTL DEF Spec

(* The tables and the requests keep their types, for every instance.       *)
THEOREM TypeCorrect == Spec => []TypeOK
<1>1. IInv => TypeOK
  BY DEF IInv
<1> QED
  BY <1>1, Invariance, PTL

(* Version numbers are 1..n without gap or repetition, however many        *)
(* requests create, snapshot, patch and delete at once.                    *)
THEOREM Contiguous == Spec => []NumbersContiguous
<1>1. IInv => NumbersContiguous
  <2> SUFFICES ASSUME IInv, NEW v \in versions
               PROVE  1..v.num \subseteq Numbers
    BY DEF IInv, NumbersUnique, NumbersContiguous
  <2>1. PICK n \in Nat : Numbers = 1..n
    BY DEF IInv, Counted
  <2>2. v.num \in 1..n
    BY <2>1 DEF Numbers
  <2> QED
    BY <2>1, <2>2
<1> QED
  BY <1>1, Invariance, PTL

(* No limited request creates a version beyond max_versions_per_board.     *)
THEOREM LimitHolds == Spec => []VersionLimitHolds
<1>1. IInv => VersionLimitHolds
  BY DEF IInv
<1> QED
  BY <1>1, Invariance, PTL

-----------------------------------------------------------------------------
(* Beyond the numbers: what a transaction has read stays true until it     *)
(* commits, because of the locks it holds.  The board row it goes on from  *)
(* is the current one, the entries it places are still there, and nobody   *)
(* places the entry it deletes.                                            *)

StartPcs == {"ub_lock", "db_lock", "ce_insert", "de_lock", "cv_lock", "sn_lock", "su_entry"}

(* A handler that holds FOR UPDATE goes on from the current board row.     *)
SeenIsCurrent ==
    \A p \in Handlers :
        /\ h[p].pc # "idle" => h[p].seen # None
        /\ h[p].pc \in HolderPcs => board # None
        /\ h[p].pc \in HolderPcs \ {"db_cascade"} => h[p].seen = board

(* The kind of a board never changes, and decides what requests it takes.  *)
KindKept ==
    /\ board # None /\ board.accum => board.type = "scored"
    /\ \A p \in Handlers :
         /\ h[p].seen # None /\ board # None /\ board.id = h[p].seen.id =>
              h[p].seen.type = board.type /\ h[p].seen.accum = board.accum
         /\ h[p].pc \in {"sn_lock", "sn_read"} => h[p].seen.accum
         /\ h[p].pc \in {"cv_lock", "cv_number", "cv_resolve"} => ~h[p].seen.accum

EntriesUnique ==
    \A e, f \in entries : e.id = f.id \/ e.slug = f.slug => e = f

(* An entry that is inserted but not committed clashes with nothing.       *)
FreshIsNew ==
    \A p \in Handlers : h[p].fresh # None =>
        /\ \A e \in entries : e.id # h[p].fresh.id /\ e.slug # h[p].fresh.slug
        /\ \A q \in Handlers : q # p /\ h[q].fresh # None =>
             h[q].fresh.id # h[p].fresh.id /\ h[q].fresh.slug # h[p].fresh.slug
        /\ \A q \in Handlers : \A r \in h[q].rows : r.id # h[p].fresh.id

(* Two handlers never hold conflicting locks on an entry.                  *)
LocksCompatible ==
    \A l, m \in entryLocks : l.id = m.id /\ l.by # m.by => Compatible(l.mode, m.mode)

(* Who deletes an entry has it locked, who has inserted placements shares  *)
(* the entries they name.                                                  *)
LocksHeld ==
    \A p \in Handlers :
        /\ h[p].pc \in {"de_count", "de_delete"} =>
             [by |-> p, id |-> h[p].eid, mode |-> "X"] \in entryLocks
        /\ h[p].pc = "commit" =>
             \A r \in h[p].rows : [by |-> p, id |-> r.id, mode |-> "KS"] \in entryLocks

(* The rows a request is building name entries under their slugs; once the *)
(* placements are inserted the entries are there to stay.  An entry about  *)
(* to be deleted has no placements.                                        *)
RowsBuilt ==
    \A p \in Handlers :
        /\ h[p].pc = "cv_resolve" => ValidPlacements(h[p].seen, h[p].list)
        /\ h[p].pc \in {"place", "commit"} =>
             /\ h[p].rows # {}
             /\ \A r \in h[p].rows, e \in entries : e.id = r.id => e.slug = r.slug
        /\ h[p].pc = "commit" => \A r \in h[p].rows : [id |-> r.id, slug |-> r.slug] \in entries
        /\ h[p].pc = "de_delete" => ~HasPlacements(h[p].eid)

-----------------------------------------------------------------------------
(* The steps, told by what they do to the request.                         *)

Others(p) == \A q \in Handlers : q # p => h'[q] = h[q]

(* The request goes from one statement to the next; seen, eid, fresh, rows *)
(* and cut are what it has at hand afterwards.                             *)
Turns(p, from, to, seen, eid, fresh, rows, cut) ==
    /\ p \in Handlers
    /\ Others(p)
    /\ h[p].pc = from /\ h'[p].pc = to
    /\ h'[p].seen = seen /\ h'[p].eid = eid /\ h'[p].fresh = fresh
    /\ h'[p].rows = rows /\ h'[p].cut = cut
    /\ h'[p].list = h[p].list /\ h'[p].patch = h[p].patch
    /\ UNCHANGED <<board, entries, versions, acc, received>>

(* It only moves on.                                                       *)
Passes(p, from, to) ==
    Turns(p, from, to, h[p].seen, h[p].eid, h[p].fresh, h[p].rows, h[p].cut)

Begun(p) ==
    \E pc \in StartPcs :
        /\ p \in Handlers /\ Others(p)
        /\ h[p] = Idle /\ board # None
        /\ h'[p].pc = pc /\ h'[p].seen = board /\ h'[p].fresh = None
        /\ h'[p].rows = {} /\ h'[p].cut = {}
        /\ pc = "sn_lock" => board.accum
        /\ pc = "cv_lock" => ~board.accum
        /\ UNCHANGED <<board, entries, versions, acc, received, entryLocks>>

LockedBoard(p, from, to) ==
    /\ Turns(p, from, to, board, h[p].eid, h[p].fresh, h[p].rows, h[p].cut)
    /\ board # None
    /\ from # "ub_lock" => BoardThere(p)
    /\ UNCHANGED entryLocks

LockedForDelete(p) ==
    Passes(p, "db_lock", "db_cascade") /\ board # None /\ UNCHANGED entryLocks

ScoreUpserted(p) == Passes(p, "su_score", "su_commit") /\ UNCHANGED entryLocks

NumberedVersion(p) ==
    /\ Passes(p, "cv_number", "cv_resolve")
    /\ ValidPlacements(h[p].seen, h[p].list)
    /\ UNCHANGED entryLocks

CountedNone(p) ==
    /\ Passes(p, "de_count", "de_delete")
    /\ ~HasPlacements(h[p].eid)
    /\ UNCHANGED entryLocks

PlacementsInserted(p) ==
    LET ids == {r.id : r \in h[p].rows}
    IN  /\ Passes(p, "place", "commit")
        /\ \A i \in ids : CanLockEntry(p, i, "KS")
        /\ ids \subseteq LiveEntryIds
        /\ LockEntries(p, ids, "KS")

EntryLocked(p, from, to, mode) ==
    /\ Turns(p, from, to, h[p].seen, EntryIdOf(h[p].slug), h[p].fresh, h[p].rows, h[p].cut)
    /\ HasEntry(h[p].slug)
    /\ CanLockEntry(p, EntryIdOf(h[p].slug), mode)
    /\ LockEntries(p, {EntryIdOf(h[p].slug)}, mode)

EntryInserted(p) ==
    \E id \in FreshEntryIds :
        /\ Turns(p, "su_entry", "su_score", h[p].seen, id, [id |-> id, slug |-> h[p].slug],
                 h[p].rows, h[p].cut)
        /\ ~HasEntry(h[p].slug) /\ SlugFree(p, h[p].slug)
        /\ UNCHANGED entryLocks

EntriesResolved(p) ==
    LET slugs == SlugsOf(h[p].list)
        idOf  == [s \in slugs |-> EntryIdOf(s)]
    IN  /\ Turns(p, "cv_resolve", "place", h[p].seen, h[p].eid, h[p].fresh,
                 PlacementRows(h[p].seen, h[p].list, idOf), h[p].cut)
        /\ \A s \in slugs : HasEntry(s)
        /\ UNCHANGED entryLocks

ScoresRead(p) ==
    /\ Turns(p, "sn_read", "place", h[p].seen, h[p].eid, h[p].fresh, ScoreRows,
             {[id |-> a.id, rev |-> a.rev] : a \in Joined})
    /\ Joined # {}
    /\ UNCHANGED entryLocks

Advances(p) ==
    \/ Begun(p)
    \/ LockedBoard(p, "ub_lock", "ub_write") \/ LockedBoard(p, "cv_lock", "cv_number")
    \/ LockedBoard(p, "sn_lock", "sn_read")
    \/ LockedForDelete(p) \/ ScoreUpserted(p)
    \/ NumberedVersion(p) \/ CountedNone(p) \/ PlacementsInserted(p)
    \/ EntryLocked(p, "de_lock", "de_count", "X") \/ EntryLocked(p, "su_entry", "su_score", "NKU")
    \/ EntryInserted(p) \/ EntriesResolved(p) \/ ScoresRead(p)

Commits(p) ==
    \/ WriteBoard(p) \/ CascadeDelete(p) \/ InsertEntry(p)
    \/ DeleteEntry(p) \/ CommitVersion(p) \/ CommitSubmit(p)

(* A request starts from the board row and nothing else.                   *)
LEMMA StartForm ==
    ASSUME NEW p \in Handlers, TypeOK, Start(p)
    PROVE  Begun(p)
<1> DEFINE Fits(r) == /\ r.pc \in StartPcs /\ r.fresh = None /\ r.rows = {} /\ r.cut = {}
                      /\ r.pc = "sn_lock" => board.accum
                      /\ r.pc = "cv_lock" => ~board.accum
                      /\ [r EXCEPT !.seen = board].pc = r.pc
                      /\ [r EXCEPT !.seen = board].seen = board
                      /\ [r EXCEPT !.seen = board].fresh = None
                      /\ [r EXCEPT !.seen = board].rows = {}
                      /\ [r EXCEPT !.seen = board].cut = {}
<1>1. ASSUME NEW r, Fits(r), Begin(p, r)
      PROVE  Begun(p)
  <2> DEFINE q == [r EXCEPT !.seen = board]
  <2>1. /\ h' = [h EXCEPT ![p] = q]
        /\ h[p] = Idle /\ board # None
        /\ UNCHANGED <<board, entries, versions, acc, received, entryLocks>>
    BY <1>1 DEF Begin, tables, locks
  <2>2. /\ q.pc = r.pc /\ q.seen = board /\ q.fresh = None /\ q.rows = {} /\ q.cut = {}
    BY <1>1
  <2> HIDE DEF q
  <2>3. h'[p] = q /\ Others(p)
    BY <2>1 DEF TypeOK, Others
  <2> QED
    BY <1>1, <2>1, <2>2, <2>3 DEF Begun
<1>2. CASE StartUpdateBoard(p)
  <2>1. PICK patch \in Patches : Begin(p, [Idle EXCEPT !.pc = "ub_lock", !.patch = patch])
    BY <1>2 DEF StartUpdateBoard
  <2>2. Fits([Idle EXCEPT !.pc = "ub_lock", !.patch = patch])
    BY DEF Idle, StartPcs
  <2> QED
    BY <1>1, <2>1, <2>2
<1>3. CASE StartDeleteBoard(p)
  <2>1. Fits([Idle EXCEPT !.pc = "db_lock"])
    BY DEF Idle, StartPcs
  <2> QED
    BY <1>1, <1>3, <2>1 DEF StartDeleteBoard
<1>4. CASE StartCreateEntry(p)
  <2>1. PICK slug \in Slugs : Begin(p, [Idle EXCEPT !.pc = "ce_insert", !.slug = slug])
    BY <1>4 DEF StartCreateEntry
  <2>2. Fits([Idle EXCEPT !.pc = "ce_insert", !.slug = slug])
    BY DEF Idle, StartPcs
  <2> QED
    BY <1>1, <2>1, <2>2
<1>5. CASE StartDeleteEntry(p)
  <2>1. PICK slug \in Slugs : Begin(p, [Idle EXCEPT !.pc = "de_lock", !.slug = slug])
    BY <1>5 DEF StartDeleteEntry
  <2>2. Fits([Idle EXCEPT !.pc = "de_lock", !.slug = slug])
    BY DEF Idle, StartPcs
  <2> QED
    BY <1>1, <2>1, <2>2
<1>6. CASE StartCreateVersion(p)
  <2>1. PICK list \in Lists, limited \in Limits :
          Begin(p, [Idle EXCEPT !.pc = "cv_lock", !.list = list, !.limited = limited])
    BY <1>6 DEF StartCreateVersion
  <2>2. Fits([Idle EXCEPT !.pc = "cv_lock", !.list = list, !.limited = limited])
    BY <1>6 DEF Idle, StartPcs, StartCreateVersion
  <2> QED
    BY <1>1, <2>1, <2>2
<1>7. CASE StartSubmit(p)
  <2>1. PICK s \in [slug : Slugs, score : Scores] :
          Begin(p, [Idle EXCEPT !.pc = "su_entry", !.slug = s.slug, !.score = s.score])
    BY <1>7 DEF StartSubmit
  <2>2. Fits([Idle EXCEPT !.pc = "su_entry", !.slug = s.slug, !.score = s.score])
    BY DEF Idle, StartPcs
  <2> QED
    BY <1>1, <2>1, <2>2
<1>8. CASE StartSnapshot(p)
  <2>1. PICK limited \in Limits : Begin(p, [Idle EXCEPT !.pc = "sn_lock", !.limited = limited])
    BY <1>8 DEF StartSnapshot
  <2>2. Fits([Idle EXCEPT !.pc = "sn_lock", !.limited = limited])
    BY <1>8 DEF Idle, StartPcs, StartSnapshot
  <2> QED
    BY <1>1, <2>1, <2>2
<1> QED
  BY <1>2, <1>3, <1>4, <1>5, <1>6, <1>7, <1>8 DEF Start

(* A request that becomes r, with the tables as they are.                  *)
LEMMA TurnForm ==
    ASSUME NEW p \in Handlers, TypeOK, NEW r, h' = [h EXCEPT ![p] = r],
           r.list = h[p].list, r.patch = h[p].patch,
           UNCHANGED <<tables, received>>
    PROVE  Turns(p, h[p].pc, r.pc, r.seen, r.eid, r.fresh, r.rows, r.cut)
BY DEF TypeOK, Turns, Others, tables

(* Every statement does one of these things.                               *)
LEMMA StepForm ==
    ASSUME NEW p \in Handlers, TypeOK, Step(p)
    PROVE  Rollback(p) \/ Advances(p) \/ Commits(p)
<1> SUFFICES ASSUME ~Rollback(p)
             PROVE  Advances(p) \/ Commits(p)
  OBVIOUS
<1>1. h[p] \in Requests
  BY DEF TypeOK
<1>2. CASE LockForUpdate(p) \/ LockForVersion(p, "cv_lock", "cv_number")
                            \/ LockForVersion(p, "sn_lock", "sn_read")
  <2>1. ASSUME NEW from, NEW to, h[p].pc = from,
               h' = [h EXCEPT ![p] = [h[p] EXCEPT !.pc = to, !.seen = board]],
               UNCHANGED <<tables, received>>
        PROVE  Turns(p, from, to, board, h[p].eid, h[p].fresh, h[p].rows, h[p].cut)
    <3> DEFINE r == [h[p] EXCEPT !.pc = to, !.seen = board]
    <3>1. /\ r.pc = to /\ r.seen = board /\ r.eid = h[p].eid /\ r.fresh = h[p].fresh
          /\ r.rows = h[p].rows /\ r.cut = h[p].cut /\ r.list = h[p].list /\ r.patch = h[p].patch
      BY <1>1 DEF Requests
    <3>2. h' = [h EXCEPT ![p] = r]
      BY <2>1
    <3> HIDE DEF r
    <3>3. Turns(p, h[p].pc, r.pc, r.seen, r.eid, r.fresh, r.rows, r.cut)
      BY <2>1, <3>1, <3>2, TurnForm
    <3> QED
      BY <2>1, <3>1, <3>3
  <2>2. CASE LockForUpdate(p)
    <3>1. Turns(p, "ub_lock", "ub_write", board, h[p].eid, h[p].fresh, h[p].rows, h[p].cut)
      BY <2>1, <2>2 DEF LockForUpdate, At
    <3>2. board # None /\ UNCHANGED entryLocks
      BY <2>2 DEF LockForUpdate, LockBoardX
    <3> QED
      BY <3>1, <3>2 DEF LockedBoard, Advances
  <2>3. CASE LockForVersion(p, "cv_lock", "cv_number")
    <3>1. Turns(p, "cv_lock", "cv_number", board, h[p].eid, h[p].fresh, h[p].rows, h[p].cut)
      BY <2>1, <2>3 DEF LockForVersion, At
    <3>2. board # None /\ BoardThere(p) /\ UNCHANGED entryLocks
      BY <2>3 DEF LockForVersion, LockBoardX, BoardThere
    <3> QED
      BY <3>1, <3>2 DEF LockedBoard, Advances
  <2>4. CASE LockForVersion(p, "sn_lock", "sn_read")
    <3>1. Turns(p, "sn_lock", "sn_read", board, h[p].eid, h[p].fresh, h[p].rows, h[p].cut)
      BY <2>1, <2>4 DEF LockForVersion, At
    <3>2. board # None /\ BoardThere(p) /\ UNCHANGED entryLocks
      BY <2>4 DEF LockForVersion, LockBoardX, BoardThere
    <3> QED
      BY <3>1, <3>2 DEF LockedBoard, Advances
  <2> QED
    BY <1>2, <2>2, <2>3, <2>4
<1>3. ASSUME NEW from, NEW to, h[p].pc = from, Goto(p, to), UNCHANGED <<tables, received>>
      PROVE  Passes(p, from, to)
  <2> DEFINE r == [h[p] EXCEPT !.pc = to]
  <2>1. h' = [h EXCEPT ![p] = r]
    BY <1>3 DEF Goto
  <2>2. /\ r.pc = to /\ r.seen = h[p].seen /\ r.eid = h[p].eid /\ r.fresh = h[p].fresh
        /\ r.rows = h[p].rows /\ r.cut = h[p].cut /\ r.list = h[p].list /\ r.patch = h[p].patch
    BY <1>1 DEF Requests
  <2> HIDE DEF r
  <2> QED
    BY <1>3, <2>1, <2>2, TurnForm DEF Passes
<1>4. CASE LockForDelete(p)
  BY <1>3, <1>4 DEF LockForDelete, LockBoardX, At, LockedForDelete, Advances
<1>5. CASE UpsertScore(p)
  BY <1>3, <1>5 DEF UpsertScore, At, ScoreUpserted, Advances
<1>6. CASE CountPlacements(p)
  BY <1>3, <1>6 DEF CountPlacements, At, locks, CountedNone, Advances
<1>7. CASE InsertPlacements(p)
  <2>1. Passes(p, "place", "commit")
    BY <1>3, <1>7 DEF InsertPlacements, At
  <2> QED
    BY <1>7, <2>1 DEF InsertPlacements, PlacementsInserted, Advances
<1>8. CASE NumberVersion(p)
  <2> DEFINE r == [h[p] EXCEPT !.pc = "cv_resolve", !.num = NextNumber]
  <2>1. /\ h' = [h EXCEPT ![p] = r] /\ h[p].pc = "cv_number"
        /\ ValidPlacements(h[p].seen, h[p].list)
        /\ UNCHANGED <<tables, received, entryLocks>>
    BY <1>8 DEF NumberVersion, At, locks
  <2>2. /\ r.pc = "cv_resolve" /\ r.seen = h[p].seen /\ r.eid = h[p].eid /\ r.fresh = h[p].fresh
        /\ r.rows = h[p].rows /\ r.cut = h[p].cut /\ r.list = h[p].list /\ r.patch = h[p].patch
    BY <1>1 DEF Requests
  <2> HIDE DEF r
  <2>3. Passes(p, "cv_number", "cv_resolve")
    BY <2>1, <2>2, TurnForm DEF Passes
  <2> QED
    BY <2>1, <2>3 DEF NumberedVersion, Advances
<1>9. CASE LockEntryForDelete(p)
  <2> DEFINE r == [h[p] EXCEPT !.pc = "de_count", !.eid = EntryIdOf(h[p].slug)]
  <2>1. /\ h' = [h EXCEPT ![p] = r] /\ h[p].pc = "de_lock"
        /\ HasEntry(h[p].slug)
        /\ CanLockEntry(p, EntryIdOf(h[p].slug), "X")
        /\ LockEntries(p, {EntryIdOf(h[p].slug)}, "X")
        /\ UNCHANGED <<tables, received>>
    BY <1>9 DEF LockEntryForDelete, At
  <2>2. /\ r.pc = "de_count" /\ r.seen = h[p].seen /\ r.eid = EntryIdOf(h[p].slug)
        /\ r.fresh = h[p].fresh
        /\ r.rows = h[p].rows /\ r.cut = h[p].cut /\ r.list = h[p].list /\ r.patch = h[p].patch
    BY <1>1 DEF Requests
  <2> HIDE DEF r
  <2>3. Turns(p, "de_lock", "de_count", h[p].seen, EntryIdOf(h[p].slug), h[p].fresh,
              h[p].rows, h[p].cut)
    BY <2>1, <2>2, TurnForm
  <2> QED
    BY <2>1, <2>3 DEF EntryLocked, Advances
<1>10. CASE UpsertEntry(p) /\ HasEntry(h[p].slug)
  <2> DEFINE r == [h[p] EXCEPT !.pc = "su_score", !.eid = EntryIdOf(h[p].slug)]
  <2>1. /\ h' = [h EXCEPT ![p] = r] /\ h[p].pc = "su_entry"
        /\ HasEntry(h[p].slug)
        /\ CanLockEntry(p, EntryIdOf(h[p].slug), "NKU")
        /\ LockEntries(p, {EntryIdOf(h[p].slug)}, "NKU")
        /\ UNCHANGED <<tables, received>>
    BY <1>10 DEF UpsertEntry, At
  <2>2. /\ r.pc = "su_score" /\ r.seen = h[p].seen /\ r.eid = EntryIdOf(h[p].slug)
        /\ r.fresh = h[p].fresh
        /\ r.rows = h[p].rows /\ r.cut = h[p].cut /\ r.list = h[p].list /\ r.patch = h[p].patch
    BY <1>1 DEF Requests
  <2> HIDE DEF r
  <2>3. Turns(p, "su_entry", "su_score", h[p].seen, EntryIdOf(h[p].slug), h[p].fresh,
              h[p].rows, h[p].cut)
    BY <2>1, <2>2, TurnForm
  <2> QED
    BY <2>1, <2>3 DEF EntryLocked, Advances
<1>11. CASE UpsertEntry(p) /\ ~HasEntry(h[p].slug)
  <2>1. PICK id \in FreshEntryIds :
          h' = [h EXCEPT ![p] = [h[p] EXCEPT !.pc = "su_score", !.eid = id,
                                             !.fresh = [id |-> id, slug |-> h[p].slug]]]
    BY <1>11 DEF UpsertEntry
  <2> DEFINE r == [h[p] EXCEPT !.pc = "su_score", !.eid = id,
                               !.fresh = [id |-> id, slug |-> h[p].slug]]
  <2>2. /\ h' = [h EXCEPT ![p] = r] /\ h[p].pc = "su_entry"
        /\ ~HasEntry(h[p].slug) /\ SlugFree(p, h[p].slug)
        /\ UNCHANGED <<tables, received, entryLocks>>
    BY <1>11, <2>1 DEF UpsertEntry, At
  <2>3. /\ r.pc = "su_score" /\ r.seen = h[p].seen /\ r.eid = id
        /\ r.fresh = [id |-> id, slug |-> h[p].slug]
        /\ r.rows = h[p].rows /\ r.cut = h[p].cut /\ r.list = h[p].list /\ r.patch = h[p].patch
    BY <1>1 DEF Requests
  <2> HIDE DEF r
  <2>4. Turns(p, "su_entry", "su_score", h[p].seen, id, [id |-> id, slug |-> h[p].slug],
              h[p].rows, h[p].cut)
    BY <2>2, <2>3, TurnForm
  <2> QED
    BY <2>2, <2>4 DEF EntryInserted, Advances
<1>12. CASE ResolveEntries(p)
  <2> DEFINE slugs == SlugsOf(h[p].list)
             idOf  == [s \in slugs |-> EntryIdOf(s)]
             found == PlacementRows(h[p].seen, h[p].list, idOf)
             r == [h[p] EXCEPT !.pc = "place", !.rows = found]
  <2>1. /\ h[p].pc = "cv_resolve"
        /\ \A s \in slugs : HasEntry(s)
        /\ h' = [h EXCEPT ![p] = r]
        /\ UNCHANGED <<tables, received, entryLocks>>
    BY <1>12 DEF ResolveEntries, At, locks
  <2> HIDE DEF found
  <2>2. /\ r.pc = "place" /\ r.seen = h[p].seen /\ r.eid = h[p].eid /\ r.fresh = h[p].fresh
        /\ r.rows = found /\ r.cut = h[p].cut /\ r.list = h[p].list /\ r.patch = h[p].patch
    BY <1>1 DEF Requests
  <2> HIDE DEF r
  <2>3. Turns(p, "cv_resolve", "place", h[p].seen, h[p].eid, h[p].fresh, found, h[p].cut)
    BY <2>1, <2>2, TurnForm
  <2> QED
    BY <2>1, <2>3 DEF EntriesResolved, Advances, found
<1>13. CASE ReadScores(p)
  <2> DEFINE read == {[id |-> a.id, rev |-> a.rev] : a \in Joined}
             r == [h[p] EXCEPT !.pc = "place", !.num = NextNumber, !.rows = ScoreRows, !.cut = read]
  <2>1. /\ h[p].pc = "sn_read"
        /\ Joined # {}
        /\ h' = [h EXCEPT ![p] = r]
        /\ UNCHANGED <<tables, received, entryLocks>>
    BY <1>13 DEF ReadScores, At, locks
  <2> HIDE DEF read
  <2>2. /\ r.pc = "place" /\ r.seen = h[p].seen /\ r.eid = h[p].eid /\ r.fresh = h[p].fresh
        /\ r.rows = ScoreRows /\ r.cut = read /\ r.list = h[p].list /\ r.patch = h[p].patch
    BY <1>1 DEF Requests
  <2> HIDE DEF r
  <2>3. Turns(p, "sn_read", "place", h[p].seen, h[p].eid, h[p].fresh, ScoreRows, read)
    BY <2>1, <2>2, TurnForm
  <2> QED
    BY <2>1, <2>3 DEF ScoresRead, Advances, read
<1> QED
  BY <1>2, <1>4, <1>5, <1>6, <1>7, <1>8, <1>9, <1>10, <1>11, <1>12, <1>13
     DEF Step, BoardStep, EntryStep, VersionStep, SubmitStep, DeadlockVictim, Commits

(* So every step of the system is one of few kinds.                        *)
LEMMA NextForm ==
    ASSUME TypeOK, [Next]_vars
    PROVE  \/ UNCHANGED vars \/ CreateBoard \/ Poll
           \/ \E p \in Handlers : Rollback(p) \/ Advances(p) \/ Commits(p)
<1>1. \A p \in Handlers : Start(p) => Advances(p)
  BY StartForm DEF Advances
<1> QED
  BY <1>1, StepForm DEF Next, Cancel

(* What is left of a request that has ended.                               *)
LEMMA EndForm ==
    ASSUME NEW p \in Handlers, TypeOK, Finish(p)
    PROVE  /\ Others(p)
           /\ h'[p].pc = "idle" /\ h'[p].fresh = None /\ h'[p].seen = None
           /\ h'[p].rows = {} /\ h'[p].cut = {}
           /\ entryLocks' = {l \in entryLocks : l.by # p}
<1>1. h'[p] = Idle /\ Others(p)
  BY DEF Finish, TypeOK, Others
<1> QED
  BY <1>1 DEF Idle, Finish

(* A step of a request that holds the board row is nobody else's business. *)
LEMMA OneHolder ==
    ASSUME HoldersExclude, NEW p \in Handlers, h[p].pc \in HolderPcs
    PROVE  \A q \in Handlers : q # p => h[q].pc \notin HolderPcs
BY DEF HoldersExclude

-----------------------------------------------------------------------------
(* The board row.                                                          *)

LEMMA NextBoard ==
    ASSUME IInv, SeenIsCurrent, KindKept, [Next]_vars
    PROVE  SeenIsCurrent' /\ KindKept'
<1> USE DEF SeenIsCurrent, KindKept
<1>1. TypeOK /\ HoldersExclude
  BY DEF IInv
<1>2. CASE UNCHANGED <<board, h>>
  BY <1>2
<1>3. CASE CreateBoard
  <2>1. PICK c \in Configs, id \in FreshBoardIds :
          board' = [id |-> id, type |-> c.type, accum |-> c.accum,
                    dir |-> c.dir, tiers |-> c.tiers]
    BY <1>3 DEF CreateBoard
  <2>2. board'.id = id /\ board'.accum = c.accum /\ board'.type = c.type
    BY <2>1
  <2>3. \A q \in Handlers : h[q].seen # None => h[q].seen.id # id
    BY DEF FreshBoardIds
  <2>4. c.accum => c.type = "scored"
    BY InputsAssumption
  <2>5. board = None /\ h' = h
    BY <1>3 DEF CreateBoard
  <2>6. SeenIsCurrent'
    BY <2>5
  <2> HIDE DEF SeenIsCurrent
  <2>7. KindKept'
    BY <2>2, <2>3, <2>4, <2>5
  <2> QED
    BY <2>6, <2>7
<1>4. ASSUME NEW p \in Handlers, Finish(p), UNCHANGED board
      PROVE  SeenIsCurrent' /\ KindKept'
  BY <1>1, <1>4, EndForm DEF Others, HolderPcs
<1>5. ASSUME NEW p \in Handlers, Begun(p)
      PROVE  SeenIsCurrent' /\ KindKept'
  BY <1>5 DEF Begun, StartPcs, Others, HolderPcs
<1>6. ASSUME NEW p \in Handlers,
             \/ LockedForDelete(p) \/ ScoreUpserted(p) \/ NumberedVersion(p)
             \/ CountedNone(p) \/ PlacementsInserted(p)
      PROVE  SeenIsCurrent' /\ KindKept'
  BY <1>6 DEF LockedForDelete, ScoreUpserted, NumberedVersion, CountedNone, PlacementsInserted,
     Passes, Turns, Others, HolderPcs
<1>7. ASSUME NEW p \in Handlers,
             \/ LockedBoard(p, "ub_lock", "ub_write") \/ LockedBoard(p, "cv_lock", "cv_number")
             \/ LockedBoard(p, "sn_lock", "sn_read")
      PROVE  SeenIsCurrent' /\ KindKept'
  BY <1>7 DEF LockedBoard, BoardThere, Turns, Others, HolderPcs
<1>8. ASSUME NEW p \in Handlers,
             \/ EntryLocked(p, "de_lock", "de_count", "X") \/ EntryLocked(p, "su_entry", "su_score", "NKU")
             \/ EntryInserted(p) \/ EntriesResolved(p) \/ ScoresRead(p)
      PROVE  SeenIsCurrent' /\ KindKept'
  <2>1. /\ Others(p) /\ h'[p].seen = h[p].seen /\ board' = board
        /\ h[p].pc # "idle"
        /\ h'[p].pc \notin {"sn_lock", "sn_read", "cv_lock", "cv_number", "cv_resolve"}
        /\ h'[p].pc \in HolderPcs => h[p].pc \in HolderPcs \ {"db_cascade"}
    <3>1. CASE EntryLocked(p, "de_lock", "de_count", "X") \/ EntryLocked(p, "su_entry", "su_score", "NKU")
      BY <3>1 DEF EntryLocked, Turns, HolderPcs
    <3>2. CASE EntryInserted(p)
      BY <3>2 DEF EntryInserted, Turns, HolderPcs
    <3>3. CASE EntriesResolved(p)
      BY <3>3 DEF EntriesResolved, Turns, HolderPcs
    <3>4. CASE ScoresRead(p)
      BY <3>4 DEF ScoresRead, Turns, HolderPcs
    <3> QED
      BY <1>8, <3>1, <3>2, <3>3, <3>4
  <2> QED
    BY <2>1 DEF Others
<1>9. ASSUME NEW p \in Handlers, WriteBoard(p), ~Rollback(p)
      PROVE  SeenIsCurrent' /\ KindKept'
  <2>1. /\ h[p].pc = "ub_write" /\ Finish(p)
        /\ board' = Patched(h[p].seen, h[p].patch)
    BY <1>9 DEF WriteBoard, At
  <2>2. board # None /\ h[p].seen = board /\ board \in BoardRows
    BY <1>1, <2>1 DEF HolderPcs, TypeOK
  <2>3. board'.id = board.id /\ board'.type = board.type /\ board'.accum = board.accum
    BY <2>1, <2>2 DEF Patched, BoardRows
  <2>4. \A q \in Handlers : q # p => h[q].pc \notin HolderPcs
    BY <1>1, <2>1, OneHolder DEF HolderPcs
  <2> QED
    BY <1>1, <2>1, <2>2, <2>3, <2>4, EndForm DEF Others, HolderPcs
<1>10. ASSUME NEW p \in Handlers, CascadeDelete(p)
       PROVE  SeenIsCurrent' /\ KindKept'
  <2>1. h[p].pc = "db_cascade" /\ Finish(p) /\ board' = None
    BY <1>10 DEF CascadeDelete, At
  <2>2. \A q \in Handlers : q # p => h[q].pc \notin HolderPcs
    BY <1>1, <2>1, OneHolder DEF HolderPcs
  <2> QED
    BY <1>1, <2>1, <2>2, EndForm DEF Others, HolderPcs
<1>11. ASSUME NEW p \in Handlers, Rollback(p) \/ Commits(p)
       PROVE  SeenIsCurrent' /\ KindKept'
  <2>1. \/ Finish(p) /\ UNCHANGED board
        \/ WriteBoard(p) /\ ~Rollback(p)
        \/ CascadeDelete(p)
    BY <1>11 DEF Commits, Rollback, tables, InsertEntry, DeleteEntry, CommitVersion, CommitSubmit
  <2> QED
    BY <2>1, <1>4, <1>9, <1>10
<1> QED
  BY <1>1, <1>2, <1>3, <1>5, <1>6, <1>7, <1>8, <1>11, NextForm DEF Advances, vars, tables, Poll

-----------------------------------------------------------------------------
(* The entries.                                                            *)

(* An id that is drawn for an entry is new.                                *)
LEMMA FreshIds ==
    ASSUME NEW id \in FreshEntryIds
    PROVE  /\ \A e \in entries : e.id # id
           /\ \A q \in Handlers : \A r \in h[q].rows : r.id # id
           /\ \A q \in Handlers : h[q].fresh # None => h[q].fresh.id # id
<1> DEFINE built == {{r.id : r \in h[q].rows} : q \in Handlers}
           mine == {h[q].fresh.id : q \in {r \in Handlers : h[r].fresh # None}}
<1>1. id \notin LiveEntryIds \cup (UNION built) \cup mine
  BY Zenon DEF FreshEntryIds
<1>2. \A e \in entries : e.id # id
  BY <1>1 DEF LiveEntryIds
<1> HIDE DEF mine
<1>3. ASSUME NEW q \in Handlers, NEW r \in h[q].rows
      PROVE  r.id # id
  <2>1. {s.id : s \in h[q].rows} \in built
    OBVIOUS
  <2>2. r.id \in {s.id : s \in h[q].rows}
    OBVIOUS
  <2>3. r.id \in UNION built
    BY <2>1, <2>2, Zenon
  <2> QED
    BY <1>1, <2>3
<1>4. ASSUME NEW q \in Handlers, h[q].fresh # None
      PROVE  h[q].fresh.id # id
  <2>1. h[q].fresh.id \in mine
    BY <1>4 DEF mine
  <2> QED
    BY <1>1, <2>1, Zenon
<1> QED
  BY <1>2, <1>3, <1>4

(* Every row built for a placement list has the id found for its slug.     *)
LEMMA PlacementRowFrom ==
    ASSUME NEW row, NEW list, NEW idOf, NEW r \in PlacementRows(row, list, idOf)
    PROVE  r.slug \in SlugsOf(list) /\ r.id = idOf[r.slug]
<1>1. PICK i \in Indices(list) :
        r = [id |-> idOf[list[i].slug], slug |-> list[i].slug,
             pos |-> ResolvedPosition(row, list, i), score |-> list[i].score, tier |-> list[i].tier]
  BY DEF PlacementRows
<1>2. r.slug = list[i].slug /\ r.id = idOf[list[i].slug]
  BY <1>1
<1>3. list[i].slug \in SlugsOf(list)
  BY <1>1 DEF SlugsOf
<1> QED
  BY <1>2, <1>3

(* Which requests have inserted an entry, and which rows exist, changes    *)
(* only where a request says so.                                           *)
LEMMA NextEntries ==
    ASSUME IInv, EntriesUnique, FreshIsNew, [Next]_vars
    PROVE  EntriesUnique' /\ FreshIsNew'
<1> USE DEF EntriesUnique, FreshIsNew
<1>1. TypeOK
  BY DEF IInv
<1>2. CASE UNCHANGED <<entries, h>>
  BY <1>2
<1>3. ASSUME NEW p \in Handlers, Others(p), h'[p].fresh = None \/ h'[p].fresh = h[p].fresh,
             h'[p].rows = {} \/ h'[p].rows = h[p].rows, entries' \subseteq entries
      PROVE  EntriesUnique' /\ FreshIsNew'
  BY <1>3 DEF Others
<1>4. ASSUME NEW p \in Handlers, Finish(p), entries' \subseteq entries
      PROVE  EntriesUnique' /\ FreshIsNew'
  BY <1>1, <1>3, <1>4, EndForm
<1>5. ASSUME NEW p \in Handlers,
             \/ Begun(p)
             \/ LockedBoard(p, "ub_lock", "ub_write") \/ LockedBoard(p, "cv_lock", "cv_number")
             \/ LockedBoard(p, "sn_lock", "sn_read")
             \/ LockedForDelete(p) \/ ScoreUpserted(p) \/ NumberedVersion(p)
             \/ CountedNone(p) \/ PlacementsInserted(p)
             \/ EntryLocked(p, "de_lock", "de_count", "X") \/ EntryLocked(p, "su_entry", "su_score", "NKU")
      PROVE  EntriesUnique' /\ FreshIsNew'
  <2>1. /\ Others(p) /\ entries' = entries
        /\ h'[p].fresh = None \/ h'[p].fresh = h[p].fresh
        /\ h'[p].rows = {} \/ h'[p].rows = h[p].rows
    BY <1>5 DEF Begun, LockedBoard, LockedForDelete, ScoreUpserted, NumberedVersion, CountedNone,
       PlacementsInserted, EntryLocked, Passes, Turns
  <2> QED
    BY <1>3, <2>1
<1>6. ASSUME NEW p \in Handlers, EntryInserted(p)
      PROVE  EntriesUnique' /\ FreshIsNew'
  <2>1. PICK id \in FreshEntryIds :
          /\ Others(p) /\ h'[p].fresh = [id |-> id, slug |-> h[p].slug] /\ h'[p].rows = h[p].rows
          /\ entries' = entries
    BY <1>6 DEF EntryInserted, Turns
  <2>2. ~HasEntry(h[p].slug) /\ SlugFree(p, h[p].slug)
    BY <1>6 DEF EntryInserted
  <2>3. /\ \A e \in entries : e.id # id /\ e.slug # h[p].slug
        /\ \A q \in Handlers : \A r \in h[q].rows : r.id # id
        /\ \A q \in Handlers \ {p} : h[q].fresh # None => h[q].fresh.id # id /\ h[q].fresh.slug # h[p].slug
    BY <2>2, FreshIds DEF HasEntry, SlugFree
  <2>4. h'[p].fresh.id = id /\ h'[p].fresh.slug = h[p].slug
    BY <2>1
  <2> QED
    BY <2>1, <2>3, <2>4 DEF Others
<1>7. ASSUME NEW p \in Handlers, NEW ids, Others(p), h'[p].fresh = h[p].fresh, UNCHANGED entries,
             \A r \in h'[p].rows : \E e \in entries : e.id = r.id
      PROVE  EntriesUnique' /\ FreshIsNew'
  BY <1>7 DEF Others
<1>8. ASSUME NEW p \in Handlers, EntriesResolved(p)
      PROVE  EntriesUnique' /\ FreshIsNew'
  <2> DEFINE slugs == SlugsOf(h[p].list)
             idOf  == [s \in slugs |-> EntryIdOf(s)]
             found == PlacementRows(h[p].seen, h[p].list, idOf)
  <2>1. /\ Others(p) /\ h'[p].fresh = h[p].fresh /\ UNCHANGED entries
        /\ h'[p].rows = found
        /\ \A s \in slugs : HasEntry(s)
    BY <1>8 DEF EntriesResolved, Turns
  <2>2. \A s \in slugs : \E e \in entries : e.id = idOf[s]
    BY <2>1 DEF HasEntry, EntryIdOf
  <2>3. \A r \in found : \E s \in slugs : r.id = idOf[s]
    <3> SUFFICES ASSUME NEW r \in found
                 PROVE  \E s \in slugs : r.id = idOf[s]
      OBVIOUS
    <3> HIDE DEF idOf
    <3> QED
      BY PlacementRowFrom
  <2> HIDE DEF found, idOf, slugs
  <2> QED
    BY <1>7, <2>1, <2>2, <2>3
<1>9. ASSUME NEW p \in Handlers, ScoresRead(p)
      PROVE  EntriesUnique' /\ FreshIsNew'
  <2>1. /\ Others(p) /\ h'[p].fresh = h[p].fresh /\ UNCHANGED entries /\ h'[p].rows = ScoreRows
    BY <1>9 DEF ScoresRead, Turns
  <2>2. \A r \in ScoreRows : \E e \in entries : e.id = r.id
    BY DEF ScoreRows, Joined, LiveEntryIds
  <2> QED
    BY <1>7, <2>1, <2>2
<1>10. ASSUME NEW p \in Handlers, NEW e, Finish(p), entries' = entries \cup {e},
              \A d \in entries : d.id # e.id /\ d.slug # e.slug,
              \A q \in Handlers : q # p /\ h[q].fresh # None =>
                  h[q].fresh.id # e.id /\ h[q].fresh.slug # e.slug
       PROVE  EntriesUnique' /\ FreshIsNew'
  BY <1>1, <1>10, EndForm DEF Others
<1>11. ASSUME NEW p \in Handlers, InsertEntry(p), ~Rollback(p)
       PROVE  EntriesUnique' /\ FreshIsNew'
  <2>1. PICK id \in FreshEntryIds : entries' = entries \cup {[id |-> id, slug |-> h[p].slug]}
    BY <1>11 DEF InsertEntry
  <2>2. Finish(p) /\ ~HasEntry(h[p].slug) /\ SlugFree(p, h[p].slug)
    BY <1>11 DEF InsertEntry
  <2> DEFINE e == [id |-> id, slug |-> h[p].slug]
  <2>3. e.id = id /\ e.slug = h[p].slug
    OBVIOUS
  <2>4. entries' = entries \cup {e}
    BY <2>1
  <2> HIDE DEF e
  <2>5. /\ \A d \in entries : d.id # e.id /\ d.slug # e.slug
        /\ \A q \in Handlers : q # p /\ h[q].fresh # None =>
             h[q].fresh.id # e.id /\ h[q].fresh.slug # e.slug
    BY <2>2, <2>3, FreshIds DEF HasEntry, SlugFree
  <2> QED
    BY <1>10, <2>2, <2>4, <2>5
<1>12. ASSUME NEW p \in Handlers, CommitSubmit(p)
       PROVE  EntriesUnique' /\ FreshIsNew'
  <2>1. CASE h[p].fresh = None
    BY <1>4, <1>12, <2>1 DEF CommitSubmit
  <2>2. CASE h[p].fresh # None
    <3>1. Finish(p) /\ entries' = entries \cup {h[p].fresh}
      BY <1>12, <2>2 DEF CommitSubmit
    <3> QED
      BY <1>10, <2>2, <3>1
  <2> QED
    BY <2>1, <2>2
<1>13. ASSUME NEW p \in Handlers, Rollback(p) \/ Commits(p)
       PROVE  EntriesUnique' /\ FreshIsNew'
  <2>1. \/ Finish(p) /\ entries' \subseteq entries
        \/ InsertEntry(p) /\ ~Rollback(p)
        \/ CommitSubmit(p)
    BY <1>13 DEF Commits, Rollback, tables, WriteBoard, CascadeDelete, DeleteEntry, CommitVersion
  <2> QED
    BY <2>1, <1>4, <1>11, <1>12
<1> QED
  BY <1>1, <1>2, <1>5, <1>6, <1>8, <1>9, <1>13, NextForm
     DEF Advances, vars, tables, Poll, CreateBoard

-----------------------------------------------------------------------------
(* The locks.                                                              *)

(* Taking a lock that conflicts with nobody's leaves no two locks that do. *)
LEMMA LockCompatibly ==
    ASSUME LocksCompatible, NEW p, NEW ids, NEW mode, LockEntries(p, ids, mode),
           \A i \in ids : CanLockEntry(p, i, mode)
    PROVE  LocksCompatible' /\ entryLocks \subseteq entryLocks'
<1> DEFINE new == {[by |-> p, id |-> i, mode |-> mode] : i \in ids}
<1>1. entryLocks' = entryLocks \cup new
  BY DEF LockEntries
<1>2. \A l \in new : l.by = p /\ l.mode = mode /\ l.id \in ids
  OBVIOUS
<1> HIDE DEF new
<1>3. \A l \in new, m \in entryLocks : l.id = m.id /\ l.by # m.by =>
        Compatible(l.mode, m.mode) /\ Compatible(m.mode, l.mode)
  BY <1>2 DEF CanLockEntry, Compatible
<1>4. \A l, m \in new : l.by = m.by
  BY <1>2
<1>5. \A l, m \in entryLocks' : l.id = m.id /\ l.by # m.by => Compatible(l.mode, m.mode)
  BY <1>1, <1>3, <1>4 DEF LocksCompatible
<1> QED
  BY <1>1, <1>5 DEF LocksCompatible

(* Who holds an entry for deletion keeps every other lock away from it.    *)
LEMMA NextLocks ==
    ASSUME IInv, LocksCompatible, LocksHeld, [Next]_vars
    PROVE  LocksCompatible' /\ LocksHeld'
<1>1. TypeOK
  BY DEF IInv
<1>2. CASE UNCHANGED <<h, entryLocks>>
  BY <1>2 DEF LocksCompatible, LocksHeld
<1>3. ASSUME NEW p \in Handlers, Finish(p)
      PROVE  LocksCompatible' /\ LocksHeld'
  <2>1. /\ Others(p) /\ h'[p].pc = "idle"
        /\ entryLocks' = {l \in entryLocks : l.by # p}
    BY <1>1, <1>3, EndForm
  <2>2. LocksCompatible'
    BY <2>1 DEF LocksCompatible
  <2>3. LocksHeld'
    BY <2>1 DEF LocksHeld, Others
  <2> QED
    BY <2>2, <2>3
<1>4. ASSUME NEW p \in Handlers, Others(p), UNCHANGED entryLocks,
             h'[p].pc \notin {"de_count", "de_delete", "commit"}
      PROVE  LocksCompatible' /\ LocksHeld'
  BY <1>4 DEF LocksCompatible, LocksHeld, Others
<1>5. ASSUME NEW p \in Handlers, Begun(p)
      PROVE  LocksCompatible' /\ LocksHeld'
  BY <1>4, <1>5 DEF Begun, StartPcs
<1>6. ASSUME NEW p \in Handlers,
             \/ LockedBoard(p, "ub_lock", "ub_write") \/ LockedBoard(p, "cv_lock", "cv_number")
             \/ LockedBoard(p, "sn_lock", "sn_read")
             \/ LockedForDelete(p) \/ ScoreUpserted(p) \/ NumberedVersion(p)
      PROVE  LocksCompatible' /\ LocksHeld'
  BY <1>4, <1>6 DEF LockedBoard, LockedForDelete, ScoreUpserted, NumberedVersion, Passes, Turns
<1>7. ASSUME NEW p \in Handlers, EntryInserted(p) \/ EntriesResolved(p) \/ ScoresRead(p)
      PROVE  LocksCompatible' /\ LocksHeld'
  <2>1. /\ Others(p) /\ UNCHANGED entryLocks
        /\ h'[p].pc \notin {"de_count", "de_delete", "commit"}
    BY <1>7 DEF EntryInserted, EntriesResolved, ScoresRead, Turns
  <2> QED
    BY <1>4, <2>1
<1>8. ASSUME NEW p \in Handlers, CountedNone(p)
      PROVE  LocksCompatible' /\ LocksHeld'
  <2>1. /\ Others(p) /\ UNCHANGED entryLocks
        /\ h[p].pc = "de_count" /\ h'[p].pc = "de_delete" /\ h'[p].eid = h[p].eid
    BY <1>8 DEF CountedNone, Passes, Turns
  <2> QED
    BY <2>1 DEF LocksCompatible, LocksHeld, Others
<1>9. ASSUME NEW p \in Handlers, PlacementsInserted(p)
      PROVE  LocksCompatible' /\ LocksHeld'
  <2> DEFINE ids == {r.id : r \in h[p].rows}
  <2>1. /\ Others(p) /\ h'[p].pc = "commit" /\ h'[p].rows = h[p].rows
        /\ \A i \in ids : CanLockEntry(p, i, "KS")
        /\ LockEntries(p, ids, "KS")
    BY <1>9 DEF PlacementsInserted, Passes, Turns
  <2>2. LocksCompatible' /\ entryLocks \subseteq entryLocks'
    BY <2>1, LockCompatibly
  <2>3. \A r \in h[p].rows : [by |-> p, id |-> r.id, mode |-> "KS"] \in entryLocks'
    BY <2>1 DEF LockEntries
  <2>4. LocksHeld'
    BY <2>1, <2>2, <2>3 DEF LocksHeld, Others
  <2> QED
    BY <2>2, <2>4
<1>10. ASSUME NEW p \in Handlers, NEW to, NEW from, NEW mode, EntryLocked(p, from, to, mode),
              (to = "de_count" /\ mode = "X") \/ to = "su_score"
       PROVE  LocksCompatible' /\ LocksHeld'
  <2> DEFINE id == EntryIdOf(h[p].slug)
  <2>1. /\ Others(p) /\ h'[p].pc = to /\ h'[p].eid = id
        /\ CanLockEntry(p, id, mode)
        /\ LockEntries(p, {id}, mode)
    BY <1>10 DEF EntryLocked, Turns
  <2> HIDE DEF id
  <2>2. LocksCompatible' /\ entryLocks \subseteq entryLocks'
    BY <2>1, LockCompatibly
  <2>3. [by |-> p, id |-> id, mode |-> mode] \in entryLocks'
    BY <2>1 DEF LockEntries
  <2>4. LocksHeld'
    BY <1>10, <2>1, <2>2, <2>3 DEF LocksHeld, Others
  <2> QED
    BY <2>2, <2>4
<1>11. ASSUME NEW p \in Handlers, Rollback(p) \/ Commits(p)
       PROVE  Finish(p)
  BY <1>11 DEF Rollback, Commits, WriteBoard, CascadeDelete, InsertEntry, DeleteEntry, CommitVersion,
     CommitSubmit
<1> QED
  BY <1>1, <1>2, <1>3, <1>5, <1>6, <1>7, <1>8, <1>9, <1>10, <1>11, NextForm
     DEF Advances, vars, locks, Poll, CreateBoard

-----------------------------------------------------------------------------
(* The placements.                                                         *)

(* Deriving positions changes nothing but positions.                       *)
LEMMA DerivedRowsKeep ==
    ASSUME NEW row, NEW rows \in SUBSET PlacementRow
    PROVE  /\ \A d \in DerivedRows(row, rows) : \E r \in rows : d.id = r.id /\ d.slug = r.slug
           /\ \A r \in rows : \E d \in DerivedRows(row, rows) : d.id = r.id
<1>1. CASE row.type = "scored"
  <2> DEFINE with(r) == [r EXCEPT !.pos = DerivedPosition(r, rows, row.dir)]
  <2>1. DerivedRows(row, rows) = {with(r) : r \in rows}
    BY <1>1 DEF DerivedRows, DeriveScoredPositions
  <2>2. \A r \in rows : with(r).id = r.id /\ with(r).slug = r.slug
    BY DEF PlacementRow
  <2> HIDE DEF with
  <2> QED
    BY <2>1, <2>2
<1>2. CASE row.type # "scored"
  BY <1>2 DEF DerivedRows
<1> QED
  BY <1>1, <1>2

(* The rows built for a placement list name the entries found for it.      *)
LEMMA ResolvedRows ==
    ASSUME EntriesUnique, NEW row, NEW list \in Lists, ValidPlacements(row, list),
           \A s \in SlugsOf(list) : HasEntry(s),
           NEW rows, rows = PlacementRows(row, list, [s \in SlugsOf(list) |-> EntryIdOf(s)])
    PROVE  /\ rows # {}
           /\ \A r \in rows, e \in entries : e.id = r.id => e.slug = r.slug
<1> DEFINE idOf == [s \in SlugsOf(list) |-> EntryIdOf(s)]
<1>1. \A s \in SlugsOf(list) : \E e \in entries : e.slug = s /\ e.id = idOf[s]
  <2> SUFFICES ASSUME NEW s \in SlugsOf(list)
               PROVE  \E e \in entries : e.slug = s /\ e.id = idOf[s]
    OBVIOUS
  <2>1. (CHOOSE e \in entries : e.slug = s) \in entries /\ (CHOOSE e \in entries : e.slug = s).slug = s
    BY DEF HasEntry
  <2>2. idOf[s] = (CHOOSE e \in entries : e.slug = s).id
    BY DEF EntryIdOf
  <2> QED
    BY <2>1, <2>2
<1> HIDE DEF idOf
<1>2. \A r \in rows : r.slug \in SlugsOf(list) /\ r.id = idOf[r.slug]
  BY PlacementRowFrom DEF idOf
<1>3. \A r \in rows, e \in entries : e.id = r.id => e.slug = r.slug
  BY <1>1, <1>2 DEF EntriesUnique
<1>4. rows # {}
  <2>1. list \in Seq(Placement) /\ list # << >>
    BY InputsAssumption DEF ValidPlacements, NonEmpty
  <2>2. 1 \in Indices(list)
    BY <2>1 DEF Indices
  <2> QED
    BY <2>2 DEF PlacementRows
<1> QED
  BY <1>3, <1>4

(* The rows of a snapshot name the entries they were joined with.          *)
LEMMA ScoreRowsName ==
    ASSUME EntriesUnique
    PROVE  /\ Joined # {} => ScoreRows # {}
           /\ \A r \in ScoreRows, e \in entries : e.id = r.id => e.slug = r.slug
<1> SUFFICES ASSUME NEW r \in ScoreRows, NEW e \in entries, e.id = r.id
             PROVE  e.slug = r.slug
  BY DEF ScoreRows
<1>1. PICK a \in Joined : r.id = a.id /\ r.slug = (CHOOSE d \in entries : d.id = a.id).slug
  BY DEF ScoreRows
<1>2. /\ (CHOOSE d \in entries : d.id = a.id) \in entries
      /\ (CHOOSE d \in entries : d.id = a.id).id = a.id
  BY <1>1
<1> QED
  BY <1>1, <1>2 DEF EntriesUnique

(* An entry that has no placements takes none with it.                     *)
LEMMA NothingCascades ==
    ASSUME TypeOK, NEW id, ~HasPlacements(id)
    PROVE  {[v EXCEPT !.rows = {r \in v.rows : r.id # id}] : v \in versions} = versions
<1>1. ASSUME NEW v \in versions
      PROVE  [v EXCEPT !.rows = {r \in v.rows : r.id # id}] = v
  <2>1. {r \in v.rows : r.id # id} = v.rows
    BY DEF HasPlacements
  <2>2. v \in VersionRows
    BY DEF TypeOK
  <2> QED
    BY <2>1, <2>2 DEF VersionRows
<1> QED
  BY <1>1

(* An entry locked for deletion is placed by nobody.                       *)
LEMMA DeletedIsNotPlaced ==
    ASSUME LocksCompatible, LocksHeld, NEW p \in Handlers, NEW q \in Handlers,
           h[p].pc = "de_delete", h[q].pc = "commit"
    PROVE  \A r \in h[q].rows : r.id # h[p].eid
<1> SUFFICES ASSUME NEW r \in h[q].rows, r.id = h[p].eid
             PROVE  FALSE
  OBVIOUS
<1> DEFINE l == [by |-> p, id |-> h[p].eid, mode |-> "X"]
           m == [by |-> q, id |-> r.id, mode |-> "KS"]
<1>1. l \in entryLocks /\ m \in entryLocks
  BY DEF LocksHeld
<1>2. l.id = m.id /\ l.by # m.by /\ l.mode = "X"
  OBVIOUS
<1> HIDE DEF l, m
<1> QED
  BY <1>1, <1>2 DEF LocksCompatible, Compatible

(* Deleting never takes placements with it.                                *)
LEMMA NextRows ==
    ASSUME IInv, EntriesUnique, FreshIsNew, LocksCompatible, LocksHeld,
           RowsBuilt, PlacementsKeepTheirEntries, [Next]_vars
    PROVE  RowsBuilt' /\ PlacementsKeepTheirEntries'
<1>1. TypeOK /\ HoldersExclude
  BY DEF IInv
<1>2. CASE UNCHANGED <<h, entries, versions>>
  BY <1>2 DEF RowsBuilt, PlacementsKeepTheirEntries, HasPlacements
<1>3. ASSUME NEW p \in Handlers, Others(p), UNCHANGED <<entries, versions>>,
             h'[p].pc \notin {"cv_resolve", "place", "commit", "de_delete"}
      PROVE  RowsBuilt' /\ PlacementsKeepTheirEntries'
  BY <1>3 DEF RowsBuilt, PlacementsKeepTheirEntries, HasPlacements, Others
<1>4. ASSUME NEW p \in Handlers, Begun(p)
      PROVE  RowsBuilt' /\ PlacementsKeepTheirEntries'
  BY <1>3, <1>4 DEF Begun, StartPcs
<1>5. ASSUME NEW p \in Handlers,
             \/ LockedBoard(p, "ub_lock", "ub_write") \/ LockedBoard(p, "cv_lock", "cv_number")
             \/ LockedBoard(p, "sn_lock", "sn_read")
             \/ LockedForDelete(p) \/ ScoreUpserted(p)
      PROVE  RowsBuilt' /\ PlacementsKeepTheirEntries'
  BY <1>3, <1>5 DEF LockedBoard, LockedForDelete, ScoreUpserted, Passes, Turns
<1>6. ASSUME NEW p \in Handlers,
             \/ EntryLocked(p, "de_lock", "de_count", "X") \/ EntryLocked(p, "su_entry", "su_score", "NKU")
             \/ EntryInserted(p)
      PROVE  RowsBuilt' /\ PlacementsKeepTheirEntries'
  BY <1>3, <1>6 DEF EntryLocked, EntryInserted, Turns
<1>7. ASSUME NEW p \in Handlers, NumberedVersion(p)
      PROVE  RowsBuilt' /\ PlacementsKeepTheirEntries'
  BY <1>7 DEF NumberedVersion, Passes, Turns, Others, RowsBuilt, PlacementsKeepTheirEntries, HasPlacements
<1>8. ASSUME NEW p \in Handlers, CountedNone(p)
      PROVE  RowsBuilt' /\ PlacementsKeepTheirEntries'
  BY <1>8 DEF CountedNone, Passes, Turns, Others, RowsBuilt, PlacementsKeepTheirEntries, HasPlacements
<1>9. ASSUME NEW p \in Handlers, Others(p), UNCHANGED <<entries, versions>>, h'[p].pc = "place",
             h'[p].rows # {},
             \A r \in h'[p].rows, e \in entries : e.id = r.id => e.slug = r.slug
      PROVE  RowsBuilt' /\ PlacementsKeepTheirEntries'
  BY <1>9 DEF RowsBuilt, PlacementsKeepTheirEntries, HasPlacements, Others
<1>10. ASSUME NEW p \in Handlers, EntriesResolved(p)
       PROVE  RowsBuilt' /\ PlacementsKeepTheirEntries'
  <2> DEFINE list == h[p].list
  <2>1. /\ Others(p) /\ UNCHANGED <<entries, versions>>
        /\ h[p].pc = "cv_resolve" /\ h'[p].pc = "place"
        /\ h'[p].rows = PlacementRows(h[p].seen, list, [s \in SlugsOf(list) |-> EntryIdOf(s)])
        /\ \A s \in SlugsOf(list) : HasEntry(s)
    BY <1>10 DEF EntriesResolved, Turns
  <2>2. list \in Lists /\ ValidPlacements(h[p].seen, list)
    BY <1>1, <2>1 DEF TypeOK, RequestOK, RowsBuilt
  <2> HIDE DEF list
  <2>3. /\ h'[p].rows # {}
        /\ \A r \in h'[p].rows, e \in entries : e.id = r.id => e.slug = r.slug
    BY <2>1, <2>2, ResolvedRows
  <2> QED
    BY <1>9, <2>1, <2>3
<1>11. ASSUME NEW p \in Handlers, ScoresRead(p)
       PROVE  RowsBuilt' /\ PlacementsKeepTheirEntries'
  <2>1. /\ Others(p) /\ UNCHANGED <<entries, versions>>
        /\ h'[p].pc = "place" /\ h'[p].rows = ScoreRows /\ Joined # {}
    BY <1>11 DEF ScoresRead, Turns
  <2> QED
    BY <1>9, <2>1, ScoreRowsName
<1>12. ASSUME NEW p \in Handlers, PlacementsInserted(p)
       PROVE  RowsBuilt' /\ PlacementsKeepTheirEntries'
  <2>1. /\ Others(p) /\ UNCHANGED <<entries, versions>>
        /\ h[p].pc = "place" /\ h'[p].pc = "commit" /\ h'[p].rows = h[p].rows
        /\ {r.id : r \in h[p].rows} \subseteq LiveEntryIds
    BY <1>12 DEF PlacementsInserted, Passes, Turns
  <2>2. \A r \in h[p].rows : [id |-> r.id, slug |-> r.slug] \in entries
    <3> SUFFICES ASSUME NEW r \in h[p].rows
                 PROVE  [id |-> r.id, slug |-> r.slug] \in entries
      OBVIOUS
    <3>1. PICK e \in entries : e.id = r.id
      BY <2>1 DEF LiveEntryIds
    <3>2. e.slug = r.slug /\ e \in EntryRows
      BY <1>1, <2>1, <3>1 DEF RowsBuilt, TypeOK
    <3>3. e = [id |-> r.id, slug |-> r.slug]
      BY <3>1, <3>2 DEF EntryRows
    <3> QED
      BY <3>3
  <2> QED
    BY <2>1, <2>2 DEF RowsBuilt, PlacementsKeepTheirEntries, HasPlacements, Others
<1>13. ASSUME NEW p \in Handlers, NEW e, Finish(p), UNCHANGED versions, entries' \subseteq entries \cup {e},
              entries \subseteq entries', \A q \in Handlers : \A r \in h[q].rows : r.id # e.id
       PROVE  RowsBuilt' /\ PlacementsKeepTheirEntries'
  <2>1. Others(p) /\ h'[p].pc = "idle"
    BY <1>1, <1>13, EndForm
  <2> QED
    BY <1>13, <2>1 DEF RowsBuilt, PlacementsKeepTheirEntries, HasPlacements, Others
<1>14. ASSUME NEW p \in Handlers, Finish(p), UNCHANGED <<entries, versions>>
       PROVE  RowsBuilt' /\ PlacementsKeepTheirEntries'
  BY <1>1, <1>3, <1>14, EndForm
<1>15. ASSUME NEW p \in Handlers, InsertEntry(p), ~Rollback(p)
       PROVE  RowsBuilt' /\ PlacementsKeepTheirEntries'
  <2>1. PICK id \in FreshEntryIds : entries' = entries \cup {[id |-> id, slug |-> h[p].slug]}
    BY <1>15 DEF InsertEntry
  <2>2. Finish(p) /\ UNCHANGED versions
    BY <1>15 DEF InsertEntry
  <2> DEFINE e == [id |-> id, slug |-> h[p].slug]
  <2>3. e.id = id /\ entries' = entries \cup {e}
    BY <2>1
  <2> HIDE DEF e
  <2>4. \A q \in Handlers : \A r \in h[q].rows : r.id # e.id
    BY <2>3, FreshIds
  <2> QED
    BY <1>13, <2>2, <2>3, <2>4
<1>16. ASSUME NEW p \in Handlers, CommitSubmit(p)
       PROVE  RowsBuilt' /\ PlacementsKeepTheirEntries'
  <2>1. CASE h[p].fresh = None
    BY <1>14, <1>16, <2>1 DEF CommitSubmit
  <2>2. CASE h[p].fresh # None
    <3>1. Finish(p) /\ UNCHANGED versions /\ entries' = entries \cup {h[p].fresh}
      BY <1>16, <2>2 DEF CommitSubmit
    <3>2. \A q \in Handlers : \A r \in h[q].rows : r.id # h[p].fresh.id
      BY <2>2 DEF FreshIsNew
    <3> QED
      BY <1>13, <3>1, <3>2
  <2> QED
    BY <2>1, <2>2
<1>17. ASSUME NEW p \in Handlers, DeleteEntry(p)
       PROVE  RowsBuilt' /\ PlacementsKeepTheirEntries'
  <2> DEFINE eid == h[p].eid
  <2>1. /\ h[p].pc = "de_delete" /\ Finish(p)
        /\ entries' = {e \in entries : e.id # eid}
        /\ versions' = {[v EXCEPT !.rows = {r \in v.rows : r.id # eid}] : v \in versions}
    BY <1>17 DEF DeleteEntry, At
  <2>2. ~HasPlacements(eid)
    BY <2>1 DEF RowsBuilt
  <2>3. versions' = versions
    BY <1>1, <2>1, <2>2, NothingCascades
  <2>4. Others(p) /\ h'[p].pc = "idle"
    BY <1>1, <2>1, EndForm
  <2>5. \A q \in Handlers : h[q].pc = "commit" => \A r \in h[q].rows : r.id # eid
    BY <2>1, DeletedIsNotPlaced
  <2> HIDE DEF eid
  <2>6. RowsBuilt'
    BY <2>1, <2>3, <2>4, <2>5 DEF RowsBuilt, HasPlacements, Others
  <2>7. PlacementsKeepTheirEntries'
    BY <2>1, <2>2, <2>3 DEF PlacementsKeepTheirEntries, HasPlacements
  <2> QED
    BY <2>6, <2>7
<1>18. ASSUME NEW p \in Handlers, CommitVersion(p)
       PROVE  RowsBuilt' /\ PlacementsKeepTheirEntries'
  <2> DEFINE rows == DerivedRows(h[p].seen, h[p].rows)
             new == [num |-> h[p].num, rows |-> rows, cut |-> h[p].cut, limited |-> h[p].limited]
  <2>1. /\ h[p].pc = "commit" /\ Finish(p) /\ entries' = entries
        /\ versions' = versions \cup {new}
    BY <1>18 DEF CommitVersion, At
  <2>2. new.rows = rows
    OBVIOUS
  <2>3. h[p].rows \in SUBSET PlacementRow
    BY <1>1 DEF TypeOK, Requests
  <2>4. /\ \A d \in rows : \E r \in h[p].rows : d.id = r.id /\ d.slug = r.slug
        /\ \A r \in h[p].rows : \E d \in rows : d.id = r.id
    BY <2>3, DerivedRowsKeep
  <2> HIDE DEF new, rows
  <2>5. Others(p) /\ h'[p].pc = "idle"
    BY <1>1, <2>1, EndForm
  <2>6. rows # {} /\ \A d \in rows : [id |-> d.id, slug |-> d.slug] \in entries
    BY <2>1, <2>4 DEF RowsBuilt
  <2>7. PlacementsKeepTheirEntries'
    BY <2>1, <2>2, <2>6 DEF PlacementsKeepTheirEntries
  <2>8. ASSUME NEW q \in Handlers, h[q].pc = "de_delete"
        PROVE  \A v \in versions' : \A r \in v.rows : r.id # h[q].eid
    BY <2>1, <2>2, <2>4, <2>8, DeletedIsNotPlaced DEF RowsBuilt, HasPlacements
  <2>9. RowsBuilt'
    BY <2>1, <2>5, <2>8 DEF RowsBuilt, HasPlacements, Others
  <2> QED
    BY <2>7, <2>9
<1>19. ASSUME NEW p \in Handlers, CascadeDelete(p)
       PROVE  RowsBuilt' /\ PlacementsKeepTheirEntries'
  <2>1. h[p].pc = "db_cascade" /\ Finish(p) /\ entries' = {} /\ versions' = {}
    BY <1>19 DEF CascadeDelete, At
  <2>2. \A q \in Handlers : q # p => h[q].pc \notin HolderPcs
    BY <1>1, <2>1, OneHolder DEF HolderPcs
  <2>3. Others(p) /\ h'[p].pc = "idle"
    BY <1>1, <2>1, EndForm
  <2> QED
    BY <2>1, <2>2, <2>3 DEF RowsBuilt, PlacementsKeepTheirEntries, HasPlacements, Others, HolderPcs
<1>20. ASSUME NEW p \in Handlers, Rollback(p) \/ Commits(p)
       PROVE  RowsBuilt' /\ PlacementsKeepTheirEntries'
  <2>1. \/ Finish(p) /\ UNCHANGED <<entries, versions>>
        \/ InsertEntry(p) /\ ~Rollback(p)
        \/ DeleteEntry(p) \/ CommitVersion(p) \/ CommitSubmit(p) \/ CascadeDelete(p)
    BY <1>20 DEF Commits, Rollback, tables, WriteBoard
  <2> QED
    BY <2>1, <1>14, <1>15, <1>16, <1>17, <1>18, <1>19
<1> QED
  BY <1>1, <1>2, <1>4, <1>5, <1>6, <1>7, <1>8, <1>10, <1>11, <1>12, <1>20, NextForm
     DEF Advances, vars, tables, Poll, CreateBoard

-----------------------------------------------------------------------------
(* The ranking.  ROW_NUMBER over (score, id) numbers the rows of a scored  *)
(* board along a strict total order.                                       *)

(* What makes rows rankable: one row per entry, and scores and tiers that  *)
(* the board knows.                                                        *)
Rankable(row, rows) ==
    /\ \A r, q \in rows : r.id = q.id => r = q
    /\ row.type = "scored" => \A r \in rows : r.score \in Int
    /\ row.type = "tiered" /\ row.tiers # None => \A r \in rows : r.tier \in DOMAIN row.tiers

RowsRankable ==
    \A p \in Handlers : h[p].pc \in {"place", "commit"} => Rankable(h[p].seen, h[p].rows)

(* An entry has one accumulated score.                                     *)
ScoresUnique == \A a, b \in acc : a.id = b.id => a = b

(* The rows a version stores follow the board they were derived under.     *)
LEMMA DerivedRowsFollow ==
    ASSUME NEW row \in BoardRows, NEW rows \in SUBSET PlacementRow, IsFiniteSet(rows),
           Rankable(row, rows)
    PROVE  FollowsConfig(row, DerivedRows(row, rows))
<1>1. CASE row.type = "scored"
  <2> DEFINE with(r) == [r EXCEPT !.pos = DerivedPosition(r, rows, row.dir)]
  <2>1. DerivedRows(row, rows) = {with(r) : r \in rows}
    BY <1>1 DEF DerivedRows, DeriveScoredPositions
  <2>2. \A r \in rows : /\ with(r).id = r.id /\ with(r).score = r.score
                        /\ with(r).pos = DerivedPosition(r, rows, row.dir)
    BY DEF PlacementRow
  <2> HIDE DEF with
  <2>3. Comparable(rows)
    <3>1. \A r \in rows : r.id \in Nat
      BY IdsAssumption DEF PlacementRow
    <3> QED
      BY <1>1, <3>1 DEF Comparable, Rankable
  <2>4. ASSUME NEW r \in rows, NEW q \in rows
        PROVE  RanksBefore(with(r), with(q), row.dir) <=> with(r).pos < with(q).pos
    <3>1. RanksBefore(with(r), with(q), row.dir) <=> RanksBefore(r, q, row.dir)
      BY <2>2 DEF RanksBefore
    <3>2. RanksBefore(r, q, row.dir)
            <=> DerivedPosition(r, rows, row.dir) < DerivedPosition(q, rows, row.dir)
      BY <2>3, DerivedPositionOrders
    <3> QED
      BY <2>2, <3>1, <3>2
  <2> QED
    BY <1>1, <2>1, <2>4 DEF FollowsConfig
<1>2. CASE row.type # "scored"
  BY <1>2 DEF DerivedRows, FollowsConfig, Rankable
<1> QED
  BY <1>1, <1>2

(* A valid placement list gives rankable rows.                             *)
LEMMA ResolvedRankable ==
    ASSUME EntriesUnique, NEW row, NEW list \in Lists, ValidPlacements(row, list),
           \A s \in SlugsOf(list) : HasEntry(s),
           NEW rows, rows = PlacementRows(row, list, [s \in SlugsOf(list) |-> EntryIdOf(s)])
    PROVE  Rankable(row, rows)
<1> DEFINE idOf == [s \in SlugsOf(list) |-> EntryIdOf(s)]
           RowOn(i) == [id |-> idOf[list[i].slug], slug |-> list[i].slug,
                      pos |-> ResolvedPosition(row, list, i),
                      score |-> list[i].score, tier |-> list[i].tier]
<1>1. \A s \in SlugsOf(list) : \E e \in entries : e.slug = s /\ e.id = idOf[s]
  <2> SUFFICES ASSUME NEW s \in SlugsOf(list)
               PROVE  \E e \in entries : e.slug = s /\ e.id = idOf[s]
    OBVIOUS
  <2>1. (CHOOSE e \in entries : e.slug = s) \in entries /\ (CHOOSE e \in entries : e.slug = s).slug = s
    BY DEF HasEntry
  <2>2. idOf[s] = (CHOOSE e \in entries : e.slug = s).id
    BY DEF EntryIdOf
  <2> QED
    BY <2>1, <2>2
<1>2. \A s, t \in SlugsOf(list) : idOf[s] = idOf[t] => s = t
  <2> HIDE DEF idOf
  <2> QED
    BY <1>1 DEF EntriesUnique
<1>3. \A i \in Indices(list) : /\ RowOn(i).id = idOf[list[i].slug] /\ RowOn(i).slug = list[i].slug
                               /\ RowOn(i).score = list[i].score /\ RowOn(i).tier = list[i].tier
                               /\ list[i].slug \in SlugsOf(list)
  BY DEF SlugsOf
<1>4. rows = {RowOn(i) : i \in Indices(list)}
  BY DEF PlacementRows
<1> HIDE DEF idOf, RowOn
<1>5. \A r, q \in rows : r.id = q.id => r = q
  <2> SUFFICES ASSUME NEW i \in Indices(list), NEW j \in Indices(list), RowOn(i).id = RowOn(j).id
               PROVE  RowOn(i) = RowOn(j)
    BY <1>4
  <2>1. list[i].slug = list[j].slug
    BY <1>2, <1>3
  <2>2. i = j
    BY <2>1 DEF ValidPlacements, DistinctSlugs
  <2> QED
    BY <2>2
<1>6. list \in Seq(Placement)
  BY InputsAssumption
<1>7. row.type = "scored" => \A r \in rows : r.score \in Int
  <2> SUFFICES ASSUME row.type = "scored", NEW i \in Indices(list)
               PROVE  list[i].score \in Int
    BY <1>3, <1>4
  <2>1. list[i] \in Placement
    BY <1>6 DEF Indices
  <2>2. list[i].score \in Int \cup {None, NotFinite}
    BY <2>1 DEF Placement
  <2> QED
    BY <2>2 DEF ValidPlacements, EveryScoreFinite
<1>8. row.type = "tiered" /\ row.tiers # None => \A r \in rows : r.tier \in DOMAIN row.tiers
  <2> SUFFICES ASSUME row.type = "tiered", row.tiers # None, NEW i \in Indices(list)
               PROVE  list[i].tier \in DOMAIN row.tiers
    BY <1>3, <1>4
  <2> QED
    BY DEF ValidPlacements, EveryTierKnown
<1> QED
  BY <1>5, <1>7, <1>8 DEF Rankable

(* So does the join of an accumulative board's scores with its entries.    *)
LEMMA ScoreRowsRankable ==
    ASSUME acc \subseteq ScoreRow, ScoresUnique, NEW row, row.type = "scored"
    PROVE  Rankable(row, ScoreRows)
<1> DEFINE RowFor(a) == [id |-> a.id, slug |-> (CHOOSE e \in entries : e.id = a.id).slug,
                         pos |-> None, score |-> a.score, tier |-> None]
<1>1. ScoreRows = {RowFor(a) : a \in Joined}
  BY DEF ScoreRows
<1>2. \A a \in Joined : RowFor(a).id = a.id /\ RowFor(a).score = a.score /\ a \in acc
  BY DEF Joined
<1> HIDE DEF RowFor
<1>3. \A a \in acc : a.score \in Int
  BY InputsAssumption DEF ScoreRow
<1> QED
  BY <1>1, <1>2, <1>3 DEF Rankable, ScoresUnique

LEMMA NextScores ==
    ASSUME IInv, ScoresUnique, [Next]_vars
    PROVE  ScoresUnique'
<1>1. TypeOK
  BY DEF IInv
<1>2. CASE acc' \subseteq acc
  BY <1>2 DEF ScoresUnique
<1>3. ASSUME NEW p \in Handlers, Advances(p)
      PROVE  acc' = acc
  BY <1>3 DEF Advances, Begun, LockedBoard, LockedForDelete, ScoreUpserted, NumberedVersion, CountedNone,
     PlacementsInserted, EntryLocked, EntryInserted, EntriesResolved, ScoresRead, Passes, Turns
<1>4. ASSUME NEW p \in Handlers, CommitSubmit(p)
      PROVE  ScoresUnique'
  <2> DEFINE b == [id |-> h[p].eid, score |-> h[p].score, rev |-> RevOf(h[p].eid) + 1]
  <2>1. acc' = {a \in acc : a.id # h[p].eid} \cup {b}
    BY <1>4 DEF CommitSubmit
  <2>2. b.id = h[p].eid
    OBVIOUS
  <2> HIDE DEF b
  <2> QED
    BY <2>1, <2>2 DEF ScoresUnique
<1>5. ASSUME NEW p \in Handlers, Rollback(p) \/ Commits(p), ~CommitSubmit(p)
      PROVE  acc' \subseteq acc
  BY <1>5 DEF Rollback, Commits, tables, WriteBoard, CascadeDelete, InsertEntry, DeleteEntry, CommitVersion
<1> QED
  BY <1>1, <1>2, <1>3, <1>4, <1>5, NextForm DEF vars, tables, Poll, CreateBoard

LEMMA NextRankable ==
    ASSUME IInv, SeenIsCurrent, KindKept, EntriesUnique, RowsBuilt, ScoresUnique, RowsRankable, [Next]_vars
    PROVE  RowsRankable'
<1>1. TypeOK
  BY DEF IInv
<1>2. CASE UNCHANGED h
  BY <1>2 DEF RowsRankable
<1>3. ASSUME NEW p \in Handlers, Others(p),
             h'[p].pc \in {"place", "commit"} => Rankable(h'[p].seen, h'[p].rows)
      PROVE  RowsRankable'
  BY <1>3 DEF RowsRankable, Others
<1>4. ASSUME NEW p \in Handlers, Finish(p)
      PROVE  RowsRankable'
  BY <1>1, <1>3, <1>4, EndForm
<1>5. ASSUME NEW p \in Handlers, Begun(p)
      PROVE  RowsRankable'
  BY <1>3, <1>5 DEF Begun, StartPcs
<1>6. ASSUME NEW p \in Handlers,
             \/ LockedBoard(p, "ub_lock", "ub_write") \/ LockedBoard(p, "cv_lock", "cv_number")
             \/ LockedBoard(p, "sn_lock", "sn_read")
             \/ LockedForDelete(p) \/ ScoreUpserted(p) \/ NumberedVersion(p) \/ CountedNone(p)
      PROVE  RowsRankable'
  BY <1>3, <1>6 DEF LockedBoard, LockedForDelete, ScoreUpserted, NumberedVersion, CountedNone, Passes, Turns
<1>7. ASSUME NEW p \in Handlers,
             \/ EntryLocked(p, "de_lock", "de_count", "X") \/ EntryLocked(p, "su_entry", "su_score", "NKU")
             \/ EntryInserted(p)
      PROVE  RowsRankable'
  BY <1>3, <1>7 DEF EntryLocked, EntryInserted, Turns
<1>8. ASSUME NEW p \in Handlers, PlacementsInserted(p)
      PROVE  RowsRankable'
  BY <1>3, <1>8 DEF PlacementsInserted, Passes, Turns, RowsRankable
<1>9. ASSUME NEW p \in Handlers, EntriesResolved(p)
      PROVE  RowsRankable'
  <2> DEFINE list == h[p].list
  <2>1. /\ Others(p) /\ h[p].pc = "cv_resolve" /\ h'[p].seen = h[p].seen
        /\ h'[p].rows = PlacementRows(h[p].seen, list, [s \in SlugsOf(list) |-> EntryIdOf(s)])
        /\ \A s \in SlugsOf(list) : HasEntry(s)
    BY <1>9 DEF EntriesResolved, Turns
  <2>2. list \in Lists /\ ValidPlacements(h[p].seen, list)
    BY <1>1, <2>1 DEF TypeOK, RequestOK, RowsBuilt
  <2> HIDE DEF list
  <2>3. Rankable(h[p].seen, h'[p].rows)
    BY <2>1, <2>2, ResolvedRankable
  <2> QED
    BY <1>3, <2>1, <2>3
<1>10. ASSUME NEW p \in Handlers, ScoresRead(p)
       PROVE  RowsRankable'
  <2>1. /\ Others(p) /\ h[p].pc = "sn_read" /\ h'[p].seen = h[p].seen /\ h'[p].rows = ScoreRows
    BY <1>10 DEF ScoresRead, Turns
  <2>2. h[p].seen.type = "scored"
    BY <2>1 DEF SeenIsCurrent, KindKept, HolderPcs
  <2>3. Rankable(h[p].seen, ScoreRows)
    BY <1>1, <2>2, ScoreRowsRankable DEF TypeOK
  <2> QED
    BY <1>3, <2>1, <2>3
<1>11. ASSUME NEW p \in Handlers, Rollback(p) \/ Commits(p)
       PROVE  Finish(p)
  BY <1>11 DEF Rollback, Commits, WriteBoard, CascadeDelete, InsertEntry, DeleteEntry, CommitVersion,
     CommitSubmit
<1> QED
  BY <1>1, <1>2, <1>4, <1>5, <1>6, <1>7, <1>8, <1>9, <1>10, <1>11, NextForm
     DEF Advances, vars, Poll, CreateBoard

-----------------------------------------------------------------------------
(* The snapshots.                                                          *)

(* The submission c, or a later one of the same entry, is in the cut.      *)
Covered(c, cut) == \E d \in cut : d.id = c.id /\ d.rev >= c.rev

(* What a version was taken from is still among the accumulated scores.    *)
CutsCovered ==
    /\ board = None => versions = {}
    /\ board # None /\ ~board.accum => \A v \in versions : v.cut = {}
    /\ \A v \in versions : \A c \in v.cut : (\E r \in v.rows : r.id = c.id) /\ Covered(c, acc)

(* What a snapshot has read covers every version there is, and is still    *)
(* covered by the scores of the entries that have not been deleted.        *)
CutsRead ==
    \A p \in Handlers :
        /\ h[p].pc \notin {"place", "commit"} => h[p].cut = {}
        /\ h[p].pc \in {"place", "commit"} =>
             /\ ~h[p].seen.accum => h[p].cut = {}
             /\ \A c \in h[p].cut : /\ \E r \in h[p].rows : r.id = c.id
                                    /\ c.id \in LiveEntryIds => Covered(c, acc)
             /\ \A v \in versions : \A c \in v.cut : Covered(c, h[p].cut)

(* A submission is counted one higher than the one it replaces.            *)
LEMMA SubmissionsCount ==
    ASSUME TypeOK, ScoresUnique, NEW p \in Handlers, CommitSubmit(p)
    PROVE  \A c \in [id : EntryIds, rev : Nat] : Covered(c, acc) => Covered(c, acc')
<1> DEFINE b == [id |-> h[p].eid, score |-> h[p].score, rev |-> RevOf(h[p].eid) + 1]
<1>1. acc' = {a \in acc : a.id # h[p].eid} \cup {b}
  BY DEF CommitSubmit
<1>2. b.id = h[p].eid /\ b.rev = RevOf(h[p].eid) + 1
  OBVIOUS
<1> HIDE DEF b
<1> SUFFICES ASSUME NEW c \in [id : EntryIds, rev : Nat], NEW a \in acc, a.id = c.id, a.rev >= c.rev
             PROVE  Covered(c, acc')
  BY DEF Covered
<1>3. CASE a.id # h[p].eid
  BY <1>1, <1>3 DEF Covered
<1>4. CASE a.id = h[p].eid
  <2>1. RevOf(h[p].eid) = a.rev
    <3>1. HasScore(h[p].eid)
      BY <1>4 DEF HasScore
    <3>2. (CHOOSE d \in acc : d.id = h[p].eid) = a
      BY <1>4 DEF ScoresUnique
    <3> QED
      BY <3>1, <3>2 DEF RevOf
  <2>2. a.rev \in Nat /\ c.rev \in Nat
    BY DEF TypeOK, ScoreRow
  <2>3. b.rev >= c.rev
    BY <1>2, <2>1, <2>2
  <2> QED
    BY <1>1, <1>2, <1>4, <2>3 DEF Covered
<1> QED
  BY <1>3, <1>4

(* A snapshot reads at least what any earlier version was taken from.      *)
LEMMA ReadCovers ==
    ASSUME TypeOK, PlacementsKeepTheirEntries, CutsCovered,
           NEW read, read = {[id |-> a.id, rev |-> a.rev] : a \in Joined}
    PROVE  /\ \A c \in read : (\E r \in ScoreRows : r.id = c.id) /\ Covered(c, acc)
           /\ \A v \in versions : \A c \in v.cut : Covered(c, read)
<1>1. \A a \in Joined : a \in acc /\ a.rev \in Nat
  BY DEF Joined, TypeOK, ScoreRow
<1>2. ASSUME NEW c \in read
      PROVE  (\E r \in ScoreRows : r.id = c.id) /\ Covered(c, acc)
  <2>1. PICK a \in Joined : c.id = a.id /\ c.rev = a.rev
    OBVIOUS
  <2> DEFINE r == [id |-> a.id, slug |-> (CHOOSE e \in entries : e.id = a.id).slug,
                   pos |-> None, score |-> a.score, tier |-> None]
  <2>2. r \in ScoreRows /\ r.id = a.id
    BY DEF ScoreRows
  <2> HIDE DEF r
  <2>3. Covered(c, acc)
    BY <1>1, <2>1 DEF Covered
  <2> QED
    BY <2>1, <2>2, <2>3
<1>3. ASSUME NEW v \in versions, NEW c \in v.cut
      PROVE  Covered(c, read)
  <2>1. PICK a \in acc : a.id = c.id /\ a.rev >= c.rev
    BY DEF CutsCovered, Covered
  <2>2. PICK r \in v.rows : r.id = c.id
    BY DEF CutsCovered
  <2>3. PICK e \in entries : e = [id |-> r.id, slug |-> r.slug]
    BY DEF PlacementsKeepTheirEntries
  <2>4. e.id = r.id
    BY <2>3
  <2>5. a \in Joined
    BY <2>1, <2>2, <2>4 DEF Joined, LiveEntryIds
  <2>6. [id |-> a.id, rev |-> a.rev] \in read
    BY <2>5
  <2> QED
    BY <2>1, <2>6 DEF Covered
<1> QED
  BY <1>2, <1>3

(* No snapshot loses or takes back a submission.                           *)
LEMMA NextCuts ==
    ASSUME IInv, SeenIsCurrent, KindKept, FreshIsNew, RowsBuilt, ScoresUnique,
           PlacementsKeepTheirEntries, CutsCovered, CutsRead, [Next]_vars
    PROVE  CutsCovered' /\ CutsRead'
<1>1. TypeOK /\ HoldersExclude
  BY DEF IInv
<1>2. CASE UNCHANGED <<h, board, entries, versions, acc>>
  BY <1>2 DEF CutsCovered, CutsRead, Covered, LiveEntryIds
<1>3. CASE CreateBoard
  <2>1. (board = None /\ board' # None) \/ board' = None
    BY <1>3 DEF CreateBoard
  <2> QED
    BY <1>3, <2>1 DEF CreateBoard, CutsCovered, CutsRead, Covered, LiveEntryIds
<1>4. ASSUME NEW p \in Handlers, Others(p), UNCHANGED <<board, entries, versions, acc>>,
             h'[p].pc \notin {"place", "commit"}, h'[p].cut = {}
      PROVE  CutsCovered' /\ CutsRead'
  BY <1>4 DEF CutsCovered, CutsRead, Covered, LiveEntryIds, Others
<1>5. ASSUME NEW p \in Handlers, Rollback(p)
      PROVE  CutsCovered' /\ CutsRead'
  BY <1>1, <1>4, <1>5, EndForm DEF Rollback, tables
<1>6. ASSUME NEW p \in Handlers, Begun(p)
      PROVE  CutsCovered' /\ CutsRead'
  BY <1>4, <1>6 DEF Begun, StartPcs
<1>7. ASSUME NEW p \in Handlers,
             \/ LockedBoard(p, "ub_lock", "ub_write") \/ LockedBoard(p, "cv_lock", "cv_number")
             \/ LockedBoard(p, "sn_lock", "sn_read")
             \/ LockedForDelete(p) \/ ScoreUpserted(p) \/ NumberedVersion(p) \/ CountedNone(p)
      PROVE  CutsCovered' /\ CutsRead'
  <2>1. /\ Others(p) /\ UNCHANGED <<board, entries, versions, acc>>
        /\ h[p].pc \notin {"place", "commit"} /\ h'[p].pc \notin {"place", "commit"}
        /\ h'[p].cut = h[p].cut
    BY <1>7 DEF LockedBoard, LockedForDelete, ScoreUpserted, NumberedVersion, CountedNone, Passes, Turns
  <2> QED
    BY <1>4, <2>1 DEF CutsRead
<1>8. ASSUME NEW p \in Handlers,
             \/ EntryLocked(p, "de_lock", "de_count", "X") \/ EntryLocked(p, "su_entry", "su_score", "NKU")
             \/ EntryInserted(p)
      PROVE  CutsCovered' /\ CutsRead'
  <2>1. /\ Others(p) /\ UNCHANGED <<board, entries, versions, acc>>
        /\ h[p].pc \notin {"place", "commit"} /\ h'[p].pc \notin {"place", "commit"}
        /\ h'[p].cut = h[p].cut
    BY <1>8 DEF EntryLocked, EntryInserted, Turns
  <2> QED
    BY <1>4, <2>1 DEF CutsRead
<1>9. ASSUME NEW p \in Handlers, PlacementsInserted(p)
      PROVE  CutsCovered' /\ CutsRead'
  BY <1>9 DEF PlacementsInserted, Passes, Turns, CutsCovered, CutsRead, Covered, LiveEntryIds, Others
<1>10. ASSUME NEW p \in Handlers, EntriesResolved(p)
       PROVE  CutsCovered' /\ CutsRead'
  <2>1. /\ Others(p) /\ UNCHANGED <<board, entries, versions, acc>>
        /\ h[p].pc = "cv_resolve" /\ h'[p].pc = "place" /\ h'[p].cut = h[p].cut
    BY <1>10 DEF EntriesResolved, Turns
  <2>2. h[p].cut = {} /\ board # None /\ ~board.accum
    BY <2>1 DEF CutsRead, SeenIsCurrent, KindKept, HolderPcs
  <2>3. \A v \in versions : v.cut = {}
    BY <2>2 DEF CutsCovered
  <2> QED
    BY <2>1, <2>2, <2>3 DEF CutsCovered, CutsRead, Covered, LiveEntryIds, Others
<1>11. ASSUME NEW p \in Handlers, ScoresRead(p)
       PROVE  CutsCovered' /\ CutsRead'
  <2> DEFINE read == {[id |-> a.id, rev |-> a.rev] : a \in Joined}
  <2>1. /\ Others(p) /\ UNCHANGED <<board, entries, versions, acc>>
        /\ h[p].pc = "sn_read" /\ h'[p].pc = "place" /\ h'[p].seen = h[p].seen
        /\ h'[p].rows = ScoreRows /\ h'[p].cut = read
    BY <1>11 DEF ScoresRead, Turns
  <2>2. h[p].seen.accum
    BY <2>1 DEF KindKept
  <2>3. /\ \A c \in read : (\E r \in ScoreRows : r.id = c.id) /\ Covered(c, acc)
        /\ \A v \in versions : \A c \in v.cut : Covered(c, read)
    BY <1>1, ReadCovers
  <2> HIDE DEF read
  <2> QED
    BY <2>1, <2>2, <2>3 DEF CutsCovered, CutsRead, Covered, LiveEntryIds, Others
<1>12. ASSUME NEW p \in Handlers, WriteBoard(p), ~Rollback(p)
       PROVE  CutsCovered' /\ CutsRead'
  <2>1. /\ h[p].pc = "ub_write" /\ Finish(p) /\ UNCHANGED <<entries, versions, acc>>
        /\ board' = Patched(h[p].seen, h[p].patch)
    BY <1>12 DEF WriteBoard, At
  <2>2. board # None /\ h[p].seen = board /\ board \in BoardRows
    BY <1>1, <2>1 DEF SeenIsCurrent, HolderPcs, TypeOK
  <2>3. board'.accum = board.accum
    BY <2>1, <2>2 DEF Patched, BoardRows
  <2>4. Others(p) /\ h'[p].pc = "idle" /\ h'[p].cut = {}
    BY <1>1, <2>1, EndForm
  <2>5. CutsCovered'
    <3>1. board' # None
      <4>1. h[p].patch \in Patch
        BY <1>1, <2>1, InputsAssumption DEF TypeOK, RequestOK
      <4>2. board' \in BoardRows
        BY <2>1, <2>2, <4>1 DEF Patched, BoardRows, Patch
      <4> QED
        BY <4>2, RowsAssumption
    <3> QED
      BY <2>1, <2>2, <2>3, <3>1 DEF CutsCovered, Covered
  <2>6. CutsRead'
    BY <2>1, <2>4 DEF CutsRead, Covered, LiveEntryIds, Others
  <2> QED
    BY <2>5, <2>6
<1>13. ASSUME NEW p \in Handlers, CascadeDelete(p)
       PROVE  CutsCovered' /\ CutsRead'
  <2>1. h[p].pc = "db_cascade" /\ Finish(p) /\ board' = None /\ versions' = {}
    BY <1>13 DEF CascadeDelete, At
  <2>2. \A q \in Handlers : q # p => h[q].pc \notin HolderPcs
    BY <1>1, <2>1, OneHolder DEF HolderPcs
  <2>3. Others(p) /\ h'[p].pc = "idle" /\ h'[p].cut = {}
    BY <1>1, <2>1, EndForm
  <2> QED
    BY <2>1, <2>2, <2>3 DEF CutsCovered, CutsRead, Others, HolderPcs
<1>14. ASSUME NEW p \in Handlers, NEW e, Finish(p), UNCHANGED <<board, versions>>,
              entries' \subseteq entries \cup {e}, \A q \in Handlers : \A r \in h[q].rows : r.id # e.id,
              \A c \in [id : EntryIds, rev : Nat] : Covered(c, acc) => Covered(c, acc')
       PROVE  CutsCovered' /\ CutsRead'
  <2>1. Others(p) /\ h'[p].pc = "idle" /\ h'[p].cut = {}
    BY <1>1, <1>14, EndForm
  <2>2. \A v \in versions : \A c \in v.cut : c \in [id : EntryIds, rev : Nat]
    BY <1>1 DEF TypeOK, VersionRows
  <2>3. \A q \in Handlers : \A c \in h[q].cut : c \in [id : EntryIds, rev : Nat]
    BY <1>1 DEF TypeOK, Requests
  <2>4. CutsCovered'
    BY <1>14, <2>2 DEF CutsCovered, Covered
  <2>5. ASSUME NEW q \in Handlers, h[q].pc \in {"place", "commit"}, NEW c \in h[q].cut, c.id \in LiveEntryIds'
        PROVE  Covered(c, acc')
    <3>1. c.id # e.id
      BY <1>14, <2>5 DEF CutsRead
    <3>2. c.id \in LiveEntryIds
      BY <1>14, <2>5, <3>1 DEF LiveEntryIds
    <3> QED
      BY <1>14, <2>3, <2>5, <3>2 DEF CutsRead
  <2>6. CutsRead'
    BY <1>14, <2>1, <2>5 DEF CutsRead, Covered, Others
  <2> QED
    BY <2>4, <2>6
<1>15. ASSUME NEW p \in Handlers, InsertEntry(p), ~Rollback(p)
       PROVE  CutsCovered' /\ CutsRead'
  <2>1. PICK id \in FreshEntryIds : entries' = entries \cup {[id |-> id, slug |-> h[p].slug]}
    BY <1>15 DEF InsertEntry
  <2>2. Finish(p) /\ UNCHANGED <<board, versions, acc>>
    BY <1>15 DEF InsertEntry
  <2> DEFINE e == [id |-> id, slug |-> h[p].slug]
  <2>3. e.id = id /\ entries' = entries \cup {e}
    BY <2>1
  <2> HIDE DEF e
  <2>4. \A q \in Handlers : \A r \in h[q].rows : r.id # e.id
    BY <2>3, FreshIds
  <2>5. \A c \in [id : EntryIds, rev : Nat] : Covered(c, acc) => Covered(c, acc')
    BY <2>2
  <2> QED
    BY <1>14, <2>2, <2>3, <2>4, <2>5
<1>16. ASSUME NEW p \in Handlers, CommitSubmit(p)
       PROVE  CutsCovered' /\ CutsRead'
  <2>1. Finish(p) /\ UNCHANGED <<board, versions>>
    BY <1>16 DEF CommitSubmit
  <2>2. \A c \in [id : EntryIds, rev : Nat] : Covered(c, acc) => Covered(c, acc')
    BY <1>1, <1>16, SubmissionsCount
  <2>3. CASE h[p].fresh # None
    <3>1. entries' = entries \cup {h[p].fresh}
      BY <1>16, <2>3 DEF CommitSubmit
    <3>2. \A q \in Handlers : \A r \in h[q].rows : r.id # h[p].fresh.id
      BY <2>3 DEF FreshIsNew
    <3> QED
      BY <1>14, <2>1, <2>2, <3>1, <3>2
  <2>4. CASE h[p].fresh = None
    <3>1. entries' = entries
      BY <1>16, <2>4 DEF CommitSubmit
    <3>2. Others(p) /\ h'[p].pc = "idle" /\ h'[p].cut = {}
      BY <1>1, <2>1, EndForm
    <3>3. \A v \in versions : \A c \in v.cut : c \in [id : EntryIds, rev : Nat]
      BY <1>1 DEF TypeOK, VersionRows
    <3>4. \A q \in Handlers : \A c \in h[q].cut : c \in [id : EntryIds, rev : Nat]
      BY <1>1 DEF TypeOK, Requests
    <3>5. CutsCovered'
      BY <2>1, <2>2, <3>3 DEF CutsCovered
    <3>6. CutsRead'
      BY <2>1, <2>2, <3>1, <3>2, <3>4 DEF CutsRead, LiveEntryIds, Others
    <3> QED
      BY <3>5, <3>6
  <2> QED
    BY <2>3, <2>4
<1>17. ASSUME NEW p \in Handlers, DeleteEntry(p)
       PROVE  CutsCovered' /\ CutsRead'
  <2> DEFINE eid == h[p].eid
  <2>1. /\ h[p].pc = "de_delete" /\ Finish(p) /\ board' = board
        /\ entries' = {e \in entries : e.id # eid}
        /\ acc' = {a \in acc : a.id # eid}
        /\ versions' = {[v EXCEPT !.rows = {r \in v.rows : r.id # eid}] : v \in versions}
    BY <1>17 DEF DeleteEntry, At
  <2>2. ~HasPlacements(eid)
    BY <2>1 DEF RowsBuilt
  <2>3. versions' = versions
    BY <1>1, <2>1, <2>2, NothingCascades
  <2>4. Others(p) /\ h'[p].pc = "idle" /\ h'[p].cut = {}
    BY <1>1, <2>1, EndForm
  <2> HIDE DEF eid
  <2>5. CutsCovered'
    BY <2>1, <2>2, <2>3 DEF CutsCovered, Covered, HasPlacements
  <2>6. CutsRead'
    BY <2>1, <2>3, <2>4 DEF CutsRead, Covered, LiveEntryIds, Others
  <2> QED
    BY <2>5, <2>6
<1>18. ASSUME NEW p \in Handlers, CommitVersion(p)
       PROVE  CutsCovered' /\ CutsRead'
  <2> DEFINE rows == DerivedRows(h[p].seen, h[p].rows)
             new == [num |-> h[p].num, rows |-> rows, cut |-> h[p].cut, limited |-> h[p].limited]
  <2>1. /\ h[p].pc = "commit" /\ Finish(p) /\ UNCHANGED <<board, entries, acc>>
        /\ versions' = versions \cup {new}
    BY <1>18 DEF CommitVersion, At
  <2>2. new.rows = rows /\ new.cut = h[p].cut
    OBVIOUS
  <2>3. h[p].rows \in SUBSET PlacementRow
    BY <1>1 DEF TypeOK, Requests
  <2>4. \A r \in h[p].rows : \E d \in rows : d.id = r.id
    BY <2>3, DerivedRowsKeep
  <2> HIDE DEF new, rows
  <2>5. Others(p) /\ h'[p].pc = "idle" /\ h'[p].cut = {}
    BY <1>1, <2>1, EndForm
  <2>6. \A q \in Handlers : q # p => h[q].pc \notin HolderPcs
    BY <1>1, <2>1, OneHolder DEF HolderPcs
  <2>7. board # None /\ h[p].seen = board
    BY <2>1 DEF SeenIsCurrent, HolderPcs
  <2>8. ASSUME NEW c \in h[p].cut
        PROVE  (\E r \in rows : r.id = c.id) /\ Covered(c, acc)
    <3>1. PICK r \in h[p].rows : r.id = c.id
      BY <2>1 DEF CutsRead
    <3>2. [id |-> r.id, slug |-> r.slug] \in entries
      BY <2>1 DEF RowsBuilt
    <3>3. c.id \in LiveEntryIds
      BY <3>1, <3>2 DEF LiveEntryIds
    <3> QED
      BY <2>1, <2>4, <3>1, <3>3 DEF CutsRead
  <2>9. CutsCovered'
    BY <2>1, <2>2, <2>7, <2>8 DEF CutsCovered, CutsRead
  <2>10. CutsRead'
    BY <2>5, <2>6, <2>1 DEF CutsRead, Others, HolderPcs
  <2> QED
    BY <2>9, <2>10
<1>19. ASSUME NEW p \in Handlers, Rollback(p) \/ Commits(p)
       PROVE  CutsCovered' /\ CutsRead'
  <2>1. \/ Rollback(p)
        \/ InsertEntry(p) /\ ~Rollback(p)
        \/ WriteBoard(p) /\ ~Rollback(p)
        \/ DeleteEntry(p) \/ CommitVersion(p) \/ CommitSubmit(p) \/ CascadeDelete(p)
    BY <1>19 DEF Commits
  <2> QED
    BY <2>1, <1>5, <1>12, <1>13, <1>15, <1>16, <1>17, <1>18
<1> QED
  BY <1>1, <1>2, <1>3, <1>6, <1>7, <1>8, <1>9, <1>10, <1>11, <1>19, NextForm
     DEF Advances, vars, tables, Poll

-----------------------------------------------------------------------------
(* The log.                                                                *)

(* What a polling client has been given is the beginning of the log.       *)
ReceivedPrefix ==
    /\ received \in Seq(versions)
    /\ \A i \in 1..Len(received) : received[i].num = i

(* The initial segments of the numbers differ in length only.              *)
LEMMA SegmentLength ==
    ASSUME NEW m \in Nat, NEW n \in Nat, 1..m = 1..n
    PROVE  m = n
<1>1. m <= n
  <2>1. m \in 1..m \/ m = 0
    OBVIOUS
  <2> QED
    BY <2>1
<1>2. n <= m
  <2>1. n \in 1..n \/ n = 0
    OBVIOUS
  <2> QED
    BY <2>1
<1> QED
  BY <1>1, <1>2

(* A function on 1..n is a sequence of length n.                           *)
LEMMA SequenceOf ==
    ASSUME NEW S, NEW n \in Nat, NEW f \in [1..n -> S]
    PROVE  f \in Seq(S) /\ Len(f) = n
<1>1. f \in Seq(S)
  BY SeqDef
<1>2. Len(f) \in Nat /\ DOMAIN f = 1..Len(f)
  BY <1>1, LenProperties
<1>3. DOMAIN f = 1..n
  OBVIOUS
<1> QED
  BY <1>1, <1>2, <1>3, SegmentLength

(* The log of a set of versions: Published, for any set.                   *)
LogOf(S) == [i \in 1..Cardinality(S) |-> CHOOSE v \in S : v.num = i]

(* The log of versions numbered 1..n holds them all, the i-th at its i-th  *)
(* place.                                                                  *)
LEMMA LogHolds ==
    ASSUME NEW S, NEW n \in Nat, {v.num : v \in S} = 1..n, \A v, w \in S : v.num = w.num => v = w
    PROVE  /\ Len(LogOf(S)) = n
           /\ \A v \in S : v.num \in 1..n /\ LogOf(S)[v.num] = v
           /\ \A i \in 1..n : LogOf(S)[i] \in S /\ LogOf(S)[i].num = i
<1> DEFINE numbered(i) == CHOOSE v \in S : v.num = i
           log == LogOf(S)
<1>1. \A i \in 1..n : numbered(i) \in S /\ numbered(i).num = i
  <2> SUFFICES ASSUME NEW i \in 1..n
               PROVE  numbered(i) \in S /\ numbered(i).num = i
    OBVIOUS
  <2>1. \E v \in S : v.num = i
    OBVIOUS
  <2> QED
    BY <2>1
<1>2. log = [i \in 1..n |-> numbered(i)]
  BY AsManyAsNumbers DEF LogOf
<1> HIDE DEF numbered, log
<1>3. log \in [1..n -> S]
  BY <1>1, <1>2
<1>4. log \in Seq(S) /\ Len(log) = n
  BY <1>3, SequenceOf
<1>5. \A i \in 1..n : log[i] = numbered(i)
  BY <1>2, Zenon
<1>6. ASSUME NEW i \in 1..n
      PROVE  log[i] \in S /\ log[i].num = i
  <2>1. log[i] = numbered(i) /\ numbered(i) \in S /\ numbered(i).num = i
    BY <1>1, <1>5, Zenon
  <2> QED
    BY <2>1
<1>7. \A v \in S : v.num \in 1..n /\ log[v.num] = v
  BY <1>6
<1> QED
  BY <1>4, <1>6, <1>7 DEF log

(* There are b - a versions numbered above a and up to b.                  *)
LEMMA VersionsBetween ==
    ASSUME NumbersUnique, NEW n \in Nat, Numbers = 1..n,
           NEW a \in Nat, NEW b \in Nat, a <= b, b <= n,
           NEW between, between = {v \in versions : a < v.num /\ v.num <= b}
    PROVE  IsFiniteSet(between) /\ Cardinality(between) = b - a
<1> DEFINE num == [v \in between |-> v.num]
<1>1. ASSUME NEW v \in between
      PROVE  v.num \in (a+1)..b
  <2>1. v.num \in Numbers /\ a < v.num /\ v.num <= b
    BY DEF Numbers
  <2>2. v.num \in 1..n
    BY <2>1
  <2> QED
    BY <2>1, <2>2
<1>2. num \in Bijection(between, (a+1)..b)
  <2>1. num \in [between -> (a+1)..b]
    BY <1>1
  <2>2. num \in Injection(between, (a+1)..b)
    BY <2>1 DEF NumbersUnique, Injection, IsInjective
  <2>3. ASSUME NEW i \in (a+1)..b
        PROVE  \E v \in between : num[v] = i
    <3>1. i \in Numbers
      OBVIOUS
    <3>2. PICK v \in versions : v.num = i
      BY <3>1 DEF Numbers
    <3> QED
      BY <3>2
  <2>4. num \in Surjection(between, (a+1)..b)
    BY <2>1, <2>3 DEF Surjection
  <2> QED
    BY <2>2, <2>4 DEF Bijection
<1> HIDE DEF num
<1>3. ExistsBijection(between, (a+1)..b)
  BY <1>2 DEF ExistsBijection
<1>4. IsFiniteSet((a+1)..b) /\ Cardinality((a+1)..b) = b - a
  <2> DEFINE c == a + 1
  <2>1. c \in Int /\ b \in Int /\ a = c - 1
    OBVIOUS
  <2> HIDE DEF c
  <2>2. IsFiniteSet(c..b) /\ Cardinality(c..b) = IF c > b THEN 0 ELSE b - c + 1
    BY <2>1, FS_Interval
  <2>3. Cardinality(c..b) = b - a
    BY <2>1, <2>2
  <2> QED
    BY <2>2, <2>3 DEF c
<1>5. ExistsBijection((a+1)..b, between)
  BY <1>3, Fun_ExistsBijSymmetric
<1>6. IsFiniteSet(between)
  BY <1>4, <1>5, FS_Bijection
<1> QED
  BY <1>4, <1>5, <1>6, FS_Bijection

(* The client's cursor is the length of what it has.                       *)
LEMMA CursorIs ==
    ASSUME NEW n \in Nat, Numbers = 1..n, ReceivedPrefix
    PROVE  Cursor = Len(received) /\ Cursor \in Nat /\ Cursor <= n
<1>1. Len(received) \in Nat
  BY LenProperties DEF ReceivedPrefix
<1>2. CASE received = << >>
  <2>1. Len(received) = 0
    BY <1>2, EmptySeq
  <2> QED
    BY <1>2, <2>1 DEF Cursor
<1>3. CASE received # << >>
  <2>1. Len(received) \in 1..Len(received)
    BY <1>1, <1>3, EmptySeq DEF ReceivedPrefix
  <2>2. received[Len(received)] \in versions /\ received[Len(received)].num = Len(received)
    BY <2>1, ElementOfSeq DEF ReceivedPrefix
  <2>3. Len(received) \in 1..n
    BY <2>2 DEF Numbers
  <2> QED
    BY <1>1, <1>3, <2>2, <2>3 DEF Cursor
<1> QED
  BY <1>2, <1>3

(* A poll continues what the client has with the next versions.            *)
LEMMA PollContinues ==
    ASSUME NumbersUnique, NEW n \in Nat, Numbers = 1..n, ReceivedPrefix, Poll
    PROVE  /\ received' \in Seq(versions)
           /\ Len(received) <= Len(received')
           /\ \A i \in 1..Len(received) : received'[i] = received[i]
           /\ \A i \in 1..Len(received') : received'[i].num = i
<1> DEFINE c == Cursor
           m == IF n < c + PollLimit THEN n ELSE c + PollLimit
           batch == {v \in versions : InBatch(v)}
           place(v) == 1 + Cardinality({w \in batch : w.num < v.num})
           at(i) == CHOOSE v \in batch : place(v) = i
           new == [i \in 1..Cardinality(batch) |-> at(i)]
<1>1. received' = received \o new
  BY DEF Poll
<1>2. c = Len(received) /\ c \in Nat /\ c <= n
  BY CursorIs
<1>3. m \in Nat /\ c <= m /\ m <= n
  BY <1>2, LimitsAssumption
<1>4. \A v \in versions : v.num \in 1..n
  BY DEF Numbers
<1>5. ASSUME NEW v \in versions, c < v.num
      PROVE  Cardinality({w \in versions : c < w.num /\ w.num < v.num}) = v.num - 1 - c
  <2> DEFINE b == v.num - 1
             S == {w \in versions : c < w.num /\ w.num < v.num}
  <2>1. b \in Nat /\ c <= b /\ b <= n
    BY <1>2, <1>4, <1>5
  <2>2. S = {w \in versions : c < w.num /\ w.num <= b}
    <3>1. \A w \in versions : w.num < v.num <=> w.num <= b
      BY <1>4
    <3> QED
      BY <3>1
  <2> HIDE DEF b, S, c
  <2>3. Cardinality(S) = b - c
    BY <1>2, <2>1, <2>2, VersionsBetween
  <2> QED
    BY <2>3 DEF b, S
<1>6. \A v \in versions : InBatch(v) <=> c < v.num /\ v.num <= m
  <2> SUFFICES ASSUME NEW v \in versions
               PROVE  InBatch(v) <=> c < v.num /\ v.num <= m
    OBVIOUS
  <2>1. InBatch(v) <=> c < v.num /\ v.num - 1 - c < PollLimit
    <3> DEFINE k == Cardinality({w \in versions : c < w.num /\ w.num < v.num})
    <3>1. InBatch(v) <=> v.num > c /\ k < PollLimit
      BY DEF InBatch
    <3>2. c < v.num => k = v.num - 1 - c
      BY <1>5
    <3>3. v.num \in Int /\ c \in Int
      BY <1>2, <1>4
    <3> HIDE DEF k, c
    <3> QED
      BY <3>1, <3>2, <3>3
  <2> HIDE DEF c
  <2> QED
    BY <1>2, <1>4, <2>1, LimitsAssumption
<1>7. batch = {v \in versions : c < v.num /\ v.num <= m}
  BY <1>6
<1> HIDE DEF m, c
<1>8. Cardinality(batch) = m - c
  <2> HIDE DEF batch
  <2> QED
    BY <1>2, <1>3, <1>7, VersionsBetween
<1>9. ASSUME NEW v \in batch
      PROVE  place(v) = v.num - c
  <2>1. v \in versions /\ c < v.num /\ v.num <= m
    BY <1>7
  <2>2. {w \in batch : w.num < v.num} = {w \in versions : c < w.num /\ w.num < v.num}
    <3>1. \A w \in versions : w.num < v.num => w.num <= m
      BY <1>3, <1>4, <2>1
    <3> HIDE DEF batch
    <3> QED
      BY <1>7, <3>1
  <2>3. v.num \in Int
    BY <1>4, <2>1
  <2> HIDE DEF batch
  <2>4. Cardinality({w \in batch : w.num < v.num}) = v.num - 1 - c
    BY <1>5, <2>1, <2>2
  <2> QED
    BY <1>2, <2>3, <2>4
<1> HIDE DEF batch, place
<1>10. ASSUME NEW i \in 1..(m - c)
       PROVE  at(i) \in versions /\ at(i).num = c + i
  <2>1. c + i \in 1..n
    BY <1>2, <1>3
  <2>2. PICK v \in versions : v.num = c + i
    BY <2>1 DEF Numbers
  <2>3. v \in batch
    BY <1>2, <1>3, <1>7, <2>2
  <2>4. place(v) = i
    BY <1>2, <1>9, <2>2, <2>3
  <2>5. at(i) \in batch /\ place(at(i)) = i
    BY <2>3, <2>4
  <2> HIDE DEF at
  <2>6. at(i) \in versions /\ at(i).num - c = i
    BY <1>7, <1>9, <2>5
  <2>7. at(i).num \in Int
    BY <1>4, <2>6
  <2> QED
    BY <1>2, <2>6, <2>7
<1> HIDE DEF at
<1>11. new \in [1..(m - c) -> versions] /\ m - c \in Nat
  BY <1>2, <1>3, <1>8, <1>10
<1>12. new \in Seq(versions) /\ Len(new) = m - c
  <2> DEFINE k == m - c
  <2>1. new \in [1..k -> versions] /\ k \in Nat
    BY <1>11
  <2> HIDE DEF k, new
  <2>2. new \in Seq(versions) /\ Len(new) = k
    BY <2>1, SequenceOf
  <2> QED
    BY <2>2 DEF k
<1>13. \A i \in 1..(m - c) : new[i] = at(i)
  BY <1>8
<1> HIDE DEF new
<1>16. received \in Seq(versions)
  BY DEF ReceivedPrefix
<1>17. /\ received' \in Seq(versions)
       /\ Len(received') = c + (m - c)
       /\ \A i \in 1..(c + (m - c)) : received'[i] = IF i <= c THEN received[i] ELSE new[i - c]
  BY <1>1, <1>2, <1>12, <1>16, ConcatProperties
<1>18. \A i \in 1..c : received'[i] = received[i]
  BY <1>2, <1>3, <1>17
<1>19. ASSUME NEW i \in 1..Len(received')
       PROVE  received'[i].num = i
  <2>1. CASE i <= c
    BY <1>2, <1>17, <2>1 DEF ReceivedPrefix
  <2>2. CASE ~(i <= c)
    <3>1. i - c \in 1..(m - c)
      BY <1>2, <1>3, <1>17, <2>2
    <3>2. received'[i] = at(i - c)
      BY <1>13, <1>17, <2>2, <3>1
    <3> QED
      BY <1>2, <1>10, <3>1, <3>2
  <2> QED
    BY <2>1, <2>2
<1> QED
  BY <1>2, <1>3, <1>17, <1>18, <1>19

-----------------------------------------------------------------------------
(* The invariant, with what the locks protect.                             *)

FullInv ==
    /\ IInv
    /\ SeenIsCurrent /\ KindKept
    /\ EntriesUnique /\ FreshIsNew
    /\ LocksCompatible /\ LocksHeld
    /\ RowsBuilt /\ PlacementsKeepTheirEntries
    /\ ScoresUnique /\ RowsRankable
    /\ CutsCovered /\ CutsRead /\ SnapshotsAdvance
    /\ ReceivedPrefix

(* Only a commit and the deletion of the board touch the versions.         *)
LEMMA VersionsChange ==
    ASSUME IInv, RowsBuilt, [Next]_vars
    PROVE  \/ UNCHANGED <<versions, received>>
           \/ Poll
           \/ \E p \in Handlers : CommitVersion(p)
           \/ versions' = {} /\ received' = << >>
<1>1. TypeOK
  BY DEF IInv
<1>2. ASSUME NEW p \in Handlers, Advances(p)
      PROVE  UNCHANGED <<versions, received>>
  BY <1>2 DEF Advances, Begun, LockedBoard, LockedForDelete, ScoreUpserted, NumberedVersion, CountedNone,
     PlacementsInserted, EntryLocked, EntryInserted, EntriesResolved, ScoresRead, Passes, Turns
<1>3. ASSUME NEW p \in Handlers, DeleteEntry(p)
      PROVE  UNCHANGED <<versions, received>>
  <2>1. ~HasPlacements(h[p].eid)
    BY <1>3 DEF DeleteEntry, At, RowsBuilt
  <2>2. versions' = versions
    BY <1>1, <1>3, <2>1, NothingCascades DEF DeleteEntry
  <2> QED
    BY <1>3, <2>2 DEF DeleteEntry
<1>4. ASSUME NEW p \in Handlers, Rollback(p) \/ Commits(p)
      PROVE  \/ UNCHANGED <<versions, received>>
             \/ CommitVersion(p)
             \/ versions' = {} /\ received' = << >>
  BY <1>3, <1>4 DEF Rollback, tables, Commits, WriteBoard, InsertEntry, CommitSubmit, CascadeDelete
<1> QED
  BY <1>1, <1>2, <1>4, NextForm DEF vars, tables, CreateBoard

(* The version that a commit adds is numbered n + 1.                       *)
LEMMA CommitAppends ==
    ASSUME IInv, NEW p \in Handlers, CommitVersion(p)
    PROVE  \E v : \E n \in Nat :
             /\ versions' = versions \cup {v} /\ v \notin versions
             /\ Numbers = 1..n /\ v.num = n + 1
             /\ v.cut = h[p].cut
             /\ v.rows = DerivedRows(h[p].seen, h[p].rows)
<1> DEFINE v == [num |-> h[p].num, rows |-> DerivedRows(h[p].seen, h[p].rows),
                 cut |-> h[p].cut, limited |-> h[p].limited]
<1>1. versions' = versions \cup {v} /\ h[p].pc = "commit"
  BY DEF CommitVersion, At
<1>2. h[p].num >= 1 /\ Numbers = 1..(h[p].num - 1) /\ h[p].num \in Nat
  BY <1>1 DEF IInv, NumberIsNext, BuildPcs, TypeOK, Requests
<1>3. /\ v.num = h[p].num /\ v.cut = h[p].cut
      /\ v.rows = DerivedRows(h[p].seen, h[p].rows)
  OBVIOUS
<1> HIDE DEF v
<1>4. v \notin versions
  <2>1. v.num \notin Numbers
    BY <1>2, <1>3
  <2> QED
    BY <2>1 DEF Numbers
<1>5. h[p].num - 1 \in Nat /\ v.num = (h[p].num - 1) + 1
  BY <1>2, <1>3
<1> QED
  BY <1>1, <1>2, <1>3, <1>4, <1>5

(* What the client has stays the beginning of the log.                     *)
LEMMA NextReceived ==
    ASSUME IInv, RowsBuilt, ReceivedPrefix, [Next]_vars
    PROVE  ReceivedPrefix'
<1>1. PICK n \in Nat : Numbers = 1..n
  BY DEF IInv, Counted
<1>2. NumbersUnique
  BY DEF IInv
<1>3. CASE UNCHANGED <<versions, received>>
  BY <1>3 DEF ReceivedPrefix
<1>4. CASE Poll
  <2>1. versions' = versions
    BY <1>4 DEF Poll, tables
  <2> QED
    BY <1>1, <1>2, <1>4, <2>1, PollContinues DEF ReceivedPrefix
<1>5. ASSUME NEW p \in Handlers, CommitVersion(p)
      PROVE  ReceivedPrefix'
  <2>1. received' = received /\ versions \subseteq versions'
    BY <1>5 DEF CommitVersion
  <2>2. received \in Seq(versions')
    BY <2>1, SeqMonotonic DEF ReceivedPrefix
  <2> QED
    BY <2>1, <2>2 DEF ReceivedPrefix
<1>6. CASE versions' = {} /\ received' = << >>
  BY <1>6, EmptySeq DEF ReceivedPrefix
<1> QED
  BY <1>3, <1>4, <1>5, <1>6, VersionsChange

(* A version covers every version before it.                               *)
LEMMA NextAdvance ==
    ASSUME IInv, RowsBuilt, CutsRead, SnapshotsAdvance, [Next]_vars
    PROVE  SnapshotsAdvance'
<1>1. CASE versions' \subseteq versions
  BY <1>1 DEF SnapshotsAdvance
<1>2. ASSUME NEW p \in Handlers, CommitVersion(p)
      PROVE  SnapshotsAdvance'
  <2>1. PICK u : \E n \in Nat :
             /\ versions' = versions \cup {u}
             /\ Numbers = 1..n /\ u.num = n + 1
             /\ u.cut = h[p].cut
    BY <1>2, CommitAppends
  <2>2. \A v \in versions : v.num < u.num /\ v.num \in Nat
    BY <2>1 DEF Numbers
  <2>3. u.num \in Nat
    BY <2>1
  <2>4. \A v \in versions : \A c \in v.cut : Covered(c, u.cut)
    BY <1>2, <2>1 DEF CommitVersion, At, CutsRead
  <2>5. ASSUME NEW v \in versions', NEW w \in versions', v.num < w.num
        PROVE  \A c \in v.cut : \E d \in w.cut : d.id = c.id /\ d.rev >= c.rev
    <3>1. v \in versions
      BY <2>1, <2>2, <2>3, <2>5
    <3>2. CASE w \in versions
      BY <2>5, <3>1, <3>2 DEF SnapshotsAdvance
    <3>3. CASE w = u
      BY <2>4, <3>1, <3>3 DEF Covered
    <3> QED
      BY <2>1, <3>2, <3>3
  <2> QED
    BY <2>5 DEF SnapshotsAdvance
<1> QED
  BY <1>1, <1>2, VersionsChange DEF Poll, tables

LEMMA InitFullInv == Init => FullInv
<1> SUFFICES ASSUME Init
             PROVE  FullInv
  OBVIOUS
<1>1. IInv
  BY InitInv
<1>2. /\ board = None /\ entries = {} /\ versions = {} /\ acc = {}
      /\ entryLocks = {} /\ received = << >>
  BY DEF Init
<1>3. \A p \in Handlers : /\ h[p].pc = "idle" /\ h[p].seen = None /\ h[p].fresh = None
                          /\ h[p].cut = {}
  BY DEF Init, Idle
<1>4. SeenIsCurrent /\ KindKept
  BY <1>2, <1>3 DEF SeenIsCurrent, KindKept, HolderPcs
<1>5. EntriesUnique /\ FreshIsNew /\ LocksCompatible /\ LocksHeld
  BY <1>2, <1>3 DEF EntriesUnique, FreshIsNew, LocksCompatible, LocksHeld
<1>6. RowsBuilt /\ PlacementsKeepTheirEntries /\ ScoresUnique /\ RowsRankable
  BY <1>2, <1>3 DEF RowsBuilt, PlacementsKeepTheirEntries, ScoresUnique, RowsRankable
<1>7. CutsCovered /\ CutsRead /\ SnapshotsAdvance
  BY <1>2, <1>3 DEF CutsCovered, CutsRead, SnapshotsAdvance
<1>8. ReceivedPrefix
  BY <1>2, EmptySeq DEF ReceivedPrefix
<1> QED
  BY <1>1, <1>4, <1>5, <1>6, <1>7, <1>8 DEF FullInv

LEMMA NextFullInv == FullInv /\ [Next]_vars => FullInv'
<1> SUFFICES ASSUME FullInv, [Next]_vars
             PROVE  FullInv'
  OBVIOUS
<1> USE DEF FullInv
<1>1. IInv'
  BY NextInv
<1>2. SeenIsCurrent' /\ KindKept'
  BY NextBoard
<1>3. EntriesUnique' /\ FreshIsNew'
  BY NextEntries
<1>4. LocksCompatible' /\ LocksHeld'
  BY NextLocks
<1>5. RowsBuilt' /\ PlacementsKeepTheirEntries'
  BY NextRows
<1>6. ScoresUnique' /\ RowsRankable'
  BY NextScores, NextRankable
<1>7. CutsCovered' /\ CutsRead' /\ SnapshotsAdvance'
  BY NextCuts, NextAdvance
<1>8. ReceivedPrefix'
  BY NextReceived
<1> QED
  BY <1>1, <1>2, <1>3, <1>4, <1>5, <1>6, <1>7, <1>8

(* What every transaction has read stays true until it commits.            *)
THEOREM FullInvariance == Spec => []FullInv
BY InitFullInv, NextFullInv, PTL DEF Spec

(* Deleting an entry never takes placements with it: every placement of    *)
(* every version names an entry that is still there, for any number of     *)
(* requests that create, snapshot and delete at once.                      *)
THEOREM PlacementsKept == Spec => []PlacementsKeepTheirEntries
<1>1. FullInv => PlacementsKeepTheirEntries
  BY DEF FullInv
<1> QED
  BY <1>1, FullInvariance, PTL

(* No accumulative board loses or takes back a score between snapshots.    *)
THEOREM SnapshotsNeverGoBack == Spec => []SnapshotsAdvance
<1>1. FullInv => SnapshotsAdvance
  BY DEF FullInv
<1> QED
  BY <1>1, FullInvariance, PTL

(* Every version that appears is ranked under the configuration the board  *)
(* has at that moment, whatever PATCH requests ran since it was requested. *)
THEOREM RankedAsConfigured == Spec => RankedUnderCurrentConfig
<1> DEFINE Followed == \A v \in versions' \ versions : FollowsConfig(board, v.rows)
<1>1. ASSUME FullInv, [Next]_vars
      PROVE  Followed
  <2>1. CASE versions' \subseteq versions
    BY <2>1
  <2>2. ASSUME NEW p \in Handlers, CommitVersion(p)
        PROVE  \A v \in versions' \ versions : FollowsConfig(board, v.rows)
    <3>1. PICK u : /\ versions' = versions \cup {u}
                   /\ u.rows = DerivedRows(h[p].seen, h[p].rows)
      BY <2>2, <1>1, CommitAppends DEF FullInv
    <3>2. h[p].pc = "commit"
      BY <2>2 DEF CommitVersion, At
    <3>3. h[p].seen = board /\ board \in BoardRows
      BY <1>1, <3>2 DEF FullInv, IInv, TypeOK, SeenIsCurrent, HolderPcs
    <3>4. h[p].rows \in SUBSET PlacementRow /\ IsFiniteSet(h[p].rows)
      BY <1>1 DEF FullInv, IInv, TypeOK, FinitelyMany, Requests
    <3>5. Rankable(board, h[p].rows)
      BY <1>1, <3>2, <3>3 DEF FullInv, RowsRankable
    <3>6. FollowsConfig(board, u.rows)
      BY <3>1, <3>3, <3>4, <3>5, DerivedRowsFollow
    <3> QED
      BY <3>1, <3>6
  <2> QED
    BY <1>1, <2>1, <2>2, VersionsChange DEF FullInv, Poll, tables
<1>2. FullInv /\ [Next]_vars => [Followed]_vars
  BY <1>1
<1> QED
  BY <1>2, FullInvariance, PTL DEF Spec, RankedUnderCurrentConfig

(* A PATCH changes the fields it mentions and no other, however many run   *)
(* at once.                                                                *)
THEOREM PatchesKeepTheRest == Spec => PatchesDoNotOverwrite
<1> DEFINE Kept(p) == h[p].pc = "ub_write" /\ h'[p].pc = "idle" /\ board # None /\ board' # None =>
                        /\ h[p].patch.dir = Absent => board'.dir = board.dir
                        /\ h[p].patch.tiers = Absent => board'.tiers = board.tiers
<1>1. ASSUME FullInv, [Next]_vars, NEW p \in Handlers
      PROVE  Kept(p)
  <2> SUFFICES ASSUME h[p].pc = "ub_write", h'[p].pc = "idle", board # None
               PROVE  /\ h[p].patch.dir = Absent => board'.dir = board.dir
                      /\ h[p].patch.tiers = Absent => board'.tiers = board.tiers
    OBVIOUS
  <2>1. TypeOK /\ HoldersExclude /\ h[p].seen = board /\ board \in BoardRows
    BY <1>1 DEF FullInv, IInv, TypeOK, SeenIsCurrent, HolderPcs
  <2>2. CASE board' = board
    BY <2>2
  <2>3. CASE WriteBoard(p)
    <3>1. board' = board \/ board' = Patched(board, h[p].patch)
      BY <2>1, <2>3 DEF WriteBoard, Rollback, tables
    <3>2. /\ h[p].patch.dir = Absent => Patched(board, h[p].patch).dir = board.dir
          /\ h[p].patch.tiers = Absent => Patched(board, h[p].patch).tiers = board.tiers
      BY <2>1 DEF Patched, BoardRows
    <3> QED
      BY <3>1, <3>2
  <2>4. ASSUME NEW q \in Handlers, Advances(q)
        PROVE  board' = board
    BY <2>4 DEF Advances, Begun, LockedBoard, LockedForDelete, ScoreUpserted, NumberedVersion, CountedNone,
       PlacementsInserted, EntryLocked, EntryInserted, EntriesResolved, ScoresRead, Passes, Turns
  <2>5. ASSUME NEW q \in Handlers, Rollback(q) \/ Commits(q), ~WriteBoard(p)
        PROVE  board' = board
    <3>1. q # p => ~WriteBoard(q) /\ ~CascadeDelete(q)
      BY <2>1, OneHolder DEF WriteBoard, CascadeDelete, At, HolderPcs
    <3>2. ~CascadeDelete(p)
      BY DEF CascadeDelete, At
    <3> QED
      BY <2>5, <3>1, <3>2 DEF Rollback, tables, Commits, InsertEntry, DeleteEntry, CommitVersion, CommitSubmit
  <2>6. ~CreateBoard
    BY DEF CreateBoard
  <2> QED
    BY <1>1, <2>1, <2>2, <2>3, <2>4, <2>5, <2>6, NextForm DEF vars, tables, Poll
<1> DEFINE AllKept == \A p \in Handlers : Kept(p)
<1>2. FullInv /\ [Next]_vars => [AllKept]_vars
  BY <1>1
<1> QED
  BY <1>2, FullInvariance, PTL DEF Spec, PatchesDoNotOverwrite

-----------------------------------------------------------------------------
(* The refinement: every step of the handlers and of the client publishes  *)
(* a version, delivers versions, discards the log, or leaves it alone.     *)

LEMMA InitLog == Init => Log!Init
<1> SUFFICES ASSUME Init
             PROVE  Published = << >> /\ received = << >>
  BY DEF Log!Init
<1>1. versions = {} /\ received = << >>
  BY DEF Init
<1>2. Cardinality(versions) = 0
  BY <1>1, FS_EmptySet
<1>3. Published = << >>
  BY <1>2 DEF Published
<1> QED
  BY <1>1, <1>3

(* Committing a version publishes it.                                      *)
LEMMA CommitPublishes ==
    ASSUME FullInv, [Next]_vars, NEW p \in Handlers, CommitVersion(p)
    PROVE  Log!Publish
<1>1. IInv /\ IInv'
  BY NextFullInv DEF FullInv
<1>2. PICK v : \E n \in Nat :
        versions' = versions \cup {v} /\ v \notin versions /\ Numbers = 1..n /\ v.num = n + 1
  BY <1>1, CommitAppends
<1>3. PICK n \in Nat :
        versions' = versions \cup {v} /\ v \notin versions /\ Numbers = 1..n /\ v.num = n + 1
  BY <1>2
<1>4. {w.num : w \in versions} = 1..n
  BY <1>3 DEF Numbers
<1>5. {w.num : w \in versions'} = 1..(n + 1)
  BY <1>3, <1>4
<1>6. /\ \A u, w \in versions : u.num = w.num => u = w
      /\ \A u, w \in versions' : u.num = w.num => u = w
  BY <1>1 DEF IInv, NumbersUnique
<1>7. Published = LogOf(versions) /\ Published' = LogOf(versions')
  BY DEF Published, VersionNumbered, LogOf
<1>8. /\ Len(Published) = n
      /\ \A i \in 1..n : Published[i] \in versions /\ Published[i].num = i
  <2>1. \A u, w \in versions : u.num = w.num => u = w
    BY <1>6
  <2>2. /\ Len(LogOf(versions)) = n
        /\ \A i \in 1..n : LogOf(versions)[i] \in versions /\ LogOf(versions)[i].num = i
    BY <1>4, <2>1, LogHolds
  <2> QED
    BY <1>7, <2>2
<1>9. n + 1 \in Nat
  OBVIOUS
<1>10. /\ Len(Published') = n + 1
       /\ \A w \in versions' : Published'[w.num] = w
  BY <1>5, <1>6, <1>7, <1>9, LogHolds
<1>11. \A i \in 1..n : Published'[i] = Published[i]
  BY <1>3, <1>8, <1>10
<1>12. UNCHANGED received
  BY DEF CommitVersion
<1> QED
  BY <1>8, <1>10, <1>11, <1>12 DEF Log!Publish, Log!Extends

(* Polling delivers the next versions.                                     *)
LEMMA PollDelivers ==
    ASSUME FullInv, [Next]_vars, Poll
    PROVE  Log!Deliver
<1>1. PICK n \in Nat : Numbers = 1..n
  BY DEF FullInv, IInv, Counted
<1>2. NumbersUnique /\ ReceivedPrefix
  BY DEF FullInv, IInv
<1>3. /\ received' \in Seq(versions)
      /\ Len(received) <= Len(received')
      /\ \A i \in 1..Len(received) : received'[i] = received[i]
      /\ \A i \in 1..Len(received') : received'[i].num = i
  BY <1>1, <1>2, PollContinues
<1>4. {w.num : w \in versions} = 1..n /\ \A u, w \in versions : u.num = w.num => u = w
  BY <1>1, <1>2 DEF Numbers, NumbersUnique
<1>5. Published = LogOf(versions)
  BY DEF Published, VersionNumbered, LogOf
<1>6. /\ Len(Published) = n
      /\ \A w \in versions : w.num \in 1..n /\ Published[w.num] = w
  BY <1>4, <1>5, LogHolds
<1>7. \A i \in 1..Len(received') : received'[i] \in versions
  BY <1>3, ElementOfSeq
<1>8. \A i \in 1..Len(received') : i \in 1..n /\ Published[i] = received'[i]
  BY <1>3, <1>6, <1>7
<1>9. Len(received') <= n
  <2>1. Len(received') \in Nat
    BY <1>3, LenProperties
  <2>2. Len(received') \in 1..Len(received') \/ Len(received') = 0
    BY <2>1
  <2> QED
    BY <1>8, <2>2
<1>10. Len(received) \in Nat /\ Len(received') \in Nat
  BY <1>2, <1>3, LenProperties DEF ReceivedPrefix
<1>11. Log!Extends(received', received)
  BY <1>3, <1>10 DEF Log!Extends
<1>12. Log!Extends(Published, received')
  BY <1>6, <1>8, <1>9, <1>10 DEF Log!Extends
<1>13. Published' = Published
  BY DEF Poll, tables, Published, VersionNumbered
<1> QED
  BY <1>11, <1>12, <1>13 DEF Log!Deliver

LEMMA NextLog == FullInv /\ [Next]_vars => [Log!Next]_(Log!vars)
<1> SUFFICES ASSUME FullInv, [Next]_vars
             PROVE  Log!Next \/ UNCHANGED <<Published, received>>
  BY DEF Log!vars
<1>1. CASE UNCHANGED <<versions, received>>
  BY <1>1 DEF Published, VersionNumbered
<1>2. CASE Poll
  BY <1>2, PollDelivers DEF Log!Next
<1>3. ASSUME NEW p \in Handlers, CommitVersion(p)
      PROVE  Log!Next
  BY <1>3, CommitPublishes DEF Log!Next
<1>4. CASE versions' = {} /\ received' = << >>
  <2>1. Cardinality(versions') = 0
    BY <1>4, FS_EmptySet
  <2>2. Published' = << >>
    BY <2>1 DEF Published
  <2> QED
    BY <1>4, <2>2 DEF Log!Next, Log!Discard
<1> QED
  BY <1>1, <1>2, <1>3, <1>4, VersionsChange DEF FullInv

(* The board's versions and a client that polls for them implement the     *)
(* append-only log and its reader, for any number of concurrent requests.  *)
THEOREM ImplementsLog == Spec => ImplementsVersionLog
BY InitLog, NextLog, FullInvariance, PTL DEF Spec, ImplementsVersionLog, Log!Spec
=============================================================================

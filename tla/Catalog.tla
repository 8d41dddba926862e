------------------------------- MODULE Catalog -------------------------------
(***************************************************************************)
(* What points at boards: collections with their boards, and references    *)
(* with their pinned versions (collections.rs, references.rs and their     *)
(* routes).                                                                *)
(*                                                                         *)
(* A request first resolves the slugs of its path, each by a statement of  *)
(* its own outside any transaction, and then works with the ids it got.    *)
(* Boards and collections may be deleted, and their slugs taken again by   *)
(* other rows, between any two statements.                                 *)
(***************************************************************************)
EXTENDS Integers, FiniteSets

CONSTANTS BoardIds, CollIds, RefIds,  \* ids the database may give out
          BoardSlugs, CollSlugs,
          Values,         \* names and metadata
          MaxVersions,    \* versions a board gets at most
          Requests,       \* requests in flight
          None,           \* no row yet, null, nothing found
          Absent,         \* a field a PATCH does not mention
          Gone            \* a deleted row; its id is never given out again

ASSUME CatalogBounds ==
    /\ MaxVersions \in Nat
    /\ None \notin BoardIds \cup CollIds \cup RefIds \cup BoardSlugs \cup Values
    /\ Gone \notin BoardSlugs \cup {None} /\ Absent \notin Values \cup {None}
    /\ None \notin Requests

VARIABLES boards,   \* boards[b]: its slug
          count,    \* count[b]: its versions are <<b, 1>> .. <<b, count[b]>>
          colls,    \* colls[c]: the row of a collection
          members,  \* collection_boards
          refs,     \* board_references
          lock,     \* lock[c]: the request that holds FOR UPDATE on c
          req       \* req[r]: what a request asks for and has read

tables == <<boards, count, colls, members, refs>>
catalogVars == <<tables, lock, req>>

Board(b) == boards[b] \notin {None, Gone}
Coll(c)  == colls[c] \notin {None, Gone}
Ref(i)   == refs[i] \notin {None, Gone}

Version == BoardIds \X (1 .. MaxVersions)
CollRow == [slug : CollSlugs, name : Values, metadata : Values \cup {None}]
RefRow  == [board : BoardIds, pin : Version \cup {None}]
Patch   == [name : Values \cup {Absent}, metadata : Values \cup {None, Absent}]

\* No row is mistaken for a mark.
ASSUME RowsAreNotMarks ==
    /\ \A m \in {None, Gone} : m \notin CollRow /\ m \notin RefRow
    /\ None \notin Version /\ None \notin Patch

\* Which operation, at which statement, with which slugs and inputs, and the
\* ids found so far.
Op   == {"pin", "unpin", "add", "remove", "patch"}
NoRequest == [pc |-> "idle"]
Busy == [pc : {"coll", "board", "version", "write"}, op : Op,
         coll_slug : CollSlugs \cup {None}, board_slug : BoardSlugs \cup {None},
         number : 0 .. MaxVersions + 1, ref : RefIds \cup {None}, patch : Patch \cup {None},
         coll : CollIds \cup {None}, board : BoardIds \cup {None},
         pin : Version \cup {None}, row : CollRow \cup {None}]

CatalogTypeOK ==
    /\ boards \in [BoardIds -> BoardSlugs \cup {None, Gone}]
    /\ count \in [BoardIds -> 0 .. MaxVersions]
    /\ colls \in [CollIds -> CollRow \cup {None, Gone}]
    /\ members \subseteq CollIds \X BoardIds
    /\ refs \in [RefIds -> RefRow \cup {None, Gone}]
    /\ lock \in [CollIds -> Requests \cup {None}]
    /\ req \in [Requests -> {NoRequest} \cup Busy]

CatalogInit ==
    /\ boards = [b \in BoardIds |-> None] /\ count = [b \in BoardIds |-> 0]
    /\ colls = [c \in CollIds |-> None] /\ members = {}
    /\ refs = [i \in RefIds |-> None]
    /\ lock = [c \in CollIds |-> None]
    /\ req = [r \in Requests |-> NoRequest]

-----------------------------------------------------------------------------
\* Boards and versions, each call in one step (Store has the details).

CreateBoard ==
    /\ \E b \in BoardIds, s \in BoardSlugs :
          /\ boards[b] = None /\ \A a \in BoardIds : boards[a] # s
          /\ boards' = [boards EXCEPT ![b] = s]
    /\ UNCHANGED <<count, colls, members, refs, lock, req>>

CreateVersion ==
    /\ \E b \in BoardIds :
          /\ Board(b) /\ count[b] < MaxVersions
          /\ count' = [count EXCEPT ![b] = @ + 1]
    /\ UNCHANGED <<boards, colls, members, refs, lock, req>>

\* ON DELETE CASCADE to versions, references and memberships; a reference
\* of another board that pinned a deleted version would lose its pin.
DeleteBoard ==
    /\ \E b \in BoardIds :
          /\ Board(b)
          /\ boards' = [boards EXCEPT ![b] = Gone]
          /\ count' = [count EXCEPT ![b] = 0]
          /\ members' = {m \in members : m[2] # b}
          /\ refs' = [i \in RefIds |->
                IF ~Ref(i) THEN refs[i]
                ELSE IF refs[i].board = b THEN Gone
                ELSE IF refs[i].pin # None /\ refs[i].pin[1] = b THEN [refs[i] EXCEPT !.pin = None]
                ELSE refs[i]]
    /\ UNCHANGED <<colls, lock, req>>

-----------------------------------------------------------------------------
\* Collections, in one statement each.

CreateCollection ==
    /\ \E c \in CollIds, row \in CollRow :
          /\ colls[c] = None /\ \A d \in CollIds : Coll(d) => colls[d].slug # row.slug
          /\ colls' = [colls EXCEPT ![c] = row]
    /\ UNCHANGED <<boards, count, members, refs, lock, req>>

\* DELETE waits for the lock of a PATCH; the memberships go by cascade.
DeleteCollection ==
    /\ \E c \in CollIds :
          /\ Coll(c) /\ lock[c] = None
          /\ colls' = [colls EXCEPT ![c] = Gone]
          /\ members' = {m \in members : m[1] # c}
    /\ UNCHANGED <<boards, count, refs, lock, req>>

-----------------------------------------------------------------------------
\* Requests of several statements.

\* A request of operation op; the inputs it does not have are None or 0.
Request(op, cs, bs, n, i, p) ==
    [pc |-> IF op \in {"pin", "unpin"} THEN "board" ELSE "coll", op |-> op,
     coll_slug |-> cs, board_slug |-> bs, number |-> n, ref |-> i, patch |-> p,
     coll |-> None, board |-> None, pin |-> None, row |-> None]

\* References resolve a board, the others a collection first.  Number 0 asks
\* for no pin; a PATCH that mentions nothing reads the collection and ends.
Start(r) ==
    /\ req[r] = NoRequest
    /\ \E cs \in CollSlugs, bs \in BoardSlugs :
          req' \in {[req EXCEPT ![r] = q] : q \in
                \* POST and DELETE /boards/{slug}/references
                {Request("pin", None, bs, n, None, None) : n \in 0 .. MaxVersions + 1}
                \cup {Request("unpin", None, bs, 0, i, None) : i \in RefIds}
                \* POST and DELETE /collections/{slug}/boards, PATCH /collections/{slug}
                \cup {Request(op, cs, bs, 0, None, None) : op \in {"add", "remove"}}
                \cup {Request("patch", cs, None, 0, None, p) : p \in
                         {p \in Patch : p.name # Absent \/ p.metadata # Absent}}}
    /\ UNCHANGED <<tables, lock>>

\* An answer, of success or of an error, ends the request and its locks.
End(r) ==
    /\ req' = [req EXCEPT ![r] = NoRequest]
    /\ lock' = [c \in CollIds |-> IF lock[c] = r THEN None ELSE lock[c]]

\* Mutant: the row is read without FOR UPDATE.
ReadToPatch(r, c) == lock' = lock

\* SELECT ... FOR UPDATE (collections::update)
LockToPatch(r, c) == lock[c] = None /\ lock' = [lock EXCEPT ![c] = r]

ResolveCollection(r) ==
    /\ req[r].pc = "coll"
    /\ \/ /\ \A c \in CollIds : Coll(c) => colls[c].slug # req[r].coll_slug
          /\ End(r)
       \/ \E c \in CollIds :
             /\ Coll(c) /\ colls[c].slug = req[r].coll_slug
             /\ req' = [req EXCEPT ![r].coll = c,
                           ![r].row = IF req[r].op = "patch" THEN colls[c] ELSE None,
                           ![r].pc = IF req[r].op \in {"add", "remove"} THEN "board" ELSE "write"]
             /\ IF req[r].op = "patch" THEN LockToPatch(r, c) ELSE lock' = lock
    /\ UNCHANGED tables

ResolveBoard(r) ==
    /\ req[r].pc = "board"
    /\ \/ /\ \A b \in BoardIds : boards[b] # req[r].board_slug
          /\ End(r)
       \/ \E b \in BoardIds :
             /\ boards[b] = req[r].board_slug
             /\ req' = [req EXCEPT ![r].board = b,
                           ![r].pc = IF req[r].op = "pin" /\ req[r].number > 0
                                     THEN "version" ELSE "write"]
             /\ UNCHANGED lock
    /\ UNCHANGED tables

\* Mutant: the version is looked up by its number alone.
AnyBoardsVersion(b, n) == {v \in Version : v[2] = n /\ v[2] <= count[v[1]]}

\* SELECT id FROM versions WHERE board_id = $1 AND version_number = $2
VersionNumbered(b, n) == {v \in Version : v[1] = b /\ v[2] = n /\ n <= count[b]}

ResolveVersion(r) ==
    /\ req[r].pc = "version"
    /\ LET found == VersionNumbered(req[r].board, req[r].number) IN
          \/ found = {} /\ End(r)
          \/ \E v \in found :
                /\ req' = [req EXCEPT ![r].pin = v, ![r].pc = "write"]
                /\ UNCHANGED lock
    /\ UNCHANGED tables

\* INSERT INTO board_references: the foreign keys refuse a board or a
\* version that has gone (500).
InsertReference(r) ==
    LET q == req[r] IN
    /\ q.pc = "write" /\ q.op = "pin"
    /\ \/ /\ Board(q.board) /\ (q.pin # None => q.pin[2] <= count[q.pin[1]])
          /\ \E i \in RefIds :
                /\ refs[i] = None
                /\ refs' = [refs EXCEPT ![i] = [board |-> q.board, pin |-> q.pin]]
       \/ /\ ~(Board(q.board) /\ (q.pin # None => q.pin[2] <= count[q.pin[1]]))
          /\ UNCHANGED refs
    /\ End(r)
    /\ UNCHANGED <<boards, count, colls, members>>

\* DELETE FROM board_references WHERE id = $1 AND board_id = $2
IsOfBoard(q, i) == Ref(i) /\ i = q.ref /\ refs[i].board = q.board

DeleteReference(r) ==
    /\ req[r].pc = "write" /\ req[r].op = "unpin"
    /\ refs' = [i \in RefIds |-> IF IsOfBoard(req[r], i) THEN Gone ELSE refs[i]]
    /\ End(r)
    /\ UNCHANGED <<boards, count, colls, members>>

\* Mutant: the schema does without the foreign keys.
AnyMembership(q) == <<q.coll, q.board>> \notin members

\* PRIMARY KEY (collection_id, board_id) and the two foreign keys.
MembershipAllowed(q) == <<q.coll, q.board>> \notin members /\ Coll(q.coll) /\ Board(q.board)

\* 409 when the board is in the collection, 404 when either has gone.  Postgres
\* has the check of the foreign key wait for a PATCH of the collection (FOR
\* UPDATE); here it need not: what it looks at is nothing a PATCH changes.
InsertMembership(r) ==
    /\ req[r].pc = "write" /\ req[r].op = "add"
    /\ members' = IF MembershipAllowed(req[r])
                  THEN members \cup {<<req[r].coll, req[r].board>>} ELSE members
    /\ End(r)
    /\ UNCHANGED <<boards, count, colls, refs>>

DeleteMembership(r) ==
    /\ req[r].pc = "write" /\ req[r].op = "remove"
    /\ members' = members \ {<<req[r].coll, req[r].board>>}
    /\ End(r)
    /\ UNCHANGED <<boards, count, colls, refs>>

\* Absent keeps what the locked row has, null clears metadata.
Patched(row, p) ==
    [row EXCEPT !.name = IF p.name = Absent THEN @ ELSE p.name,
                !.metadata = IF p.metadata = Absent THEN @ ELSE p.metadata]

PatchCollection(r) ==
    LET q == req[r] IN
    /\ q.pc = "write" /\ q.op = "patch"
    /\ colls' = IF Coll(q.coll) THEN [colls EXCEPT ![q.coll] = Patched(q.row, q.patch)] ELSE colls
    /\ End(r)
    /\ UNCHANGED <<boards, count, members, refs>>

-----------------------------------------------------------------------------
Write(r) ==
    \/ InsertReference(r) \/ DeleteReference(r)
    \/ InsertMembership(r) \/ DeleteMembership(r)
    \/ PatchCollection(r)

\* The client disconnects: the handler is dropped, its transaction rolled back.
Cancel(r) == req[r] # NoRequest /\ End(r) /\ UNCHANGED tables

CatalogNext ==
    \/ CreateBoard \/ CreateVersion \/ DeleteBoard
    \/ CreateCollection \/ DeleteCollection
    \/ \E r \in Requests : \/ Start(r) \/ ResolveCollection(r) \/ ResolveBoard(r)
                           \/ ResolveVersion(r) \/ Write(r) \/ Cancel(r)

CatalogSpec == CatalogInit /\ [][CatalogNext]_catalogVars

-----------------------------------------------------------------------------
(***************************************************************************)
(* A reference belongs to a board that exists, and what it pins is an      *)
(* existing version of that board, although the version was looked up      *)
(* before the row was inserted and another board may have taken the slug.  *)
(***************************************************************************)
PinsOwnVersion ==
    \A i \in RefIds : Ref(i) =>
        /\ Board(refs[i].board)
        /\ refs[i].pin # None =>
              refs[i].pin[1] = refs[i].board /\ refs[i].pin[2] <= count[refs[i].board]

(***************************************************************************)
(* A membership never outlives its board or its collection, and is never   *)
(* made for one that has gone since its slug was resolved.                 *)
(***************************************************************************)
MembershipsAreLive == \A m \in members : Coll(m[1]) /\ Board(m[2])

(***************************************************************************)
(* "Lock the row to prevent lost updates from concurrent PATCHes": a PATCH *)
(* of a collection changes only the fields it mentions, whatever other     *)
(* PATCHes did since its request came in.                                  *)
(***************************************************************************)
CollectionPatchesKept ==
    [][\A r \in Requests : PatchCollection(r) =>
          \A c \in CollIds : Coll(c) =>
             /\ req[r].patch.name = Absent => colls'[c].name = colls[c].name
             /\ req[r].patch.metadata = Absent => colls'[c].metadata = colls[c].metadata]_catalogVars

=============================================================================

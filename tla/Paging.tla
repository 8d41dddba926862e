------------------------------- MODULE Paging -------------------------------
(***************************************************************************)
(* Cursor pagination of a list (list_paginated of boards, collections,     *)
(* versions, entries and references, which are the same query in one       *)
(* direction or the other) while the table is written to.                  *)
(*                                                                         *)
(* Rows are ordered by (created_at, id).  created_at is now(), the start   *)
(* of the writing transaction, so rows of one transaction (an import, a    *)
(* version with new entries) have the same one, and a row may become       *)
(* visible after rows that are younger.  The cursor is the key of the last *)
(* row of a page, and each page is a statement of its own.                 *)
(***************************************************************************)
EXTENDS Integers, FiniteSets

CONSTANTS Ids,           \* row ids, ordered like uuids are
          MaxTime,       \* bound of the clock
          Writers,       \* writing transactions
          Params,        \* values of ?limit= that clients send
          DefaultLimit,  \* DEFAULT_PAGE_LIMIT
          MaxLimit,      \* MAX_PAGE_LIMIT
          Nothing           \* no parameter, no cursor, no transaction

ASSUME PagingBounds ==
    /\ Ids \subseteq Int /\ Params \subseteq Int
    /\ MaxTime \in Nat /\ DefaultLimit \in Nat /\ MaxLimit \in Nat \ {0}
    /\ Nothing \notin Int /\ Nothing \notin [at : 0 .. MaxTime, id : Ids]


VARIABLES now,     \* the database's clock
          rows,    \* the rows a statement sees
          used,    \* ids that have been given out
          tx,      \* tx[w]: the rows of an open transaction, its now()
          parent,  \* the board whose rows are listed exists
          dir,     \* ORDER BY ... ASC or DESC
          pager    \* a client that reads the whole list

listVars == <<now, rows, used, tx, parent, dir, pager>>

Time == 0 .. MaxTime
Row  == [at : Time, id : Ids]
Tx   == [at : Time, new : SUBSET Row]

\* The client: `page' is the last page it got, `got' the ones before it,
\* `steady' the rows that have been in the table since its first request.
Pager == [pc : {"new", "more", "done", "refused"}, cursor : Row \cup {Nothing},
          got : SUBSET Row, page : SUBSET Row, steady : SUBSET Row]

NewPager == [pc |-> "new", cursor |-> Nothing, got |-> {}, page |-> {}, steady |-> {}]

ListTypeOK ==
    /\ now \in Time /\ rows \in SUBSET Row /\ used \in SUBSET Ids
    /\ tx \in [Writers -> Tx \cup {Nothing}]
    /\ parent \in BOOLEAN /\ dir \in {"asc", "desc"} /\ pager \in Pager

ListInit ==
    /\ now = 0 /\ rows = {} /\ used = {}
    /\ tx = [w \in Writers |-> Nothing]
    /\ parent = TRUE /\ dir \in {"asc", "desc"} /\ pager = NewPager

-----------------------------------------------------------------------------
\* Writers.

Tick ==
    /\ now < MaxTime /\ now' = now + 1
    /\ UNCHANGED <<rows, used, tx, parent, dir, pager>>

Begin(w) ==
    /\ tx[w] = Nothing
    /\ tx' = [tx EXCEPT ![w] = [at |-> now, new |-> {}]]
    /\ UNCHANGED <<now, rows, used, parent, dir, pager>>

\* INSERT ... DEFAULT uuidv7(), DEFAULT now().  Ids of different sessions
\* need not come in order.  The foreign key asks for the board, and its
\* lock keeps the board until the transaction ends.
Insert(w) ==
    /\ tx[w] # Nothing /\ parent
    /\ \E id \in Ids \ used :
          /\ used' = used \cup {id}
          /\ tx' = [tx EXCEPT ![w].new = @ \cup {[at |-> tx[w].at, id |-> id]}]
    /\ UNCHANGED <<now, rows, parent, dir, pager>>

Commit(w) ==
    /\ tx[w] # Nothing
    /\ rows' = rows \cup tx[w].new
    /\ tx' = [tx EXCEPT ![w] = Nothing]
    /\ UNCHANGED <<now, used, parent, dir, pager>>

Rollback(w) ==
    /\ tx[w] # Nothing
    /\ tx' = [tx EXCEPT ![w] = Nothing]
    /\ UNCHANGED <<now, rows, used, parent, dir, pager>>

\* The table loses rows, and the listing no longer owes them to its client.
RemoveRows(S) ==
    /\ rows' = rows \ S
    /\ pager' = [pager EXCEPT !.steady = @ \ S]

Delete ==
    /\ \E r \in rows : RemoveRows({r})
    /\ UNCHANGED <<now, used, tx, parent, dir>>

\* The board is deleted and its rows with it; another may take its slug.
\* A transaction that has not inserted yet will find no board and fail.
DeleteParent ==
    /\ parent /\ parent' = FALSE
    /\ \A w \in Writers : tx[w] # Nothing => tx[w].new = {}
    /\ tx' = [w \in Writers |-> Nothing]
    /\ RemoveRows(rows)
    /\ UNCHANGED <<now, used, dir>>

CreateParent ==
    /\ ~parent /\ parent' = TRUE
    /\ UNCHANGED <<now, rows, used, tx, dir, pager>>

-----------------------------------------------------------------------------
\* A page.

\* Mutant: the limit is taken as it comes.
AnyLimit(l) == IF l = Nothing THEN DefaultLimit ELSE l

\* PaginationParams::effective_limit
EffectiveLimit(l) ==
    LET n == IF l = Nothing THEN DefaultLimit ELSE l IN
    IF n < 1 THEN 1 ELSE IF n > MaxLimit THEN MaxLimit ELSE n

\* (created_at, id) < (created_at, id)
Less(a, b) == a.at < b.at \/ (a.at = b.at /\ a.id < b.id)

Before(a, b) == IF dir = "asc" THEN Less(a, b) ELSE Less(b, a)

\* Mutant: the id is left out of the comparison with the cursor.
AfterTime(c) ==
    {r \in rows : c = Nothing \/ (IF dir = "asc" THEN c.at < r.at ELSE r.at < c.at)}

\* Mutant: the row of the cursor is listed again.
AfterOrAt(c) == {r \in rows : c = Nothing \/ r = c \/ Before(c, r)}

\* The WHERE clause.
After(c) == {r \in rows : c = Nothing \/ Before(c, r)}

\* ORDER BY ... LIMIT: the first n rows of S, which has more.
First(S, n) ==
    {P \in SUBSET S : Cardinality(P) = n /\ \A p \in P, s \in S \ P : Before(p, s)}

LastRow(P) == {p \in P : \A q \in P : q = p \/ Before(q, p)}

\* Mutant: the last page has a cursor, too.
CursorAlways(P, has_more) == IF P = {} THEN {pager.cursor} ELSE LastRow(P)

\* next_cursor: the key of the last item when there is more.
NextCursor(P, has_more) == IF ~has_more \/ P = {} THEN {Nothing} ELSE LastRow(P)

\* One request of the client: the statement fetches limit + 1 rows to learn
\* whether there are more than limit.
Page ==
    /\ pager.pc \in {"new", "more"} /\ parent
    /\ \E l \in Params \cup {Nothing} :
          LET limit    == EffectiveLimit(l)
              S        == After(pager.cursor)
              has_more == Cardinality(S) > limit
          IN \E P \in IF has_more THEN First(S, limit) ELSE {S} :
             \E c \in NextCursor(P, has_more) :
                pager' = [pc     |-> IF c = Nothing THEN "done" ELSE "more",
                          cursor |-> c,
                          got    |-> pager.got \cup pager.page,
                          page   |-> P,
                          steady |-> IF pager.pc = "new" THEN rows ELSE pager.steady]
    /\ UNCHANGED <<now, rows, used, tx, parent, dir>>

\* The board is gone: 404, and the client gives up.  When it went between
\* the look-up of the slug and the list, the page is empty and the last one.
PageOfNoBoard ==
    /\ pager.pc \in {"new", "more"} /\ ~parent
    /\ \E pc \in {"refused", "done"} :
          pager' = [pager EXCEPT !.pc = pc, !.cursor = Nothing,
                                 !.got = @ \cup pager.page, !.page = {}]
    /\ UNCHANGED <<now, rows, used, tx, parent, dir>>

ListAgain ==
    /\ pager.pc \in {"done", "refused"}
    /\ pager' = NewPager
    /\ UNCHANGED <<now, rows, used, tx, parent, dir>>

-----------------------------------------------------------------------------
ListNext ==
    \/ Tick \/ Delete \/ DeleteParent \/ CreateParent
    \/ \E w \in Writers : Begin(w) \/ Insert(w) \/ Commit(w) \/ Rollback(w)
    \/ Page \/ PageOfNoBoard \/ ListAgain

\* A client asks for the next page until there is none.
ListSpec == ListInit /\ [][ListNext]_listVars /\ WF_listVars(Page \/ PageOfNoBoard)

-----------------------------------------------------------------------------
(***************************************************************************)
(* A client that follows next_cursor to the end has got every row that was *)
(* in the table from its first request on, whatever was inserted, deleted  *)
(* or committed late in between, and rows with equal created_at included;  *)
(* until then each such row it has not got is still ahead of its cursor.   *)
(***************************************************************************)
NothingSkipped ==
    /\ pager.pc = "done" => pager.steady \subseteq pager.got \cup pager.page
    /\ pager.pc = "more" =>
          \A r \in pager.steady \ (pager.got \cup pager.page) : Before(pager.cursor, r)

(***************************************************************************)
(* The pages come in order and no row comes twice: everything on a page    *)
(* follows everything on the pages before it.                              *)
(***************************************************************************)
PagesInOrder == \A old \in pager.got, new \in pager.page : Before(old, new)

(***************************************************************************)
(* A client that follows next_cursor comes to an end.                      *)
(***************************************************************************)
ListingEnds == (pager.pc = "more") ~> (pager.pc \in {"done", "refused"})
=============================================================================

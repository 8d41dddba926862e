--------------------------- MODULE RealtimeProofs ---------------------------
(***************************************************************************)
(* Proofs about Realtime, for every set of requests, slugs and settings.   *)
(*                                                                         *)
(* The argument: RENAME moves the scores of a board to keys that belong to *)
(* one snapshot, so every score is in one place at a time (InOnePlace) and *)
(* the places it passes through are the board's keys, the keys of one      *)
(* request and a version (Accounted); a score that is submitted later is   *)
(* a new one (Known).  A snapshot that leaves the scores in Redis reads    *)
(* them while it holds the board row, so nothing can be committed between  *)
(* its reading and its commit (Forward).                                   *)
(***************************************************************************)
EXTENDS Realtime, SequenceTheorems, TLAPS

Score == [slug : Slugs, rev : Nat]

VersionRow == [rows : SUBSET Score, cleared : BOOLEAN]

(* The steps at which a snapshot may have taken the scores, and those      *)
(* before it when it is going to.                                          *)
TakenPcs == {"sn_lock", "sn_check", "sn_read", "sn_commit", "sn_cleanup"}

TakingPcs == {"sn_exists", "sn_names", "sn_both", "sn_scores"}

LockedPcs == {"sn_check", "sn_read", "sn_commit"}

Pcs == TakenPcs \cup TakingPcs \cup {"idle", "del_redis", "del_row", "su_entry", "su_redis"}

Requests == [pc : Pcs, seen : BoardRows \cup {None}, slug : Slugs \cup {None},
             temp : SUBSET Score, rows : SUBSET Score]

TypeOK ==
    /\ board \in BoardRows \cup {None}
    /\ versions \in Seq(VersionRow)
    /\ live \subseteq Score
    /\ h \in [Handlers -> Requests]
    /\ \A p \in Handlers : h[p].pc \in {"su_entry", "su_redis"} => h[p].slug \in Slugs
    /\ \A p \in Handlers : h[p].pc # "idle" => h[p].seen \in BoardRows
    /\ issued \in [Slugs -> Nat]

(* Of every entry the board's keys hold one score.                         *)
LiveUnique == \A x, y \in live : x.slug = y.slug => x = y

(* A score that is anywhere has been submitted.                            *)
Known ==
    /\ \A x \in live : x.rev <= issued[x.slug]
    /\ \A p \in Handlers : \A x \in h[p].temp \cup h[p].rows : x.rev <= issued[x.slug]
    /\ \A i \in DOMAIN versions : \A x \in versions[i].rows : x.rev <= issued[x.slug]

(* A snapshot holds FOR UPDATE from its lock to its commit.                *)
LockHeld == \A p \in Handlers : h[p].pc \in LockedPcs => lockedBy = p

(* Only a snapshot that clears takes the scores, and it saves those.       *)
TempIsTaken ==
    \A p \in Handlers :
        /\ h[p].pc \notin TakenPcs => h[p].temp = {}
        /\ h[p].pc \in TakingPcs => h[p].seen.clear
        /\ h[p].pc \in TakenPcs /\ ~h[p].seen.clear => h[p].temp = {}
        /\ h[p].pc = "sn_commit" /\ h[p].seen.clear => h[p].rows = h[p].temp

Saved(x) == \E i \in DOMAIN versions : x \in versions[i].rows

(* A submission is where it is looked for, or it was dropped.              *)
Accounted ==
    /\ board = None => owed = {}
    /\ \A x \in owed : \/ x \in live \/ x \in dropped \/ Saved(x)
                       \/ \E p \in Handlers : x \in h[p].temp
    /\ \A p \in Handlers : h[p].pc = "sn_cleanup" => \A x \in h[p].temp \cap owed : Saved(x)

Cleared(x) == \E i \in DOMAIN versions : versions[i].cleared /\ x \in versions[i].rows

(* A score is in one place at a time.                                      *)
InOnePlace ==
    /\ \A x \in live : ~Cleared(x) /\ \A p \in Handlers : x \notin h[p].temp
    /\ \A p, q \in Handlers : p # q => h[p].temp \cap h[q].temp = {}
    /\ \A p \in Handlers : h[p].pc # "sn_cleanup" => \A x \in h[p].temp : ~Cleared(x)
    /\ \A i, j \in DOMAIN versions :
         i # j /\ versions[i].cleared /\ versions[j].cleared =>
             \A x \in versions[i].rows : x \notin versions[j].rows

(* No score of the one is older than the other's of the same entry.        *)
NotAfter(rows, later) == \A x \in rows, y \in later : x.slug = y.slug => x.rev <= y.rev

(* Scores left in Redis only ever get newer.                               *)
Forward ==
    /\ \A i \in DOMAIN versions : ~versions[i].cleared => NotAfter(versions[i].rows, live)
    /\ \A p \in Handlers : h[p].pc = "sn_commit" /\ ~h[p].seen.clear =>
         /\ NotAfter(h[p].rows, live)
         /\ \A i \in DOMAIN versions : ~versions[i].cleared => NotAfter(versions[i].rows, h[p].rows)
    /\ \A i, j \in DOMAIN versions :
         i < j /\ ~versions[i].cleared /\ ~versions[j].cleared =>
             NotAfter(versions[i].rows, versions[j].rows)

IInv ==
    /\ TypeOK /\ LiveUnique /\ Known
    /\ LockHeld /\ TempIsTaken
    /\ Accounted /\ InOnePlace /\ Forward

-----------------------------------------------------------------------------
(* The steps, told by what they do to a request and to the scores.         *)

scores == <<versions, live, issued, owed, dropped>>

Others(p) ==
    /\ p \in Handlers /\ h' \in [Handlers -> Requests]
    /\ \A q \in Handlers : q # p => h'[q] = h[q]

(* A request goes on to its next step.                                     *)
Turns(p, from, to, temp, rows) ==
    /\ Others(p)
    /\ h[p].pc = from /\ h'[p].pc = to
    /\ h'[p].seen = h[p].seen /\ h'[p].slug = h[p].slug
    /\ h'[p].temp = temp /\ h'[p].rows = rows

Ends(p) ==
    /\ Others(p)
    /\ h'[p].pc = "idle" /\ h'[p].temp = {} /\ h'[p].rows = {}
    /\ lockedBy' = lockedBy \/ lockedBy = p

Quiet == UNCHANGED <<scores, h, lockedBy>> /\ board' \in BoardRows \cup {None} /\ (board' = None => board = None)

StartPcs == {"del_redis", "del_row", "su_entry", "sn_exists", "sn_lock"}

Starts(p) ==
    /\ Others(p)
    /\ h[p].pc = "idle" /\ h'[p].pc \in StartPcs
    /\ h'[p].seen = board /\ board \in BoardRows
    /\ h'[p].pc = "su_entry" => h'[p].slug \in Slugs
    /\ h'[p].pc = "sn_exists" => board.clear
    /\ h'[p].temp = {} /\ h'[p].rows = {}
    /\ UNCHANGED <<scores, board, lockedBy>>

Moves(p, from, to) ==
    /\ Turns(p, from, to, h[p].temp, h[p].rows)
    /\ UNCHANGED <<scores, board>>
    /\ IF to = "sn_check" THEN lockedBy = None /\ lockedBy' = p ELSE lockedBy' = lockedBy

Clears(p) ==
    /\ Turns(p, "del_redis", "del_row", h[p].temp, h[p].rows)
    /\ live' = {} /\ dropped' = dropped \cup live
    /\ UNCHANGED <<board, versions, lockedBy, issued, owed>>

Deletes(p) ==
    /\ Ends(p) /\ lockedBy = None /\ h[p].pc = "del_row"
    /\ board' = None /\ versions' = << >> /\ owed' = {} /\ dropped' = {}
    /\ UNCHANGED <<live, issued>>

Writes(p) ==
    LET score == [slug |-> h[p].slug, rev |-> issued[h[p].slug] + 1]
    IN  /\ Ends(p) /\ h[p].pc = "su_redis"
        /\ live' = Latest(live, score)
        /\ issued' = [issued EXCEPT ![score.slug] = score.rev]
        /\ owed' = IF board # None THEN Latest(owed, score) ELSE owed
        /\ UNCHANGED <<board, versions, dropped>>

Takes(p, from) ==
    /\ Turns(p, from, "sn_lock", live, h[p].rows)
    /\ live' = {}
    /\ UNCHANGED <<board, versions, lockedBy, issued, owed, dropped>>

(* The renaming fails half-way: the scores are gone.                       *)
Loses(p) ==
    /\ Ends(p) /\ h[p].pc = "sn_both"
    /\ live' = {} /\ dropped' = dropped \cup live
    /\ UNCHANGED <<board, versions, issued, owed>>

Reads(p) ==
    /\ Turns(p, "sn_read", "sn_commit", h[p].temp, IF h[p].seen.clear THEN h[p].temp ELSE live)
    /\ UNCHANGED <<scores, board, lockedBy>>

Commits(p) ==
    /\ Turns(p, "sn_commit", "sn_cleanup", h[p].temp, {})
    /\ versions' = Append(versions, [rows |-> h[p].rows, cleared |-> h[p].seen.clear])
    /\ lockedBy' = None
    /\ UNCHANGED <<board, live, issued, owed, dropped>>

(* A request ends, saved or not.                                           *)
Stops(p) ==
    /\ Ends(p)
    /\ dropped' = dropped \cup h[p].temp \/ (h[p].pc = "sn_cleanup" /\ dropped' = dropped)
    /\ UNCHANGED <<board, versions, live, issued, owed>>

MovesOn(p) ==
    \/ Moves(p, "del_redis", "del_row") \/ Moves(p, "su_entry", "su_redis")
    \/ Moves(p, "sn_exists", "sn_names")
    \/ Moves(p, "sn_names", "sn_both") \/ Moves(p, "sn_names", "sn_scores")
    \/ Moves(p, "sn_lock", "sn_check") \/ Moves(p, "sn_check", "sn_read")

Acts(p) ==
    \/ Starts(p) \/ MovesOn(p) \/ Clears(p) \/ Deletes(p) \/ Writes(p)
    \/ Takes(p, "sn_both") \/ Takes(p, "sn_scores") \/ Loses(p)
    \/ Reads(p) \/ Commits(p) \/ Stops(p)

(* A request that becomes r.                                               *)
LEMMA Becomes ==
    ASSUME TypeOK, NEW p \in Handlers, NEW r \in Requests, h' = [h EXCEPT ![p] = r]
    PROVE  Others(p) /\ h'[p] = r
BY DEF TypeOK, Others

LEMMA EndForm ==
    ASSUME TypeOK, NEW p \in Handlers, End(p)
    PROVE  Ends(p)
<1>1. Idle \in Requests
  BY DEF Idle, Requests, Pcs
<1>2. Others(p) /\ h'[p] = Idle
  BY <1>1, Becomes DEF End
<1>3. lockedBy' = lockedBy \/ lockedBy = p
  BY DEF End
<1> QED
  BY <1>2, <1>3 DEF Idle, Ends

LEMMA AbortForm ==
    ASSUME TypeOK, NEW p \in Handlers, Abort(p)
    PROVE  Acts(p)
<1>1. Ends(p)
  BY EndForm DEF Abort
<1>2. UNCHANGED <<board, versions, live, issued, owed>>
  BY DEF Abort, postgres, redis
<1>3. dropped' = dropped \cup h[p].temp \/ (h[p].pc = "sn_cleanup" /\ dropped' = dropped)
  BY DEF Abort, At
<1> QED
  BY <1>1, <1>2, <1>3 DEF Stops, Acts

LEMMA StartForm ==
    ASSUME TypeOK, NEW p \in Handlers, NEW pc \in StartPcs, NEW slug \in Slugs \cup {None},
           Begin(p, pc, slug), pc = "su_entry" => slug \in Slugs, pc = "sn_exists" => board.clear
    PROVE  Acts(p)
<1> DEFINE r == [Idle EXCEPT !.pc = pc, !.seen = board, !.slug = slug]
<1>1. /\ h' = [h EXCEPT ![p] = r] /\ h[p] = Idle /\ board \in BoardRows
      /\ UNCHANGED <<scores, board, lockedBy>>
  BY DEF Begin, scores, postgres, redis, ledger, TypeOK
<1>2. /\ r \in Requests
      /\ r.pc = pc /\ r.seen = board /\ r.slug = slug /\ r.temp = {} /\ r.rows = {}
  BY DEF Idle, Requests, Pcs, TakenPcs, TakingPcs, StartPcs, TypeOK
<1> HIDE DEF r
<1>3. Others(p) /\ h'[p] = r
  BY <1>1, <1>2, Becomes
<1>4. h[p].pc = "idle"
  BY <1>1 DEF Idle
<1> QED
  BY <1>1, <1>2, <1>3, <1>4 DEF Starts, Acts

LEMMA GotoForm ==
    ASSUME TypeOK, NEW p \in Handlers, NEW from, At(p, from), NEW to \in Pcs, Goto(p, to)
    PROVE  Turns(p, from, to, h[p].temp, h[p].rows)
<1> DEFINE r == [h[p] EXCEPT !.pc = to]
<1>1. h' = [h EXCEPT ![p] = r] /\ h[p].pc = from
  BY DEF Goto, At
<1>2. h[p] \in Requests
  BY DEF TypeOK
<1>3. /\ r \in Requests
      /\ r.pc = to /\ r.seen = h[p].seen /\ r.slug = h[p].slug
      /\ r.temp = h[p].temp /\ r.rows = h[p].rows
  BY <1>2 DEF Requests
<1> HIDE DEF r
<1>4. Others(p) /\ h'[p] = r
  BY <1>1, <1>3, Becomes
<1> QED
  BY <1>1, <1>3, <1>4 DEF Turns

(* A step of the board row or of the entries changes no score.             *)
LEMMA QuietForm ==
    ASSUME TypeOK, CreateBoard \/ PatchBoard \/ DeleteEntry \/ UNCHANGED vars
    PROVE  Quiet
<1>1. CASE CreateBoard
  <2>1. PICK s \in Settings, id \in BoardIds :
            board' = [id |-> id, realtime |-> s.realtime, clear |-> s.clear]
    BY <1>1 DEF CreateBoard
  <2>2. s.realtime \in BOOLEAN /\ s.clear \in BOOLEAN
    BY SettingsAssumption
  <2>3. board' \in BoardRows
    BY <2>1, <2>2 DEF BoardRows
  <2> QED
    BY <1>1, <2>3, NullAssumption DEF CreateBoard, Quiet, scores, redis, ledger
<1>2. CASE PatchBoard
  <2>1. PICK s \in Settings : board' = [board EXCEPT !.realtime = s.realtime, !.clear = s.clear]
    BY <1>2 DEF PatchBoard
  <2>2. s.realtime \in BOOLEAN /\ s.clear \in BOOLEAN
    BY SettingsAssumption
  <2>3. board \in BoardRows
    BY <1>2 DEF PatchBoard, TypeOK
  <2>4. board' \in BoardRows
    BY <2>1, <2>2, <2>3 DEF BoardRows
  <2> QED
    BY <1>2, <2>4, NullAssumption DEF PatchBoard, Quiet, scores, redis, ledger
<1>3. CASE DeleteEntry
  BY <1>3 DEF DeleteEntry, Quiet, scores, redis, ledger, TypeOK
<1>4. CASE UNCHANGED vars
  BY <1>4 DEF vars, postgres, Quiet, scores, redis, ledger, TypeOK
<1> QED
  BY <1>1, <1>2, <1>3, <1>4

LEMMA DeleteForm ==
    ASSUME TypeOK, NEW p \in Handlers, Delete(p)
    PROVE  Acts(p)
<1>1. CASE StartDelete(p)
  <2> DEFINE pc == IF board # None /\ board.realtime THEN "del_redis" ELSE "del_row"
  <2>1. Begin(p, pc, None) /\ pc \in StartPcs /\ pc \notin {"su_entry", "sn_exists"}
    BY <1>1 DEF StartDelete, StartPcs
  <2> HIDE DEF pc
  <2> QED
    BY <2>1, StartForm
<1>2. CASE ClearRedis(p)
  <2>1. Turns(p, "del_redis", "del_row", h[p].temp, h[p].rows)
    BY <1>2, GotoForm DEF ClearRedis, Pcs
  <2> QED
    BY <1>2, <2>1 DEF ClearRedis, Acts, Clears, MovesOn, Moves, scores, postgres, redis
<1>3. CASE DeleteRow(p)
  <2>1. CASE Abort(p)
    BY <2>1, AbortForm
  <2>2. CASE ~Abort(p)
    BY <1>3, <2>2, EndForm DEF DeleteRow, At, Acts, Deletes, redis
  <2> QED
    BY <2>1, <2>2
<1> QED
  BY <1>1, <1>2, <1>3 DEF Delete

LEMMA SubmitForm ==
    ASSUME TypeOK, NEW p \in Handlers, Submit(p)
    PROVE  Acts(p)
<1>1. CASE StartSubmit(p)
  <2>1. PICK slug \in Slugs : Begin(p, "su_entry", slug)
    BY <1>1 DEF StartSubmit
  <2> QED
    BY <2>1, StartForm DEF StartPcs
<1>2. CASE UpsertEntry(p)
  <2>1. CASE Abort(p)
    BY <2>1, AbortForm
  <2>2. CASE ~Abort(p)
    <3>1. Turns(p, "su_entry", "su_redis", h[p].temp, h[p].rows)
      BY <1>2, <2>2, GotoForm DEF UpsertEntry, Pcs
    <3> QED
      BY <1>2, <2>2, <3>1 DEF UpsertEntry, Acts, MovesOn, Moves, scores, redis, ledger
  <2> QED
    BY <2>1, <2>2
<1>3. CASE WriteScore(p)
  BY <1>3, EndForm DEF WriteScore, At, Acts, Writes, postgres
<1> QED
  BY <1>1, <1>2, <1>3 DEF Submit

(* The scores are renamed to the keys of a snapshot.                       *)
LEMMA TakeForm ==
    ASSUME TypeOK, NEW p \in Handlers, NEW from, At(p, from), TakeScores(p)
    PROVE  Turns(p, from, "sn_lock", live, h[p].rows) /\ live' = {}
<1> DEFINE r == [h[p] EXCEPT !.pc = "sn_lock", !.temp = live]
<1>1. h' = [h EXCEPT ![p] = r] /\ h[p].pc = from /\ live' = {}
  BY DEF TakeScores, At
<1>2. h[p] \in Requests /\ live \subseteq Score
  BY DEF TypeOK
<1>3. /\ r \in Requests
      /\ r.pc = "sn_lock" /\ r.seen = h[p].seen /\ r.slug = h[p].slug
      /\ r.temp = live /\ r.rows = h[p].rows
  BY <1>2 DEF Requests, Pcs, TakenPcs
<1> HIDE DEF r
<1>4. Others(p) /\ h'[p] = r
  BY <1>1, <1>3, Becomes
<1> QED
  BY <1>1, <1>3, <1>4 DEF Turns

LEMMA ReadForm ==
    ASSUME TypeOK, NEW p \in Handlers, ReadScores(p)
    PROVE  Acts(p)
<1> DEFINE read == IF h[p].seen.clear THEN h[p].temp ELSE live
           r    == [h[p] EXCEPT !.pc = "sn_commit", !.rows = read]
<1>1. CASE Abort(p)
  BY <1>1, AbortForm
<1>2. CASE ~Abort(p)
  <2>1. h' = [h EXCEPT ![p] = r] /\ h[p].pc = "sn_read" /\ UNCHANGED <<scores, board, lockedBy>>
    BY <1>2 DEF ReadScores, At, scores, postgres, redis, ledger
  <2>2. h[p] \in Requests /\ read \subseteq Score
    BY DEF TypeOK, Requests
  <2>3. /\ r \in Requests
        /\ r.pc = "sn_commit" /\ r.seen = h[p].seen /\ r.slug = h[p].slug
        /\ r.temp = h[p].temp /\ r.rows = read
    <3> HIDE DEF read
    <3> QED
      BY <2>2 DEF Requests, Pcs, TakenPcs
  <2> HIDE DEF r
  <2>4. Others(p) /\ h'[p] = r
    BY <2>1, <2>3, Becomes
  <2> QED
    BY <2>1, <2>3, <2>4 DEF Turns, Reads, Acts
<1> QED
  BY <1>1, <1>2

LEMMA CommitForm ==
    ASSUME TypeOK, NEW p \in Handlers, CommitSnapshot(p)
    PROVE  Commits(p)
<1> DEFINE r == [h[p] EXCEPT !.pc = "sn_cleanup", !.rows = {}]
<1>1. h' = [h EXCEPT ![p] = r] /\ h[p].pc = "sn_commit"
  BY DEF CommitSnapshot, At
<1>2. h[p] \in Requests
  BY DEF TypeOK
<1>3. /\ r \in Requests
      /\ r.pc = "sn_cleanup" /\ r.seen = h[p].seen /\ r.slug = h[p].slug
      /\ r.temp = h[p].temp /\ r.rows = {}
  BY <1>2 DEF Requests, Pcs, TakenPcs
<1> HIDE DEF r
<1>4. Others(p) /\ h'[p] = r
  BY <1>1, <1>3, Becomes
<1>5. Turns(p, "sn_commit", "sn_cleanup", h[p].temp, {})
  BY <1>1, <1>3, <1>4 DEF Turns
<1> QED
  BY <1>5 DEF CommitSnapshot, Commits, redis, ledger

LEMMA SnapshotForm ==
    ASSUME TypeOK, NEW p \in Handlers, Snapshot(p)
    PROVE  Acts(p)
<1>1. CASE Abort(p)
  BY <1>1, AbortForm
<1>2. CASE StartSnapshot(p)
  <2> DEFINE pc == IF board.clear THEN "sn_exists" ELSE "sn_lock"
  <2>1. Begin(p, pc, None) /\ pc \in StartPcs /\ pc # "su_entry" /\ (pc = "sn_exists" => board.clear)
    BY <1>2 DEF StartSnapshot, StartPcs
  <2> HIDE DEF pc
  <2> QED
    BY <2>1, StartForm
<1>3. CASE FindScores(p) /\ ~Abort(p)
  <2>1. Turns(p, "sn_exists", "sn_names", h[p].temp, h[p].rows)
    BY <1>3, GotoForm DEF FindScores, Pcs, TakingPcs
  <2> QED
    BY <1>3, <2>1 DEF FindScores, Acts, MovesOn, Moves, scores, postgres, redis, ledger
<1>4. CASE FindNames(p)
  <2>1. \/ Turns(p, "sn_names", "sn_both", h[p].temp, h[p].rows)
        \/ Turns(p, "sn_names", "sn_scores", h[p].temp, h[p].rows)
    BY <1>4, GotoForm DEF FindNames, Pcs, TakingPcs
  <2> QED
    BY <1>4, <2>1 DEF FindNames, Acts, MovesOn, Moves, scores, postgres, redis, ledger
<1>5. CASE RenameBoth(p)
  <2>1. CASE TakeScores(p) /\ UNCHANGED <<postgres, lockedBy, ledger>>
    <3>1. Turns(p, "sn_both", "sn_lock", live, h[p].rows) /\ live' = {}
      BY <1>5, <2>1, TakeForm DEF RenameBoth
    <3> QED
      BY <2>1, <3>1 DEF Acts, Takes, postgres, ledger
  <2>2. CASE /\ At(p, "sn_both") /\ live' = {} /\ dropped' = dropped \cup live
             /\ End(p) /\ UNCHANGED <<postgres, issued, owed>>
    BY <2>2, EndForm DEF At, Acts, Loses, postgres
  <2> QED
    BY <1>5, <2>1, <2>2 DEF RenameBoth
<1>6. CASE RenameScores(p) /\ ~Abort(p)
  <2>1. Turns(p, "sn_scores", "sn_lock", live, h[p].rows) /\ live' = {}
    BY <1>6, TakeForm DEF RenameScores
  <2> QED
    BY <1>6, <2>1 DEF RenameScores, Acts, Takes, postgres, ledger
<1>7. CASE LockBoard(p) /\ ~Abort(p)
  <2>1. Turns(p, "sn_lock", "sn_check", h[p].temp, h[p].rows)
    BY <1>7, GotoForm DEF LockBoard, Pcs, TakenPcs
  <2> QED
    BY <1>7, <2>1 DEF LockBoard, Acts, MovesOn, Moves, scores, postgres, redis, ledger
<1>8. CASE CheckLimit(p) /\ ~Abort(p)
  <2>1. Turns(p, "sn_check", "sn_read", h[p].temp, h[p].rows)
    BY <1>8, GotoForm DEF CheckLimit, Pcs, TakenPcs
  <2> QED
    BY <1>8, <2>1 DEF CheckLimit, Acts, MovesOn, Moves, scores, postgres, redis, ledger
<1>9. CASE ReadScores(p)
  BY <1>9, ReadForm
<1>10. CASE CommitSnapshot(p)
  BY <1>10, CommitForm DEF Acts
<1>11. CASE DeleteSnapKeys(p)
  <2>1. h[p].pc = "sn_cleanup" /\ UNCHANGED <<scores, board>> /\ Ends(p)
    BY <1>11, EndForm DEF DeleteSnapKeys, At, scores, postgres, redis, ledger
  <2> QED
    BY <2>1 DEF Acts, Stops, scores
<1> QED
  BY <1>1, <1>2, <1>3, <1>4, <1>5, <1>6, <1>7, <1>8, <1>9, <1>10, <1>11 DEF Snapshot

LEMMA Forms ==
    ASSUME TypeOK, [Next]_vars
    PROVE  Quiet \/ \E p \in Handlers : Acts(p)
<1>1. CASE CreateBoard \/ PatchBoard \/ DeleteEntry \/ UNCHANGED vars
  BY <1>1, QuietForm
<1>2. ASSUME NEW p \in Handlers, Delete(p) \/ Submit(p) \/ Snapshot(p) \/ Fail(p)
      PROVE  Acts(p)
  BY <1>2, DeleteForm, SubmitForm, SnapshotForm, AbortForm DEF Fail
<1> QED
  BY <1>1, <1>2 DEF Next

-----------------------------------------------------------------------------
(* Types, and that every score has been submitted.                         *)

LEMMA Indices ==
    ASSUME NEW V, NEW s \in Seq(V)
    PROVE  DOMAIN s = 1..Len(s) /\ Len(s) \in Nat /\ \A i \in DOMAIN s : s[i] \in V
BY ElementOfSeq, LenProperties

LEMMA NoIndex == DOMAIN << >> = {}
OBVIOUS

LEMMA Appended ==
    ASSUME NEW V, NEW s \in Seq(V), NEW v \in V, NEW t, t = Append(s, v)
    PROVE  /\ t \in Seq(V)
           /\ DOMAIN t = DOMAIN s \cup {Len(s) + 1}
           /\ \A i \in DOMAIN s : t[i] = s[i]
           /\ t[Len(s) + 1] = v
<1>1. DOMAIN s = 1..Len(s) /\ Len(s) \in Nat
  BY Indices
<1>2. t \in Seq(V) /\ Len(t) = Len(s) + 1
  BY AppendProperties
<1>3. DOMAIN t = 1..Len(s) + 1
  BY <1>2, Indices
<1> QED
  BY <1>1, <1>2, <1>3, AppendProperties

LEMMA CommitVersions ==
    ASSUME TypeOK, NEW p \in Handlers, Commits(p)
    PROVE  /\ versions' \in Seq(VersionRow)
           /\ DOMAIN versions' = DOMAIN versions \cup {Len(versions) + 1}
           /\ \A i \in DOMAIN versions : versions'[i] = versions[i]
           /\ versions'[Len(versions) + 1].rows = h[p].rows
           /\ versions'[Len(versions) + 1].cleared = h[p].seen.clear
<1> DEFINE v == [rows |-> h[p].rows, cleared |-> h[p].seen.clear]
<1>1. h[p].seen \in BoardRows
  BY DEF TypeOK, Commits, Turns
<1>2. h[p].seen.clear \in BOOLEAN
  BY <1>1 DEF BoardRows
<1>3. h[p].rows \subseteq Score
  BY DEF TypeOK, Requests
<1>4. v \in VersionRow /\ v.rows = h[p].rows /\ v.cleared = h[p].seen.clear
  BY <1>2, <1>3 DEF VersionRow
<1>5. versions' = Append(versions, v) /\ versions \in Seq(VersionRow)
  BY DEF TypeOK, Commits
<1> HIDE DEF v
<1> QED
  BY <1>4, <1>5, Appended

(* What each step leaves of the requests: what a request holds was held    *)
(* by it before, or is what the board's keys held.                         *)
LEMMA Holds ==
    ASSUME TypeOK, NEW p \in Handlers, Acts(p), NEW q \in Handlers
    PROVE  /\ h'[q].temp \subseteq h[q].temp \cup live
           /\ h'[q].rows \subseteq h[q].rows \cup h[q].temp \cup live
<1>1. CASE q # p
  BY <1>1 DEF Acts, Starts, MovesOn, Moves, Clears, Deletes, Writes, Takes, Loses, Reads, Commits,
     Stops, Turns, Ends, Others
<1>2. CASE q = p
  BY <1>2 DEF Acts, Starts, MovesOn, Moves, Clears, Deletes, Writes, Takes, Loses, Reads, Commits,
     Stops, Turns, Ends
<1> QED
  BY <1>1, <1>2

(* What Redis holds after a submission.                                    *)
LEMMA Written ==
    ASSUME TypeOK, LiveUnique, NEW p \in Handlers, Writes(p)
    PROVE  \E s \in Slugs : \E x \in Score :
             /\ x.slug = s /\ x.rev = issued[s] + 1
             /\ issued' = [issued EXCEPT ![s] = x.rev]
             /\ live' = {y \in live : y.slug # s} \cup {x}
             /\ owed' = IF board # None THEN Latest(owed, x) ELSE owed
<1> DEFINE x == [slug |-> h[p].slug, rev |-> issued[h[p].slug] + 1]
<1>1. h[p].slug \in Slugs
  BY DEF TypeOK, Writes
<1>2. issued[h[p].slug] \in Nat
  BY <1>1 DEF TypeOK
<1>3. x \in Score /\ x.slug = h[p].slug /\ x.rev = issued[h[p].slug] + 1
  BY <1>1, <1>2 DEF Score
<1>4. /\ live' = Latest(live, x)
      /\ issued' = [issued EXCEPT ![x.slug] = x.rev]
      /\ owed' = IF board # None THEN Latest(owed, x) ELSE owed
  BY DEF Writes
<1> HIDE DEF x
<1> QED
  BY <1>1, <1>3, <1>4 DEF Latest

LEMMA IssuedGrows ==
    ASSUME TypeOK, LiveUnique, NEW p \in Handlers, Acts(p)
    PROVE  issued' \in [Slugs -> Nat] /\ \A s \in Slugs : issued'[s] >= issued[s]
<1>1. CASE Writes(p)
  <2>1. PICK s \in Slugs, x \in Score : x.rev = issued[s] + 1 /\ issued' = [issued EXCEPT ![s] = x.rev]
    BY <1>1, Written
  <2> QED
    BY <2>1 DEF TypeOK
<1>2. CASE ~Writes(p)
  <2>1. issued' = issued
    BY <1>2 DEF Acts, Starts, MovesOn, Moves, Clears, Deletes, Takes, Loses, Reads, Commits, Stops, scores
  <2> QED
    BY <2>1 DEF TypeOK
<1> QED
  BY <1>1, <1>2

(* A snapshot has something to commit only when it commits.                *)
LEMMA NextVersions ==
    ASSUME TypeOK, NEW p \in Handlers, Acts(p)
    PROVE  \/ versions' = versions
           \/ versions' = << >> /\ Deletes(p)
           \/ Commits(p)
BY DEF Acts, Starts, MovesOn, Moves, Clears, Deletes, Writes, Takes, Loses, Reads, Commits, Stops,
   scores

LEMMA NextType ==
    ASSUME TypeOK, LiveUnique, [Next]_vars
    PROVE  TypeOK' /\ LiveUnique'
<1>1. CASE Quiet
  BY <1>1 DEF Quiet, scores, TypeOK, LiveUnique
<1>2. ASSUME NEW p \in Handlers, Acts(p)
      PROVE  TypeOK' /\ LiveUnique'
  <2>1. h' \in [Handlers -> Requests]
    BY <1>2 DEF Acts, Starts, MovesOn, Moves, Clears, Deletes, Writes, Takes, Loses, Reads, Commits,
       Stops, Turns, Ends, Others
  <2>2. board' \in BoardRows \cup {None}
    BY <1>2 DEF Acts, Starts, MovesOn, Moves, Clears, Deletes, Writes, Takes, Loses, Reads, Commits,
       Stops, TypeOK
  <2>3. versions' \in Seq(VersionRow)
    BY <1>2, NextVersions, CommitVersions, EmptySeq DEF TypeOK
  <2>4. live' \subseteq Score /\ LiveUnique'
    <3>1. CASE Writes(p)
      BY <1>2, <3>1, Written DEF LiveUnique, TypeOK
    <3>2. CASE ~Writes(p)
      <4>1. live' = live \/ live' = {}
        BY <1>2, <3>2 DEF Acts, Starts, MovesOn, Moves, Clears, Deletes, Takes, Loses, Reads, Commits,
           Stops, scores
      <4> QED
        BY <4>1 DEF LiveUnique, TypeOK
    <3> QED
      BY <3>1, <3>2
  <2>5. issued' \in [Slugs -> Nat]
    BY <1>2, IssuedGrows
  <2>6. ASSUME NEW q \in Handlers
        PROVE  /\ h'[q].pc \in {"su_entry", "su_redis"} => h'[q].slug \in Slugs
               /\ h'[q].pc # "idle" => h'[q].seen \in BoardRows
    <3>1. CASE q # p
      BY <1>2, <3>1 DEF TypeOK, Acts, Starts, MovesOn, Moves, Clears, Deletes, Writes, Takes, Loses,
         Reads, Commits, Stops, Turns, Ends, Others
    <3>2. CASE q = p
      <4>1. CASE Starts(p)
        BY <4>1, <3>2 DEF Starts, StartPcs
      <4>2. CASE h'[p].pc = "idle"
        BY <4>2, <3>2
      <4>3. CASE /\ h[p].pc # "idle" /\ (h'[p].pc = "su_entry" => h[p].pc = "su_entry")
                 /\ h'[p].pc = "su_redis" => h[p].pc = "su_entry"
                 /\ h'[p].seen = h[p].seen /\ h'[p].slug = h[p].slug
        BY <4>3, <3>2 DEF TypeOK
      <4> QED
        BY <1>2, <4>1, <4>2, <4>3 DEF Acts, MovesOn, Moves, Clears, Deletes, Writes, Takes, Loses,
           Reads, Commits, Stops, Turns, Ends
    <3> QED
      BY <3>1, <3>2
  <2> QED
    BY <2>1, <2>2, <2>3, <2>4, <2>5, <2>6 DEF TypeOK
<1> QED
  BY <1>1, <1>2, Forms

LEMMA NextKnown ==
    ASSUME TypeOK, LiveUnique, Known, [Next]_vars
    PROVE  Known'
<1>1. CASE Quiet
  BY <1>1 DEF Quiet, scores, Known
<1>2. ASSUME NEW p \in Handlers, Acts(p)
      PROVE  Known'
  <2> DEFINE Old(x) == x \in Score /\ x.rev <= issued[x.slug]
  <2>1. ASSUME NEW x, Old(x)
        PROVE  x.rev <= issued'[x.slug]
    <3>1. x.slug \in Slugs /\ x.rev \in Nat
      BY <2>1 DEF Score
    <3>2. issued[x.slug] \in Nat /\ issued'[x.slug] \in Nat /\ issued'[x.slug] >= issued[x.slug]
      BY <3>1, <1>2, IssuedGrows DEF TypeOK
    <3> QED
      BY <2>1, <3>1, <3>2
  <2>2. \A x \in live : Old(x)
    BY DEF Known, TypeOK
  <2>3. ASSUME NEW q \in Handlers, NEW x \in h[q].temp \cup h[q].rows
        PROVE  Old(x)
    BY DEF Known, TypeOK, Requests
  <2>4. ASSUME NEW i \in DOMAIN versions, NEW x \in versions[i].rows
        PROVE  Old(x)
    <3>1. versions[i] \in VersionRow
      BY Indices DEF TypeOK
    <3> QED
      BY <3>1 DEF Known, VersionRow
  <2> HIDE DEF Old
  <2>5. ASSUME NEW x \in live'
        PROVE  x.rev <= issued'[x.slug]
    <3>1. CASE Writes(p)
      <4>1. PICK s \in Slugs, y \in Score :
                /\ y.slug = s /\ issued' = [issued EXCEPT ![s] = y.rev]
                /\ live' = {z \in live : z.slug # s} \cup {y}
        BY <3>1, Written
      <4>2. CASE x \in live
        BY <4>2, <2>2, <2>1
      <4>3. CASE x = y
        <5>1. issued'[s] = y.rev /\ y.rev \in Nat
          BY <4>1 DEF TypeOK, Score
        <5> QED
          BY <4>1, <4>3, <5>1
      <4> QED
        BY <4>1, <4>2, <4>3
    <3>2. CASE ~Writes(p)
      <4>1. x \in live
        BY <1>2, <3>2 DEF Acts, Starts, MovesOn, Moves, Clears, Deletes, Takes, Loses, Reads, Commits,
           Stops, scores
      <4> QED
        BY <4>1, <2>1, <2>2
    <3> QED
      BY <3>1, <3>2
  <2>6. ASSUME NEW q \in Handlers, NEW x \in h'[q].temp \cup h'[q].rows
        PROVE  x.rev <= issued'[x.slug]
    <3>1. x \in live \/ x \in h[q].temp \cup h[q].rows
      BY <1>2, Holds
    <3> QED
      BY <3>1, <2>1, <2>2, <2>3
  <2>7. ASSUME NEW i \in DOMAIN versions', NEW x \in versions'[i].rows
        PROVE  x.rev <= issued'[x.slug]
    <3>1. \/ i \in DOMAIN versions /\ x \in versions[i].rows
          \/ x \in h[p].rows
      <4>1. CASE versions' = versions
        BY <4>1
      <4>2. CASE versions' = << >>
        <5>1. DOMAIN versions' = {}
          BY <4>2, NoIndex
        <5> QED
          BY <5>1, <2>7
      <4>3. CASE Commits(p)
        <5>1. /\ i \in DOMAIN versions \/ i = Len(versions) + 1
              /\ \A k \in DOMAIN versions : versions'[k] = versions[k]
              /\ versions'[Len(versions) + 1].rows = h[p].rows
          BY <4>3, <2>7, CommitVersions
        <5> QED
          BY <5>1, <2>7
      <4> QED
        BY <1>2, <4>1, <4>2, <4>3, NextVersions
    <3> QED
      BY <3>1, <2>1, <2>3, <2>4
  <2> QED
    BY <2>5, <2>6, <2>7 DEF Known
<1> QED
  BY <1>1, <1>2, Forms

-----------------------------------------------------------------------------
(* The lock, and whose scores the renamed keys hold.                       *)

LEMMA NextLock ==
    ASSUME TypeOK, LockHeld, [Next]_vars
    PROVE  LockHeld'
<1>1. CASE Quiet
  BY <1>1 DEF Quiet, LockHeld
<1>2. ASSUME NEW p \in Handlers, Acts(p), NEW q \in Handlers, h'[q].pc \in LockedPcs
      PROVE  lockedBy' = q
  <2>1. CASE q # p
    <3>1. lockedBy = q /\ h[p].pc \notin LockedPcs
      BY <1>2, <2>1 DEF LockHeld, Acts, Starts, MovesOn, Moves, Clears, Deletes, Writes, Takes, Loses,
         Reads, Commits, Stops, Turns, Ends, Others
    <3>2. lockedBy # None
      BY <3>1, NullAssumption
    <3> QED
      BY <1>2, <2>1, <3>1, <3>2 DEF Acts, Starts, MovesOn, Moves, Clears, Deletes, Writes, Takes, Loses,
         Reads, Commits, Stops, Turns, Ends, LockedPcs
  <2>2. CASE q = p
    BY <1>2, <2>2 DEF LockHeld, Acts, Starts, StartPcs, MovesOn, Moves, Clears, Deletes, Writes, Takes,
       Loses, Reads, Commits, Stops, Turns, Ends, LockedPcs
  <2> QED
    BY <2>1, <2>2
<1> QED
  BY <1>1, <1>2, Forms DEF LockHeld

LEMMA NextTemp ==
    ASSUME TypeOK, TempIsTaken, [Next]_vars
    PROVE  TempIsTaken'
<1>1. CASE Quiet
  BY <1>1 DEF Quiet, TempIsTaken
<1>2. ASSUME NEW p \in Handlers, Acts(p), NEW q \in Handlers
      PROVE  /\ h'[q].pc \notin TakenPcs => h'[q].temp = {}
             /\ h'[q].pc \in TakingPcs => h'[q].seen.clear
             /\ h'[q].pc \in TakenPcs /\ ~h'[q].seen.clear => h'[q].temp = {}
             /\ h'[q].pc = "sn_commit" /\ h'[q].seen.clear => h'[q].rows = h'[q].temp
  <2>1. CASE h'[q] = h[q]
    BY <2>1 DEF TempIsTaken
  <2>2. CASE q = p
    <3>1. CASE Starts(p)
      BY <2>2, <3>1 DEF Starts, StartPcs, TakenPcs, TakingPcs
    <3>2. CASE Ends(p)
      BY <2>2, <3>2 DEF Ends, TakenPcs, TakingPcs
    <3>3. CASE MovesOn(p) \/ Clears(p)
      BY <2>2, <3>3 DEF MovesOn, Moves, Clears, Turns, TempIsTaken, TakenPcs, TakingPcs
    <3>4. CASE Takes(p, "sn_both") \/ Takes(p, "sn_scores")
      BY <2>2, <3>4 DEF Takes, Turns, TempIsTaken, TakenPcs, TakingPcs
    <3>5. CASE Reads(p)
      BY <2>2, <3>5 DEF Reads, Turns, TempIsTaken, TakenPcs, TakingPcs
    <3>6. CASE Commits(p)
      BY <2>2, <3>6 DEF Commits, Turns, TempIsTaken, TakenPcs, TakingPcs
    <3> QED
      BY <1>2, <3>1, <3>2, <3>3, <3>4, <3>5, <3>6 DEF Acts, Deletes, Writes, Loses, Stops
  <2> QED
    BY <1>2, <2>1, <2>2 DEF Acts, Starts, MovesOn, Moves, Clears, Deletes, Writes, Takes, Loses,
         Reads, Commits, Stops, Turns, Ends, Others
<1> QED
  BY <1>1, <1>2, Forms DEF TempIsTaken

-----------------------------------------------------------------------------
(* No score is lost without a request that dropped it.                     *)

(* The score of a submission is nowhere before.                            *)
LEMMA NewScore ==
    ASSUME TypeOK, LiveUnique, Known, NEW p \in Handlers, Writes(p)
    PROVE  \E x \in Score :
             /\ live' = {y \in live : y.slug # x.slug} \cup {x}
             /\ owed' = IF board # None THEN Latest(owed, x) ELSE owed
             /\ x \notin live
             /\ \A q \in Handlers : x \notin h[q].temp \cup h[q].rows
             /\ \A i \in DOMAIN versions : x \notin versions[i].rows
             /\ \A y \in Score : y.slug = x.slug /\ y.rev <= issued[y.slug] => y.rev <= x.rev
<1>1. PICK s \in Slugs, x \in Score :
             /\ x.slug = s /\ x.rev = issued[s] + 1
             /\ live' = {y \in live : y.slug # s} \cup {x}
             /\ owed' = IF board # None THEN Latest(owed, x) ELSE owed
  BY Written
<1>2. issued[s] \in Nat /\ ~(x.rev <= issued[x.slug])
  BY <1>1 DEF TypeOK
<1>3. ASSUME NEW y \in Score, y.slug = x.slug, y.rev <= issued[y.slug]
      PROVE  y.rev <= x.rev
  BY <1>1, <1>2, <1>3 DEF Score
<1>4. x \notin live
  BY <1>2 DEF Known
<1>5. ASSUME NEW q \in Handlers
      PROVE  x \notin h[q].temp \cup h[q].rows
  BY <1>2 DEF Known
<1>6. ASSUME NEW i \in DOMAIN versions
      PROVE  x \notin versions[i].rows
  BY <1>2 DEF Known
<1> QED
  BY <1>1, <1>3, <1>4, <1>5, <1>6

LEMMA SavedStays ==
    ASSUME TypeOK, NEW p \in Handlers, Acts(p), ~Deletes(p), NEW x, Saved(x)
    PROVE  Saved(x)'
<1>1. CASE versions' = versions
  BY <1>1 DEF Saved
<1>2. CASE Commits(p)
  <2>1. /\ DOMAIN versions \subseteq DOMAIN versions'
        /\ \A i \in DOMAIN versions : versions'[i] = versions[i]
    BY <1>2, CommitVersions
  <2> QED
    BY <2>1 DEF Saved
<1> QED
  BY <1>1, <1>2, NextVersions

LEMMA NextAccounted ==
    ASSUME TypeOK, LiveUnique, Known, TempIsTaken, Accounted, [Next]_vars
    PROVE  Accounted'
<1>1. CASE Quiet
  BY <1>1 DEF Quiet, scores, Accounted, Saved
<1>2. ASSUME NEW p \in Handlers, Acts(p)
      PROVE  Accounted'
  <2>1. board' = None => owed' = {}
    BY <1>2 DEF Accounted, Acts, Starts, MovesOn, Moves, Clears, Deletes, Writes, Takes, Loses,
       Reads, Commits, Stops, scores
  <2>2. CASE Deletes(p)
    <3>1. owed' = {}
      BY <2>2 DEF Deletes
    <3> QED
      BY <2>1, <3>1 DEF Accounted
  <2>3. CASE ~Deletes(p)
    <3> DEFINE Place(x) == \/ x \in live \/ x \in dropped \/ Saved(x)
                           \/ \E q \in Handlers : x \in h[q].temp
    <3>1. \A q \in Handlers : q # p => h'[q] = h[q]
      BY <1>2 DEF Acts, Starts, MovesOn, Moves, Clears, Deletes, Writes, Takes, Loses,
         Reads, Commits, Stops, Turns, Ends, Others
    <3>2. ASSUME NEW x \in owed, Place(x), Writes(p) /\ x \in live => x \in live'
          PROVE  Place(x)'
      <4>1. CASE Saved(x)
        BY <1>2, <2>3, <4>1, SavedStays
      <4>2. CASE x \in dropped
        <5>1. dropped \subseteq dropped'
          BY <1>2, <2>3 DEF Acts, Starts, MovesOn, Moves, Clears, Writes, Takes, Loses,
             Reads, Commits, Stops, scores
        <5> QED
          BY <4>2, <5>1
      <4>3. CASE x \in live
        <5>1. CASE Writes(p)
          BY <5>1, <4>3, <3>2
        <5>2. CASE ~Writes(p)
          <6>1. live' = live \/ dropped' = dropped \cup live \/ h'[p].temp = live
            BY <1>2, <2>3, <5>2 DEF Acts, Starts, MovesOn, Moves, Clears, Takes, Loses,
               Reads, Commits, Stops, Turns, scores
          <6> QED
            BY <4>3, <6>1
        <5> QED
          BY <5>1, <5>2
      <4>4. ASSUME NEW q \in Handlers, x \in h[q].temp
            PROVE  Place(x)'
        <5>1. CASE q # p
          BY <3>1, <4>4, <5>1
        <5>2. CASE q = p
          <6>1. h[p].pc \in TakenPcs
            BY <4>4, <5>2 DEF TempIsTaken
          <6>2. \/ h'[p].temp = h[p].temp
                \/ dropped' = dropped \cup h[p].temp
                \/ h[p].pc = "sn_cleanup"
            BY <1>2, <2>3, <6>1 DEF Acts, Starts, MovesOn, Moves, Clears, Writes, Takes, Loses,
               Reads, Commits, Stops, Turns, TakenPcs
          <6>3. CASE h[p].pc = "sn_cleanup"
            <7>1. Saved(x)
              BY <3>2, <4>4, <5>2, <6>3 DEF Accounted
            <7> QED
              BY <4>1, <7>1
          <6> QED
            BY <4>4, <5>2, <6>2, <6>3
        <5> QED
          BY <5>1, <5>2
      <4> QED
        BY <3>2, <4>1, <4>2, <4>3, <4>4
    <3>3. ASSUME NEW x \in owed'
          PROVE  Place(x)'
      <4>1. CASE Writes(p)
        <5>1. PICK s \in Score :
                  /\ live' = {y \in live : y.slug # s.slug} \cup {s}
                  /\ owed' = IF board # None THEN Latest(owed, s) ELSE owed
          BY <4>1, NewScore
        <5>2. x = s \/ (x \in owed /\ x.slug # s.slug)
          BY <5>1 DEF Accounted, Latest
        <5>3. CASE x = s
          BY <5>1, <5>3
        <5>4. CASE x \in owed /\ x.slug # s.slug
          <6>1. Place(x)
            BY <5>4 DEF Accounted
          <6>2. x \in live => x \in live'
            BY <5>1, <5>4
          <6> QED
            BY <3>2, <5>4, <6>1, <6>2
        <5> QED
          BY <5>2, <5>3, <5>4
      <4>2. CASE ~Writes(p)
        <5>1. owed' = owed
          BY <1>2, <2>3, <4>2 DEF Acts, Starts, MovesOn, Moves, Clears, Takes, Loses,
             Reads, Commits, Stops, scores
        <5>2. Place(x)
          BY <5>1 DEF Accounted
        <5> QED
          BY <3>2, <4>2, <5>1, <5>2
      <4> QED
        BY <4>1, <4>2
    <3>4. ASSUME NEW q \in Handlers, h'[q].pc = "sn_cleanup", NEW x \in h'[q].temp \cap owed'
          PROVE  Saved(x)'
      <4>1. CASE Commits(p) /\ q = p
        <5>1. h[p].pc = "sn_commit" /\ x \in h[p].temp
          BY <4>1 DEF Commits, Turns
        <5>2. h[p].rows = h[p].temp
          BY <5>1 DEF TempIsTaken, TakenPcs
        <5>3. Len(versions) + 1 \in DOMAIN versions' /\ versions'[Len(versions) + 1].rows = h[p].rows
          BY <4>1, CommitVersions
        <5> QED
          BY <5>1, <5>2, <5>3 DEF Saved
      <4>2. CASE ~(Commits(p) /\ q = p)
        <5>1. h[q].pc = "sn_cleanup" /\ h[q].temp = h'[q].temp
          BY <1>2, <2>3, <3>1, <3>4, <4>2 DEF Acts, Starts, StartPcs, MovesOn, Moves, Clears, Writes,
             Takes, Loses, Reads, Commits, Stops, Turns, Ends
        <5>2. x \in owed
          <6>1. CASE Writes(p)
            BY <6>1, <5>1, <3>4, NewScore DEF Latest
          <6>2. CASE ~Writes(p)
            BY <1>2, <2>3, <3>4, <6>2 DEF Acts, Starts, MovesOn, Moves, Clears, Takes, Loses,
               Reads, Commits, Stops, scores
          <6> QED
            BY <6>1, <6>2
        <5>3. Saved(x)
          BY <5>1, <5>2, <3>4 DEF Accounted
        <5> QED
          BY <1>2, <2>3, <5>3, SavedStays
      <4> QED
        BY <4>1, <4>2
    <3> QED
      BY <2>1, <3>3, <3>4 DEF Accounted
  <2> QED
    BY <2>2, <2>3
<1> QED
  BY <1>1, <1>2, Forms

-----------------------------------------------------------------------------
(* A score is in one place at a time.                                      *)

(* A snapshot that clears saves what it took.                              *)
LEMMA SavesTaken ==
    ASSUME TempIsTaken, NEW p \in Handlers, Commits(p), h[p].seen.clear
    PROVE  h[p].rows = h[p].temp
BY DEF TempIsTaken, Commits, Turns

LEMMA ClearedGrows ==
    ASSUME TypeOK, TempIsTaken, NEW p \in Handlers, Acts(p), NEW x, Cleared(x)'
    PROVE  Cleared(x) \/ (Commits(p) /\ h[p].seen.clear /\ x \in h[p].temp)
<1>1. PICK i \in DOMAIN versions' : versions'[i].cleared /\ x \in versions'[i].rows
  BY DEF Cleared
<1>2. CASE versions' = versions
  BY <1>1, <1>2 DEF Cleared
<1>3. CASE versions' = << >>
  <2>1. DOMAIN versions' = {}
    BY <1>3, NoIndex
  <2> QED
    BY <1>1, <2>1
<1>4. CASE Commits(p)
  <2>1. CASE i \in DOMAIN versions
    BY <1>1, <1>4, <2>1, CommitVersions DEF Cleared
  <2>2. CASE i \notin DOMAIN versions
    <3>1. h[p].seen.clear /\ x \in h[p].rows
      BY <1>1, <1>4, <2>2, CommitVersions
    <3> QED
      BY <1>4, <3>1, SavesTaken
  <2> QED
    BY <2>1, <2>2
<1> QED
  BY <1>2, <1>3, <1>4, NextVersions

(* What a request comes to hold was its own, or the board's.               *)
LEMMA TempMoves ==
    ASSUME TypeOK, NEW p \in Handlers, Acts(p)
    PROVE  /\ \A q \in Handlers : q # p => h'[q] = h[q]
           /\ \/ h'[p].temp \subseteq h[p].temp
              \/ h'[p].temp = live /\ live' = {} /\ ~Commits(p)
           /\ h[p].pc = "sn_cleanup" => h'[p].temp = {}
<1>1. \A q \in Handlers : q # p => h'[q] = h[q]
  BY DEF Acts, Starts, MovesOn, Moves, Clears, Deletes, Writes, Takes, Loses,
     Reads, Commits, Stops, Turns, Ends, Others
<1>2. /\ \/ h'[p].temp \subseteq h[p].temp
         \/ h'[p].temp = live /\ live' = {} /\ ~Commits(p)
      /\ h[p].pc = "sn_cleanup" => h'[p].temp = {}
  BY DEF Acts, Starts, MovesOn, Moves, Clears, Deletes, Writes, Takes, Loses,
     Reads, Commits, Stops, Turns, Ends
<1> QED
  BY <1>1, <1>2

LEMMA NextInOnePlace ==
    ASSUME TypeOK, LiveUnique, Known, TempIsTaken, InOnePlace, [Next]_vars
    PROVE  InOnePlace'
<1>1. CASE Quiet
  BY <1>1 DEF Quiet, scores, InOnePlace, Cleared
<1>2. ASSUME NEW p \in Handlers, Acts(p)
      PROVE  InOnePlace'
  <2>1. ASSUME NEW x \in live'
        PROVE  ~Cleared(x)' /\ \A q \in Handlers : x \notin h'[q].temp
    <3>1. x \in live \/ (/\ ~Cleared(x) /\ Writes(p)
                         /\ \A q \in Handlers : x \notin h[q].temp)
      <4>1. CASE Writes(p)
        BY <2>1, <4>1, NewScore DEF Cleared
      <4>2. CASE ~Writes(p)
        BY <1>2, <2>1, <4>2 DEF Acts, Starts, MovesOn, Moves, Clears, Deletes, Takes, Loses,
           Reads, Commits, Stops, scores
      <4> QED
        BY <4>1, <4>2
    <3>2. ~Cleared(x) /\ \A q \in Handlers : x \notin h[q].temp
      BY <3>1 DEF InOnePlace
    <3>3. ~Cleared(x)'
      BY <1>2, <3>2, ClearedGrows
    <3>4. ASSUME NEW q \in Handlers
          PROVE  x \notin h'[q].temp
      BY <1>2, <2>1, <3>2, TempMoves
    <3> QED
      BY <3>3, <3>4
  <2>2. ASSUME NEW q \in Handlers, NEW r \in Handlers, q # r
        PROVE  h'[q].temp \cap h'[r].temp = {}
    <3>1. \A s \in Handlers : \A t \in Handlers : s # t => h[s].temp \cap h[t].temp = {}
      BY DEF InOnePlace
    <3>2. \A s \in Handlers : h[s].temp \cap live = {}
      BY DEF InOnePlace
    <3>3. \A s \in Handlers : s # p => h'[s].temp = h[s].temp
      BY <1>2, TempMoves
    <3>4. h'[p].temp \subseteq h[p].temp \/ h'[p].temp = live
      BY <1>2, TempMoves
    <3>5. CASE q # p /\ r # p
      BY <3>1, <3>3, <3>5, <2>2
    <3>6. CASE q = p
      BY <3>1, <3>2, <3>3, <3>4, <3>6, <2>2
    <3>7. CASE r = p
      BY <3>1, <3>2, <3>3, <3>4, <3>7, <2>2
    <3> QED
      BY <3>5, <3>6, <3>7
  <2>3. ASSUME NEW q \in Handlers, h'[q].pc # "sn_cleanup", NEW x \in h'[q].temp
        PROVE  ~Cleared(x)'
    <3>1. CASE x \in live /\ live' = {} /\ ~Commits(p)
      BY <1>2, <3>1, ClearedGrows DEF InOnePlace
    <3>2. CASE x \in h[q].temp
      <4>1. h[q].pc # "sn_cleanup"
        BY <1>2, <2>3, TempMoves
      <4>2. ~Cleared(x)
        BY <3>2, <4>1 DEF InOnePlace
      <4>3. ASSUME Commits(p), x \in h[p].temp
            PROVE  FALSE
        <5>1. q = p
          BY <3>2, <4>3 DEF InOnePlace
        <5> QED
          BY <2>3, <4>3, <5>1 DEF Commits, Turns
      <4> QED
        BY <1>2, <4>2, <4>3, ClearedGrows
    <3> QED
      BY <1>2, <2>3, <3>1, <3>2, TempMoves
  <2>4. ASSUME NEW i \in DOMAIN versions', NEW j \in DOMAIN versions', i # j,
               versions'[i].cleared, versions'[j].cleared, NEW x \in versions'[i].rows
        PROVE  x \notin versions'[j].rows
    <3>1. CASE versions' = versions
      BY <2>4, <3>1 DEF InOnePlace
    <3>2. CASE versions' = << >>
      <4>1. DOMAIN versions' = {}
        BY <3>2, NoIndex
      <4> QED
        BY <2>4, <4>1
    <3>3. CASE Commits(p)
      <4> DEFINE n == Len(versions) + 1
      <4>1. /\ \A k \in DOMAIN versions' : k \in DOMAIN versions \/ k = n
            /\ \A k \in DOMAIN versions : versions'[k] = versions[k]
            /\ versions'[n].rows = h[p].rows /\ versions'[n].cleared = h[p].seen.clear
        BY <3>3, CommitVersions
      <4>2. ASSUME NEW y \in h[p].rows, h[p].seen.clear
            PROVE  ~Cleared(y)
        BY <3>3, <4>2, SavesTaken DEF InOnePlace, Commits, Turns
      <4> HIDE DEF n
      <4>3. CASE i \in DOMAIN versions /\ j \in DOMAIN versions
        BY <2>4, <4>1, <4>3 DEF InOnePlace
      <4>4. CASE i = n
        BY <2>4, <4>1, <4>2, <4>4 DEF Cleared
      <4>5. CASE j = n
        BY <2>4, <4>1, <4>2, <4>5 DEF Cleared
      <4> QED
        BY <2>4, <4>1, <4>3, <4>4, <4>5
    <3> QED
      BY <1>2, <3>1, <3>2, <3>3, NextVersions
  <2> QED
    BY <2>1, <2>2, <2>3, <2>4 DEF InOnePlace
<1> QED
  BY <1>1, <1>2, Forms

-----------------------------------------------------------------------------
(* Scores left in Redis only ever get newer.                               *)

LEMMA LiveGetsNewer ==
    ASSUME TypeOK, LiveUnique, Known, NEW p \in Handlers, Acts(p), NEW rows \in SUBSET Score,
           \A x \in rows : x.rev <= issued[x.slug], NotAfter(rows, live)
    PROVE  NotAfter(rows, live')
<1>1. CASE Writes(p)
  <2>1. PICK s \in Score : /\ live' = {y \in live : y.slug # s.slug} \cup {s}
                           /\ \A y \in Score : y.slug = s.slug /\ y.rev <= issued[y.slug] => y.rev <= s.rev
    BY <1>1, NewScore
  <2>2. ASSUME NEW x \in rows, NEW y \in live', x.slug = y.slug
        PROVE  x.rev <= y.rev
    <3>1. CASE y \in live
      BY <2>2, <3>1 DEF NotAfter
    <3>2. CASE y = s
      BY <2>1, <2>2, <3>2
    <3> QED
      BY <2>1, <2>2, <3>1, <3>2
  <2> QED
    BY <2>2 DEF NotAfter
<1>2. CASE ~Writes(p)
  <2>1. live' \subseteq live
    BY <1>2 DEF Acts, Starts, MovesOn, Moves, Clears, Deletes, Takes, Loses, Reads, Commits, Stops,
       scores
  <2> QED
    BY <2>1 DEF NotAfter
<1> QED
  BY <1>1, <1>2

LEMMA VersionRows ==
    ASSUME TypeOK, Known, NEW i \in DOMAIN versions
    PROVE  versions[i].rows \in SUBSET Score /\ \A x \in versions[i].rows : x.rev <= issued[x.slug]
<1>1. versions[i] \in VersionRow
  BY Indices DEF TypeOK
<1> QED
  BY <1>1 DEF VersionRow, Known

LEMMA NextForward ==
    ASSUME TypeOK, LiveUnique, Known, LockHeld, Forward, [Next]_vars
    PROVE  Forward'
<1>1. CASE Quiet
  BY <1>1 DEF Quiet, scores, Forward
<1>2. ASSUME NEW p \in Handlers, Acts(p)
      PROVE  Forward'
  <2>1. ASSUME NEW i \in DOMAIN versions, ~versions[i].cleared
        PROVE  NotAfter(versions[i].rows, live')
    BY <1>2, <2>1, VersionRows, LiveGetsNewer DEF Forward
  <2>2. ASSUME NEW q \in Handlers, h[q].pc = "sn_commit", ~h[q].seen.clear
        PROVE  NotAfter(h[q].rows, live')
    <3>1. h[q].rows \in SUBSET Score /\ \A x \in h[q].rows : x.rev <= issued[x.slug]
      BY DEF TypeOK, Requests, Known
    <3>2. NotAfter(h[q].rows, live)
      BY <2>2 DEF Forward
    <3> QED
      BY <1>2, <3>1, <3>2, LiveGetsNewer
  <2>3. \A q \in Handlers : q # p => h'[q] = h[q]
    BY <1>2, TempMoves
  <2>4. CASE Commits(p)
    <3> DEFINE n == Len(versions) + 1
    <3>1. /\ DOMAIN versions' = DOMAIN versions \cup {n}
          /\ \A k \in DOMAIN versions : versions'[k] = versions[k]
          /\ versions'[n].rows = h[p].rows /\ versions'[n].cleared = h[p].seen.clear
      BY <2>4, CommitVersions
    <3>2. \A k \in DOMAIN versions : k \in Int /\ k < n
      BY Indices DEF TypeOK
    <3>3. n \notin DOMAIN versions
      BY Indices DEF TypeOK
    <3> HIDE DEF n
    <3>4. h[p].pc = "sn_commit" /\ h'[p].pc = "sn_cleanup"
      BY <2>4 DEF Commits, Turns
    <3>5. ASSUME NEW i \in DOMAIN versions', ~versions'[i].cleared
          PROVE  NotAfter(versions'[i].rows, live')
      <4>1. CASE i \in DOMAIN versions
        BY <4>1, <3>1, <3>5, <2>1
      <4>2. CASE i = n
        BY <4>2, <3>1, <3>4, <3>5, <2>2
      <4> QED
        BY <4>1, <4>2, <3>1
    <3>6. ASSUME NEW q \in Handlers, h'[q].pc = "sn_commit"
          PROVE  FALSE
      <4>1. q # p /\ h[q].pc = "sn_commit"
        BY <3>4, <3>6, <2>3
      <4> QED
        BY <3>4, <4>1 DEF LockHeld, LockedPcs
    <3>7. ASSUME NEW i \in DOMAIN versions', NEW j \in DOMAIN versions', i < j,
                 ~versions'[i].cleared, ~versions'[j].cleared
          PROVE  NotAfter(versions'[i].rows, versions'[j].rows)
      <4>1. CASE i \in DOMAIN versions /\ j \in DOMAIN versions
        BY <4>1, <3>1, <3>7 DEF Forward
      <4>2. CASE i \in DOMAIN versions /\ j = n
        BY <4>2, <3>1, <3>4, <3>7 DEF Forward
      <4>3. CASE i = n /\ j \in DOMAIN versions
        <5>1. n \in Int
          BY Indices DEF TypeOK, n
        <5> QED
          BY <4>3, <5>1, <3>2, <3>7
      <4>4. CASE i = n /\ j = n
        <5>1. n \in Int
          BY Indices DEF TypeOK, n
        <5> QED
          BY <4>4, <5>1, <3>7
      <4> QED
        BY <3>1, <4>1, <4>2, <4>3, <4>4
    <3> QED
      BY <3>5, <3>6, <3>7 DEF Forward
  <2>5. CASE ~Commits(p)
    <3>1. versions' = versions \/ DOMAIN versions' = {}
      BY <1>2, <2>5, NextVersions, NoIndex
    <3>2. ASSUME NEW i \in DOMAIN versions', ~versions'[i].cleared
          PROVE  NotAfter(versions'[i].rows, live')
      BY <3>1, <3>2, <2>1
    <3>3. ASSUME NEW q \in Handlers, h'[q].pc = "sn_commit", ~h'[q].seen.clear
          PROVE  /\ NotAfter(h'[q].rows, live')
                 /\ \A i \in DOMAIN versions' : ~versions'[i].cleared => NotAfter(versions'[i].rows, h'[q].rows)
      <4>1. CASE Reads(p) /\ q = p
        <5>1. h'[p].rows = live /\ live' = live /\ versions' = versions
          BY <3>3, <4>1 DEF Reads, Turns, scores
        <5>2. NotAfter(live, live)
          BY DEF NotAfter, LiveUnique, TypeOK, Score
        <5> QED
          BY <4>1, <5>1, <5>2 DEF Forward
      <4>2. CASE ~(Reads(p) /\ q = p)
        <5>1. h'[q] = h[q]
          BY <1>2, <2>3, <2>5, <3>3, <4>2 DEF Acts, Starts, StartPcs, MovesOn, Moves, Clears, Deletes,
             Writes, Takes, Loses, Commits, Stops, Turns, Ends
        <5> QED
          BY <3>1, <3>3, <5>1, <2>2 DEF Forward
      <4> QED
        BY <4>1, <4>2
    <3>4. ASSUME NEW i \in DOMAIN versions', NEW j \in DOMAIN versions', i < j,
                 ~versions'[i].cleared, ~versions'[j].cleared
          PROVE  NotAfter(versions'[i].rows, versions'[j].rows)
      BY <3>1, <3>4 DEF Forward
    <3> QED
      BY <3>2, <3>3, <3>4 DEF Forward
  <2> QED
    BY <2>4, <2>5
<1> QED
  BY <1>1, <1>2, Forms

-----------------------------------------------------------------------------
(* The invariant, and what it says of the scores.                          *)

LEMMA Initially == Init => IInv
<1> SUFFICES ASSUME Init
             PROVE  IInv
  OBVIOUS
<1>1. versions = << >> /\ DOMAIN versions = {} /\ live = {} /\ owed = {}
  BY NoIndex DEF Init
<1>2. \A p \in Handlers : h[p] = Idle
  BY DEF Init
<1>3. TypeOK
  <2>1. Idle \in Requests
    BY DEF Idle, Requests, Pcs
  <2>2. h \in [Handlers -> Requests]
    BY <2>1 DEF Init
  <2>3. \A p \in Handlers : h[p].pc = "idle"
    BY <1>2 DEF Idle
  <2>4. versions \in Seq(VersionRow)
    BY <1>1, EmptySeq
  <2>5. issued \in [Slugs -> Nat]
    BY DEF Init
  <2>6. board = None
    BY DEF Init
  <2> QED
    BY <1>1, <2>2, <2>3, <2>4, <2>5, <2>6 DEF TypeOK
<1>4. \A p \in Handlers : h[p].pc = "idle" /\ h[p].temp = {} /\ h[p].rows = {}
  BY <1>2 DEF Idle
<1>5. LiveUnique /\ Known /\ LockHeld
  BY <1>1, <1>4 DEF LiveUnique, Known, LockHeld, LockedPcs
<1>6. TempIsTaken
  BY <1>4 DEF TempIsTaken, TakingPcs, TakenPcs
<1>7. Accounted /\ InOnePlace /\ Forward
  BY <1>1, <1>4 DEF Accounted, InOnePlace, Forward
<1> QED
  BY <1>3, <1>5, <1>6, <1>7 DEF IInv

LEMMA Step == IInv /\ [Next]_vars => IInv'
<1> SUFFICES ASSUME IInv, [Next]_vars
             PROVE  IInv'
  OBVIOUS
<1>1. TypeOK' /\ LiveUnique'
  BY NextType DEF IInv
<1>2. Known'
  BY NextKnown DEF IInv
<1>3. LockHeld' /\ TempIsTaken'
  BY NextLock, NextTemp DEF IInv
<1>4. Accounted'
  BY NextAccounted DEF IInv
<1>5. InOnePlace' /\ Forward'
  BY NextInOnePlace, NextForward DEF IInv
<1> QED
  BY <1>1, <1>2, <1>3, <1>4, <1>5 DEF IInv

(* IInv holds in every reachable state, however many requests to submit,   *)
(* snapshot, patch and delete a board run at once, and wherever each of    *)
(* them is cut off.                                                        *)
THEOREM Invariance == Spec => []IInv
<1>1. Init => IInv
  BY Initially
<1>2. IInv /\ [Next]_vars => IInv'
  BY Step
<1> QED
  BY <1>1, <1>2, PTL DEF Spec

(* A submission to the board that no later one replaced is in Redis, in    *)
(* the renamed keys of a running snapshot, in a version, or among the      *)
(* scores that a failed snapshot or a delete took: realtime::snapshot      *)
(* loses none that it does not fail on.                                    *)
THEOREM NoneLostSilently == Spec => []NoSilentLoss
<1>1. ASSUME IInv, NEW x \in owed
      PROVE  x \in Held \cup dropped
  <2>1. CASE x \in live \/ x \in dropped
    BY <2>1 DEF Held
  <2>2. CASE Saved(x)
    <3>1. PICK i \in DOMAIN versions : x \in versions[i].rows
      BY <2>2 DEF Saved
    <3>2. i \in 1..Len(versions)
      BY Indices DEF IInv, TypeOK
    <3>3. x \in UNION {versions[k].rows : k \in 1..Len(versions)}
      BY <3>1, <3>2
    <3> QED
      BY <3>3 DEF Held
  <2>3. ASSUME NEW p \in Handlers, x \in h[p].temp
        PROVE  x \in Held
    <3>1. x \in UNION {h[q].temp : q \in Handlers}
      BY <2>3
    <3> QED
      BY <3>1 DEF Held
  <2> QED
    BY <1>1, <2>1, <2>2, <2>3 DEF IInv, Accounted
<1>2. IInv => NoSilentLoss
  BY <1>1 DEF NoSilentLoss
<1> QED
  BY <1>2, Invariance, PTL

(* A snapshot that leaves the scores in Redis reads and commits them under *)
(* FOR UPDATE: of two of them the later one holds no older score.          *)
THEOREM NewerSnapshots == Spec => []SnapshotsDoNotGoBack
<1>1. ASSUME IInv, NEW i \in 1..Len(versions), NEW j \in 1..Len(versions),
             i < j, ~versions[i].cleared, ~versions[j].cleared
      PROVE  ~GoesBack(versions[i], versions[j])
  <2>1. i \in DOMAIN versions /\ j \in DOMAIN versions
    BY <1>1, Indices DEF IInv, TypeOK
  <2>2. versions[i].rows \in SUBSET Score /\ versions[j].rows \in SUBSET Score
    BY <1>1, <2>1, VersionRows DEF IInv
  <2>3. NotAfter(versions[i].rows, versions[j].rows)
    BY <1>1, <2>1 DEF IInv, Forward
  <2>4. ASSUME NEW x \in versions[i].rows, NEW y \in versions[j].rows, x.slug = y.slug
        PROVE  ~(x.rev > y.rev)
    <3>1. x.rev \in Nat /\ y.rev \in Nat
      BY <2>2 DEF Score
    <3> QED
      BY <2>3, <2>4, <3>1 DEF NotAfter
  <2> QED
    BY <2>4 DEF GoesBack
<1>2. IInv => SnapshotsDoNotGoBack
  BY <1>1 DEF SnapshotsDoNotGoBack
<1> QED
  BY <1>2, Invariance, PTL

(* RENAME hands the board's scores to one snapshot: no submission is in    *)
(* two of the versions whose snapshots cleared the scores.                 *)
THEOREM InOneSnapshot == Spec => []SnapshottedOnce
<1>1. ASSUME IInv, NEW i \in 1..Len(versions), NEW j \in 1..Len(versions),
             i # j, versions[i].cleared, versions[j].cleared
      PROVE  versions[i].rows \cap versions[j].rows = {}
  <2>1. i \in DOMAIN versions /\ j \in DOMAIN versions
    BY <1>1, Indices DEF IInv, TypeOK
  <2> QED
    BY <1>1, <2>1 DEF IInv, InOnePlace
<1>2. IInv => SnapshottedOnce
  BY <1>1 DEF SnapshottedOnce
<1> QED
  BY <1>2, Invariance, PTL
=============================================================================

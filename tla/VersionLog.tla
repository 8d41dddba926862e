----------------------------- MODULE VersionLog -----------------------------
(***************************************************************************)
(* What a board promises its readers: the versions it publishes form a     *)
(* log that is only ever appended to, a version never changes once it is   *)
(* published, and a client that polls with since=<last version it has>     *)
(* receives exactly the log, in order and without a gap.  Deleting the     *)
(* board discards the log and whatever a client had of it.                 *)
(***************************************************************************)
EXTENDS Naturals, Sequences

VARIABLES
    log,        \* the published versions, in version_number order
    received    \* the versions a polling client has been given

vars == <<log, received>>

Init == log = << >> /\ received = << >>

Extends(longer, shorter) ==
    /\ Len(longer) >= Len(shorter)
    /\ \A i \in 1..Len(shorter) : longer[i] = shorter[i]

Publish ==
    /\ Len(log') = Len(log) + 1
    /\ Extends(log', log)
    /\ UNCHANGED received

Deliver ==
    /\ Extends(received', received)
    /\ Extends(log, received')
    /\ UNCHANGED log

Discard == log' = << >> /\ received' = << >>

Next == Publish \/ Deliver \/ Discard

Spec == Init /\ [][Next]_vars
=============================================================================

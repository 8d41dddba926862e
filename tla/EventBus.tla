------------------------------ MODULE EventBus ------------------------------
(***************************************************************************)
(* The events a server pushes to its streaming clients: one broadcast      *)
(* channel per board, the limit on connections, and the debouncing of      *)
(* score.updated.                                                          *)
(*                                                                         *)
(* Connections are SSE and WebSocket clients, publishers are the routes    *)
(* that have created a version or accepted a score.  They run on several   *)
(* threads.  Each action is one atomic instruction or one section under    *)
(* the RwLock of the channels; a publisher keeps that lock, for reading,   *)
(* between the debounce check and the send of a score.  A channel is the   *)
(* set of its receivers, and a receiver is its queue: tokio drops the      *)
(* oldest event of a receiver that lags by more than the buffer.           *)
(*                                                                         *)
(* Between the commit of a version and its publication a request may end:  *)
(* its client may go while the COMMIT is awaited or while the keys of a    *)
(* snapshot are deleted, and the COMMIT may report an error after it took  *)
(* effect.  The command line commits versions in a process that has no     *)
(* bus.  No event announces such a version.                                *)
(***************************************************************************)
EXTENDS Integers, Sequences, FiniteSets

CONSTANTS
    None,
    Boards,           \* board slugs
    Connections,      \* clients
    Publishers,       \* requests that publish an event
    MaxConnections,   \* sse_max_connections
    Debounce,         \* sse_score_debounce_ms, in ticks; 0 is no debouncing
    BroadcastBuffer,  \* sse_broadcast_buffer
    VersionBound,     \* bound: no more versions than this per board
    TimeBound         \* bound: the clock stops here

ASSUME BusAssumption ==
    /\ IsFiniteSet(Connections)
    /\ MaxConnections \in Nat
    /\ Debounce \in Nat
    /\ BroadcastBuffer \in Nat \ {0}
    /\ VersionBound \in Nat
    /\ TimeBound \in Nat
    /\ None \notin Nat
    /\ \A S \in SUBSET Connections : S # None

VARIABLES
    channels,   \* per board: the connections that have a receiver, or None
    active,     \* active_connections
    gauge,      \* the metric streaming_active_connections
    last,       \* last_score_event: per board, when, or None
    conn,       \* per connection: where it is and what it holds
    pub,        \* per publisher: where it is and what it publishes
    now,        \* the clock
    committed,  \* per board: the number of its latest version
    silent      \* per board: the versions no event will announce (no code reads this)

vars == <<channels, active, gauge, last, conn, pub, now, committed, silent>>

Version(n) == [kind |-> "version", n |-> n]

ScoreAt(t) == [kind |-> "score", n |-> t]

(* prev is what fetch_add or fetch_sub returned.  since is the number of   *)
(* the latest version when the client joined, heard are the versions the   *)
(* client was told of, lagged is whether its receiver dropped an event; no *)
(* code reads these three.                                                 *)
Closed == [pc |-> "closed", board |-> None, prev |-> 0, rx |-> FALSE, guard |-> "none",
           queue |-> << >>, since |-> 0, heard |-> {}, lagged |-> FALSE]

Quiet == [pc |-> "quiet", board |-> None, n |-> 0]

-----------------------------------------------------------------------------
(* EventBus::subscribe.                                                    *)

(* Mutant: one connection too many.                                        *)
ReservePastLimit(c) ==
    /\ conn[c] = Closed
    /\ \E b \in Boards :
         conn' = [conn EXCEPT ![c] =
           [Closed EXCEPT !.pc = IF active > MaxConnections THEN "refused" ELSE "reserved",
                          !.board = b, !.prev = active]]
    /\ active' = active + 1
    /\ UNCHANGED <<channels, gauge, last, pub, now, committed, silent>>

(* fetch_add, before the limit is looked at.                               *)
Reserve(c) ==
    /\ conn[c] = Closed
    /\ \E b \in Boards :
         conn' = [conn EXCEPT ![c] =
           [Closed EXCEPT !.pc = IF active >= MaxConnections THEN "refused" ELSE "reserved",
                          !.board = b, !.prev = active]]
    /\ active' = active + 1
    /\ UNCHANGED <<channels, gauge, last, pub, now, committed, silent>>

(* Mutant: the slot of a refused connection is kept.                       *)
RefuseOnly(c) ==
    /\ conn[c].pc = "refused"
    /\ conn' = [conn EXCEPT ![c] = Closed]
    /\ UNCHANGED <<channels, active, gauge, last, pub, now, committed, silent>>

(* Over the limit: undo.                                                   *)
Refuse(c) ==
    /\ conn[c].pc = "refused"
    /\ conn' = [conn EXCEPT ![c] = Closed]
    /\ active' = active - 1
    /\ UNCHANGED <<channels, gauge, last, pub, now, committed, silent>>

(* No publisher is between the debounce check and the send.                *)
NoReader == \A p \in Publishers : pub[p].pc # "send"

Receivers(b) == IF channels[b] = None THEN {} ELSE channels[b]

(* Under the write lock: the channel is created if it is not there.        *)
Join(c) ==
    /\ conn[c].pc = "reserved"
    /\ NoReader
    /\ LET b == conn[c].board IN
         /\ channels' = [channels EXCEPT ![b] = Receivers(b) \cup {c}]
         /\ conn' = [conn EXCEPT ![c] = [@ EXCEPT !.pc = "joined", !.rx = TRUE, !.guard = "held",
                                                  !.since = committed[b]]]
    /\ UNCHANGED <<active, gauge, last, pub, now, committed, silent>>

RaiseGauge(c) ==
    /\ conn[c].pc = "joined"
    /\ gauge' = conn[c].prev + 1
    /\ conn' = [conn EXCEPT ![c] = [@ EXCEPT !.pc = "open", !.prev = 0]]
    /\ UNCHANGED <<channels, active, last, pub, now, committed, silent>>

-----------------------------------------------------------------------------
(* A stream, and its end: the client leaves, the timeout passes or the     *)
(* server stops.  A stream drops its receiver first, a WebSocket request   *)
(* that is cancelled before the upgrade drops its guard first.             *)

HeardAfter(r) ==
    LET event == Head(r.queue)
    IN  IF event.kind = "version" THEN r.heard \cup {event.n} ELSE r.heard

(* The next event is written to the client.                                *)
Push(c) ==
    /\ conn[c].pc = "open"
    /\ conn[c].queue # << >>
    /\ conn' = [conn EXCEPT ![c] = [@ EXCEPT !.queue = Tail(conn[c].queue),
                                             !.heard = HeardAfter(conn[c])]]
    /\ UNCHANGED <<channels, active, gauge, last, pub, now, committed, silent>>

Ending(c) == conn[c].pc \in {"open", "ending"}

Settled(r) == IF ~r.rx /\ r.guard = "none" THEN Closed ELSE r

DropReceiver(c) ==
    /\ Ending(c)
    /\ conn[c].rx
    /\ LET b == conn[c].board IN
         channels' = [channels EXCEPT ![b] = IF @ = None THEN None ELSE @ \ {c}]
    /\ conn' = [conn EXCEPT ![c] = Settled([@ EXCEPT !.pc = "ending", !.rx = FALSE,
                                                     !.queue = << >>, !.since = 0,
                                                     !.heard = {}, !.lagged = FALSE])]
    /\ UNCHANGED <<active, gauge, last, pub, now, committed, silent>>

(* ConnectionGuard::drop: fetch_sub, then the metric.                      *)
DropGuard(c) ==
    /\ Ending(c)
    /\ conn[c].guard = "held"
    /\ active' = active - 1
    /\ conn' = [conn EXCEPT ![c] = [@ EXCEPT !.pc = "ending", !.guard = "dropping",
                                             !.prev = active]]
    /\ UNCHANGED <<channels, gauge, last, pub, now, committed, silent>>

LowerGauge(c) ==
    /\ conn[c].guard = "dropping"
    /\ gauge' = conn[c].prev - 1
    /\ conn' = [conn EXCEPT ![c] = Settled([@ EXCEPT !.guard = "none", !.prev = 0])]
    /\ UNCHANGED <<channels, active, last, pub, now, committed, silent>>

-----------------------------------------------------------------------------
(* EventBus::publish_version, publish_score and prune_channel.             *)

(* A route commits a version, and then publishes it.                       *)
CommitVersion(p) ==
    /\ pub[p] = Quiet
    /\ \E b \in Boards :
         /\ committed[b] < VersionBound
         /\ committed' = [committed EXCEPT ![b] = @ + 1]
         /\ pub' = [pub EXCEPT ![p] = [pc |-> "version", board |-> b, n |-> committed[b] + 1]]
    /\ UNCHANGED <<channels, active, gauge, last, conn, now, silent>>

(* The request ends first: it is dropped at an await after the commit, or  *)
(* is told of an error by a COMMIT that took effect.                       *)
LosePublisher(p) ==
    /\ pub[p].pc = "version"
    /\ silent' = [silent EXCEPT ![pub[p].board] = @ \cup {pub[p].n}]
    /\ pub' = [pub EXCEPT ![p] = Quiet]
    /\ UNCHANGED <<channels, active, gauge, last, conn, now, committed>>

(* A sync or an import from the command line commits a version.            *)
CommitElsewhere(b) ==
    /\ committed[b] < VersionBound
    /\ committed' = [committed EXCEPT ![b] = @ + 1]
    /\ silent' = [silent EXCEPT ![b] = @ \cup {committed[b] + 1}]
    /\ UNCHANGED <<channels, active, gauge, last, conn, pub, now>>

Queued(r, event) ==
    LET q == Append(r.queue, event)
    IN  IF Len(q) > BroadcastBuffer
        THEN [r EXCEPT !.queue = Tail(q), !.lagged = TRUE]
        ELSE [r EXCEPT !.queue = q]

(* tx.send, and a look at whether anyone listens.                          *)
Send(p, event) ==
    LET b == pub[p].board IN
    /\ conn' = [c \in Connections |-> IF c \in Receivers(b) THEN Queued(conn[c], event) ELSE conn[c]]
    /\ pub' = [pub EXCEPT ![p] =
                 IF channels[b] = {} THEN [Quiet EXCEPT !.pc = "prune", !.board = b] ELSE Quiet]

SendVersion(p) ==
    /\ pub[p].pc = "version"
    /\ Send(p, Version(pub[p].n))
    /\ UNCHANGED <<channels, active, gauge, last, now, committed, silent>>

Debounced(b) == Debounce > 0 /\ last[b] # None /\ now - last[b] < Debounce

(* Mutant: the first event sets the time, later ones leave it.             *)
StampFirst(b) == IF last[b] = None THEN [last EXCEPT ![b] = now] ELSE last

Stamp(b) == IF Debounce > 0 THEN [last EXCEPT ![b] = now] ELSE last

CheckDebounce(p) ==
    /\ pub[p] = Quiet
    /\ \E b \in Boards :
         /\ channels[b] # None
         /\ ~Debounced(b)
         /\ last' = Stamp(b)
         /\ pub' = [pub EXCEPT ![p] = [pc |-> "send", board |-> b, n |-> now]]
    /\ UNCHANGED <<channels, active, gauge, conn, now, committed, silent>>

SendScore(p) ==
    /\ pub[p].pc = "send"
    /\ Send(p, ScoreAt(pub[p].n))
    /\ UNCHANGED <<channels, active, gauge, last, now, committed, silent>>

(* Mutant: the channel is removed without a second look.                   *)
PruneUnchecked(p) ==
    /\ pub[p].pc = "prune"
    /\ NoReader
    /\ channels' = [channels EXCEPT ![pub[p].board] = None]
    /\ last' = [last EXCEPT ![pub[p].board] = None]
    /\ pub' = [pub EXCEPT ![p] = Quiet]
    /\ UNCHANGED <<active, gauge, conn, now, committed, silent>>

(* Under the write lock: someone may have joined since.                    *)
Prune(p) ==
    /\ pub[p].pc = "prune"
    /\ NoReader
    /\ LET b == pub[p].board IN
         IF channels[b] = {}
         THEN /\ channels' = [channels EXCEPT ![b] = None]
              /\ last' = [last EXCEPT ![b] = None]
         ELSE UNCHANGED <<channels, last>>
    /\ pub' = [pub EXCEPT ![p] = Quiet]
    /\ UNCHANGED <<active, gauge, conn, now, committed, silent>>

Tick ==
    /\ now < TimeBound
    /\ now' = now + 1
    /\ UNCHANGED <<channels, active, gauge, last, conn, pub, committed, silent>>

-----------------------------------------------------------------------------
Init ==
    /\ channels = [b \in Boards |-> None]
    /\ active = 0 /\ gauge = 0
    /\ last = [b \in Boards |-> None]
    /\ conn = [c \in Connections |-> Closed]
    /\ pub = [p \in Publishers |-> Quiet]
    /\ now = 0
    /\ committed = [b \in Boards |-> 0]
    /\ silent = [b \in Boards |-> {}]

Client(c) ==
    \/ Reserve(c) \/ Refuse(c) \/ Join(c) \/ RaiseGauge(c)
    \/ Push(c) \/ DropReceiver(c) \/ DropGuard(c) \/ LowerGauge(c)

Publish(p) ==
    \/ CommitVersion(p) \/ LosePublisher(p) \/ SendVersion(p)
    \/ CheckDebounce(p) \/ SendScore(p) \/ Prune(p)

Next ==
    \/ Tick
    \/ \E b \in Boards : CommitElsewhere(b)
    \/ \E c \in Connections : Client(c)
    \/ \E p \in Publishers : Publish(p)

Spec == Init /\ [][Next]_vars

-----------------------------------------------------------------------------
(* Properties.                                                             *)

Events == [kind : {"version", "score"}, n : Nat]

Clients ==
    [pc : {"closed", "refused", "reserved", "joined", "open", "ending"},
     board : Boards \cup {None}, prev : Int, rx : BOOLEAN,
     guard : {"none", "held", "dropping"}, queue : Seq(Events), since : Nat,
     heard : SUBSET Nat, lagged : BOOLEAN]

Requests ==
    [pc : {"quiet", "version", "send", "prune"}, board : Boards \cup {None}, n : Nat]

(* A client that is not closed and a publisher that is not quiet are about *)
(* some board, and a receiver is on the channel that the registry has for  *)
(* its board.                                                              *)
TypeOK ==
    /\ channels \in [Boards -> (SUBSET Connections) \cup {None}]
    /\ active \in Int /\ gauge \in Int
    /\ last \in [Boards -> Nat \cup {None}]
    /\ conn \in [Connections -> Clients]
    /\ \A c \in Connections :
         /\ conn[c].pc # "closed" => conn[c].board \in Boards
         /\ conn[c].rx => /\ conn[c].pc \in {"joined", "open", "ending"}
                          /\ channels[conn[c].board] # None
                          /\ c \in channels[conn[c].board]
    /\ pub \in [Publishers -> Requests]
    /\ \A p \in Publishers : pub[p].pc # "quiet" => pub[p].board \in Boards
    /\ now \in Nat
    /\ committed \in [Boards -> Nat]
    /\ silent \in [Boards -> SUBSET Nat]

Admitted == {c \in Connections : conn[c].pc = "reserved" \/ conn[c].guard = "held"}

Refused == {c \in Connections : conn[c].pc = "refused"}

(* The counter is the number of connections that hold or are undoing a     *)
(* reservation: none is leaked and none is given back twice, so the        *)
(* server never ends up refusing everyone (sse.rs, "Atomically reserve a   *)
(* connection slot (fetch_add first, undo if over limit)").                *)
SlotsAccounted == active = Cardinality(Admitted) + Cardinality(Refused)

(* However many clients connect at once, sse_max_connections is not        *)
(* exceeded (config.rs, "Maximum concurrent SSE connections per server").  *)
ConnectionLimit == Cardinality(Admitted) <= MaxConnections

VersionsIn(q) == {q[i].n : i \in {j \in 1..Len(q) : q[j].kind = "version"}}

Unsent(b) == {pub[p].n : p \in {q \in Publishers : pub[q].pc = "version" /\ pub[q].board = b}}

(* A client that is streaming is told of every version that is committed   *)
(* after it joined and that its request lives to publish, unless the       *)
(* client lags: a channel is never removed under a receiver, whatever      *)
(* publishers and subscribers do at once (sse.rs, "Re-check under write    *)
(* lock -- a new subscriber may have appeared").  Versions may come in     *)
(* another order than that of their numbers.  What such a client does miss *)
(* is exactly silent: the versions of requests that ended between the      *)
(* commit and publish_version, and those of the command line.              *)
NoVersionMissed ==
    \A c \in Connections :
        conn[c].rx /\ ~conn[c].lagged =>
            (conn[c].since + 1)..committed[conn[c].board]
                \subseteq conn[c].heard \cup VersionsIn(conn[c].queue)
                            \cup Unsent(conn[c].board) \cup silent[conn[c].board]

(* The scores that wait for one client are at least the debounce interval  *)
(* apart, by the time of the check, however many are submitted at once     *)
(* (sse.rs, "Publish a score.updated event with per-board debouncing").    *)
ScoresSpaced ==
    \A c \in Connections :
        LET q == conn[c].queue IN
        \A i, j \in 1..Len(q) :
            i # j /\ q[i].kind = "score" /\ q[j].kind = "score" =>
                q[i].n - q[j].n >= Debounce \/ q[j].n - q[i].n >= Debounce
=============================================================================

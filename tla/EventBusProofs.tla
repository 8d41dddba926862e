-------------------------- MODULE EventBusProofs --------------------------
(***************************************************************************)
(* Proofs about EventBus, for every set of boards, clients and publishers, *)
(* every limit, interval and buffer.                                       *)
(*                                                                         *)
(* The argument for the limit: the counter is never below the number of    *)
(* admitted connections (SlotsAccounted), so fetch_add returns less than   *)
(* the limit only when one more may come in.  The argument for the events: *)
(* a receiver is always on the channel that the registry has for its board *)
(* (TypeOK), so a publisher that finds that channel finds the receiver,    *)
(* and a version that is not sent yet is still to come, or its publisher   *)
(* has ended and it is silent.                                             *)
(* The argument for the debouncing: the scores on their way, in queues and *)
(* between the check and the send, are no younger than the time stamp of   *)
(* their board, and a check lets the next one through an interval after it *)
(* (Spaced).                                                               *)
(***************************************************************************)
EXTENDS EventBus, FiniteSetTheorems, TLAPS

(* A guard is held by exactly the connections that got past the limit.     *)
GuardsFollowSteps ==
    \A c \in Connections :
        /\ conn[c].pc \in {"closed", "refused", "reserved"} => conn[c].guard = "none"
        /\ conn[c].pc \in {"joined", "open"} => conn[c].guard = "held"

IInv ==
    /\ TypeOK
    /\ GuardsFollowSteps
    /\ SlotsAccounted
    /\ ConnectionLimit
    /\ NoVersionMissed

-----------------------------------------------------------------------------
(* Queues.                                                                 *)

(* The events of a queue, with an event appended, are events.              *)
LEMMA QueuedType ==
    ASSUME NEW r \in Clients, NEW event \in Events
    PROVE  /\ Queued(r, event) \in Clients
           /\ Queued(r, event).pc = r.pc
           /\ Queued(r, event).board = r.board
           /\ Queued(r, event).rx = r.rx
           /\ Queued(r, event).guard = r.guard
           /\ Queued(r, event).since = r.since
           /\ Queued(r, event).heard = r.heard
<1> DEFINE q == Append(r.queue, event)
<1>1. r.queue \in Seq(Events)
  BY DEF Clients
<1>2. q \in Seq(Events) /\ Len(q) = Len(r.queue) + 1 /\ Len(r.queue) \in Nat
  BY <1>1
<1>3. Tail(q) \in Seq(Events)
  BY <1>2
<1> QED
  BY <1>2, <1>3, BusAssumption DEF Queued, Clients

(* A receiver that does not lag keeps the versions that wait for it, and   *)
(* gets the one that is sent.                                              *)
LEMMA QueuedKeepsVersions ==
    ASSUME NEW r \in Clients, NEW event \in Events, ~Queued(r, event).lagged
    PROVE  /\ ~r.lagged
           /\ VersionsIn(r.queue) \subseteq VersionsIn(Queued(r, event).queue)
           /\ event.kind = "version" => event.n \in VersionsIn(Queued(r, event).queue)
<1> DEFINE q == Append(r.queue, event)
           n == Len(r.queue)
<1>1. r.queue \in Seq(Events) /\ n \in Nat
  BY DEF Clients
<1>2. /\ Len(q) = n + 1
      /\ q[n + 1] = event
      /\ \A i \in 1..n : q[i] = r.queue[i]
  BY <1>1
<1>3. Queued(r, event) = [r EXCEPT !.queue = q]
  <2>1. CASE Len(q) > BroadcastBuffer
    <3>1. Queued(r, event).lagged = TRUE
      BY <2>1 DEF Queued, Clients
    <3> QED
      BY <3>1
  <2>2. CASE ~(Len(q) > BroadcastBuffer)
    BY <2>2 DEF Queued
  <2> QED
    BY <2>1, <2>2
<1>4. Queued(r, event).queue = q /\ Queued(r, event).lagged = r.lagged
  BY <1>3 DEF Clients
<1>5. VersionsIn(r.queue) \subseteq VersionsIn(q)
  <2> SUFFICES ASSUME NEW i \in 1..n, r.queue[i].kind = "version"
               PROVE  r.queue[i].n \in VersionsIn(q)
    BY DEF VersionsIn
  <2>1. i \in 1..Len(q) /\ q[i] = r.queue[i]
    BY <1>1, <1>2
  <2> QED
    BY <2>1 DEF VersionsIn
<1>6. event.kind = "version" => event.n \in VersionsIn(q)
  <2>1. n + 1 \in 1..Len(q)
    BY <1>1, <1>2
  <2> QED
    BY <2>1, <1>2 DEF VersionsIn
<1> QED
  BY <1>4, <1>5, <1>6

(* Taking the first event off a queue leaves the versions of the others.   *)
LEMMA TailKeepsVersions ==
    ASSUME NEW q \in Seq(Events), q # << >>
    PROVE  \A n \in VersionsIn(q) :
             n \in VersionsIn(Tail(q)) \/ (Head(q).kind = "version" /\ n = Head(q).n)
<1> SUFFICES ASSUME NEW i \in 1..Len(q), q[i].kind = "version"
             PROVE  \/ q[i].n \in VersionsIn(Tail(q))
                    \/ Head(q).kind = "version" /\ q[i].n = Head(q).n
  BY DEF VersionsIn
<1>1. Len(q) \in Nat /\ Len(q) > 0 /\ Len(Tail(q)) = Len(q) - 1
  OBVIOUS
<1>2. CASE i = 1
  BY <1>2
<1>3. CASE i > 1
  <2>1. i - 1 \in 1..Len(Tail(q)) /\ Tail(q)[i - 1] = q[i]
    BY <1>1, <1>3
  <2> QED
    BY <2>1 DEF VersionsIn
<1> QED
  BY <1>2, <1>3

-----------------------------------------------------------------------------
(* Slots: how the two sets of the counter change.                          *)

LEMMA SlotsFinite == IsFiniteSet(Admitted) /\ IsFiniteSet(Refused)
<1>1. Admitted \subseteq Connections /\ Refused \subseteq Connections
  BY DEF Admitted, Refused
<1> QED
  BY <1>1, BusAssumption, FS_Subset

(* A step that neither reserves a slot nor gives one back.                 *)
LEMMA SlotsKept ==
    ASSUME SlotsAccounted, ConnectionLimit, UNCHANGED active,
           \A c \in Connections :
             /\ (conn'[c].pc = "reserved" \/ conn'[c].guard = "held")
                  <=> (conn[c].pc = "reserved" \/ conn[c].guard = "held")
             /\ conn'[c].pc = "refused" <=> conn[c].pc = "refused"
    PROVE  SlotsAccounted' /\ ConnectionLimit'
<1>1. Admitted' = Admitted
  BY DEF Admitted
<1>2. Refused' = Refused
  BY DEF Refused
<1> QED
  BY <1>1, <1>2 DEF SlotsAccounted, ConnectionLimit
-----------------------------------------------------------------------------
(* Every step keeps the types and the relation of guards to steps.         *)

(* What the invariants say of client c with record r and registry ch.      *)
ClientOK(c, r, ch) ==
    /\ r \in Clients
    /\ r.pc # "closed" => r.board \in Boards
    /\ r.rx => r.pc \in {"joined", "open", "ending"} /\ ch[r.board] # None /\ c \in ch[r.board]
    /\ r.pc \in {"closed", "refused", "reserved"} => r.guard = "none"
    /\ r.pc \in {"joined", "open"} => r.guard = "held"

RegistryOK(ch) == ch \in [Boards -> (SUBSET Connections) \cup {None}]

(* What they say of the other variables.                                   *)
RestOK ==
    /\ active \in Int /\ gauge \in Int
    /\ last \in [Boards -> Nat \cup {None}]
    /\ pub \in [Publishers -> Requests]
    /\ \A p \in Publishers : pub[p].pc # "quiet" => pub[p].board \in Boards
    /\ now \in Nat
    /\ committed \in [Boards -> Nat]
    /\ silent \in [Boards -> SUBSET Nat]

Typed == TypeOK /\ GuardsFollowSteps

LEMMA TypedParts ==
    Typed <=> /\ conn \in [Connections -> Clients]
              /\ \A c \in Connections : ClientOK(c, conn[c], channels)
              /\ RegistryOK(channels)
              /\ RestOK
BY DEF Typed, TypeOK, GuardsFollowSteps, ClientOK, RegistryOK, RestOK

(* A step of one client, which keeps the other variables.                  *)
LEMMA OneClient ==
    ASSUME Typed, NEW c \in Connections, NEW r,
           conn' = [conn EXCEPT ![c] = r],
           ClientOK(c, r, channels'),
           \A d \in Connections \ {c} : ClientOK(d, conn[d], channels'),
           RegistryOK(channels'),
           RestOK'
    PROVE  Typed'
<1>1. conn \in [Connections -> Clients] /\ r \in Clients
  BY TypedParts DEF ClientOK
<1>2. /\ conn' \in [Connections -> Clients]
      /\ conn'[c] = r
      /\ \A d \in Connections \ {c} : conn'[d] = conn[d]
  BY <1>1
<1>3. \A d \in Connections : ClientOK(d, conn'[d], channels')
  BY <1>2
<1>4. Typed' <=> /\ conn' \in [Connections -> Clients]
                 /\ \A d \in Connections : ClientOK(d, conn'[d], channels')
                 /\ RegistryOK(channels')
                 /\ RestOK'
  BY DEF Typed, TypeOK, GuardsFollowSteps, ClientOK, RegistryOK, RestOK
<1> QED
  BY <1>2, <1>3, <1>4

(* The same when the registry stays as it is.                              *)
LEMMA OneClientOnly ==
    ASSUME Typed, NEW c \in Connections, NEW r,
           conn' = [conn EXCEPT ![c] = r],
           ClientOK(c, r, channels),
           UNCHANGED channels,
           RestOK'
    PROVE  Typed'
<1>1. \A d \in Connections \ {c} : ClientOK(d, conn[d], channels')
  BY TypedParts
<1>2. RegistryOK(channels')
  BY TypedParts
<1> QED
  BY <1>1, <1>2, OneClient

(* A closed connection is a client record, and holds nothing.              *)
LEMMA ClosedType ==
    ASSUME NEW c
    PROVE  /\ ClientOK(c, Closed, channels)
           /\ ClientOK(c, Closed, channels')
           /\ Closed \in Clients
           /\ Closed.pc = "closed" /\ Closed.guard = "none" /\ ~Closed.rx
BY DEF Closed, Clients, ClientOK

(* Registering c on its board keeps the others where they are, and so does *)
(* removing it.                                                            *)
LEMMA OthersStay ==
    ASSUME Typed, NEW c \in Connections, NEW b \in Boards, NEW S \in SUBSET Connections,
           channels' = [channels EXCEPT ![b] = S],
           \A d \in Connections \ {c} : d \in Receivers(b) => d \in S
    PROVE  /\ RegistryOK(channels')
           /\ \A d \in Connections \ {c} : ClientOK(d, conn[d], channels')
<1>1. RegistryOK(channels) /\ \A d \in Connections : ClientOK(d, conn[d], channels)
  BY TypedParts
<1>2. S # None
  BY BusAssumption
<1>3. RegistryOK(channels')
  BY <1>1 DEF RegistryOK
<1>4. ASSUME NEW d \in Connections \ {c}
      PROVE  ClientOK(d, conn[d], channels')
  <2>1. ClientOK(d, conn[d], channels)
    BY <1>1
  <2>2. conn[d].rx => conn[d].board \in Boards
    BY <2>1 DEF ClientOK
  <2>3. ASSUME conn[d].rx
        PROVE  channels'[conn[d].board] # None /\ d \in channels'[conn[d].board]
    <3>1. CASE conn[d].board = b
      BY <1>1, <1>2, <2>1, <2>3, <3>1 DEF ClientOK, RegistryOK, Receivers
    <3>2. CASE conn[d].board # b
      BY <1>1, <2>1, <2>2, <2>3, <3>2 DEF ClientOK, RegistryOK
    <3> QED
      BY <3>1, <3>2
  <2> QED
    BY <2>1, <2>3 DEF ClientOK
<1> QED
  BY <1>3, <1>4

LEMMA ClientTypes ==
    ASSUME Typed, NEW c \in Connections, Client(c)
    PROVE  Typed'
<1> DEFINE r == conn[c]
<1>1. /\ ClientOK(c, r, channels) /\ conn \in [Connections -> Clients]
      /\ RegistryOK(channels) /\ RestOK
  BY TypedParts
<1>2. CASE Reserve(c)
  <2>1. PICK b \in Boards :
          conn' = [conn EXCEPT ![c] =
            [Closed EXCEPT !.pc = IF active >= MaxConnections THEN "refused" ELSE "reserved",
                           !.board = b, !.prev = active]]
    BY <1>2 DEF Reserve
  <2> DEFINE new == [Closed EXCEPT !.pc = IF active >= MaxConnections THEN "refused" ELSE "reserved",
                                   !.board = b, !.prev = active]
  <2>2. ClientOK(c, new, channels)
    BY <1>1, ClosedType DEF Clients, ClientOK, RestOK, Closed
  <2>3. RestOK' /\ UNCHANGED channels
    BY <1>1, <1>2 DEF RestOK, Reserve
  <2> HIDE DEF new
  <2>4. conn' = [conn EXCEPT ![c] = new]
    BY <2>1 DEF new
  <2> QED
    BY <2>2, <2>3, <2>4, OneClientOnly
<1>3. CASE Refuse(c)
  <2>1. RestOK' /\ UNCHANGED channels /\ conn' = [conn EXCEPT ![c] = Closed]
    BY <1>1, <1>3 DEF RestOK, Refuse
  <2> QED
    BY <2>1, ClosedType, OneClientOnly
<1>4. CASE Join(c)
  <2> DEFINE b == r.board
             new == [r EXCEPT !.pc = "joined", !.rx = TRUE, !.guard = "held",
                              !.since = committed[b]]
             S == Receivers(b) \cup {c}
  <2>1. /\ b \in Boards /\ conn' = [conn EXCEPT ![c] = new]
        /\ channels' = [channels EXCEPT ![b] = S]
    BY <1>1, <1>4 DEF Join, ClientOK
  <2>2. S \in SUBSET Connections /\ S # None
    <3>1. S \in SUBSET Connections
      BY <1>1, <2>1 DEF Receivers, RegistryOK
    <3> QED
      BY <3>1, BusAssumption
  <2>3. RestOK'
    BY <1>1, <1>4 DEF RestOK, Join
  <2>4. channels'[b] = S
    BY <1>1, <2>1 DEF RegistryOK
  <2>5. new \in Clients /\ new.board = b /\ new.pc = "joined" /\ new.guard = "held"
    BY <1>1, <2>1 DEF Clients, ClientOK, RestOK
  <2>6. ClientOK(c, new, channels')
    BY <2>1, <2>2, <2>4, <2>5 DEF ClientOK
  <2>7. /\ RegistryOK(channels')
        /\ \A d \in Connections \ {c} : ClientOK(d, conn[d], channels')
    <3> HIDE DEF new
    <3>1. \A d \in Connections \ {c} : d \in Receivers(b) => d \in S
      OBVIOUS
    <3> HIDE DEF S
    <3> QED
      BY <2>1, <2>2, <3>1, OthersStay
  <2> HIDE DEF new
  <2> QED
    BY <2>1, <2>3, <2>6, <2>7, OneClient
<1>5. CASE RaiseGauge(c)
  <2> DEFINE new == [r EXCEPT !.pc = "open", !.prev = 0]
  <2>1. r.prev + 1 \in Int /\ r.pc = "joined"
    BY <1>1, <1>5 DEF Clients, ClientOK, RaiseGauge
  <2>2. ClientOK(c, new, channels)
    <3>1. new \in Clients
      <4>1. \A z \in Int : [r EXCEPT !.pc = "open", !.prev = z] \in Clients
        BY <1>1 DEF Clients, ClientOK
      <4>2. 0 \in Int
        OBVIOUS
      <4> QED
        BY <4>1, <4>2, Zenon
    <3>2. /\ new.board = r.board /\ new.rx = r.rx /\ new.guard = r.guard
          /\ new.pc = "open"
      BY <1>1, <2>1 DEF Clients, ClientOK
    <3> QED
      BY <1>1, <2>1, <3>1, <3>2 DEF ClientOK
  <2>3. RestOK' /\ UNCHANGED channels /\ conn' = [conn EXCEPT ![c] = new]
    BY <1>1, <1>5, <2>1 DEF RestOK, RaiseGauge
  <2> HIDE DEF new
  <2> QED
    BY <2>2, <2>3, OneClientOnly
<1>6. CASE Push(c)
  <2> DEFINE new == [r EXCEPT !.queue = Tail(r.queue), !.heard = HeardAfter(r)]
  <2>1. r.queue \in Seq(Events) /\ r.queue # << >>
    BY <1>1, <1>6 DEF Push, Clients, ClientOK
  <2>2. Head(r.queue) \in Events /\ Tail(r.queue) \in Seq(Events)
    BY <2>1
  <2>3. HeardAfter(r) \in SUBSET Nat
    BY <1>1, <2>2 DEF HeardAfter, Events, Clients, ClientOK
  <2>4. ClientOK(c, new, channels)
    BY <1>1, <2>2, <2>3 DEF Clients, ClientOK
  <2>5. RestOK' /\ UNCHANGED channels /\ conn' = [conn EXCEPT ![c] = new]
    BY <1>1, <1>6 DEF RestOK, Push
  <2> HIDE DEF new
  <2> QED
    BY <2>4, <2>5, OneClientOnly
<1>7. CASE DropReceiver(c)
  <2> DEFINE b == r.board
             ended == [r EXCEPT !.pc = "ending", !.rx = FALSE, !.queue = << >>,
                                !.since = 0, !.heard = {}, !.lagged = FALSE]
             S == channels[b] \ {c}
  <2>1. /\ b \in Boards /\ channels[b] # None
        /\ conn' = [conn EXCEPT ![c] = Settled(ended)]
        /\ channels' = [channels EXCEPT ![b] = S]
    BY <1>1, <1>7 DEF DropReceiver, Ending, ClientOK
  <2>2. S \in SUBSET Connections
    BY <1>1, <2>1 DEF RegistryOK
  <2>3. RestOK'
    BY <1>1, <1>7 DEF RestOK, DropReceiver
  <2>4. ended \in Clients /\ ended.board = b /\ ~ended.rx /\ ended.pc = "ending"
    <3>1. << >> \in Seq(Events)
      OBVIOUS
    <3> QED
      BY <1>1, <3>1 DEF Clients, ClientOK
  <2>5. ClientOK(c, ended, channels')
    BY <2>1, <2>4 DEF ClientOK
  <2>6. /\ RegistryOK(channels')
        /\ \A d \in Connections \ {c} : ClientOK(d, conn[d], channels')
    <3> HIDE DEF ended
    <3>1. \A d \in Connections \ {c} : d \in Receivers(b) => d \in S
      BY DEF Receivers
    <3> HIDE DEF S
    <3> QED
      BY <2>1, <2>2, <3>1, OthersStay
  <2> HIDE DEF ended
  <2>7. ClientOK(c, Settled(ended), channels')
    BY <2>5, ClosedType DEF Settled
  <2> QED
    BY <2>1, <2>3, <2>6, <2>7, OneClient
<1>8. CASE DropGuard(c)
  <2> DEFINE new == [r EXCEPT !.pc = "ending", !.guard = "dropping", !.prev = active]
  <2>1. r.pc \in {"open", "ending"}
    BY <1>8 DEF DropGuard, Ending
  <2>2. ClientOK(c, new, channels)
    BY <1>1, <2>1 DEF Clients, ClientOK, RestOK
  <2>3. RestOK' /\ UNCHANGED channels /\ conn' = [conn EXCEPT ![c] = new]
    BY <1>1, <1>8 DEF RestOK, DropGuard
  <2> HIDE DEF new
  <2> QED
    BY <2>2, <2>3, OneClientOnly
<1>9. CASE LowerGauge(c)
  <2> DEFINE ended == [r EXCEPT !.guard = "none", !.prev = 0]
  <2>1. r.pc = "ending" /\ r.prev - 1 \in Int
    BY <1>1, <1>9 DEF LowerGauge, Clients, ClientOK
  <2>2. ClientOK(c, ended, channels)
    <3>1. ended \in Clients
      <4>1. \A z \in Int : [r EXCEPT !.guard = "none", !.prev = z] \in Clients
        BY <1>1 DEF Clients, ClientOK
      <4>2. 0 \in Int
        OBVIOUS
      <4> QED
        BY <4>1, <4>2, Zenon
    <3>2. /\ ended.board = r.board /\ ended.rx = r.rx /\ ended.guard = "none"
          /\ ended.pc = "ending"
      BY <1>1, <2>1 DEF Clients, ClientOK
    <3> QED
      BY <1>1, <2>1, <3>1, <3>2 DEF ClientOK
  <2>3. RestOK' /\ UNCHANGED channels /\ conn' = [conn EXCEPT ![c] = Settled(ended)]
    BY <1>1, <1>9, <2>1 DEF RestOK, LowerGauge
  <2> HIDE DEF ended
  <2>4. ClientOK(c, Settled(ended), channels)
    BY <2>2, ClosedType DEF Settled
  <2> QED
    BY <2>3, <2>4, OneClientOnly
<1> QED
  BY <1>2, <1>3, <1>4, <1>5, <1>6, <1>7, <1>8, <1>9 DEF Client

(* A send gives an event to every receiver of the board and changes nothing*)
(* else of a client.                                                       *)
LEMMA SendClients ==
    ASSUME Typed, NEW p \in Publishers, NEW event \in Events, Send(p, event),
           NEW c \in Connections
    PROVE  /\ conn' \in [Connections -> Clients]
           /\ conn'[c] = IF c \in Receivers(pub[p].board) THEN Queued(conn[c], event) ELSE conn[c]
           /\ ClientOK(c, conn'[c], channels)
           /\ conn'[c].pc = conn[c].pc /\ conn'[c].guard = conn[c].guard
           /\ conn'[c].board = conn[c].board /\ conn'[c].rx = conn[c].rx
           /\ conn'[c].since = conn[c].since /\ conn'[c].heard = conn[c].heard
<1> DEFINE b == pub[p].board
<1>1. conn' = [d \in Connections |-> IF d \in Receivers(b) THEN Queued(conn[d], event) ELSE conn[d]]
  BY DEF Send
<1>2. \A d \in Connections : conn[d] \in Clients /\ ClientOK(d, conn[d], channels)
  BY TypedParts
<1>3. \A d \in Connections : Queued(conn[d], event) \in Clients
  BY <1>2, QueuedType
<1>4. conn' \in [Connections -> Clients]
  BY <1>1, <1>2, <1>3
<1>5. conn'[c] = IF c \in Receivers(b) THEN Queued(conn[c], event) ELSE conn[c]
  BY <1>1
<1>6. /\ conn'[c].pc = conn[c].pc /\ conn'[c].guard = conn[c].guard
      /\ conn'[c].board = conn[c].board /\ conn'[c].rx = conn[c].rx
      /\ conn'[c].since = conn[c].since /\ conn'[c].heard = conn[c].heard
  BY <1>2, <1>5, QueuedType
<1>7. ClientOK(c, conn'[c], channels)
  <2>1. conn'[c] \in Clients
    BY <1>4
  <2> QED
    BY <1>2, <1>6, <2>1 DEF ClientOK
<1> QED
  BY <1>4, <1>5, <1>6, <1>7

(* What a step that keeps the clients and the registry has to show.        *)
LEMMA NoClient ==
    ASSUME Typed, UNCHANGED <<conn, channels>>, RestOK'
    PROVE  Typed'
BY DEF Typed, TypeOK, GuardsFollowSteps, RestOK

(* Events that publishers send are events.                                 *)
LEMMA EventTypes ==
    ASSUME Typed, NEW p \in Publishers
    PROVE  Version(pub[p].n) \in Events /\ ScoreAt(pub[p].n) \in Events
<1>1. pub[p].n \in Nat
  BY TypedParts DEF RestOK, Requests
<1> QED
  BY <1>1 DEF Version, ScoreAt, Events

LEMMA SendTypes ==
    ASSUME Typed, NEW p \in Publishers, pub[p].pc # "quiet",
           NEW event \in Events, Send(p, event),
           UNCHANGED <<channels, active, gauge, last, now, committed, silent>>
    PROVE  Typed'
<1>1. RestOK /\ RegistryOK(channels) /\ pub[p].board \in Boards
  BY TypedParts DEF RestOK
<1> DEFINE new == IF channels[pub[p].board] = {}
                  THEN [Quiet EXCEPT !.pc = "prune", !.board = pub[p].board] ELSE Quiet
<1>2. pub' = [pub EXCEPT ![p] = new]
  BY DEF Send
<1>3. new \in Requests /\ (new.pc # "quiet" => new.board \in Boards)
  BY <1>1 DEF Quiet, Requests
<1> HIDE DEF new
<1>4. RestOK'
  BY <1>1, <1>2, <1>3 DEF RestOK
<1>5. \A c \in Connections : ClientOK(c, conn'[c], channels')
  BY SendClients
<1>6. conn' \in [Connections -> Clients]
  <2>1. CASE Connections = {}
    BY <2>1 DEF Send
  <2>2. CASE Connections # {}
    BY <2>2, SendClients
  <2> QED
    BY <2>1, <2>2
<1>7. RegistryOK(channels')
  BY <1>1
<1> QED
  BY <1>4, <1>5, <1>6, <1>7 DEF Typed, TypeOK, GuardsFollowSteps, ClientOK, RegistryOK, RestOK

LEMMA PublisherTypes ==
    ASSUME Typed, NEW p \in Publishers, Publish(p)
    PROVE  Typed'
<1>1. RestOK /\ RegistryOK(channels) /\ \A c \in Connections : ClientOK(c, conn[c], channels)
  BY TypedParts
<1>2. CASE CommitVersion(p)
  <2>1. PICK b \in Boards :
          /\ committed' = [committed EXCEPT ![b] = committed[b] + 1]
          /\ pub' = [pub EXCEPT ![p] = [pc |-> "version", board |-> b, n |-> committed[b] + 1]]
    BY <1>2 DEF CommitVersion
  <2>2. /\ [pc |-> "version", board |-> b, n |-> committed[b] + 1] \in Requests
        /\ committed[b] + 1 \in Nat
    BY <1>1 DEF RestOK, Requests
  <2>3. RestOK'
    BY <1>1, <1>2, <2>1, <2>2 DEF RestOK, CommitVersion
  <2> QED
    BY <1>2, <2>3, NoClient DEF CommitVersion
<1>3. CASE SendVersion(p)
  BY <1>1, <1>3, EventTypes, SendTypes DEF SendVersion, RestOK
<1>7. CASE LosePublisher(p)
  <2>1. /\ pub[p].board \in Boards /\ pub[p].n \in Nat
        /\ pub' = [pub EXCEPT ![p] = Quiet]
        /\ silent' = [silent EXCEPT ![pub[p].board] = silent[pub[p].board] \cup {pub[p].n}]
    BY <1>1, <1>7 DEF LosePublisher, RestOK, Requests
  <2>2. Quiet \in Requests /\ Quiet.pc = "quiet"
    BY DEF Quiet, Requests
  <2>3. silent' \in [Boards -> SUBSET Nat]
    BY <1>1, <2>1 DEF RestOK
  <2>4. RestOK'
    BY <1>1, <1>7, <2>1, <2>2, <2>3 DEF RestOK, LosePublisher
  <2> QED
    BY <1>7, <2>4, NoClient DEF LosePublisher
<1>4. CASE CheckDebounce(p)
  <2>1. PICK b \in Boards :
          /\ last' = Stamp(b)
          /\ pub' = [pub EXCEPT ![p] = [pc |-> "send", board |-> b, n |-> now]]
    BY <1>4 DEF CheckDebounce
  <2>2. [pc |-> "send", board |-> b, n |-> now] \in Requests
    BY <1>1 DEF RestOK, Requests
  <2>3. last' \in [Boards -> Nat \cup {None}]
    BY <1>1, <2>1 DEF RestOK, Stamp
  <2>4. RestOK'
    BY <1>1, <1>4, <2>1, <2>2, <2>3 DEF RestOK, CheckDebounce
  <2> QED
    BY <1>4, <2>4, NoClient DEF CheckDebounce
<1>5. CASE SendScore(p)
  <2>1. pub[p].n \in Nat
    BY <1>1 DEF RestOK, Requests
  <2> QED
    BY <1>5, <2>1, EventTypes, SendTypes DEF SendScore
<1>6. CASE Prune(p)
  <2> DEFINE b == pub[p].board
  <2>1. b \in Boards
    BY <1>1, <1>6 DEF Prune, RestOK
  <2>2. RestOK'
    <3>1. pub' \in [Publishers -> Requests] /\ pub' = [pub EXCEPT ![p] = Quiet]
      BY <1>1, <1>6 DEF Prune, RestOK, Quiet, Requests
    <3>2. last' \in [Boards -> Nat \cup {None}]
      BY <1>1, <1>6, <2>1 DEF Prune, RestOK
    <3>3. \A q \in Publishers : pub'[q].pc # "quiet" => pub'[q].board \in Boards
      BY <1>1, <3>1 DEF Quiet, RestOK
    <3> QED
      BY <1>1, <1>6, <3>1, <3>2, <3>3 DEF Prune, RestOK
  <2>3. CASE UNCHANGED channels
    BY <1>6, <2>2, <2>3, NoClient DEF Prune
  <2>4. CASE channels[b] = {} /\ channels' = [channels EXCEPT ![b] = None]
    <3>1. RegistryOK(channels')
      BY <1>1, <2>4 DEF RegistryOK
    <3>2. ASSUME NEW c \in Connections
          PROVE  ClientOK(c, conn[c], channels')
      <4>1. ClientOK(c, conn[c], channels)
        BY <1>1
      <4>2. conn[c].rx => conn[c].board \in Boards /\ conn[c].board # b
        BY <2>4, <4>1 DEF ClientOK
      <4>3. conn[c].rx => channels'[conn[c].board] = channels[conn[c].board]
        BY <1>1, <2>4, <4>2 DEF RegistryOK
      <4> QED
        BY <4>1, <4>3 DEF ClientOK
    <3>3. UNCHANGED conn /\ conn \in [Connections -> Clients]
      BY <1>6, TypedParts DEF Prune
    <3> QED
      BY <2>2, <3>1, <3>2, <3>3 DEF Typed, TypeOK, GuardsFollowSteps, ClientOK, RegistryOK, RestOK
  <2> QED
    BY <1>6, <2>3, <2>4 DEF Prune
<1> QED
  BY <1>2, <1>3, <1>4, <1>5, <1>6, <1>7 DEF Publish

LEMMA NextTyped ==
    ASSUME Typed, [Next]_vars
    PROVE  Typed'
<1>1. CASE UNCHANGED vars
  BY <1>1 DEF Typed, TypeOK, GuardsFollowSteps, vars
<1>2. CASE Tick
  <2>1. RestOK'
    BY <1>2, TypedParts DEF Tick, RestOK
  <2> QED
    BY <1>2, <2>1, NoClient DEF Tick
<1>3. ASSUME NEW b \in Boards, CommitElsewhere(b)
      PROVE  Typed'
  <2>1. RestOK
    BY TypedParts
  <2>2. committed' \in [Boards -> Nat] /\ silent' \in [Boards -> SUBSET Nat]
    BY <1>3, <2>1 DEF CommitElsewhere, RestOK
  <2>3. RestOK'
    BY <1>3, <2>1, <2>2 DEF CommitElsewhere, RestOK
  <2> QED
    BY <1>3, <2>3, NoClient DEF CommitElsewhere
<1> QED
  BY <1>1, <1>2, <1>3, ClientTypes, PublisherTypes DEF Next

-----------------------------------------------------------------------------
(* The counter and the limit.                                              *)

Slots == SlotsAccounted /\ ConnectionLimit

(* A step of a client moves it into, out of or between the two sets of the *)
(* counter, and moves the counter with it.                                 *)
LEMMA ClientSlots ==
    ASSUME Typed, Slots, NEW c \in Connections, Client(c)
    PROVE  Slots'
<1> DEFINE r == conn[c]
           n == Cardinality(Admitted)
           m == Cardinality(Refused)
<1>1. /\ ClientOK(c, r, channels) /\ conn \in [Connections -> Clients]
      /\ active = n + m /\ n <= MaxConnections /\ active \in Int
  BY TypedParts DEF Slots, SlotsAccounted, ConnectionLimit, RestOK
<1>2. /\ IsFiniteSet(Admitted) /\ IsFiniteSet(Refused)
      /\ n \in Nat /\ m \in Nat /\ MaxConnections \in Nat
  BY SlotsFinite, FS_CardinalityType, BusAssumption
<1>3. \A d \in Connections \ {c} :
        (\E new : conn' = [conn EXCEPT ![c] = new]) => conn'[d] = conn[d]
  BY <1>1
<1>4. CASE Reserve(c)
  <2>1. PICK b \in Boards :
          conn' = [conn EXCEPT ![c] =
            [Closed EXCEPT !.pc = IF active >= MaxConnections THEN "refused" ELSE "reserved",
                           !.board = b, !.prev = active]]
    BY <1>4 DEF Reserve
  <2>2. /\ r = Closed /\ active' = active + 1
        /\ c \notin Admitted /\ c \notin Refused
    BY <1>4 DEF Reserve, Closed, Admitted, Refused
  <2>3. conn'[c] = [Closed EXCEPT !.pc = IF active >= MaxConnections THEN "refused" ELSE "reserved",
                                  !.board = b, !.prev = active]
    BY <1>1, <2>1
  <2>4. /\ conn'[c].pc = IF active >= MaxConnections THEN "refused" ELSE "reserved"
        /\ conn'[c].guard = "none"
    BY <2>3 DEF Closed
  <2>5. \A d \in Connections \ {c} : conn'[d] = conn[d]
    BY <1>3, <2>1
  <2>6. CASE active >= MaxConnections
    <3>1. Admitted' = Admitted /\ Refused' = Refused \cup {c}
      BY <2>2, <2>4, <2>5, <2>6 DEF Admitted, Refused
    <3>2. Cardinality(Refused') = m + 1
      BY <1>2, <2>2, <3>1, FS_AddElement
    <3> QED
      BY <1>1, <1>2, <2>2, <3>1, <3>2 DEF Slots, SlotsAccounted, ConnectionLimit
  <2>7. CASE ~(active >= MaxConnections)
    <3>1. Admitted' = Admitted \cup {c} /\ Refused' = Refused
      BY <2>2, <2>4, <2>5, <2>7 DEF Admitted, Refused
    <3>2. Cardinality(Admitted') = n + 1
      BY <1>2, <2>2, <3>1, FS_AddElement
    <3> QED
      BY <1>1, <1>2, <2>2, <2>7, <3>1, <3>2 DEF Slots, SlotsAccounted, ConnectionLimit
  <2> QED
    BY <2>6, <2>7
<1>5. CASE Refuse(c)
  <2>1. conn'[c] = Closed /\ \A d \in Connections \ {c} : conn'[d] = conn[d]
    BY <1>1, <1>3, <1>5 DEF Refuse
  <2>2. r.guard = "none" /\ r.pc = "refused" /\ c \in Refused /\ active' = active - 1
    BY <1>1, <1>5 DEF Refuse, ClientOK, Refused
  <2>3. Admitted' = Admitted /\ Refused' = Refused \ {c}
    BY <2>1, <2>2 DEF Admitted, Refused, Closed
  <2>4. Cardinality(Refused') = m - 1
    BY <1>2, <2>2, <2>3, FS_RemoveElement
  <2> QED
    BY <1>1, <1>2, <2>2, <2>3, <2>4 DEF Slots, SlotsAccounted, ConnectionLimit
<1>6. CASE DropGuard(c)
  <2>1. /\ conn'[c] = [r EXCEPT !.pc = "ending", !.guard = "dropping", !.prev = active]
        /\ \A d \in Connections \ {c} : conn'[d] = conn[d]
    BY <1>1, <1>3, <1>6 DEF DropGuard
  <2>2. conn'[c].pc = "ending" /\ conn'[c].guard = "dropping"
    BY <1>1, <2>1 DEF Clients, ClientOK
  <2>3. /\ r.guard = "held" /\ r.pc \in {"open", "ending"}
        /\ c \in Admitted /\ active' = active - 1
    BY <1>6 DEF DropGuard, Ending, Admitted
  <2>4. Admitted' = Admitted \ {c} /\ Refused' = Refused
    <3>1. Admitted' = Admitted \ {c}
      BY <2>1, <2>2 DEF Admitted
    <3>2. Refused' = Refused
      BY <2>1, <2>2, <2>3 DEF Refused
    <3> QED
      BY <3>1, <3>2
  <2>5. Cardinality(Admitted') = n - 1
    BY <1>2, <2>3, <2>4, FS_RemoveElement
  <2> QED
    BY <1>1, <1>2, <2>3, <2>4, <2>5 DEF Slots, SlotsAccounted, ConnectionLimit
<1>7. CASE Join(c) \/ RaiseGauge(c) \/ Push(c)
  <2>1. /\ UNCHANGED active
        /\ \A d \in Connections \ {c} : conn'[d] = conn[d]
    BY <1>1, <1>7 DEF Join, RaiseGauge, Push
  <2>2. /\ (conn'[c].pc = "reserved" \/ conn'[c].guard = "held")
             <=> (r.pc = "reserved" \/ r.guard = "held")
        /\ conn'[c].pc # "refused" /\ r.pc # "refused"
    <3>1. CASE Join(c)
      BY <1>1, <3>1 DEF Join, Clients, ClientOK
    <3>2. CASE RaiseGauge(c)
      BY <1>1, <3>2 DEF RaiseGauge, Clients, ClientOK
    <3>3. CASE Push(c)
      BY <1>1, <3>3 DEF Push, Clients, ClientOK
    <3> QED
      BY <1>7, <3>1, <3>2, <3>3
  <2> QED
    BY <2>1, <2>2, SlotsKept DEF Slots
<1>8. CASE DropReceiver(c) \/ LowerGauge(c)
  <2>1. /\ UNCHANGED active
        /\ \A d \in Connections \ {c} : conn'[d] = conn[d]
    BY <1>1, <1>8 DEF DropReceiver, LowerGauge
  <2>2. PICK ended \in {[r EXCEPT !.pc = "ending", !.rx = FALSE, !.queue = << >>,
                                  !.since = 0, !.heard = {}, !.lagged = FALSE],
                        [r EXCEPT !.guard = "none", !.prev = 0]} :
          /\ conn'[c] = Settled(ended)
          /\ ended.guard = "held" <=> r.guard = "held"
          /\ ended.pc = "ending" /\ r.pc \in {"open", "ending"}
    <3>1. CASE DropReceiver(c)
      BY <1>1, <3>1 DEF DropReceiver, Ending, Clients, ClientOK
    <3>2. CASE LowerGauge(c)
      BY <1>1, <3>2 DEF LowerGauge, Clients, ClientOK
    <3> QED
      BY <1>8, <3>1, <3>2
  <2>3. conn'[c] = ended \/ (conn'[c] = Closed /\ ended.guard = "none")
    BY <2>2 DEF Settled
  <2>4. /\ (conn'[c].pc = "reserved" \/ conn'[c].guard = "held")
             <=> (r.pc = "reserved" \/ r.guard = "held")
        /\ conn'[c].pc # "refused" /\ r.pc # "refused"
    BY <2>2, <2>3 DEF Closed
  <2> QED
    BY <2>1, <2>4, SlotsKept DEF Slots
<1> QED
  BY <1>4, <1>5, <1>6, <1>7, <1>8 DEF Client

LEMMA NextSlots ==
    ASSUME Typed, Slots, [Next]_vars
    PROVE  Slots'
<1>1. ASSUME UNCHANGED <<conn, active>>
      PROVE  Slots'
  BY <1>1, SlotsKept DEF Slots
<1>2. ASSUME NEW p \in Publishers, Publish(p)
      PROVE  Slots'
  <2>1. CASE UNCHANGED conn
    BY <1>1, <1>2, <2>1
       DEF Publish, CommitVersion, LosePublisher, SendVersion, CheckDebounce, SendScore, Prune
  <2>2. ASSUME NEW event \in Events, Send(p, event), UNCHANGED active
        PROVE  Slots'
    BY <2>2, SendClients, SlotsKept DEF Slots
  <2> QED
    BY <1>2, <2>1, <2>2, EventTypes
       DEF Publish, CommitVersion, LosePublisher, SendVersion, CheckDebounce, SendScore, Prune
<1> QED
  BY <1>1, <1>2, ClientSlots DEF Next, Tick, CommitElsewhere, vars

-----------------------------------------------------------------------------
(* No version is missed.                                                   *)

Told(c) == conn[c].heard \cup VersionsIn(conn[c].queue)

(* What NoVersionMissed says of one client.                                *)
NoneMissedBy(c) ==
    conn[c].rx /\ ~conn[c].lagged =>
        \A n \in (conn[c].since + 1)..committed[conn[c].board] :
            n \in Told(c) \/ n \in Unsent(conn[c].board) \/ n \in silent[conn[c].board]

LEMMA MissedByClient == NoVersionMissed <=> \A c \in Connections : NoneMissedBy(c)
BY DEF NoVersionMissed, NoneMissedBy, Told

(* A client that keeps its record misses nothing while no version is       *)
(* committed, sent or lost.                                                *)
LEMMA SameRecord ==
    ASSUME NEW c \in Connections, NoneMissedBy(c), conn'[c] = conn[c], UNCHANGED <<committed, silent, pub>>
    PROVE  NoneMissedBy(c)'
<1>1. \A b : Unsent(b)' = Unsent(b)
  BY DEF Unsent
<1>2. Told(c)' = Told(c)
  BY DEF Told
<1> QED
  BY <1>1, <1>2 DEF NoneMissedBy

(* Nor does one that is told of no less than before.                       *)
LEMMA MoreTold ==
    ASSUME NEW c \in Connections, NoneMissedBy(c), UNCHANGED <<committed, silent, pub>>,
           conn'[c].rx /\ ~conn'[c].lagged =>
             /\ conn[c].rx /\ ~conn[c].lagged
             /\ conn'[c].board = conn[c].board /\ conn'[c].since = conn[c].since
             /\ Told(c) \subseteq Told(c)'
    PROVE  NoneMissedBy(c)'
<1>1. \A b : Unsent(b)' = Unsent(b)
  BY DEF Unsent
<1> QED
  BY <1>1 DEF NoneMissedBy

LEMMA ClientMisses ==
    ASSUME Typed, NoVersionMissed, NEW c \in Connections, Client(c)
    PROVE  NoVersionMissed'
<1> DEFINE r == conn[c]
<1>1. /\ ClientOK(c, r, channels) /\ conn \in [Connections -> Clients] /\ RestOK
      /\ \A d \in Connections : NoneMissedBy(d)
  BY TypedParts, MissedByClient
<1>2. UNCHANGED <<committed, silent, pub>> /\ \A d \in Connections \ {c} : conn'[d] = conn[d]
  BY <1>1 DEF Client, Reserve, Refuse, Join, RaiseGauge, Push, DropReceiver, DropGuard, LowerGauge
<1>3. \A d \in Connections \ {c} : NoneMissedBy(d)'
  BY <1>1, <1>2, SameRecord
<1>4. NoneMissedBy(c)'
  <2>1. CASE Reserve(c) \/ Refuse(c)
    <3>1. CASE Reserve(c)
      <4>1. PICK b \in Boards :
              conn'[c] = [Closed EXCEPT !.pc = IF active >= MaxConnections
                                               THEN "refused" ELSE "reserved",
                                        !.board = b, !.prev = active]
        BY <1>1, <3>1 DEF Reserve
      <4> QED
        BY <4>1 DEF NoneMissedBy, Closed
    <3>2. CASE Refuse(c)
      <4>1. conn'[c] = Closed
        BY <1>1, <3>2 DEF Refuse
      <4> QED
        BY <4>1 DEF NoneMissedBy, Closed
    <3> QED
      BY <2>1, <3>1, <3>2
  <2>2. CASE Join(c)
    <3>1. conn'[c] = [r EXCEPT !.pc = "joined", !.rx = TRUE, !.guard = "held",
                               !.since = committed[r.board]]
      BY <1>1, <2>2 DEF Join
    <3>2. conn'[c].since = committed[r.board] /\ conn'[c].board = r.board /\ r.board \in Boards
      BY <1>1, <2>2, <3>1 DEF Clients, ClientOK, Join
    <3>3. (conn'[c].since + 1)..committed'[conn'[c].board] = {}
      BY <1>1, <1>2, <3>2 DEF RestOK
    <3> QED
      BY <3>3 DEF NoneMissedBy
  <2>3. CASE RaiseGauge(c)
    <3>1. conn'[c] = [r EXCEPT !.pc = "open", !.prev = 0]
      BY <1>1, <2>3 DEF RaiseGauge
    <3>2. /\ conn'[c].rx = r.rx /\ conn'[c].lagged = r.lagged /\ conn'[c].board = r.board
          /\ conn'[c].since = r.since /\ conn'[c].heard = r.heard /\ conn'[c].queue = r.queue
      BY <1>1, <3>1 DEF Clients, ClientOK
    <3> QED
      BY <1>1, <1>2, <3>2, MoreTold DEF Told
  <2>4. CASE Push(c)
    <3>1. conn'[c] = [r EXCEPT !.queue = Tail(r.queue), !.heard = HeardAfter(r)]
      BY <1>1, <2>4 DEF Push
    <3>2. /\ conn'[c].rx = r.rx /\ conn'[c].lagged = r.lagged /\ conn'[c].board = r.board
          /\ conn'[c].since = r.since
          /\ conn'[c].heard = HeardAfter(r) /\ conn'[c].queue = Tail(r.queue)
      BY <1>1, <3>1 DEF Clients, ClientOK
    <3>3. r.queue \in Seq(Events) /\ r.queue # << >>
      BY <1>1, <2>4 DEF Push, Clients, ClientOK
    <3>4. \A n \in VersionsIn(r.queue) :
            n \in VersionsIn(Tail(r.queue)) \/ (Head(r.queue).kind = "version" /\ n = Head(r.queue).n)
      BY <3>3, TailKeepsVersions
    <3>5. Told(c) \subseteq Told(c)'
      BY <3>2, <3>4 DEF Told, HeardAfter
    <3> QED
      BY <1>1, <1>2, <3>2, <3>5, MoreTold
  <2>5. CASE DropReceiver(c)
    <3>1. conn'[c] = Settled([r EXCEPT !.pc = "ending", !.rx = FALSE, !.queue = << >>,
                                       !.since = 0, !.heard = {}, !.lagged = FALSE])
      BY <1>1, <2>5 DEF DropReceiver
    <3>2. ~conn'[c].rx
      BY <1>1, <3>1 DEF Settled, Closed, Clients, ClientOK
    <3> QED
      BY <3>2 DEF NoneMissedBy
  <2>6. CASE DropGuard(c)
    <3>1. conn'[c] = [r EXCEPT !.pc = "ending", !.guard = "dropping", !.prev = active]
      BY <1>1, <2>6 DEF DropGuard
    <3>2. /\ conn'[c].rx = r.rx /\ conn'[c].lagged = r.lagged /\ conn'[c].board = r.board
          /\ conn'[c].since = r.since /\ conn'[c].heard = r.heard /\ conn'[c].queue = r.queue
      BY <1>1, <3>1 DEF Clients, ClientOK
    <3> QED
      BY <1>1, <1>2, <3>2, MoreTold DEF Told
  <2>7. CASE LowerGauge(c)
    <3>1. conn'[c] = Settled([r EXCEPT !.guard = "none", !.prev = 0])
      BY <1>1, <2>7 DEF LowerGauge
    <3>2. conn'[c].rx => conn'[c] = [r EXCEPT !.guard = "none", !.prev = 0]
      BY <3>1 DEF Settled, Closed
    <3>3. conn'[c].rx =>
            /\ r.rx /\ conn'[c].lagged = r.lagged /\ conn'[c].board = r.board
            /\ conn'[c].since = r.since /\ conn'[c].heard = r.heard /\ conn'[c].queue = r.queue
      BY <1>1, <3>2 DEF Clients, ClientOK
    <3> QED
      BY <1>1, <1>2, <3>3, MoreTold DEF Told
  <2> QED
    BY <2>1, <2>2, <2>3, <2>4, <2>5, <2>6, <2>7 DEF Client
<1> QED
  BY <1>3, <1>4 DEF NoVersionMissed, NoneMissedBy, Told

(* What a send tells a client that does not lag.                           *)
LEMMA SendTells ==
    ASSUME Typed, NEW p \in Publishers, NEW event \in Events, Send(p, event),
           NEW c \in Connections, conn'[c].rx, ~conn'[c].lagged
    PROVE  /\ conn[c].rx /\ ~conn[c].lagged
           /\ conn'[c].board = conn[c].board /\ conn'[c].since = conn[c].since
           /\ Told(c) \subseteq Told(c)'
           /\ event.kind = "version" /\ conn[c].board = pub[p].board => event.n \in Told(c)'
<1>1. ClientOK(c, conn[c], channels) /\ conn[c] \in Clients
  BY TypedParts
<1>2. /\ conn'[c] = IF c \in Receivers(pub[p].board) THEN Queued(conn[c], event) ELSE conn[c]
      /\ conn'[c].board = conn[c].board /\ conn'[c].rx = conn[c].rx
      /\ conn'[c].since = conn[c].since /\ conn'[c].heard = conn[c].heard
  BY SendClients
<1>3. CASE c \in Receivers(pub[p].board)
  <2>1. conn'[c] = Queued(conn[c], event)
    BY <1>2, <1>3
  <2>2. /\ ~conn[c].lagged
        /\ VersionsIn(conn[c].queue) \subseteq VersionsIn(conn'[c].queue)
        /\ event.kind = "version" => event.n \in VersionsIn(conn'[c].queue)
    BY <1>1, <2>1, QueuedKeepsVersions
  <2> QED
    BY <1>2, <2>2 DEF Told
<1>4. CASE c \notin Receivers(pub[p].board)
  <2>1. conn'[c] = conn[c]
    BY <1>2, <1>4
  <2>2. conn[c].board # pub[p].board
    BY <1>1, <1>2, <1>4 DEF ClientOK, Receivers
  <2> QED
    BY <2>1, <2>2 DEF Told
<1> QED
  BY <1>3, <1>4

LEMMA PublisherMisses ==
    ASSUME Typed, NoVersionMissed, NEW p \in Publishers, Publish(p)
    PROVE  NoVersionMissed'
<1>1. /\ conn \in [Connections -> Clients] /\ RestOK
      /\ \A d \in Connections : NoneMissedBy(d) /\ ClientOK(d, conn[d], channels)
  BY TypedParts, MissedByClient
<1>2. ASSUME UNCHANGED <<conn, committed, silent>>, pub[p].pc # "version",
             NEW new, pub' = [pub EXCEPT ![p] = new]
      PROVE  NoVersionMissed'
  <2>1. \A q \in Publishers \ {p} : pub'[q] = pub[q]
    BY <1>1, <1>2 DEF RestOK
  <2>2. \A b : Unsent(b) \subseteq Unsent(b)'
    BY <1>2, <2>1 DEF Unsent
  <2>3. \A c \in Connections : Told(c)' = Told(c)
    BY <1>2 DEF Told
  <2>4. \A c \in Connections : NoneMissedBy(c)'
    BY <1>1, <1>2, <2>2, <2>3 DEF NoneMissedBy
  <2> QED
    BY <2>4 DEF NoVersionMissed, NoneMissedBy, Told
<1>3. CASE CommitVersion(p)
  <2>1. PICK b \in Boards :
          /\ committed' = [committed EXCEPT ![b] = committed[b] + 1]
          /\ pub' = [pub EXCEPT ![p] = [pc |-> "version", board |-> b, n |-> committed[b] + 1]]
    BY <1>3 DEF CommitVersion
  <2>2. /\ \A q \in Publishers \ {p} : pub'[q] = pub[q]
        /\ pub'[p] = [pc |-> "version", board |-> b, n |-> committed[b] + 1]
        /\ pub[p].pc # "version" /\ UNCHANGED <<conn, silent>>
    BY <1>1, <1>3, <2>1 DEF RestOK, CommitVersion, Quiet
  <2>3. \A a : Unsent(a) \subseteq Unsent(a)'
    BY <2>2 DEF Unsent
  <2>4. committed[b] + 1 \in Unsent(b)'
    BY <2>2 DEF Unsent
  <2>5. ASSUME NEW c \in Connections, conn[c].rx, ~conn[c].lagged,
               NEW n \in (conn[c].since + 1)..committed'[conn[c].board]
        PROVE  \/ n \in Told(c)' \/ n \in Unsent(conn[c].board)'
               \/ n \in silent'[conn[c].board]
    <3>1. conn[c].board \in Boards /\ conn[c].since \in Nat
      BY <1>1, <2>5 DEF ClientOK, Clients
    <3>2. n \in (conn[c].since + 1)..committed[conn[c].board]
            \/ (conn[c].board = b /\ n = committed[b] + 1)
      BY <1>1, <2>1, <2>5, <3>1 DEF RestOK
    <3>3. Told(c)' = Told(c)
      BY <2>2 DEF Told
    <3> QED
      BY <1>1, <2>2, <2>3, <2>4, <2>5, <3>2, <3>3 DEF NoneMissedBy
  <2>6. \A c \in Connections : NoneMissedBy(c)'
    BY <2>2, <2>5 DEF NoneMissedBy
  <2> QED
    BY <2>6 DEF NoVersionMissed, NoneMissedBy, Told
<1>4. ASSUME NEW event \in Events, Send(p, event), UNCHANGED <<committed, silent>>,
             pub[p].pc = "version" => event = Version(pub[p].n)
      PROVE  NoVersionMissed'
  <2>1. \A q \in Publishers \ {p} : pub'[q] = pub[q]
    BY <1>1, <1>4 DEF RestOK, Send
  <2>2. ASSUME NEW c \in Connections, conn'[c].rx, ~conn'[c].lagged,
               NEW n \in (conn'[c].since + 1)..committed'[conn'[c].board]
        PROVE  \/ n \in Told(c)' \/ n \in Unsent(conn[c].board)'
               \/ n \in silent'[conn'[c].board]
    <3> DEFINE b == conn[c].board
    <3>1. /\ conn[c].rx /\ ~conn[c].lagged
          /\ conn'[c].board = b /\ conn'[c].since = conn[c].since
          /\ Told(c) \subseteq Told(c)'
          /\ event.kind = "version" /\ b = pub[p].board => event.n \in Told(c)'
      BY <1>4, <2>2, SendTells
    <3>2. n \in Told(c) \/ n \in Unsent(b) \/ n \in silent[b]
      BY <1>1, <1>4, <2>2, <3>1 DEF NoneMissedBy
    <3>3. CASE n \in Told(c)
      BY <3>1, <3>3
    <3>4. CASE n \in Unsent(b)
      <4>1. PICK q \in Publishers : pub[q].pc = "version" /\ pub[q].board = b /\ n = pub[q].n
        BY <3>4 DEF Unsent
      <4>2. CASE q = p
        BY <1>4, <3>1, <4>1, <4>2 DEF Version
      <4>3. CASE q # p
        BY <2>1, <3>1, <4>1, <4>3 DEF Unsent
      <4> QED
        BY <4>2, <4>3
    <3> QED
      BY <1>4, <3>1, <3>2, <3>3, <3>4
  <2>3. \A c \in Connections : NoneMissedBy(c)'
    BY <2>2 DEF NoneMissedBy
  <2> QED
    BY <2>3 DEF NoVersionMissed, NoneMissedBy, Told
<1>5. CASE SendVersion(p)
  BY <1>4, <1>5, EventTypes DEF SendVersion
<1>6. CASE SendScore(p)
  BY <1>4, <1>6, EventTypes DEF SendScore
<1>7. CASE CheckDebounce(p)
  <2>1. PICK b \in Boards : pub' = [pub EXCEPT ![p] = [pc |-> "send", board |-> b, n |-> now]]
    BY <1>7 DEF CheckDebounce
  <2>2. pub[p].pc # "version" /\ UNCHANGED <<conn, committed, silent>>
    BY <1>7 DEF CheckDebounce, Quiet
  <2> QED
    BY <1>2, <2>1, <2>2
<1>8. CASE Prune(p)
  BY <1>2, <1>8 DEF Prune
<1>9. CASE LosePublisher(p)
  <2> DEFINE b == pub[p].board
  <2>1. /\ b \in Boards /\ UNCHANGED <<conn, committed>>
        /\ \A q \in Publishers \ {p} : pub'[q] = pub[q]
        /\ silent' = [silent EXCEPT ![b] = silent[b] \cup {pub[p].n}]
    BY <1>1, <1>9 DEF LosePublisher, RestOK
  <2>2. /\ pub[p].n \in silent'[b]
        /\ \A a \in Boards : silent[a] \subseteq silent'[a]
    BY <1>1, <2>1 DEF RestOK
  <2>3. ASSUME NEW a \in Boards, NEW n \in Unsent(a)
        PROVE  n \in Unsent(a)' \/ n \in silent'[a]
    <3>1. PICK q \in Publishers : pub[q].pc = "version" /\ pub[q].board = a /\ n = pub[q].n
      BY DEF Unsent
    <3>2. CASE q = p
      BY <2>2, <3>1, <3>2
    <3>3. CASE q # p
      BY <2>1, <3>1, <3>3 DEF Unsent
    <3> QED
      BY <3>2, <3>3
  <2>4. ASSUME NEW c \in Connections, conn[c].rx, ~conn[c].lagged,
               NEW n \in (conn[c].since + 1)..committed[conn[c].board]
        PROVE  \/ n \in Told(c)' \/ n \in Unsent(conn[c].board)'
               \/ n \in silent'[conn[c].board]
    <3>1. conn[c].board \in Boards
      BY <1>1, <2>4 DEF ClientOK
    <3>2. Told(c)' = Told(c)
      BY <2>1 DEF Told
    <3>3. n \in Told(c) \/ n \in Unsent(conn[c].board) \/ n \in silent[conn[c].board]
      BY <1>1, <2>4 DEF NoneMissedBy
    <3> QED
      BY <2>1, <2>2, <2>3, <3>1, <3>2, <3>3
  <2>5. \A c \in Connections : NoneMissedBy(c)'
    BY <2>1, <2>4 DEF NoneMissedBy
  <2> QED
    BY <2>5 DEF NoVersionMissed, NoneMissedBy, Told
<1> QED
  BY <1>3, <1>5, <1>6, <1>7, <1>8, <1>9 DEF Publish

(* A version of the command line is silent from the start.                 *)
LEMMA ElsewhereMisses ==
    ASSUME Typed, NoVersionMissed, NEW b \in Boards, CommitElsewhere(b)
    PROVE  NoVersionMissed'
<1>1. /\ RestOK
      /\ \A d \in Connections : NoneMissedBy(d) /\ ClientOK(d, conn[d], channels)
  BY TypedParts, MissedByClient
<1>2. /\ UNCHANGED <<conn, pub>>
      /\ committed' = [committed EXCEPT ![b] = committed[b] + 1]
      /\ silent' = [silent EXCEPT ![b] = silent[b] \cup {committed[b] + 1}]
  BY DEF CommitElsewhere
<1>3. /\ committed[b] + 1 \in silent'[b]
      /\ \A a \in Boards : silent[a] \subseteq silent'[a]
  BY <1>1, <1>2 DEF RestOK
<1>4. ASSUME NEW c \in Connections, conn[c].rx, ~conn[c].lagged,
             NEW n \in (conn[c].since + 1)..committed'[conn[c].board]
      PROVE  \/ n \in Told(c)' \/ n \in Unsent(conn[c].board)'
             \/ n \in silent'[conn[c].board]
  <2>1. conn[c].board \in Boards /\ conn[c].since \in Nat
    BY <1>1, <1>4 DEF ClientOK, Clients
  <2>2. n \in (conn[c].since + 1)..committed[conn[c].board]
          \/ (conn[c].board = b /\ n = committed[b] + 1)
    BY <1>1, <1>2, <1>4, <2>1 DEF RestOK
  <2>3. Told(c)' = Told(c) /\ Unsent(conn[c].board)' = Unsent(conn[c].board)
    BY <1>2 DEF Told, Unsent
  <2> QED
    BY <1>1, <1>3, <1>4, <2>1, <2>2, <2>3 DEF NoneMissedBy
<1>5. \A c \in Connections : NoneMissedBy(c)'
  BY <1>2, <1>4 DEF NoneMissedBy
<1> QED
  BY <1>5 DEF NoVersionMissed, NoneMissedBy, Told

LEMMA NextMissed ==
    ASSUME Typed, NoVersionMissed, [Next]_vars
    PROVE  NoVersionMissed'
<1>1. CASE UNCHANGED <<conn, committed, silent, pub>>
  <2>1. \A c \in Connections : NoneMissedBy(c)'
    BY <1>1, MissedByClient, SameRecord
  <2> QED
    BY <2>1 DEF NoVersionMissed, NoneMissedBy, Told
<1> QED
  BY <1>1, ClientMisses, PublisherMisses, ElsewhereMisses DEF Next, Tick, vars

-----------------------------------------------------------------------------
(* The inductive invariant, and what follows from it.                      *)

LEMMA InitInv == Init => IInv
<1> SUFFICES ASSUME Init PROVE IInv
  OBVIOUS
<1>1. Quiet \in Requests /\ Quiet.pc = "quiet"
  BY DEF Quiet, Requests
<1>2. RestOK
  BY <1>1 DEF Init, RestOK
<1>3. RegistryOK(channels)
  BY DEF Init, RegistryOK
<1>4. conn \in [Connections -> Clients] /\ \A c \in Connections : conn[c] = Closed
  BY ClosedType DEF Init
<1>5. Typed
  BY <1>2, <1>3, <1>4, ClosedType, TypedParts
<1>6. Admitted = {} /\ Refused = {}
  BY <1>4 DEF Admitted, Refused, Closed
<1>7. Slots
  BY <1>6, FS_EmptySet, BusAssumption DEF Init, Slots, SlotsAccounted, ConnectionLimit
<1>8. NoVersionMissed
  BY <1>4 DEF NoVersionMissed, Closed
<1> QED
  BY <1>5, <1>7, <1>8 DEF IInv, Typed, Slots

LEMMA NextInv == IInv /\ [Next]_vars => IInv'
BY NextTyped, NextSlots, NextMissed DEF IInv, Typed, Slots

(* The invariant holds in every reachable state.                           *)
THEOREM Invariance == Spec => []IInv
BY InitInv, NextInv, PTL DEF Spec

(* The bus keeps its types, and every receiver is on the channel that the  *)
(* registry has for its board.                                             *)
THEOREM TypeCorrect == Spec => []TypeOK
<1>1. IInv => TypeOK
  BY DEF IInv
<1> QED
  BY <1>1, Invariance, PTL

(* No slot is leaked and none is given back twice, however many clients    *)
(* connect, are refused and leave at once.                                 *)
THEOREM SlotsCorrect == Spec => []SlotsAccounted
<1>1. IInv => SlotsAccounted
  BY DEF IInv
<1> QED
  BY <1>1, Invariance, PTL

(* sse_max_connections is never exceeded.                                  *)
THEOREM LimitHolds == Spec => []ConnectionLimit
<1>1. IInv => ConnectionLimit
  BY DEF IInv
<1> QED
  BY <1>1, Invariance, PTL

(* A streaming client that does not lag is told of every version committed *)
(* after it joined once publish_version has sent it: the only ones it      *)
(* misses are those whose request ended before that, and those of the      *)
(* command line.                                                           *)
THEOREM NoneMissed == Spec => []NoVersionMissed
<1>1. IInv => NoVersionMissed
  BY DEF IInv
<1> QED
  BY <1>1, Invariance, PTL

-----------------------------------------------------------------------------
(* Debouncing.  The scores that are on their way, in queues and between    *)
(* the check and the send, are no younger than the board's time stamp, and *)
(* a check that passes is an interval after it; the stamp goes only with   *)
(* a channel that has no receiver, and no score is on its way then.        *)

Registered ==
    \A b \in Boards : \A c \in Receivers(b) : conn[c].rx /\ conn[c].board = b

Apart(m, n) == m - n >= Debounce \/ n - m >= Debounce

ScoresIn(q) == {q[i].n : i \in {j \in 1..Len(q) : q[j].kind = "score"}}

SpacedOut(q) ==
    \A i, j \in 1..Len(q) :
        i # j /\ q[i].kind = "score" /\ q[j].kind = "score" => Apart(q[i].n, q[j].n)

Stamped(b, n) == Debounce > 0 => last[b] # None /\ n <= last[b]

(* A score that is not sent yet, from the check on.                        *)
Pending(p, b) == pub[p].pc = "send" /\ pub[p].board = b

QueueSpaced(c) ==
    LET r == conn[c] IN
    /\ r.rx \/ r.queue = << >>
    /\ SpacedOut(r.queue)
    /\ \A n \in ScoresIn(r.queue) :
         /\ Stamped(r.board, n)
         /\ \A p \in Publishers : Pending(p, r.board) => Apart(n, pub[p].n)

Spaced ==
    /\ \A b \in Boards : last[b] # None => last[b] <= now
    /\ \A c \in Connections : QueueSpaced(c)
    /\ \A p \in Publishers : \A b \in Boards :
         Pending(p, b) =>
           /\ Stamped(b, pub[p].n)
           /\ \A q \in Publishers : q # p /\ Pending(q, b) => Apart(pub[p].n, pub[q].n)

FullInv == IInv /\ Registered /\ Spaced

(* Queues: the scores of a tail are scores of the queue, and as far apart. *)
LEMMA TailSpaced ==
    ASSUME NEW q \in Seq(Events), q # << >>, SpacedOut(q)
    PROVE  SpacedOut(Tail(q)) /\ ScoresIn(Tail(q)) \subseteq ScoresIn(q)
<1>1. /\ Len(q) \in Nat /\ Len(Tail(q)) = Len(q) - 1
      /\ \A i \in 1..Len(Tail(q)) : i + 1 \in 1..Len(q) /\ Tail(q)[i] = q[i + 1]
  OBVIOUS
<1>2. SpacedOut(Tail(q))
  <2>1. ASSUME NEW i \in 1..Len(Tail(q)), NEW j \in 1..Len(Tail(q)), i # j,
               Tail(q)[i].kind = "score", Tail(q)[j].kind = "score"
        PROVE  Apart(Tail(q)[i].n, Tail(q)[j].n)
    <3>1. i + 1 # j + 1
      BY <1>1, <2>1
    <3> QED
      BY <1>1, <2>1, <3>1 DEF SpacedOut
  <2> QED
    BY <2>1 DEF SpacedOut
<1>3. ScoresIn(Tail(q)) \subseteq ScoresIn(q)
  BY <1>1 DEF ScoresIn
<1> QED
  BY <1>2, <1>3

LEMMA AppendSpaced ==
    ASSUME NEW q \in Seq(Events), NEW event \in Events, SpacedOut(q),
           event.kind = "score" => \A n \in ScoresIn(q) : Apart(n, event.n)
    PROVE  /\ SpacedOut(Append(q, event))
           /\ \A n \in ScoresIn(Append(q, event)) :
                n \in ScoresIn(q) \/ (event.kind = "score" /\ n = event.n)
<1> DEFINE t == Append(q, event)
<1>1. /\ Len(q) \in Nat /\ Len(t) = Len(q) + 1
      /\ \A i \in 1..Len(q) : t[i] = q[i]
      /\ t[Len(q) + 1] = event
  OBVIOUS
<1>2. \A i \in 1..Len(t) : i \in 1..Len(q) \/ i = Len(q) + 1
  BY <1>1
<1> HIDE DEF t
<1>3. \A m, n : Apart(m, n) => Apart(n, m)
  BY DEF Apart
<1>4. ASSUME NEW i \in 1..Len(q), q[i].kind = "score"
      PROVE  q[i].n \in ScoresIn(q)
  BY <1>4 DEF ScoresIn
<1>5. ASSUME NEW i \in 1..Len(t), NEW j \in 1..Len(t), i # j,
             t[i].kind = "score", t[j].kind = "score"
      PROVE  Apart(t[i].n, t[j].n)
  <2>1. CASE i \in 1..Len(q) /\ j \in 1..Len(q)
    BY <1>1, <1>5, <2>1 DEF SpacedOut
  <2>2. CASE i \in 1..Len(q) /\ j = Len(q) + 1
    BY <1>1, <1>4, <1>5, <2>2
  <2>3. CASE i = Len(q) + 1 /\ j \in 1..Len(q)
    BY <1>1, <1>3, <1>4, <1>5, <2>3
  <2> QED
    BY <1>2, <1>5, <2>1, <2>2, <2>3
<1>6. ASSUME NEW i \in 1..Len(t), t[i].kind = "score"
      PROVE  t[i].n \in ScoresIn(q) \/ (event.kind = "score" /\ t[i].n = event.n)
  BY <1>1, <1>2, <1>4, <1>6
<1>7. \A n \in ScoresIn(t) : n \in ScoresIn(q) \/ (event.kind = "score" /\ n = event.n)
  BY <1>6 DEF ScoresIn
<1>8. SpacedOut(t)
  BY <1>5 DEF SpacedOut
<1> QED
  BY <1>7, <1>8 DEF t

(* The same of a receiver whose queue is full.                             *)
LEMMA QueuedSpaced ==
    ASSUME NEW r \in Clients, NEW event \in Events, SpacedOut(r.queue),
           event.kind = "score" => \A n \in ScoresIn(r.queue) : Apart(n, event.n)
    PROVE  /\ SpacedOut(Queued(r, event).queue)
           /\ \A n \in ScoresIn(Queued(r, event).queue) :
                n \in ScoresIn(r.queue) \/ (event.kind = "score" /\ n = event.n)
<1> DEFINE q == Append(r.queue, event)
<1>1. r.queue \in Seq(Events)
  BY DEF Clients
<1>2. q \in Seq(Events) /\ q # << >>
  BY <1>1
<1>3. /\ SpacedOut(q)
      /\ \A n \in ScoresIn(q) : n \in ScoresIn(r.queue) \/ (event.kind = "score" /\ n = event.n)
  BY <1>1, AppendSpaced
<1>4. SpacedOut(Tail(q)) /\ ScoresIn(Tail(q)) \subseteq ScoresIn(q)
  BY <1>2, <1>3, TailSpaced
<1>5. Queued(r, event).queue = q \/ Queued(r, event).queue = Tail(q)
  BY DEF Queued, Clients
<1> QED
  BY <1>3, <1>4, <1>5

(* The four things a step does to a client: it joins its board's channel,  *)
(* leaves it, has no receiver, or keeps its receiver and takes an event.   *)
Joins(c) ==
    /\ conn'[c].rx /\ conn'[c].queue = conn[c].queue /\ conn[c].board \in Boards
    /\ conn'[c].board = conn[c].board
    /\ channels' = [channels EXCEPT ![conn[c].board] = Receivers(conn[c].board) \cup {c}]

Leaves(c) ==
    /\ conn'[c].queue = << >> /\ conn[c].rx
    /\ channels' = [channels EXCEPT ![conn[c].board] = channels[conn[c].board] \ {c}]

Without(c) == conn'[c].queue = << >> /\ ~conn[c].rx /\ channels' = channels

Keeps(c) ==
    /\ conn'[c].rx = conn[c].rx /\ conn'[c].board = conn[c].board /\ channels' = channels
    /\ \/ conn'[c].queue = conn[c].queue
       \/ conn[c].queue # << >> /\ conn'[c].queue = Tail(conn[c].queue)

LEMMA ClientForm ==
    ASSUME Typed, NEW c \in Connections, Client(c)
    PROVE  /\ UNCHANGED <<pub, last, now>>
           /\ \A d \in Connections \ {c} : conn'[d] = conn[d]
           /\ Joins(c) \/ Leaves(c) \/ Without(c) \/ Keeps(c)
<1> DEFINE r == conn[c]
<1>1. ClientOK(c, r, channels) /\ conn \in [Connections -> Clients] /\ RegistryOK(channels)
  BY TypedParts
<1>2. UNCHANGED <<pub, last, now>> /\ \A d \in Connections \ {c} : conn'[d] = conn[d]
  BY <1>1 DEF Client, Reserve, Refuse, Join, RaiseGauge, Push, DropReceiver, DropGuard, LowerGauge
<1>3. CASE Reserve(c)
  <2>1. PICK b \in Boards :
          conn'[c] = [Closed EXCEPT !.pc = IF active >= MaxConnections
                                           THEN "refused" ELSE "reserved",
                                    !.board = b, !.prev = active]
    BY <1>1, <1>3 DEF Reserve
  <2>2. conn'[c].queue = << >> /\ ~r.rx /\ channels' = channels
    BY <1>3, <2>1 DEF Reserve, Closed
  <2> QED
    BY <1>2, <2>2 DEF Without
<1>4. CASE Refuse(c)
  <2>1. conn'[c] = Closed /\ channels' = channels /\ r.pc = "refused"
    BY <1>1, <1>4 DEF Refuse
  <2>2. ~r.rx /\ conn'[c].queue = << >>
    BY <1>1, <2>1 DEF ClientOK, Closed
  <2> QED
    BY <1>2, <2>1, <2>2 DEF Without
<1>5. CASE Join(c)
  <2>1. /\ conn'[c] = [r EXCEPT !.pc = "joined", !.rx = TRUE, !.guard = "held",
                                !.since = committed[r.board]]
        /\ channels' = [channels EXCEPT ![r.board] = Receivers(r.board) \cup {c}]
        /\ r.pc = "reserved"
    BY <1>1, <1>5 DEF Join
  <2>2. conn'[c].rx /\ conn'[c].queue = r.queue /\ conn'[c].board = r.board
    BY <1>1, <2>1 DEF Clients, ClientOK
  <2>3. r.board \in Boards
    BY <1>1, <2>1 DEF ClientOK
  <2> QED
    BY <1>2, <2>1, <2>2, <2>3 DEF Joins
<1>6. CASE RaiseGauge(c)
  <2>1. conn'[c] = [r EXCEPT !.pc = "open", !.prev = 0] /\ channels' = channels
    BY <1>1, <1>6 DEF RaiseGauge
  <2>2. conn'[c].rx = r.rx /\ conn'[c].board = r.board /\ conn'[c].queue = r.queue
    BY <1>1, <2>1 DEF Clients, ClientOK
  <2> QED
    BY <1>2, <2>1, <2>2 DEF Keeps
<1>7. CASE Push(c)
  <2>1. /\ conn'[c] = [r EXCEPT !.queue = Tail(r.queue), !.heard = HeardAfter(r)]
        /\ channels' = channels /\ r.queue # << >>
    BY <1>1, <1>7 DEF Push
  <2>2. conn'[c].rx = r.rx /\ conn'[c].board = r.board /\ conn'[c].queue = Tail(r.queue)
    BY <1>1, <2>1 DEF Clients, ClientOK
  <2> QED
    BY <1>2, <2>1, <2>2 DEF Keeps
<1>8. CASE DropReceiver(c)
  <2>1. /\ conn'[c] = Settled([r EXCEPT !.pc = "ending", !.rx = FALSE, !.queue = << >>,
                                        !.since = 0, !.heard = {}, !.lagged = FALSE])
        /\ r.rx
    BY <1>1, <1>8 DEF DropReceiver
  <2>2. conn'[c].queue = << >>
    BY <1>1, <2>1 DEF Settled, Closed, Clients, ClientOK
  <2>3. channels[r.board] # None
    BY <1>1, <2>1 DEF ClientOK
  <2>4. channels' = [channels EXCEPT ![r.board] = channels[r.board] \ {c}]
    BY <1>8, <2>3 DEF DropReceiver
  <2> QED
    BY <1>2, <2>1, <2>2, <2>4 DEF Leaves
<1>9. CASE DropGuard(c)
  <2>1. /\ conn'[c] = [r EXCEPT !.pc = "ending", !.guard = "dropping", !.prev = active]
        /\ channels' = channels
    BY <1>1, <1>9 DEF DropGuard
  <2>2. conn'[c].rx = r.rx /\ conn'[c].board = r.board /\ conn'[c].queue = r.queue
    BY <1>1, <2>1 DEF Clients, ClientOK
  <2> QED
    BY <1>2, <2>1, <2>2 DEF Keeps
<1>10. CASE LowerGauge(c)
  <2> DEFINE ended == [r EXCEPT !.guard = "none", !.prev = 0]
  <2>1. conn'[c] = Settled(ended) /\ channels' = channels
    BY <1>1, <1>10 DEF LowerGauge
  <2>2. ended.rx = r.rx /\ ended.board = r.board /\ ended.queue = r.queue
    BY <1>1 DEF Clients, ClientOK
  <2> HIDE DEF ended
  <2>3. CASE conn'[c] = ended
    BY <1>2, <2>1, <2>2, <2>3 DEF Keeps
  <2>4. CASE conn'[c] = Closed /\ ~ended.rx
    BY <1>2, <2>1, <2>2, <2>4 DEF Without, Closed
  <2> QED
    BY <2>1, <2>3, <2>4 DEF Settled
<1> QED
  BY <1>3, <1>4, <1>5, <1>6, <1>7, <1>8, <1>9, <1>10 DEF Client

(* Every receiver of a channel belongs to a client of that board.          *)
LEMMA NextRegistered ==
    ASSUME Typed, Registered, [Next]_vars
    PROVE  Registered'
<1>1. conn \in [Connections -> Clients] /\ RegistryOK(channels) /\ RestOK
  BY TypedParts
<1>2. ASSUME NEW c \in Connections, Client(c), NEW b \in Boards, NEW d \in Receivers(b)'
      PROVE  conn'[d].rx /\ conn'[d].board = b
  <2>1. \A e \in Connections \ {c} : conn'[e] = conn[e]
    BY <1>2, ClientForm
  <2>2. \A e \in Receivers(b) : e \in Connections /\ conn[e].rx /\ conn[e].board = b
    BY <1>1 DEF Registered, Receivers, RegistryOK
  <2>3. CASE Joins(c)
    <3>1. d \in Receivers(b) \/ (d = c /\ b = conn[c].board)
      BY <1>1, <1>2, <2>3 DEF Joins, Receivers, RegistryOK
    <3> QED
      BY <2>1, <2>2, <2>3, <3>1 DEF Joins
  <2>4. CASE Leaves(c)
    <3>1. d \in Receivers(b) /\ (b = conn[c].board => d # c)
      <4>1. channels[conn[c].board] # None
        BY <2>4, TypedParts DEF Leaves, ClientOK
      <4>2. CASE b = conn[c].board
        BY <1>1, <1>2, <2>4, <4>1, <4>2 DEF Leaves, Receivers, RegistryOK
      <4>3. CASE b # conn[c].board
        BY <1>1, <1>2, <2>4, <4>3 DEF Leaves, Receivers, RegistryOK
      <4> QED
        BY <4>2, <4>3
    <3> QED
      BY <2>1, <2>2, <3>1
  <2>5. CASE Without(c) \/ Keeps(c)
    <3>1. d \in Receivers(b)
      BY <1>2, <2>5 DEF Without, Keeps, Receivers
    <3> QED
      BY <2>1, <2>2, <2>5, <3>1 DEF Without, Keeps
  <2> QED
    BY <1>2, <2>3, <2>4, <2>5, ClientForm
<1>3. ASSUME NEW p \in Publishers, SendVersion(p) \/ SendScore(p)
      PROVE  Registered'
  <2>1. PICK event \in Events : Send(p, event)
    BY <1>3, EventTypes DEF SendVersion, SendScore
  <2>2. \A c \in Connections : conn'[c].board = conn[c].board /\ conn'[c].rx = conn[c].rx
    BY <2>1, SendClients
  <2>3. \A b \in Boards : Receivers(b)' = Receivers(b) /\ Receivers(b) \subseteq Connections
    BY <1>1, <1>3 DEF SendVersion, SendScore, Receivers, RegistryOK
  <2> QED
    BY <2>2, <2>3 DEF Registered
<1>4. ASSUME NEW p \in Publishers, Prune(p)
      PROVE  Registered'
  <2>1. \A b \in Boards : Receivers(b)' \subseteq Receivers(b)
    BY <1>1, <1>4 DEF Prune, Receivers, RegistryOK
  <2>2. UNCHANGED conn
    BY <1>4 DEF Prune
  <2> QED
    BY <2>1, <2>2 DEF Registered
<1>5. CASE UNCHANGED <<conn, channels>>
  BY <1>5 DEF Registered, Receivers
<1>6. ASSUME NEW c \in Connections, Client(c)
      PROVE  Registered'
  BY <1>2, <1>6 DEF Registered
<1>7. ASSUME NEW p \in Publishers, CommitVersion(p) \/ LosePublisher(p) \/ CheckDebounce(p)
      PROVE  UNCHANGED <<conn, channels>>
  BY <1>7 DEF CommitVersion, LosePublisher, CheckDebounce
<1> QED
  BY <1>3, <1>4, <1>5, <1>6, <1>7 DEF Next, Publish, Tick, CommitElsewhere, vars

LEMMA ScoreTimes ==
    ASSUME NEW q \in Seq(Events), NEW n \in ScoresIn(q)
    PROVE  n \in Nat
<1>1. PICK i \in 1..Len(q) : n = q[i].n
  BY DEF ScoresIn
<1>2. q[i] \in Events
  OBVIOUS
<1> QED
  BY <1>1, <1>2 DEF Events

LEMMA EmptyQueue == SpacedOut(<< >>) /\ ScoresIn(<< >>) = {}
BY DEF SpacedOut, ScoresIn

(* What is spaced with respect to the stamps and the scores not yet sent   *)
(* stays so with fewer scores.                                             *)
LEMMA FewerScores ==
    ASSUME NEW c \in Connections, QueueSpaced(c),
           UNCHANGED <<pub, last>>,
           conn'[c].rx \/ conn'[c].queue = << >>,
           SpacedOut(conn'[c].queue),
           ScoresIn(conn'[c].queue) # {} => conn'[c].board = conn[c].board,
           ScoresIn(conn'[c].queue) \subseteq ScoresIn(conn[c].queue)
    PROVE  QueueSpaced(c)'
BY DEF QueueSpaced, Stamped, Pending, SpacedOut, ScoresIn

LEMMA ClientSpaces ==
    ASSUME Typed, Spaced, NEW c \in Connections, Client(c)
    PROVE  Spaced'
<1>1. /\ UNCHANGED <<pub, last, now>>
      /\ \A d \in Connections \ {c} : conn'[d] = conn[d]
      /\ Joins(c) \/ Leaves(c) \/ Without(c) \/ Keeps(c)
  BY ClientForm
<1>2. ASSUME NEW d \in Connections \ {c}
      PROVE  QueueSpaced(d)'
  BY <1>1, <1>2 DEF Spaced, QueueSpaced, Stamped, Pending
<1>3. QueueSpaced(c)'
  <2>1. QueueSpaced(c)
    BY DEF Spaced
  <2>2. CASE conn'[c].queue = << >>
    BY <1>1, <2>1, <2>2, EmptyQueue, FewerScores
  <2>3. CASE conn'[c].queue = conn[c].queue /\ conn'[c].board = conn[c].board /\ (conn'[c].rx \/ ~conn[c].rx)
    <3>1. conn'[c].rx \/ conn'[c].queue = << >>
      BY <2>1, <2>3 DEF QueueSpaced
    <3>2. SpacedOut(conn'[c].queue)
      BY <2>1, <2>3 DEF QueueSpaced
    <3> QED
      BY <1>1, <2>1, <2>3, <3>1, <3>2, FewerScores
  <2>4. CASE Keeps(c) /\ conn[c].queue # << >> /\ conn'[c].queue = Tail(conn[c].queue)
    <3>1. conn[c].queue \in Seq(Events) /\ SpacedOut(conn[c].queue)
      BY <2>1, TypedParts DEF QueueSpaced, ClientOK, Clients
    <3>2. SpacedOut(conn'[c].queue) /\ ScoresIn(conn'[c].queue) \subseteq ScoresIn(conn[c].queue)
      BY <2>4, <3>1, TailSpaced
    <3>3. conn'[c].rx /\ conn'[c].board = conn[c].board
      BY <2>1, <2>4 DEF QueueSpaced, Keeps
    <3> QED
      BY <1>1, <2>1, <3>2, <3>3, FewerScores
  <2> QED
    BY <1>1, <2>2, <2>3, <2>4 DEF Joins, Leaves, Without, Keeps
<1> QED
  BY <1>1, <1>2, <1>3 DEF Spaced, Stamped, Pending

(* A send: the score is apart from those that wait in the queues and from  *)
(* those that are not sent yet.                                            *)
LEMMA SendSpaces ==
    ASSUME Typed, Registered, Spaced, NEW p \in Publishers, NEW event \in Events, Send(p, event),
           UNCHANGED <<last, now>>,
           event.kind = "score" => pub[p].pc = "send" /\ event.n = pub[p].n,
           NEW b \in Boards, b = pub[p].board
    PROVE  Spaced'
<1>1. conn \in [Connections -> Clients] /\ RestOK /\ RegistryOK(channels)
  BY TypedParts
<1>2. /\ \A q \in Publishers \ {p} : pub'[q] = pub[q]
      /\ pub'[p].pc # "send"
  BY <1>1 DEF Send, RestOK, Quiet
<1>3. \A q \in Publishers : \A a : Pending(q, a)' => q # p /\ Pending(q, a) /\ pub'[q].n = pub[q].n
  BY <1>2 DEF Pending
<1>4. ASSUME NEW c \in Connections
      PROVE  QueueSpaced(c)'
  <2>1. /\ QueueSpaced(c)
        /\ conn'[c] = IF c \in Receivers(b) THEN Queued(conn[c], event) ELSE conn[c]
        /\ conn'[c].board = conn[c].board /\ conn'[c].rx = conn[c].rx
    BY SendClients DEF Spaced
  <2>2. CASE c \notin Receivers(b)
    <3>1. conn'[c] = conn[c]
      BY <2>1, <2>2
    <3> QED
      BY <1>3, <2>1, <3>1 DEF QueueSpaced, Stamped
  <2>3. CASE c \in Receivers(b)
    <3>1. conn[c].rx /\ conn[c].board = b
      BY <2>3 DEF Registered
    <3>2. event.kind = "score" => Pending(p, b) /\ event.n = pub[p].n
      BY DEF Pending
    <3>3. event.kind = "score" => \A n \in ScoresIn(conn[c].queue) : Apart(n, event.n)
      BY <2>1, <3>1, <3>2 DEF QueueSpaced
    <3>4. conn[c] \in Clients /\ SpacedOut(conn[c].queue)
      BY <1>1, <2>1 DEF QueueSpaced
    <3>5. /\ SpacedOut(conn'[c].queue)
          /\ \A n \in ScoresIn(conn'[c].queue) :
               n \in ScoresIn(conn[c].queue) \/ (event.kind = "score" /\ n = event.n)
      <4>1. conn'[c] = Queued(conn[c], event)
        BY <2>1, <2>3
      <4> QED
        BY <3>3, <3>4, <4>1, QueuedSpaced
    <3>6. ASSUME NEW n \in ScoresIn(conn'[c].queue)
          PROVE  /\ Stamped(b, n)
                 /\ \A q \in Publishers : q # p /\ Pending(q, b) => Apart(n, pub[q].n)
      <4>1. CASE n \in ScoresIn(conn[c].queue)
        BY <2>1, <3>1, <4>1 DEF QueueSpaced
      <4>2. CASE event.kind = "score" /\ n = event.n
        BY <3>2, <4>2 DEF Spaced
      <4> QED
        BY <3>5, <4>1, <4>2
    <3>7. ASSUME NEW n \in ScoresIn(conn'[c].queue)
          PROVE  /\ Stamped(b, n)'
                 /\ \A q \in Publishers : Pending(q, b)' => Apart(n, pub'[q].n)
      BY <1>3, <3>6 DEF Stamped
    <3> QED
      BY <2>1, <3>1, <3>5, <3>7 DEF QueueSpaced, Stamped, Pending
  <2> QED
    BY <2>2, <2>3
<1>5. ASSUME NEW q \in Publishers, NEW a \in Boards, Pending(q, a)'
      PROVE  /\ Stamped(a, pub[q].n)'
             /\ \A r \in Publishers : r # q /\ Pending(r, a)' => Apart(pub'[q].n, pub'[r].n)
  BY <1>3, <1>5 DEF Spaced, Stamped
<1> QED
  BY <1>4, <1>5 DEF Spaced

(* A check that passes: the scores on their way are at or before the       *)
(* board's stamp, and that is an interval ago.                             *)
LEMMA CheckSpaces ==
    ASSUME Typed, Spaced, NEW p \in Publishers, CheckDebounce(p)
    PROVE  Spaced'
<1>1. /\ RestOK
      /\ \A c \in Connections : ClientOK(c, conn[c], channels)
  BY TypedParts
<1>2. PICK b \in Boards :
        /\ ~Debounced(b)
        /\ last' = Stamp(b)
        /\ pub' = [pub EXCEPT ![p] = [pc |-> "send", board |-> b, n |-> now]]
  BY DEF CheckDebounce
<1>3. UNCHANGED <<conn, now>> /\ pub[p] = Quiet
  BY DEF CheckDebounce
<1>4. /\ pub'[p].pc = "send" /\ pub'[p].board = b /\ pub'[p].n = now
      /\ \A q \in Publishers \ {p} : pub'[q] = pub[q]
      /\ pub[p].pc = "quiet"
  BY <1>1, <1>2, <1>3 DEF RestOK, Quiet
<1>5. /\ \A a \in Boards \ {b} : last'[a] = last[a]
      /\ Debounce > 0 => last'[b] = now
      /\ Debounce = 0 => last' = last
      /\ now \in Nat /\ last \in [Boards -> Nat \cup {None}] /\ Debounce \in Nat
  BY <1>1, <1>2, BusAssumption DEF RestOK, Stamp
<1>6. ASSUME NEW a \in Boards, last'[a] # None
      PROVE  last'[a] <= now'
  <2>1. last[a] # None => last[a] <= now
    BY DEF Spaced
  <2>2. last'[a] = last[a] \/ last'[a] = now
    BY <1>5
  <2> QED
    BY <1>3, <1>5, <1>6, <2>1, <2>2
<1>7. ASSUME NEW a \in Boards, NEW n \in Nat, Stamped(a, n)
      PROVE  Stamped(a, n)'
  <2>1. CASE Debounce > 0
    <3>1. last[a] # None /\ n <= last[a] /\ last[a] <= now /\ last[a] \in Nat
      BY <1>5, <1>7, <2>1 DEF Stamped, Spaced
    <3>2. last'[a] = last[a] \/ last'[a] = now
      BY <1>5
    <3>3. last'[a] # None /\ n <= last'[a]
      BY <1>5, <3>1, <3>2, BusAssumption
    <3> QED
      BY <3>3 DEF Stamped
  <2> QED
    BY <2>1 DEF Stamped
<1>8. ASSUME NEW n \in Nat, Stamped(b, n)
      PROVE  Apart(n, now) /\ Apart(now, n)
  <2>1. CASE Debounce = 0
    BY <1>5, <2>1 DEF Apart
  <2>2. CASE Debounce > 0
    <3>1. last[b] # None /\ n <= last[b] /\ last[b] \in Nat
      BY <1>5, <1>8, <2>2 DEF Stamped
    <3>2. now - last[b] >= Debounce
      BY <1>2, <1>5, <2>2, <3>1 DEF Debounced
    <3> QED
      BY <1>5, <3>1, <3>2 DEF Apart
  <2> QED
    BY <1>5, <2>1, <2>2
<1>9. \A q \in Publishers : pub[q].n \in Nat
  BY <1>1 DEF RestOK, Requests
<1>10. ASSUME NEW q \in Publishers, NEW a \in Boards, Pending(q, a)'
       PROVE  \/ q = p /\ a = b
              \/ q # p /\ Pending(q, a) /\ pub'[q] = pub[q]
  BY <1>4, <1>10 DEF Pending
<1>11. ASSUME NEW c \in Connections
       PROVE  QueueSpaced(c)'
  <2>1. QueueSpaced(c) /\ conn[c].queue \in Seq(Events)
    BY <1>1 DEF Spaced, ClientOK, Clients
  <2>2. ASSUME NEW n \in ScoresIn(conn[c].queue)
        PROVE  n \in Nat /\ conn[c].board \in Boards
    <3>1. n \in Nat
      BY <2>1, <2>2, ScoreTimes
    <3>2. conn[c].queue # << >>
      BY <2>2, EmptyQueue
    <3> QED
      BY <1>1, <2>1, <3>1, <3>2 DEF QueueSpaced, ClientOK
  <2>3. ASSUME NEW n \in ScoresIn(conn[c].queue)
        PROVE  /\ Stamped(conn[c].board, n)'
               /\ \A q \in Publishers : Pending(q, conn[c].board)' => Apart(n, pub'[q].n)
    <3>1. PICK a \in Boards : a = conn[c].board
      BY <2>2
    <3>2. Stamped(a, n) /\ \A q \in Publishers : Pending(q, a) => Apart(n, pub[q].n)
      BY <2>1, <3>1 DEF QueueSpaced
    <3>3. Stamped(a, n)'
      BY <1>7, <2>2, <3>2
    <3>4. ASSUME NEW q \in Publishers, Pending(q, a)'
          PROVE  Apart(n, pub'[q].n)
      <4>1. CASE q = p /\ a = b
        BY <1>4, <1>8, <2>2, <3>2, <4>1
      <4>2. CASE Pending(q, a) /\ pub'[q] = pub[q]
        BY <3>2, <4>2
      <4> QED
        BY <1>10, <3>4, <4>1, <4>2
    <3> QED
      BY <1>3, <3>1, <3>3, <3>4 DEF Stamped, Pending
  <2> QED
    BY <1>3, <2>1, <2>3 DEF QueueSpaced
<1>12. ASSUME NEW q \in Publishers, NEW a \in Boards, Pending(q, a)'
       PROVE  /\ Stamped(a, pub[q].n)'
              /\ \A r \in Publishers : r # q /\ Pending(r, a)' => Apart(pub'[q].n, pub'[r].n)
  <2>1. ASSUME NEW r \in Publishers, r # p, Pending(r, a)'
        PROVE  /\ Pending(r, a) /\ pub'[r].n = pub[r].n /\ pub[r].n \in Nat
               /\ Stamped(a, pub[r].n)
    BY <1>9, <1>10, <2>1 DEF Spaced
  <2>2. CASE q = p
    <3>1. a = b /\ pub'[q].n = now
      BY <1>4, <1>10, <1>12, <2>2
    <3>2. Debounce > 0 => last'[b] # None /\ now <= last'[b]
      <4>1. SUFFICES ASSUME Debounce > 0 PROVE last'[b] # None /\ now <= last'[b]
        OBVIOUS
      <4>2. last'[b] = now /\ now \in Nat
        BY <1>5, <4>1
      <4>3. last'[b] # None
        BY <4>2, BusAssumption
      <4> QED
        BY <4>2, <4>3
    <3>3. \A r \in Publishers : r # q /\ Pending(r, a)' => Apart(pub'[q].n, pub'[r].n)
      BY <1>8, <2>1, <2>2, <3>1
    <3> QED
      BY <3>1, <3>2, <3>3 DEF Stamped
  <2>3. CASE q # p
    <3>1. Pending(q, a) /\ pub'[q].n = pub[q].n /\ pub[q].n \in Nat /\ Stamped(a, pub[q].n)
      BY <1>12, <2>1, <2>3
    <3>2. \A m \in Nat : Stamped(a, m) => Stamped(a, m)'
      BY <1>7
    <3>3. ASSUME NEW r \in Publishers, r # q, Pending(r, a)'
          PROVE  Apart(pub'[q].n, pub'[r].n)
      <4>1. CASE r = p
        <5>1. a = b /\ pub'[r].n = now
          BY <1>4, <1>10, <3>3, <4>1
        <5> QED
          BY <1>8, <3>1, <5>1
      <4>2. CASE r # p
        BY <2>1, <3>1, <3>3, <4>2 DEF Spaced
      <4> QED
        BY <4>1, <4>2
    <3> QED
      BY <3>1, <3>2, <3>3 DEF Stamped
  <2> QED
    BY <2>2, <2>3
<1> QED
  BY <1>6, <1>11, <1>12 DEF Spaced

(* A channel that goes has no receiver, and no publisher is between the    *)
(* check and the send: the stamp that goes with it is about no score.      *)
LEMMA PruneSpaces ==
    ASSUME Typed, Spaced, NEW p \in Publishers, Prune(p)
    PROVE  Spaced'
<1>1. /\ RestOK /\ \A c \in Connections : ClientOK(c, conn[c], channels)
      /\ UNCHANGED <<conn, now>>
  BY TypedParts DEF Prune
<1>2. \A q \in Publishers : \A a : ~Pending(q, a) /\ ~Pending(q, a)'
  BY <1>1 DEF Prune, NoReader, Pending, RestOK, Quiet
<1>3. PICK b \in Boards : b = pub[p].board
  BY <1>1 DEF Prune, RestOK
<1>4. \/ last' = last
      \/ channels[b] = {} /\ last' = [last EXCEPT ![b] = None]
  BY <1>3 DEF Prune
<1>5. ASSUME NEW a \in Boards, last'[a] # None
      PROVE  last'[a] <= now'
  BY <1>1, <1>4, <1>5 DEF Spaced, RestOK
<1>6. ASSUME NEW c \in Connections
      PROVE  QueueSpaced(c)'
  <2>1. QueueSpaced(c)
    BY DEF Spaced
  <2>2. ASSUME NEW n \in ScoresIn(conn[c].queue)
        PROVE  Stamped(conn[c].board, n)'
    <3>1. conn[c].queue # << >>
      BY <2>2, EmptyQueue
    <3>2. conn[c].rx /\ conn[c].board \in Boards
      BY <1>1, <2>1, <3>1 DEF QueueSpaced, ClientOK
    <3>3. channels[b] = {} => conn[c].board # b
      BY <1>1, <3>2 DEF ClientOK
    <3>4. last'[conn[c].board] = last[conn[c].board]
      BY <1>1, <1>4, <3>2, <3>3 DEF RestOK
    <3> QED
      BY <1>1, <2>1, <2>2, <3>4 DEF QueueSpaced, Stamped
  <2> QED
    BY <1>1, <1>2, <2>1, <2>2 DEF QueueSpaced
<1> QED
  BY <1>2, <1>5, <1>6 DEF Spaced

LEMMA NextSpaced ==
    ASSUME Typed, Registered, Spaced, [Next]_vars
    PROVE  Spaced'
<1>1. RestOK
  BY TypedParts
<1>2. CASE UNCHANGED vars
  BY <1>2 DEF vars, Spaced, QueueSpaced, Stamped, Pending
<1>3. CASE Tick
  <2>1. UNCHANGED <<conn, last, pub>> /\ now' = now + 1
    BY <1>3 DEF Tick
  <2>2. \A b \in Boards : last'[b] # None => last'[b] <= now'
    BY <1>1, <2>1 DEF Spaced, RestOK
  <2> QED
    BY <2>1, <2>2 DEF Spaced, QueueSpaced, Stamped, Pending
<1>7. ASSUME NEW b \in Boards, CommitElsewhere(b)
      PROVE  Spaced'
  BY <1>7 DEF CommitElsewhere, Spaced, QueueSpaced, Stamped, Pending
<1>4. ASSUME NEW p \in Publishers, CommitVersion(p) \/ LosePublisher(p)
      PROVE  Spaced'
  <2>1. UNCHANGED <<conn, last, now>>
    BY <1>4 DEF CommitVersion, LosePublisher
  <2>2. \A q \in Publishers : \A b : Pending(q, b)' => Pending(q, b) /\ pub'[q] = pub[q]
    <3>1. CASE CommitVersion(p)
      BY <1>1, <3>1 DEF CommitVersion, Pending, RestOK
    <3>2. CASE LosePublisher(p)
      BY <1>1, <3>2 DEF LosePublisher, Pending, RestOK, Quiet
    <3> QED
      BY <1>4, <3>1, <3>2
  <2>3. ASSUME NEW c \in Connections
        PROVE  QueueSpaced(c)'
    BY <2>1, <2>2 DEF Spaced, QueueSpaced, Stamped
  <2>4. ASSUME NEW q \in Publishers, NEW b \in Boards, Pending(q, b)'
        PROVE  /\ Stamped(b, pub[q].n)'
               /\ \A r \in Publishers : r # q /\ Pending(r, b)' => Apart(pub'[q].n, pub'[r].n)
    BY <2>1, <2>2, <2>4 DEF Spaced, Stamped
  <2> QED
    BY <2>1, <2>3, <2>4 DEF Spaced
<1>5. ASSUME NEW p \in Publishers, SendVersion(p)
      PROVE  Spaced'
  <2>1. pub[p].board \in Boards
    BY <1>1, <1>5 DEF SendVersion, RestOK
  <2>2. Version(pub[p].n).kind # "score"
    BY DEF Version
  <2> QED
    BY <1>5, <2>1, <2>2, EventTypes, SendSpaces DEF SendVersion
<1>6. ASSUME NEW p \in Publishers, SendScore(p)
      PROVE  Spaced'
  <2>1. pub[p].board \in Boards
    BY <1>1, <1>6 DEF SendScore, RestOK
  <2>2. ScoreAt(pub[p].n).n = pub[p].n /\ pub[p].pc = "send"
    BY <1>6 DEF ScoreAt, SendScore
  <2> QED
    BY <1>6, <2>1, <2>2, EventTypes, SendSpaces DEF SendScore
<1> QED
  BY <1>2, <1>3, <1>4, <1>5, <1>6, <1>7, ClientSpaces, CheckSpaces, PruneSpaces DEF Next, Publish

(* The invariant holds in every reachable state with its part about the    *)
(* scores that are on their way from the debounce check to a client.       *)
THEOREM FullInvariance == Spec => []FullInv
<1>1. Init => FullInv
  <2> SUFFICES ASSUME Init
               PROVE  FullInv
    OBVIOUS
  <2>1. IInv
    BY InitInv
  <2>2. Registered
    BY DEF Init, Registered, Receivers
  <2>3. \A c \in Connections : conn[c].queue = << >>
    BY DEF Init, Closed
  <2>4. \A p \in Publishers : \A b : ~Pending(p, b)
    BY DEF Init, Quiet, Pending
  <2>5. \A b \in Boards : last[b] = None
    BY DEF Init
  <2> QED
    BY <2>1, <2>2, <2>3, <2>4, <2>5, EmptyQueue DEF FullInv, Spaced, QueueSpaced
<1>2. FullInv /\ [Next]_vars => FullInv'
  BY NextInv, NextRegistered, NextSpaced DEF FullInv, IInv, Typed
<1> QED
  BY <1>1, <1>2, PTL DEF Spec

(* The score.updated events that wait for one client were let through at   *)
(* least the debounce interval apart, however many scores are submitted at *)
(* once and however channels come and go between them.                     *)
THEOREM ScoresApart == Spec => []ScoresSpaced
<1>1. FullInv => ScoresSpaced
  BY DEF FullInv, Spaced, QueueSpaced, SpacedOut, Apart, ScoresSpaced
<1> QED
  BY <1>1, FullInvariance, PTL
=============================================================================

----------------------------- MODULE AuthProofs -----------------------------
(***************************************************************************)
(* Proofs about Auth, for any keys, configurations, requests and limits of *)
(* time: a withdrawn key is refused in time, a silent provider closes the  *)
(* server to JWTs, nothing is written without authority, and the two       *)
(* checks of a write agree.                                                *)
(*                                                                         *)
(* The argument is about ages: what the cache holds is at most MaxFlight   *)
(* older than its stamp (CacheAges), and a request that reads the keys has *)
(* found the stamp fresh in the same tick (Entitled).  A connection, whose *)
(* age has no bound, keeps what was so at its grant.                       *)
(***************************************************************************)
EXTENDS Auth, TLAPS

\* The server runs with a configuration that from_config has accepted.
Started == mode \in {"NoAuth", "ApiToken", "Jwt"}

\* A key is published, or was up to `age' ticks ago.
SeenWithin(k, age) == k \in published \/ gone[k] <= age

CacheAges ==
    /\ answered <= stamp + MaxFlight
    /\ \A k \in keys : SeenWithin(k, stamp + MaxFlight)
    /\ task.pc \in {"answer", "half"} =>
          /\ answered <= task.flight
          /\ \A k \in task.set : SeenWithin(k, task.flight)
    /\ task.pc = "half" => keys = task.set

OpenPcs == {"open", "scoring", "sending"}

\* What a request is entitled to: it reads keys only under a fresh stamp, and
\* a connection that may submit has shown a credential of the server's mode.
Entitled(q) ==
    /\ q.pc \in {"age", "key"} =>
          mode = "Jwt" /\ q.token \in Jwt /\ (q.at = "grant" => q.op = "connect")
    /\ q.pc = "key" => stamp <= MaxStale
    /\ q.pc \in OpenPcs /\ q.write_authorized =>
          /\ mode = "ApiToken" => q.token.type = "admin"
          /\ mode = "Jwt" => /\ q.token \in Jwt
                             /\ config.required_role => q.token.role
                             /\ SeenWithin(q.token.kid, MaxStale + MaxFlight + q.age)

RequestsEntitled == \A r \in Requests : Entitled(req[r])

ServedRightly == RevokedIsRefused /\ FailsClosed /\ WritesHaveAuthority

IInv == TypeOK /\ Started /\ CacheAges /\ RequestsEntitled /\ ServedRightly

RequestState == {Idle, Closing} \cup Validating \cup Open

-----------------------------------------------------------------------------
LEMMA Ages ==
    /\ MaxStale \in Nat /\ MaxFlight \in Nat /\ WsTimeout \in Nat
    /\ AgeCap \in Nat
    /\ \A a \in Age : a \in Nat /\ Older(a) \in Age
    /\ \A a \in Age : Older(a) = a + 1 \/ (a = AgeCap /\ Older(a) = AgeCap)
    /\ \A a \in Age : a <= AgeCap /\ a <= Older(a) /\ Older(a) <= a + 1
    /\ 0 \in Age /\ AgeCap \in Age
    /\ 0 \in WsAge /\ \A a \in WsAge : a \in Nat /\ WsOlder(a) \in WsAge
    /\ \A a \in WsAge : \/ WsOlder(a) = a + 1
                        \/ MaxStale + MaxFlight + WsOlder(a) = AgeCap
  BY AuthBounds DEF AgeCap, Age, Older, WsAge, WsOlder

LEMMA TaskForms ==
    ASSUME task \in Task
    PROVE  /\ task.pc \in {"timer", "asking", "ended", "answer", "half"}
           /\ task.pc \in {"answer", "half"} =>
                 /\ task \in [pc : {"answer", "half"}, set : SUBSET Keys, flight : 0 .. MaxFlight]
                 /\ task.set \in SUBSET Keys /\ task.flight \in 0 .. MaxFlight
  BY DEF Task

LEMMA RequestForms ==
    ASSUME NEW q \in RequestState
    PROVE  /\ q.pc \in {"idle", "closing", "age", "key"} \cup OpenPcs
           /\ q.pc = "idle" => q = Idle
           /\ q.pc \in {"age", "key"} => q \in Validating
           /\ q.pc = "closing" => q = Closing
           /\ q.pc \in OpenPcs => q \in Open
  BY DEF RequestState, Idle, Closing, Validating, Open, OpenPcs

LEMMA IdleIsEntitled ==
    /\ Idle \in RequestState /\ Idle.pc = "idle" /\ Entitled(Idle)
    /\ Closing \in RequestState /\ Closing.pc = "closing" /\ Entitled(Closing)
  BY DEF RequestState, Idle, Closing, Entitled, OpenPcs

\* from_config on a table of Booleans.
LEMMA Modes ==
    ASSUME NEW c \in AuthConfig
    PROVE  /\ FromConfig(c) \in {"refused", "NoAuth", "ApiToken", "Jwt"}
           /\ FromConfig(c) = "NoAuth" => \A f \in DOMAIN c : ~c[f]
           /\ FromConfig(c) = "ApiToken" => c.admin_token \/ c.api_token
           /\ FromConfig(c) = "Jwt" => c.jwks_url
<1>1. /\ c.jwks_url \in BOOLEAN /\ c.admin_token \in BOOLEAN /\ c.api_token \in BOOLEAN
      /\ c.read_tokens \in BOOLEAN /\ c.require_read_auth \in BOOLEAN
      /\ c.required_role \in BOOLEAN
  BY DEF AuthConfig
<1>2. DOMAIN c = {"jwks_url", "admin_token", "api_token", "read_tokens",
                  "require_read_auth", "required_role"}
  BY DEF AuthConfig
<1>3. FromConfig(c) \in {"refused", "NoAuth", "ApiToken", "Jwt"}
  BY <1>1 DEF FromConfig
<1>4. FromConfig(c) = "NoAuth" =>
          /\ ~c.jwks_url /\ ~c.admin_token /\ ~c.api_token
          /\ ~c.read_tokens /\ ~c.require_read_auth /\ ~c.required_role
  BY <1>1 DEF FromConfig
<1>5. FromConfig(c) = "NoAuth" => \A f \in DOMAIN c : ~c[f]
  BY <1>2, <1>4
<1>6. FromConfig(c) = "ApiToken" => c.admin_token \/ c.api_token
  BY <1>1 DEF FromConfig
<1>7. FromConfig(c) = "Jwt" => c.jwks_url
  BY <1>1 DEF FromConfig
<1> QED
  BY <1>3, <1>5, <1>6, <1>7

LEMMA Initial == Init => IInv
<1> SUFFICES ASSUME Init PROVE IInv
  OBVIOUS
<1>1. config \in AuthConfig /\ config \in Configs /\ mode # "refused"
  BY ConfigsAreTables DEF Init, mode
<1>2. Started
  BY <1>1, Modes DEF Started, mode
<1>3. task \in Task /\ task.pc \in {"timer", "ended"}
  BY DEF Init, Task
<1>4. req \in [Requests -> RequestState] /\ \A r \in Requests : req[r] = Idle
  BY IdleIsEntitled DEF Init
<1>5. TypeOK
  <2>1. phase \in 0 .. Period - 1 /\ owed \in 0 .. MaxOwed /\ rotations \in 0 .. MaxRotations
    BY AuthBounds DEF Init
  <2>2. gone \in [Keys -> Age] /\ answered \in Age /\ stamp \in Age
    BY Ages DEF Init
  <2>3. published \in SUBSET Keys /\ keys \in SUBSET Keys /\ served = None
    BY DEF Init
  <2> QED
    BY <1>1, <1>3, <1>4, <2>1, <2>2, <2>3 DEF TypeOK, RequestState
<1>6. CacheAges
  BY <1>3, Ages DEF Init, CacheAges, SeenWithin
<1>7. RequestsEntitled
  BY <1>4, IdleIsEntitled DEF RequestsEntitled
<1>8. ServedRightly
  BY DEF Init, ServedRightly, RevokedIsRefused, FailsClosed, WritesHaveAuthority
<1> QED
  BY <1>2, <1>5, <1>6, <1>7, <1>8 DEF IInv

-----------------------------------------------------------------------------
\* Time, the provider and the refresh task: nothing is served in their steps.
LEMMA NothingServed == served' = None => ServedRightly'
  BY DEF ServedRightly, RevokedIsRefused, FailsClosed, WritesHaveAuthority

\* The requests stay as they are, keys do not age and the stamp, if it
\* changes, is renewed.
LEMMA RequestsStay ==
    ASSUME TypeOK, RequestsEntitled, UNCHANGED <<config, req>>, stamp' \in {stamp, 0},
           \A k \in Keys : k \in published' \/ (k \notin published /\ gone'[k] = gone[k])
                           \/ gone'[k] = 0
    PROVE  RequestsEntitled'
<1> SUFFICES ASSUME NEW r \in Requests PROVE Entitled(req[r])'
  BY DEF RequestsEntitled
<1>1. Entitled(req[r])
  BY DEF RequestsEntitled
<1>2. mode' = mode
  BY DEF mode
<1>3. req[r] \in RequestState
  BY DEF TypeOK, RequestState
<1>4. req[r].pc = "key" => stamp' <= MaxStale
  BY <1>1, Ages DEF Entitled
<1>5. ASSUME req[r].pc \in OpenPcs, req[r].token \in Jwt,
             SeenWithin(req[r].token.kid, MaxStale + MaxFlight + req[r].age)
      PROVE  SeenWithin(req[r].token.kid, MaxStale + MaxFlight + req[r].age)'
  <2>1. req[r].token.kid \in Keys
    BY <1>5 DEF Jwt
  <2>2. req[r].age \in Nat
    BY <1>3, <1>5, RequestForms, Ages DEF Open
  <2> QED
    BY <1>5, <2>1, <2>2, Ages DEF SeenWithin
<1> QED
  BY <1>1, <1>2, <1>4, <1>5 DEF Entitled

LEMMA RotateStep == IInv /\ Rotate => IInv'
<1> SUFFICES ASSUME IInv, Rotate PROVE IInv'
  OBVIOUS
<1> USE DEF IInv
<1>1. PICK new \in SUBSET Keys :
          /\ gone' = [k \in Keys |-> IF k \in published \ new THEN 0 ELSE gone[k]]
          /\ published' = new
  BY DEF Rotate
<1>2. /\ rotations' = rotations + 1 /\ rotations < MaxRotations /\ served' = None
      /\ UNCHANGED <<config, answered, keys, stamp, task, phase, owed, req>>
  BY DEF Rotate, cache, clock
<1>3. gone' \in [Keys -> Age]
  BY <1>1, Ages DEF TypeOK
<1>4. TypeOK'
  BY <1>1, <1>2, <1>3, AuthBounds DEF TypeOK
<1>5. Started'
  BY <1>2 DEF Started, mode
<1>6. \A k \in Keys : k \in published' \/ (k \notin published /\ gone'[k] = gone[k]) \/ gone'[k] = 0
  BY <1>1
<1>7. CacheAges'
  <2>1. ASSUME NEW k \in Keys, NEW n \in Nat, SeenWithin(k, n)
        PROVE  k \in published' \/ gone'[k] <= n
    BY <1>6, <2>1 DEF SeenWithin
  <2>2. stamp + MaxFlight \in Nat
    BY Ages DEF TypeOK
  <2>3. \A k \in keys : k \in Keys
    BY DEF TypeOK
  <2>4. task.pc \in {"answer", "half"} => task.flight \in Nat /\ \A k \in task.set : k \in Keys
    BY TaskForms DEF TypeOK
  <2> QED
    BY <1>2, <2>1, <2>2, <2>3, <2>4 DEF CacheAges, SeenWithin
<1>8. RequestsEntitled'
  BY <1>2, <1>6, RequestsStay
<1> QED
  BY <1>2, <1>4, <1>5, <1>7, <1>8, NothingServed

LEMMA RefreshSteps ==
    ASSUME IInv, RefreshDue \/ RefreshFails \/ Answer \/ StoreFirst \/ StoreSecond
    PROVE  IInv'
<1> USE DEF IInv
<1>1. served' = None /\ UNCHANGED <<config, published, rotations, gone, phase, req>>
  BY DEF RefreshDue, RefreshFails, Answer, StoreFirst, StoreSecond, provider, cache, clock
<1>2. Started'
  BY <1>1 DEF Started, mode
<1>3. /\ task \in Task /\ stamp \in Age /\ answered \in Age /\ keys \in SUBSET Keys
      /\ published \in SUBSET Keys /\ owed \in 0 .. MaxOwed
  BY DEF TypeOK
<1>4. /\ task' \in Task /\ stamp' \in {stamp, 0} /\ stamp' \in Age /\ answered' \in Age
      /\ keys' \in SUBSET Keys /\ owed' \in 0 .. MaxOwed
      /\ CacheAges'
  <2>1. CASE RefreshDue
    BY <1>1, <1>3, <2>1, AuthBounds DEF RefreshDue, provider, cache, Task, CacheAges, SeenWithin
  <2>2. CASE RefreshFails
    BY <1>1, <1>3, <2>2 DEF RefreshFails, provider, cache, clock, Task, CacheAges, SeenWithin
  <2>3. CASE Answer
    <3>1. /\ task' = [pc |-> "answer", set |-> published, flight |-> 0] /\ answered' = 0
          /\ UNCHANGED <<keys, stamp, owed>>
      BY <2>3 DEF Answer, cache, clock
    <3>2. task' \in Task /\ task'.pc = "answer" /\ task'.set = published /\ task'.flight = 0
      BY <1>3, <3>1, Ages DEF Task
    <3> QED
      BY <1>1, <1>3, <3>1, <3>2, Ages DEF CacheAges, SeenWithin
  <2>4. CASE StoreFirst
    <3>1. /\ task.pc = "answer" /\ task' = [task EXCEPT !.pc = "half"]
          /\ keys' = task.set /\ UNCHANGED <<stamp, answered, owed>>
      BY <2>4 DEF StoreFirst, Write, provider, clock
    <3>2. /\ task' \in Task /\ task'.pc = "half" /\ task'.set = task.set
          /\ task'.flight = task.flight /\ task.set \in SUBSET Keys /\ task.flight \in 0 .. MaxFlight
      BY <1>3, <3>1, TaskForms DEF Task
    <3>3. \A k \in task.set : SeenWithin(k, stamp + MaxFlight)
      <4> TAKE k \in task.set
      <4>1. SeenWithin(k, task.flight)
        BY <3>1 DEF CacheAges
      <4>2. k \in Keys /\ gone[k] \in Nat
        BY <3>2, Ages DEF TypeOK
      <4> QED
        BY <1>3, <3>2, <4>1, <4>2, Ages DEF SeenWithin
    <3> QED
      BY <1>1, <1>3, <3>1, <3>2, <3>3 DEF CacheAges, SeenWithin
  <2>5. CASE StoreSecond
    <3>1. /\ task.pc = "half" /\ task' = [pc |-> "timer"]
          /\ stamp' = 0 /\ UNCHANGED <<keys, answered, owed>>
      BY <2>5 DEF StoreSecond, Write, provider, clock
    <3>2. task' \in Task /\ task'.pc = "timer"
      BY <3>1 DEF Task
    <3>3. task.flight \in 0 .. MaxFlight
      BY <1>3, <3>1, TaskForms
    <3>4. answered <= MaxFlight
      <4>1. answered <= task.flight
        BY <3>1 DEF CacheAges
      <4>2. answered \in Nat
        BY <1>3, Ages
      <4> QED
        BY <3>3, <4>1, <4>2, Ages
    <3>5. \A k \in keys : SeenWithin(k, MaxFlight)
      <4> TAKE k \in keys
      <4>1. SeenWithin(k, task.flight)
        BY <3>1 DEF CacheAges
      <4>2. k \in Keys /\ gone[k] \in Nat
        BY <1>3, Ages DEF TypeOK
      <4> QED
        BY <3>3, <4>1, <4>2, Ages DEF SeenWithin
    <3> QED
      BY <1>1, <1>3, <3>1, <3>2, <3>4, <3>5, Ages DEF CacheAges, SeenWithin
  <2> QED
    BY <2>1, <2>2, <2>3, <2>4, <2>5
<1>5. TypeOK'
  BY <1>1, <1>4 DEF TypeOK
<1>6. RequestsEntitled'
  <2>1. \A k \in Keys : k \in published' \/ (k \notin published /\ gone'[k] = gone[k])
                        \/ gone'[k] = 0
    BY <1>1
  <2> QED
    BY <1>1, <1>4, <2>1, RequestsStay
<1> QED
  BY <1>1, <1>2, <1>4, <1>5, <1>6, NothingServed

\* The request of a tick: an open connection is older.
Aged(q) == IF q.pc \in OpenPcs THEN [q EXCEPT !.age = WsOlder(@)] ELSE q

LEMMA TickStep == IInv /\ Tick => IInv'
<1> SUFFICES ASSUME IInv, Tick PROVE IInv'
  OBVIOUS
<1> USE DEF IInv
<1>1. /\ gone' = [k \in Keys |-> IF k \in published THEN gone[k] ELSE Older(gone[k])]
      /\ answered' = Older(answered) /\ stamp' = Older(stamp)
      /\ served' = None
      /\ UNCHANGED <<config, published, rotations, keys>>
      /\ task.pc # "half" /\ (task.pc = "answer" => task.flight < MaxFlight)
      /\ task' = IF task.pc = "answer" THEN [task EXCEPT !.flight = @ + 1] ELSE task
  BY DEF Tick
<1>2. mode' = mode /\ Started'
  BY <1>1 DEF mode, Started
<1>3. phase' \in 0 .. Period - 1 /\ owed' \in 0 .. MaxOwed
  <2>1. phase' = (phase + 1) % Period /\ owed' \in {owed, owed + 1}
        /\ (owed' = owed + 1 => owed < MaxOwed)
    BY AuthBounds DEF Tick, TypeOK
  <2>2. phase + 1 \in Int /\ Period \in Int /\ Period > 0 /\ owed \in 0 .. MaxOwed /\ MaxOwed \in Nat
    BY AuthBounds DEF TypeOK
  <2>3. phase' \in 0 .. Period - 1
    BY <2>1, <2>2
  <2> QED
    BY <2>1, <2>2, <2>3
<1>4. gone' \in [Keys -> Age] /\ answered' \in Age /\ stamp' \in Age
  BY <1>1, Ages DEF TypeOK
<1>5. /\ task' \in Task /\ task'.pc = task.pc
      /\ task.pc = "answer" => task'.set = task.set /\ task'.flight = task.flight + 1
  <2>1. CASE task.pc = "answer"
    <3>1. /\ task \in [pc : {"answer", "half"}, set : SUBSET Keys, flight : 0 .. MaxFlight]
          /\ task.flight + 1 \in 0 .. MaxFlight
      BY <1>1, <2>1, TaskForms, Ages DEF TypeOK
    <3> QED
      BY <1>1, <2>1, <3>1 DEF Task
  <2>2. CASE task.pc # "answer"
    BY <1>1, <2>2 DEF TypeOK
  <2> QED
    BY <2>1, <2>2
\* Keys that are not published age by a tick at most.
<1>6. ASSUME NEW k \in Keys, NEW n \in Nat, SeenWithin(k, n)
      PROVE  k \in published' \/ gone'[k] <= n + 1
  <2>1. gone[k] \in Age /\ (k \notin published => gone'[k] = Older(gone[k]))
    BY <1>1 DEF TypeOK
  <2> QED
    BY <1>1, <1>6, <2>1, Ages DEF SeenWithin
<1>7. CacheAges'
  <2>1. stamp \in Age /\ answered \in Age /\ keys \in SUBSET Keys
    BY DEF TypeOK
  <2>2. answered' <= stamp' + MaxFlight
    <3>1. answered <= stamp + MaxFlight
      BY DEF CacheAges
    <3>2. CASE stamp' = stamp + 1
      BY <1>1, <2>1, <3>1, <3>2, Ages
    <3>3. CASE stamp' = AgeCap
      BY <1>4, <3>3, Ages
    <3> QED
      BY <1>1, <2>1, <3>2, <3>3, Ages
  <2>3. ASSUME NEW k \in keys PROVE k \in published' \/ gone'[k] <= stamp' + MaxFlight
    <3>1. SeenWithin(k, stamp + MaxFlight) /\ k \in Keys
      BY <2>1 DEF CacheAges
    <3>2. gone'[k] \in Age
      BY <1>4, <3>1
    <3>3. CASE stamp' = stamp + 1
      <4>1. stamp + MaxFlight \in Nat
        BY <2>1, Ages
      <4>2. k \in published' \/ gone'[k] <= (stamp + MaxFlight) + 1
        BY <1>6, <3>1, <4>1
      <4> QED
        BY <2>1, <3>2, <3>3, <4>2, Ages
    <3>4. CASE stamp' = AgeCap
      <4>1. gone'[k] <= AgeCap /\ gone'[k] \in Nat
        BY <3>2, Ages
      <4> QED
        BY <3>4, <4>1, Ages
    <3> QED
      BY <1>1, <2>1, <3>3, <3>4, Ages
  <2>4. ASSUME task'.pc \in {"answer", "half"}
        PROVE  answered' <= task'.flight
               /\ \A k \in task'.set : k \in published' \/ gone'[k] <= task'.flight
    <3>1. task.pc = "answer" /\ task.flight \in Nat /\ task.set \in SUBSET Keys
      BY <1>1, <1>5, <2>4, TaskForms, Ages DEF TypeOK
    <3>2. answered <= task.flight
      BY <3>1 DEF CacheAges
    <3>3. answered' <= task'.flight
      BY <1>1, <1>5, <2>1, <3>1, <3>2, Ages
    <3>4. ASSUME NEW k \in task.set PROVE k \in published' \/ gone'[k] <= task.flight + 1
      <4>1. SeenWithin(k, task.flight)
        BY <3>1 DEF CacheAges
      <4> QED
        BY <1>6, <3>1, <4>1
    <3> QED
      BY <1>5, <3>1, <3>3, <3>4
  <2> QED
    BY <1>1, <1>5, <2>2, <2>3, <2>4 DEF CacheAges, SeenWithin
<1>8. \A r \in Requests : req'[r] = Aged(req[r]) /\ req[r].pc # "key"
  BY DEF Tick, Aged, IsOpen, OpenPcs
<1>9. \A r \in Requests : req[r] \in RequestState /\ Entitled(req[r])
  BY DEF TypeOK, RequestState, RequestsEntitled
<1>10. ASSUME NEW r \in Requests
       PROVE  req'[r] \in RequestState /\ Entitled(req[r])'
  <2>1. CASE req[r].pc \notin OpenPcs
    <3>1. req'[r] = req[r]
      BY <1>8, <2>1 DEF Aged
    <3> QED
      BY <1>2, <1>8, <1>9, <2>1, <3>1 DEF Entitled
  <2>2. CASE req[r].pc \in OpenPcs
    <3> DEFINE older == WsOlder(req[r].age)
    <3>1. req[r] \in Open /\ req[r].age \in WsAge /\ older \in WsAge
      BY <1>9, <2>2, RequestForms, Ages DEF Open
    <3>2. req'[r] = [req[r] EXCEPT !.age = older]
      BY <1>8, <2>2 DEF Aged
    <3> HIDE DEF older
    <3>3. /\ req'[r].pc = req[r].pc /\ req'[r].token = req[r].token
          /\ req'[r].write_authorized = req[r].write_authorized
          /\ req'[r].age = older
      BY <3>1, <3>2 DEF Open
    <3>4. req'[r] \in Open
      BY <3>1, <3>2 DEF Open
    <3>5. ASSUME req[r].write_authorized, mode = "Jwt"
          PROVE  req[r].token.kid \in published'
                 \/ gone'[req[r].token.kid] <= MaxStale + MaxFlight + older
      <4> DEFINE kid == req[r].token.kid
                 n == MaxStale + MaxFlight + req[r].age
      <4>1. req[r].token \in Jwt /\ SeenWithin(kid, n)
        BY <1>9, <2>2, <3>5 DEF Entitled
      <4>2. kid \in Keys
        BY <4>1 DEF Jwt
      <4>3. n \in Nat /\ n + 1 = MaxStale + MaxFlight + (req[r].age + 1)
        BY <3>1, Ages
      <4>4. older = req[r].age + 1 \/ MaxStale + MaxFlight + older = AgeCap
        BY <3>1, Ages DEF older
      <4> HIDE DEF kid, n
      <4>5. CASE older = req[r].age + 1
        <5>1. kid \in published' \/ gone'[kid] <= n + 1
          BY <1>6, <4>1, <4>2, <4>3
        <5> QED
          BY <4>3, <4>5, <5>1 DEF kid
      <4>6. CASE MaxStale + MaxFlight + older = AgeCap
        <5>1. gone'[kid] <= AgeCap
          BY <1>4, <4>2, Ages
        <5> QED
          BY <4>6, <5>1 DEF kid
      <4> QED
        BY <4>4, <4>5, <4>6
    <3>6. Entitled(req[r])'
      BY <1>1, <1>2, <1>9, <2>2, <3>3, <3>5 DEF Entitled, SeenWithin, OpenPcs
    <3> QED
      BY <3>4, <3>6 DEF RequestState
  <2> QED
    BY <2>1, <2>2
<1>11. RequestsEntitled'
  BY <1>10 DEF RequestsEntitled
<1>12. req' \in [Requests -> RequestState]
  <2>1. req' = [r \in Requests |-> Aged(req[r])]
    BY DEF Tick, Aged, IsOpen, OpenPcs
  <2> QED
    BY <1>8, <1>10, <2>1
<1>13. TypeOK'
  BY <1>1, <1>3, <1>4, <1>5, <1>12 DEF TypeOK, RequestState
<1> QED
  BY <1>1, <1>2, <1>7, <1>11, <1>13, NothingServed

-----------------------------------------------------------------------------
\* Requests leave the provider, the cache and the task alone.
Still == UNCHANGED <<config, provider, cache, task, clock>>

LEMMA StillKeeps ==
    ASSUME IInv, Still,
           req' \in [Requests -> RequestState], RequestsEntitled',
           served' \in Served \cup {None}, ServedRightly'
    PROVE  IInv'
<1>1. UNCHANGED <<config, published, rotations, gone, answered, keys, stamp, task, phase, owed>>
  BY DEF Still, provider, cache, clock
<1>2. TypeOK'
  BY <1>1 DEF IInv, TypeOK, RequestState
<1>3. Started' /\ CacheAges'
  BY <1>1 DEF IInv, Started, mode, CacheAges, SeenWithin
<1> QED
  BY <1>2, <1>3 DEF IInv

\* Request r comes to q.
LEMMA RequestStep ==
    ASSUME IInv, Still, NEW r \in Requests, NEW q \in RequestState, Entitled(q),
           req' = [req EXCEPT ![r] = q]
    PROVE  req' \in [Requests -> RequestState] /\ RequestsEntitled'
<1>1. UNCHANGED <<config, published, gone, stamp>> /\ mode' = mode
  BY DEF Still, provider, cache, mode
<1>2. /\ req' \in [Requests -> RequestState] /\ req'[r] = q
      /\ \A p \in Requests \ {r} : req'[p] = req[p]
  BY DEF IInv, TypeOK, RequestState
<1>3. \A p \in Requests : Entitled(req[p])
  BY DEF IInv, RequestsEntitled
<1>4. ASSUME NEW p \in Requests PROVE Entitled(req[p])'
  <2>1. PICK x : req'[p] = x /\ Entitled(x)
    BY <1>2, <1>3
  <2> QED
    BY <1>1, <2>1 DEF Entitled, SeenWithin
<1> QED
  BY <1>2, <1>4 DEF RequestsEntitled

\* A request is refused, a connection closed.
LEMMA RefusedStep ==
    ASSUME IInv, Still, NEW r \in Requests, Refused(r)
    PROVE  IInv'
<1>1. req' = [req EXCEPT ![r] = Idle] /\ served' = None
  BY DEF Refused
<1> QED
  BY <1>1, IdleIsEntitled, RequestStep, StillKeeps, NothingServed

LEMMA MuteForm ==
    ASSUME NEW t \in Token
    PROVE  OpenWith(t, FALSE) \in RequestState /\ Entitled(OpenWith(t, FALSE))
<1> DEFINE q == OpenWith(t, FALSE)
<1>1. q = [pc |-> "open", write_authorized |-> FALSE, age |-> 0, token |-> [type |-> "absent"]]
  BY DEF OpenWith
<1>2. [type |-> "absent"] \in Token
  BY DEF Token, Opaque
<1> HIDE DEF q
<1>3. q \in Open /\ q.pc = "open" /\ q.write_authorized = FALSE
  BY <1>1, <1>2, Ages DEF Open
<1>4. Entitled(q)
  BY <1>3 DEF Entitled
<1> QED
  BY <1>3, <1>4 DEF RequestState, q

\* A connection is opened without the right to submit.
LEMMA OpenMuteStep ==
    ASSUME IInv, Still, NEW r \in Requests, NEW t \in Token,
           req' = [req EXCEPT ![r] = OpenWith(t, FALSE)], served' = None
    PROVE  IInv'
<1>1. OpenWith(t, FALSE) \in RequestState /\ Entitled(OpenWith(t, FALSE))
  BY MuteForm
<1> QED
  BY <1>1, RequestStep, StillKeeps, NothingServed

LEMMA FailsStep ==
    ASSUME IInv, Still, NEW r \in Requests, req[r].pc \in {"age", "key"}, Fails(r)
    PROVE  IInv'
<1>1. req[r].token \in Token
  BY RequestForms DEF IInv, TypeOK, RequestState, Validating
<1>2. CASE Refused(r)
  BY <1>2, RefusedStep
<1>3. CASE req' = [req EXCEPT ![r] = OpenWith(req[r].token, FALSE)] /\ served' = None
  BY <1>1, <1>3, OpenMuteStep
<1> QED
  BY <1>2, <1>3 DEF Fails

\* What Gate and Grant say of a token.
LEMMA Decisions ==
    ASSUME IInv, NEW t \in Token
    PROVE  /\ \A op \in Op : Gate(op, t) = "jwt" => mode = "Jwt" /\ t \in Jwt
           /\ Gate("write", t) = "pass" =>
                 mode = "NoAuth" \/ (mode = "ApiToken" /\ t.type = "admin")
           /\ Grant(t) \in {"pass", "refuse", "jwt"}
           /\ Grant(t) = "pass" => mode = "NoAuth" \/ (mode = "ApiToken" /\ t.type = "admin")
           /\ Grant(t) = "jwt" => mode = "Jwt" /\ t \in Jwt
           /\ Grant(t) = Gate("write", t)
<1>1. mode \in {"NoAuth", "ApiToken", "Jwt"}
  BY DEF IInv, Started
<1>2. t.type = "jwt" => t \in Jwt
  BY DEF Token, Jwt, Opaque
<1>3. \A op \in Op : Gate(op, t) = "jwt" => mode = "Jwt" /\ t.type = "jwt"
  BY DEF Gate
<1>4. /\ Gate("write", t) = CASE mode = "NoAuth" -> "pass"
                              [] mode = "ApiToken" -> (IF t.type = "admin" THEN "pass" ELSE "refuse")
                              [] mode = "Jwt" -> (IF t.type = "jwt" THEN "jwt" ELSE "refuse")
  BY <1>1 DEF Gate
<1>5. Grant(t) = Gate("write", t)
  BY <1>4 DEF Grant
<1>6. /\ Grant(t) \in {"pass", "refuse", "jwt"}
      /\ Grant(t) = "pass" => mode = "NoAuth" \/ (mode = "ApiToken" /\ t.type = "admin")
      /\ Grant(t) = "jwt" => mode = "Jwt" /\ t.type = "jwt"
  BY <1>1 DEF Grant
<1> QED
  BY <1>2, <1>3, <1>5, <1>6

\* Where a request goes that has passed the gate.
LEMMA PassedStep ==
    ASSUME IInv, Still, NEW r \in Requests, NEW op \in Op, NEW t \in Token,
           NEW jwks \in BOOLEAN, Passed(r, op, t, jwks), ServedRightly'
    PROVE  IInv'
<1> DEFINE q == IF op = "connect" THEN AfterGrant(t, Grant(t)) ELSE Idle
<1>1. req' = [req EXCEPT ![r] = q] /\ served' = [op |-> op, token |-> t, jwks |-> jwks, age |-> 0]
  BY DEF Passed
<1>2. served' \in Served
  BY <1>1, Ages DEF Served
<1>3. q \in RequestState /\ Entitled(q)
  <2>1. CASE op # "connect"
    BY <2>1, IdleIsEntitled
  <2>2. CASE op = "connect" /\ Grant(t) = "pass"
    <3>1. q = [pc |-> "open", write_authorized |-> TRUE, age |-> 0, token |-> t]
      BY <2>2 DEF AfterGrant, OpenWith
    <3>2. mode = "NoAuth" \/ (mode = "ApiToken" /\ t.type = "admin")
      BY <2>2, Decisions
    <3> HIDE DEF q
    <3>3. q \in Open
      BY <3>1, Ages DEF Open
    <3>4. Entitled(q)
      BY <3>1, <3>2 DEF Entitled
    <3> QED
      BY <3>3, <3>4 DEF RequestState
  <2>3. CASE op = "connect" /\ Grant(t) = "refuse"
    <3>1. q = OpenWith(t, FALSE)
      BY <2>3 DEF AfterGrant
    <3> QED
      BY <3>1, MuteForm
  <2>4. CASE op = "connect" /\ Grant(t) = "jwt"
    <3>1. q = [pc |-> "age", at |-> "grant", op |-> "connect", token |-> t]
      BY <2>4 DEF AfterGrant
    <3>2. mode = "Jwt" /\ t \in Jwt
      BY <2>4, Decisions
    <3> HIDE DEF q
    <3> QED
      BY <3>1, <3>2 DEF Validating, Entitled, RequestState, Op, OpenPcs
  <2> QED
    BY <2>1, <2>2, <2>3, <2>4, Decisions
<1> HIDE DEF q
<1>4. req' \in [Requests -> RequestState] /\ RequestsEntitled'
  BY <1>1, <1>3, RequestStep
<1> QED
  BY <1>2, <1>4, StillKeeps

LEMMA ConfigIsTable == IInv => config \in AuthConfig /\ mode = FromConfig(config)
  BY ConfigsAreTables DEF IInv, TypeOK, mode

LEMMA ArriveStep ==
    ASSUME IInv, NEW r \in Requests, Arrive(r) PROVE IInv'
<1>1. Still
  BY DEF Arrive, Still
<1>2. PICK op \in Op, t \in Token :
          \/ Gate(op, t) = "pass" /\ Passed(r, op, t, FALSE)
          \/ Gate(op, t) = "refuse" /\ Refused(r)
          \/ /\ Gate(op, t) = "jwt"
             /\ req' = [req EXCEPT ![r] = [pc |-> "age", at |-> "gate", op |-> op, token |-> t]]
             /\ served' = None
  BY DEF Arrive
<1>3. CASE Gate(op, t) = "pass" /\ Passed(r, op, t, FALSE)
  <2>1. served' = [op |-> op, token |-> t, jwks |-> FALSE, age |-> 0] /\ config' = config
    BY <1>1, <1>3 DEF Passed, Still
  <2>2. RevokedIsRefused' /\ FailsClosed'
    BY <2>1 DEF RevokedIsRefused, FailsClosed
  <2>3. WritesHaveAuthority'
    <3>1. CASE op # "write"
      BY <2>1, <3>1 DEF WritesHaveAuthority, Op
    <3>2. CASE op = "write"
      <4>1. mode = "NoAuth" \/ (mode = "ApiToken" /\ t.type = "admin")
        BY <1>3, <3>2, Decisions
      <4>2. \/ \A f \in DOMAIN config : ~config[f]
            \/ t.type = "admin" /\ (config.admin_token \/ config.api_token)
        BY <4>1, ConfigIsTable, Modes
      <4> QED
        BY <2>1, <4>2 DEF WritesHaveAuthority
    <3> QED
      BY <3>1, <3>2
  <2> QED
    BY <1>1, <1>3, <2>2, <2>3, PassedStep DEF ServedRightly
<1>4. CASE Refused(r)
  BY <1>1, <1>4, RefusedStep
<1>5. CASE /\ Gate(op, t) = "jwt"
           /\ req' = [req EXCEPT ![r] = [pc |-> "age", at |-> "gate", op |-> op, token |-> t]]
           /\ served' = None
  <2> DEFINE q == [pc |-> "age", at |-> "gate", op |-> op, token |-> t]
  <2>1. mode = "Jwt" /\ t \in Jwt
    BY <1>5, Decisions
  <2>2. q \in RequestState /\ Entitled(q)
    BY <2>1 DEF RequestState, Validating, Entitled, OpenPcs
  <2> HIDE DEF q
  <2>3. req' = [req EXCEPT ![r] = q]
    BY <1>5 DEF q
  <2> QED
    BY <1>1, <1>5, <2>2, <2>3, RequestStep, StillKeeps, NothingServed
<1> QED
  BY <1>2, <1>3, <1>4, <1>5

LEMMA CheckAgeStep ==
    ASSUME IInv, NEW r \in Requests, CheckAge(r) PROVE IInv'
<1>1. Still /\ req[r].pc = "age"
  BY DEF CheckAge, Still
<1>2. CASE Fails(r)
  BY <1>1, <1>2, FailsStep
<1>3. CASE ~Stale /\ req' = [req EXCEPT ![r].pc = "key"] /\ served' = None
  <2> DEFINE q == [req[r] EXCEPT !.pc = "key"]
  <2>1. req[r] \in Validating /\ Entitled(req[r])
    BY <1>1, RequestForms DEF IInv, TypeOK, RequestState, RequestsEntitled
  <2>2. req' = [req EXCEPT ![r] = q]
    BY <1>3 DEF IInv, TypeOK
  <2>3. q \in Validating /\ q.pc = "key" /\ q.at = req[r].at /\ q.op = req[r].op
        /\ q.token = req[r].token
    BY <2>1 DEF Validating
  <2> HIDE DEF q
  <2>4. stamp <= MaxStale
    BY <1>3, Ages DEF Stale, IInv, TypeOK
  <2>5. Entitled(q)
    BY <1>1, <2>1, <2>3, <2>4 DEF Entitled, OpenPcs
  <2> QED
    BY <1>1, <1>3, <2>2, <2>3, <2>5, RequestStep, StillKeeps, NothingServed DEF RequestState
<1> QED
  BY <1>2, <1>3 DEF CheckAge

\* The keys get_key finds under a fresh stamp were published not long ago.
LEMMA FreshKeys ==
    ASSUME IInv, NEW r \in Requests, req[r].pc = "key", req[r].token.kid \in keys
    PROVE  /\ SeenWithin(req[r].token.kid, MaxStale + MaxFlight)
           /\ answered <= MaxStale + MaxFlight
<1>1. stamp <= MaxStale /\ stamp \in Nat /\ answered \in Nat
  BY Ages DEF IInv, RequestsEntitled, Entitled, TypeOK
<1>2. req[r].token.kid \in Keys /\ gone[req[r].token.kid] \in Nat
  BY Ages DEF IInv, TypeOK
<1>3. SeenWithin(req[r].token.kid, stamp + MaxFlight) /\ answered <= stamp + MaxFlight
  BY DEF IInv, CacheAges
<1> QED
  BY <1>1, <1>2, <1>3, Ages DEF SeenWithin

LEMMA LookupKeyStep ==
    ASSUME IInv, NEW r \in Requests, LookupKey(r) PROVE IInv'
<1> DEFINE t == req[r].token
           needs_role == config.required_role /\ (req[r].at = "grant" \/ req[r].op = "write")
<1>1. Still /\ req[r].pc = "key"
  BY DEF LookupKey, Still
<1>2. req[r] \in Validating /\ Entitled(req[r])
  BY <1>1, RequestForms DEF IInv, TypeOK, RequestState, RequestsEntitled
<1>3. /\ mode = "Jwt" /\ t \in Jwt /\ t \in Token /\ t.type = "jwt" /\ req[r].op \in Op
      /\ req[r].at \in {"gate", "grant"}
  BY <1>1, <1>2 DEF Entitled, Validating, Jwt
<1>4. CASE Fails(r)
  BY <1>1, <1>4, FailsStep
<1>5. CASE /\ t.kid \in keys /\ (needs_role => t.role)
           /\ req[r].at = "gate" /\ Passed(r, req[r].op, t, TRUE)
  <2>1. served' = [op |-> req[r].op, token |-> t, jwks |-> TRUE, age |-> 0]
    BY <1>5 DEF Passed
  <2>9. MaxStale + MaxFlight + 0 = MaxStale + MaxFlight
    BY Ages
  <2>2. UNCHANGED <<config, published, gone, answered>>
    BY <1>1 DEF Still, provider
  <2>3. SeenWithin(t.kid, MaxStale + MaxFlight) /\ answered <= MaxStale + MaxFlight
    BY <1>1, <1>5, FreshKeys
  <2>4. req[r].op # "submit"
    BY <1>3 DEF Op
  <2>5. RevokedIsRefused' /\ FailsClosed'
    BY <2>1, <2>2, <2>3, <2>4, <2>9 DEF RevokedIsRefused, FailsClosed, SeenWithin
  <2>6. config.jwks_url
    BY <1>3, ConfigIsTable, Modes
  <2>7. req[r].op = "write" => (config.required_role => t.role)
    BY <1>5
  <2>8. WritesHaveAuthority'
    BY <1>3, <2>1, <2>2, <2>4, <2>6, <2>7 DEF WritesHaveAuthority
  <2> QED
    BY <1>1, <1>3, <1>5, <2>5, <2>8, PassedStep DEF ServedRightly
<1>6. CASE /\ t.kid \in keys /\ (needs_role => t.role) /\ req[r].at = "grant"
           /\ req' = [req EXCEPT ![r] = OpenWith(t, TRUE)] /\ served' = None
  <2> DEFINE q == OpenWith(t, TRUE)
  <2>1. q \in Open /\ q.pc = "open" /\ q.token = t /\ q.age = 0
    BY <1>3, Ages DEF OpenWith, Open
  <2>2. SeenWithin(t.kid, MaxStale + MaxFlight) /\ MaxStale + MaxFlight + 0 = MaxStale + MaxFlight
    BY <1>1, <1>6, FreshKeys, Ages
  <2>3. config.required_role => t.role
    BY <1>6
  <2>4. req' = [req EXCEPT ![r] = q]
    BY <1>6
  <2> HIDE DEF q
  <2>5. Entitled(q)
    BY <1>3, <2>1, <2>2, <2>3 DEF Entitled
  <2> QED
    BY <1>1, <1>6, <2>1, <2>4, <2>5, RequestStep, StillKeeps, NothingServed DEF RequestState
<1> QED
  BY <1>4, <1>5, <1>6 DEF LookupKey

\* A connection that goes on in its loop stays entitled.
LEMMA GoesOn ==
    ASSUME IInv, Still, NEW r \in Requests, NEW pc \in OpenPcs, req[r].pc \in OpenPcs,
           req' = [req EXCEPT ![r] = [req[r] EXCEPT !.pc = pc]]
    PROVE  req' \in [Requests -> RequestState] /\ RequestsEntitled'
<1> DEFINE q == [req[r] EXCEPT !.pc = pc]
<1>1. req[r] \in Open /\ Entitled(req[r])
  BY RequestForms DEF IInv, TypeOK, RequestState, RequestsEntitled
<1>2. /\ q \in Open /\ q.pc = pc /\ q.token = req[r].token /\ q.age = req[r].age
      /\ q.write_authorized = req[r].write_authorized
  BY <1>1 DEF Open, OpenPcs
<1> HIDE DEF q
<1>3. Entitled(q)
  BY <1>1, <1>2 DEF Entitled, OpenPcs
<1>4. q \in RequestState
  BY <1>2 DEF RequestState
<1>5. req' = [req EXCEPT ![r] = q]
  BY DEF q
<1> QED
  BY <1>3, <1>4, <1>5, RequestStep

LEMMA LoopStep ==
    ASSUME IInv, NEW r \in Requests,
           TakeMessage(r) \/ TakeEvent(r) \/ NoSubmit(r) \/ Sent(r)
    PROVE  IInv'
<1>1. PICK pc \in OpenPcs : req[r].pc \in OpenPcs /\ Goes(r, pc)
  BY DEF TakeMessage, TakeEvent, NoSubmit, Sent, OpenPcs
<1>2. Still /\ served' = None /\ req' = [req EXCEPT ![r] = [req[r] EXCEPT !.pc = pc]]
  BY <1>1 DEF Goes, Becomes, Still
<1> QED
  BY <1>1, <1>2, GoesOn, StillKeeps, NothingServed

LEMMA EndStep ==
    ASSUME IInv, NEW r \in Requests, Deadline(r) \/ Close(r)
    PROVE  IInv'
<1>1. PICK q \in {Idle, Closing} : Becomes(r, q)
  BY DEF Deadline, Close
<1>2. Still /\ served' = None /\ req' = [req EXCEPT ![r] = q]
  BY <1>1 DEF Becomes, Still
<1> QED
  BY <1>2, IdleIsEntitled, RequestStep, StillKeeps, NothingServed

LEMMA SubmitStep ==
    ASSUME IInv, NEW r \in Requests, Submit(r) PROVE IInv'
<1> DEFINE t == req[r].token
<1>1. /\ Still /\ req[r].pc = "scoring" /\ req[r].write_authorized
      /\ req' = [req EXCEPT ![r] = [req[r] EXCEPT !.pc = "sending"]]
      /\ served' = [op |-> "submit", token |-> t, jwks |-> mode = "Jwt", age |-> req[r].age]
  BY DEF Submit, Still, IInv, TypeOK
<1>2. req[r] \in Open /\ Entitled(req[r]) /\ mode \in {"NoAuth", "ApiToken", "Jwt"}
  BY <1>1, RequestForms DEF IInv, TypeOK, RequestState, RequestsEntitled, Started, OpenPcs
<1>3. t \in Token /\ req[r].age \in WsAge
  BY <1>2 DEF Open
<1>4. /\ mode = "ApiToken" => t.type = "admin"
      /\ mode = "Jwt" => /\ t \in Jwt /\ (config.required_role => t.role)
                         /\ SeenWithin(t.kid, MaxStale + MaxFlight + req[r].age)
  BY <1>1, <1>2 DEF Entitled, OpenPcs
<1>5. UNCHANGED <<config, published, gone, answered, stamp>> /\ mode' = mode
  BY <1>1 DEF Still, provider, cache, mode
<1>6. served' \in Served
  BY <1>1, <1>3 DEF Served
<1>7. FailsClosed'
  BY <1>1 DEF FailsClosed
<1>8. RevokedIsRefused'
  <2>1. CASE mode = "Jwt"
    <3>1. t.kid \in published \/ gone[t.kid] <= MaxStale + MaxFlight + req[r].age
      BY <1>4, <2>1 DEF SeenWithin
    <3> QED
      BY <1>1, <1>5, <3>1 DEF RevokedIsRefused
  <2>2. CASE mode # "Jwt"
    BY <1>1, <2>2 DEF RevokedIsRefused
  <2> QED
    BY <2>1, <2>2
<1>9. WritesHaveAuthority'
  <2>1. \/ \A f \in DOMAIN config : ~config[f]
        \/ t.type = "admin" /\ (config.admin_token \/ config.api_token)
        \/ t.type = "jwt" /\ config.jwks_url /\ (config.required_role => t.role)
    <3>1. CASE mode = "NoAuth"
      BY <3>1, ConfigIsTable, Modes
    <3>2. CASE mode = "ApiToken"
      BY <1>4, <3>2, ConfigIsTable, Modes
    <3>3. CASE mode = "Jwt"
      BY <1>4, <3>3, ConfigIsTable, Modes DEF Jwt
    <3> QED
      BY <1>2, <3>1, <3>2, <3>3
  <2> QED
    BY <1>1, <1>5, <2>1 DEF WritesHaveAuthority
<1>10. req' \in [Requests -> RequestState] /\ RequestsEntitled'
  BY <1>1, GoesOn DEF OpenPcs
<1> QED
  BY <1>1, <1>6, <1>7, <1>8, <1>9, <1>10, StillKeeps DEF ServedRightly

-----------------------------------------------------------------------------
LEMMA StepPreserves == IInv /\ [Next]_vars => IInv'
<1> SUFFICES ASSUME IInv, [Next]_vars PROVE IInv'
  OBVIOUS
<1>1. CASE UNCHANGED vars
  <2>1. UNCHANGED <<config, published, rotations, gone, answered, keys, stamp, task,
                    phase, owed, req, served>>
    BY <1>1 DEF vars, provider, cache, clock
  <2>2. Still /\ mode' = mode
    BY <2>1 DEF Still, provider, cache, clock, mode
  <2>3. req' \in [Requests -> RequestState] /\ served' \in Served \cup {None}
    BY <2>1 DEF IInv, TypeOK, RequestState
  <2>4. RequestsEntitled'
    BY <2>1, <2>2 DEF IInv, RequestsEntitled, Entitled, SeenWithin
  <2>5. ServedRightly'
    BY <2>1 DEF IInv, ServedRightly, RevokedIsRefused, FailsClosed, WritesHaveAuthority
  <2> QED
    BY <2>2, <2>3, <2>4, <2>5, StillKeeps
<1> QED
  BY <1>1, TickStep, RotateStep, RefreshSteps, ArriveStep, CheckAgeStep,
     LookupKeyStep, LoopStep, SubmitStep, EndStep DEF Next

(***************************************************************************)
(* The invariant holds in every reachable state, however requests, ticks,  *)
(* rotations and refreshes interleave (auth.rs).                           *)
(***************************************************************************)
THEOREM Invariance == Spec => []IInv
  BY Initial, StepPreserves, PTL DEF Spec

(***************************************************************************)
(* The cache, the refresh task, the requests and the connections of        *)
(* auth.rs and ws.rs keep their types; an answer of the provider is never  *)
(* under way for longer than MaxFlight.                                    *)
(***************************************************************************)
THEOREM TypeCorrect == Spec => []TypeOK
<1>1. IInv => TypeOK
  BY DEF IInv
<1> QED
  BY <1>1, Invariance, PTL

(***************************************************************************)
(* A withdrawn key is refused after the staleness limit and the time an    *)
(* answer takes; a connection that submits was granted the right within    *)
(* that time, and how long ago that is its deadline does not bound         *)
(* (get_key, refresh, has_write_auth, handle_socket).                      *)
(***************************************************************************)
THEOREM RevocationHolds == Spec => []RevokedIsRefused
<1>1. IInv => RevokedIsRefused
  BY DEF IInv, ServedRightly
<1> QED
  BY <1>1, Invariance, PTL

(***************************************************************************)
(* No JWT passes when the provider has been silent for longer than the     *)
(* staleness limit and the time an answer takes (get_key).                 *)
(***************************************************************************)
THEOREM ClosedWhenStale == Spec => []FailsClosed
<1>1. IInv => FailsClosed
  BY DEF IInv, ServedRightly
<1> QED
  BY <1>1, Invariance, PTL

(***************************************************************************)
(* Nothing is written without authority in any configuration that starts   *)
(* (from_config, require_auth, has_write_auth).                            *)
(***************************************************************************)
THEOREM AuthorityHolds == Spec => []WritesHaveAuthority
<1>1. IInv => WritesHaveAuthority
  BY DEF IInv, ServedRightly
<1> QED
  BY <1>1, Invariance, PTL

(***************************************************************************)
(* In every mode a connection may submit exactly when an HTTP write with   *)
(* the same header passes (require_auth, has_write_auth).                  *)
(***************************************************************************)
THEOREM ChecksAgree == Spec => []WsWritesAsHttp
<1>1. IInv => WsWritesAsHttp
  BY Decisions DEF WsWritesAsHttp
<1> QED
  BY <1>1, Invariance, PTL
=============================================================================

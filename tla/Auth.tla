-------------------------------- MODULE Auth --------------------------------
(***************************************************************************)
(* Authentication of requests (auth.rs): the mode chosen from the          *)
(* configuration at start-up, the middleware of the boards' routes (the    *)
(* webhook, health, metrics and docs routes do not pass it), the second    *)
(* check a WebSocket upgrade makes for score submissions, what becomes of  *)
(* the connection (ws.rs), and the cache of JWKS keys with the task that   *)
(* refreshes it.                                                           *)
(*                                                                         *)
(* The cache is two variables under two locks: refresh() writes the keys   *)
(* and then the time stamp, get_key() reads the stamp and then the keys,   *)
(* so each is two steps.  Time passes in ticks: an age counts the ticks    *)
(* since something happened and stops at AgeCap.  A tick does not fall     *)
(* between two statements with nothing but a short lock between them.      *)
(* Whatever waits for the network or a database takes any time: a fetch of *)
(* the keys, for the client sets no timeout, and an arm of a connection's  *)
(* select!, whose deadline is looked at between two arms only.             *)
(***************************************************************************)
EXTENDS Integers, FiniteSets

CONSTANTS Keys,          \* key ids (kid) the identity provider may publish
          Configs,       \* [auth] tables of the configuration file
          Requests,      \* requests and connections in flight
          Period,        \* ticks between two refreshes (3600 s)
          MaxStale,      \* JWKS_MAX_STALE_SECS (7200 s)
          WsTimeout,     \* ws_timeout_secs
          MaxFlight,     \* ticks an answer of the provider is under way
          MaxRotations,  \* changes of the published keys
          MaxOwed,       \* timer instants a waiting task is behind
          None           \* no key set, no token, nothing served

ASSUME AuthBounds ==
    /\ Period \in Nat \ {0} /\ MaxStale \in Nat /\ WsTimeout \in Nat
    /\ MaxFlight \in Nat /\ MaxRotations \in Nat /\ MaxOwed \in Nat \ {0}
    /\ IsFiniteSet(Keys) /\ Keys # {}

VARIABLES config,     \* the [auth] table the server was started with
          published,  \* the keys the provider serves now
          rotations,  \* changes of it so far
          gone,       \* gone[k]: age of k's removal from published
          keys,       \* JwksCache.keys
          stamp,      \* age of JwksCache.last_refresh
          answered,   \* age of the provider's last usable answer
          task,       \* the refresh task
          phase,      \* position of the interval timer in its period
          owed,       \* instants of the timer the task has not consumed
          req,        \* requests and WebSocket connections
          served      \* what the last step let through, or None

provider == <<published, rotations, gone, answered>>
cache    == <<keys, stamp>>
clock    == <<phase, owed>>
vars     == <<config, provider, cache, task, clock, req, served>>

\* Ages beyond this one are not told apart.
AgeCap   == MaxStale + MaxFlight + WsTimeout + 1
Age      == 0 .. AgeCap
Older(a) == IF a = AgeCap THEN a ELSE a + 1

\* The age of a connection: beyond its deadline all are alike.
WsAge      == 0 .. WsTimeout + 1
WsOlder(a) == IF a = WsTimeout + 1 THEN a ELSE a + 1

-----------------------------------------------------------------------------
\* The configuration and the mode it selects.

\* AuthConfig: which fields are set.  (Issuer and audience are part of the
\* validity of a JWT; a secret whose environment variable is missing stops
\* the start like any other refused configuration.)
AuthConfig == [jwks_url : BOOLEAN, admin_token : BOOLEAN, api_token : BOOLEAN,
               read_tokens : BOOLEAN, require_read_auth : BOOLEAN,
               required_role : BOOLEAN]

ASSUME ConfigsAreTables == Configs \subseteq AuthConfig

\* Mutant: a required role alone starts an open server.
FromConfigWithoutRole(c) ==
    LET admin == c.admin_token \/ c.api_token IN
    IF (c.admin_token /\ c.api_token) \/ (c.jwks_url /\ admin) THEN "refused"
    ELSE CASE c.jwks_url -> "Jwt"
           [] admin      -> "ApiToken"
           [] OTHER      -> IF c.read_tokens \/ c.require_read_auth
                            THEN "refused" ELSE "NoAuth"

\* AuthMode::from_config: "refused" is a start that fails.
FromConfig(c) ==
    LET admin == c.admin_token \/ c.api_token IN
    IF (c.admin_token /\ c.api_token) \/ (c.jwks_url /\ admin) THEN "refused"
    ELSE CASE c.jwks_url -> "Jwt"
           [] admin      -> "ApiToken"
           [] OTHER      -> IF c.read_tokens \/ c.require_read_auth \/ c.required_role
                            THEN "refused" ELSE "NoAuth"

mode == FromConfig(config)

\* What a request's Authorization header may carry.  Only a JWT names a key;
\* "other" is a string that is no configured token and no JWT with a kid.
Jwt    == [type : {"jwt"}, kid : Keys, role : BOOLEAN]
Opaque == [type : {"absent", "admin", "read", "other"}]
Token  == Jwt \cup Opaque

-----------------------------------------------------------------------------
Op == {"read", "write", "connect"}

\* A request is decided at the gate (the middleware); an upgrade is then
\* decided again for submissions ("grant").  "age" and "key" are the two
\* steps of get_key; a connection remembers write_authorized, and is as old as
\* its grant.
Idle == [pc |-> "idle"]
Validating == [pc : {"age", "key"}, at : {"gate", "grant"}, op : Op, token : Token]
\* A connection waits in select! ("open"), or is in one of its arms.
Open    == [pc : {"open", "scoring", "sending"}, token : Token,
            write_authorized : BOOLEAN, age : WsAge]
Closing == [pc |-> "closing"]
InArm   == {"scoring", "sending", "closing"}

\* The refresh task waits for the timer, waits for the provider, holds an
\* answer that is `flight' ticks old, or has made the first of its two writes.
Task == [pc : {"timer", "asking", "ended"}]
        \cup [pc : {"answer", "half"}, set : SUBSET Keys, flight : 0 .. MaxFlight]

\* age: the age of the connection that submits, 0 for a request.
Served == [op : Op \cup {"submit"}, token : Token, jwks : BOOLEAN, age : WsAge]

IsOpen(r) == req[r].pc \in {"open", "scoring", "sending"}

Connected(r) == IsOpen(r) \/ req[r] = Closing

TypeOK ==
    /\ config \in Configs
    /\ published \in SUBSET Keys /\ rotations \in 0 .. MaxRotations
    /\ gone \in [Keys -> Age] /\ answered \in Age
    /\ keys \in SUBSET Keys /\ stamp \in Age
    /\ task \in Task
    /\ phase \in 0 .. Period - 1 /\ owed \in 0 .. MaxOwed
    /\ req \in [Requests -> {Idle, Closing} \cup Validating \cup Open]
    /\ served \in Served \cup {None}

\* The server starts only with an accepted configuration; in Jwt mode new()
\* has fetched the keys before anything is served.
Init ==
    /\ config \in {c \in Configs : FromConfig(c) # "refused"}
    /\ published \in SUBSET Keys \ {{}} /\ rotations = 0
    /\ gone = [k \in Keys |-> AgeCap] /\ answered = 0
    /\ keys = published /\ stamp = 0
    /\ task = [pc |-> IF mode = "Jwt" THEN "timer" ELSE "ended"]
    /\ phase = 0 /\ owed = 0
    /\ req = [r \in Requests |-> Idle]
    /\ served = None

-----------------------------------------------------------------------------
\* Time and the identity provider.

\* Time waits for whatever takes less than a tick: the two halves of get_key
\* and the two halves of storing an answer.
Tick ==
    /\ task.pc # "half"
    /\ task.pc = "answer" => task.flight < MaxFlight
    /\ \A r \in Requests : req[r].pc # "key"
    /\ gone' = [k \in Keys |-> IF k \in published THEN gone[k] ELSE Older(gone[k])]
    /\ answered' = Older(answered)
    /\ stamp' = Older(stamp)
    /\ task' = IF task.pc = "answer" THEN [task EXCEPT !.flight = @ + 1] ELSE task
    /\ phase' = (phase + 1) % Period
    /\ owed' = IF phase' = 0 /\ owed < MaxOwed /\ mode = "Jwt" THEN owed + 1 ELSE owed
    /\ req' = [r \in Requests |->
                 IF IsOpen(r) THEN [req[r] EXCEPT !.age = WsOlder(@)] ELSE req[r]]
    /\ served' = None
    /\ UNCHANGED <<config, published, rotations, keys>>

\* The provider rotates its keys: any other set, also one with no usable key.
Rotate ==
    /\ mode = "Jwt" /\ rotations < MaxRotations
    /\ \E new \in SUBSET Keys \ {published} :
          /\ gone' = [k \in Keys |-> IF k \in published \ new THEN 0 ELSE gone[k]]
          /\ published' = new
    /\ rotations' = rotations + 1
    /\ served' = None
    /\ UNCHANGED <<config, answered, cache, task, clock, req>>

-----------------------------------------------------------------------------
\* The refresh task (spawn_refresh_task, refresh).

RefreshDue ==
    /\ task.pc = "timer" /\ owed > 0
    /\ owed' = owed - 1
    /\ task' = [pc |-> "asking"]
    /\ served' = None
    /\ UNCHANGED <<config, provider, cache, phase, req>>

\* Mutant: a failed refresh renews the stamp.
StampAfterFailure ==
    /\ task.pc = "asking"
    /\ task' = [pc |-> "timer"] /\ stamp' = 0
    /\ served' = None
    /\ UNCHANGED <<config, provider, keys, clock, req>>

\* Mutant: an error ends the loop.
EndAfterFailure ==
    /\ task.pc = "asking"
    /\ task' = [pc |-> "ended"]
    /\ served' = None
    /\ UNCHANGED <<config, provider, cache, clock, req>>

\* The request fails, or the answer is not a key set with a usable key: the
\* error is logged and the loop goes on.
RefreshFails ==
    /\ task.pc = "asking"
    /\ task' = [pc |-> "timer"]
    /\ served' = None
    /\ UNCHANGED <<config, provider, cache, clock, req>>

\* The provider answers with what it publishes now.
Answer ==
    /\ task.pc = "asking" /\ published # {}
    /\ task' = [pc |-> "answer", set |-> published, flight |-> 0]
    /\ answered' = 0
    /\ served' = None
    /\ UNCHANGED <<config, published, rotations, gone, cache, clock, req>>

\* Mutant: the stamp is written before the keys.
StampThenKeys(n) ==
    IF n = 1 THEN stamp' = 0 /\ keys' = keys ELSE keys' = task.set /\ stamp' = stamp

\* The two writes of a refresh: the keys, then the stamp.
Write(n) ==
    IF n = 1 THEN keys' = task.set /\ stamp' = stamp ELSE stamp' = 0 /\ keys' = keys

StoreFirst ==
    /\ task.pc = "answer" /\ Write(1)
    /\ task' = [task EXCEPT !.pc = "half"]
    /\ served' = None
    /\ UNCHANGED <<config, provider, clock, req>>

StoreSecond ==
    /\ task.pc = "half" /\ Write(2)
    /\ task' = [pc |-> "timer"]
    /\ served' = None
    /\ UNCHANGED <<config, provider, clock, req>>

-----------------------------------------------------------------------------
\* Deciding a request.

\* require_auth up to validate_jwt: "pass", "refuse", or "jwt" when the
\* token has to be validated against the cache.
Gate(op, t) ==
    LET is_read == op # "write"
        is_read_token == t.type = "read" /\ config.read_tokens IN
    IF mode = "NoAuth" \/ (is_read /\ ~config.require_read_auth) THEN "pass"
    ELSE CASE mode = "ApiToken" /\ t.type = "admin" -> "pass"
           [] mode = "Jwt" /\ t.type = "jwt"        -> "jwt"
           [] is_read_token /\ is_read              -> "pass"
           [] OTHER                                 -> "refuse"

\* has_write_auth, which decides again for the submissions of a connection.
Grant(t) ==
    CASE mode = "NoAuth"   -> "pass"
      [] mode = "ApiToken" -> IF t.type = "admin" THEN "pass" ELSE "refuse"
      [] mode = "Jwt"      -> IF t.type = "jwt" THEN "jwt" ELSE "refuse"

\* get_key's age check.
Stale == stamp > MaxStale

\* Where a decision leads.  A connection that passed the gate is opened
\* whatever Grant says, with or without the right to submit; the token of one
\* that may not is not told apart.
OpenWith(t, w) == [pc |-> "open", write_authorized |-> w, age |-> 0,
                   token |-> IF w THEN t ELSE [type |-> "absent"]]

AfterGrant(t, d) ==
    CASE d = "pass"   -> OpenWith(t, TRUE)
      [] d = "refuse" -> OpenWith(t, FALSE)
      [] d = "jwt"    -> [pc |-> "age", at |-> "grant", op |-> "connect", token |-> t]

Passed(r, op, t, jwks) ==
    /\ served' = [op |-> op, token |-> t, jwks |-> jwks, age |-> 0]
    /\ req' = [req EXCEPT ![r] =
                 IF op = "connect" THEN AfterGrant(t, Grant(t)) ELSE Idle]

Refused(r) == req' = [req EXCEPT ![r] = Idle] /\ served' = None

Arrive(r) ==
    /\ req[r].pc = "idle"
    /\ \E op \in Op, t \in Token :
          \/ Gate(op, t) = "pass" /\ Passed(r, op, t, FALSE)
          \/ Gate(op, t) = "refuse" /\ Refused(r)
          \/ /\ Gate(op, t) = "jwt"
             /\ req' = [req EXCEPT ![r] = [pc |-> "age", at |-> "gate",
                                           op |-> op, token |-> t]]
             /\ served' = None
    /\ UNCHANGED <<config, provider, cache, task, clock>>

\* validate_jwt has failed: at the gate the request is refused, at the grant
\* the connection may not submit.
Fails(r) ==
    \/ req[r].at = "gate" /\ Refused(r)
    \/ /\ req[r].at = "grant"
       /\ req' = [req EXCEPT ![r] = OpenWith(req[r].token, FALSE)]
       /\ served' = None

\* get_key, first half: the stamp.
CheckAge(r) ==
    /\ req[r].pc = "age"
    /\ \/ Stale /\ Fails(r)
       \/ ~Stale /\ req' = [req EXCEPT ![r].pc = "key"] /\ served' = None
    /\ UNCHANGED <<config, provider, cache, task, clock>>

\* get_key, second half, and the rest of validate_jwt.  `sound' stands for
\* the algorithm, the signature, exp, nbf and, where configured, iss and aud.
\* The role is asked for writes only, and for a grant.
LookupKey(r) ==
    LET t == req[r].token
        needs_role == config.required_role /\ (req[r].at = "grant" \/ req[r].op = "write")
    IN
    /\ req[r].pc = "key"
    /\ \E sound \in BOOLEAN :
          \/ /\ t.kid \in keys /\ sound /\ (needs_role => t.role)
             /\ \/ req[r].at = "gate" /\ Passed(r, req[r].op, t, TRUE)
                \/ /\ req[r].at = "grant"
                   /\ req' = [req EXCEPT ![r] = OpenWith(t, TRUE)]
                   /\ served' = None
          \/ ~(t.kid \in keys /\ sound /\ (needs_role => t.role)) /\ Fails(r)
    /\ UNCHANGED <<config, provider, cache, task, clock>>

\* The connection (handle_socket).  Each pass of the loop takes one branch of
\* the select! that is ready, whichever; until its arm has ended no other
\* branch is looked at, the deadline included.

Becomes(r, q) ==
    /\ req' = [req EXCEPT ![r] = q]
    /\ served' = None
    /\ UNCHANGED <<config, provider, cache, task, clock>>

Goes(r, pc) == Becomes(r, [req[r] EXCEPT !.pc = pc])

\* A message or an event, also when the deadline has come.
TakeMessage(r) == req[r].pc = "open" /\ Goes(r, "scoring")

TakeEvent(r) == req[r].pc = "open" /\ Goes(r, "sending")

\* try_process_score looks at write_authorized only.
Submit(r) ==
    /\ req[r].pc = "scoring" /\ req[r].write_authorized
    /\ req' = [req EXCEPT ![r].pc = "sending"]
    /\ served' = [op |-> "submit", token |-> req[r].token, jwks |-> mode = "Jwt",
                  age |-> req[r].age]
    /\ UNCHANGED <<config, provider, cache, task, clock>>

\* Not authorized, not a score, no such board, an error of a store.
NoSubmit(r) == req[r].pc = "scoring" /\ Goes(r, "sending")

\* Mutant: the sleep is made anew in every pass of the loop.
SentAndSleepAnew(r) ==
    /\ req[r].pc = "sending"
    /\ Becomes(r, [req[r] EXCEPT !.pc = "open", !.age = 0])

Sent(r) == req[r].pc = "sending" /\ Goes(r, "open")

\* The deadline is the same sleep in every pass.
Deadline(r) == req[r].pc = "open" /\ req[r].age >= WsTimeout /\ Becomes(r, Closing)

\* The client closes, a send fails, or the Close frame has been sent.
Close(r) ==
    /\ req[r].pc \in {"open", "sending", "closing"}
    /\ Becomes(r, Idle)

-----------------------------------------------------------------------------
Next ==
    \/ Tick \/ Rotate
    \/ RefreshDue \/ RefreshFails \/ Answer \/ StoreFirst \/ StoreSecond
    \/ \E r \in Requests :
          \/ Arrive(r) \/ CheckAge(r) \/ LookupKey(r)
          \/ TakeMessage(r) \/ TakeEvent(r) \/ Submit(r) \/ NoSubmit(r) \/ Sent(r)
          \/ Deadline(r) \/ Close(r)

\* Time passes and the runtime runs the task and the requests.  select! looks
\* at its branches in a random order, so a deadline that is there again and
\* again is taken.  Nothing makes the provider answer a fetch, fail it or end
\* it, and nothing makes an arm of a connection end.
Fairness ==
    /\ SF_vars(Tick)
    /\ WF_vars(RefreshDue) /\ WF_vars(StoreFirst) /\ WF_vars(StoreSecond)
    /\ \A r \in Requests :
          WF_vars(CheckAge(r)) /\ WF_vars(LookupKey(r)) /\ SF_vars(Deadline(r))

Spec == Init /\ [][Next]_vars /\ Fairness

-----------------------------------------------------------------------------
(***************************************************************************)
(* A token signed with a key the provider has withdrawn is refused once    *)
(* the key has been gone for MaxStale ticks and the time an answer takes:  *)
(* whatever refreshes fail, hang or overlap a request, the keys get_key    *)
(* reads are never older than the stamp it checked.  A connection submits  *)
(* by the decision of its upgrade, which is as old as the connection is.   *)
(* ws_timeout_secs is no bound on that age: an arm of the select! that     *)
(* takes long outlives it, and of a connection beyond its deadline this    *)
(* says no more than ConnectionsEnd.                                       *)
(***************************************************************************)
RevokedIsRefused ==
    (served # None /\ served.jwks) =>
        \/ served.token.kid \in published
        \/ gone[served.token.kid] <= MaxStale + MaxFlight + served.age

(***************************************************************************)
(* A connection that does not stay in one arm of its loop for ever ends,   *)
(* however busy it is: the deadline is one sleep, polled in every pass,    *)
(* and not a silence (handle_socket).                                      *)
(***************************************************************************)
ConnectionsEnd ==
    \A r \in Requests : \/ <>[](req[r].pc \in InArm)
                         \/ []<>~Connected(r)

(***************************************************************************)
(* "If refresh has been failing for longer than this, reject all JWTs":    *)
(* no request passes on a JWT when the provider's last usable answer is    *)
(* older than MaxStale and the time it took to arrive.                     *)
(***************************************************************************)
FailsClosed ==
    (served # None /\ served.jwks /\ served.op # "submit") =>
        answered <= MaxStale + MaxFlight

(***************************************************************************)
(* The two separately written checks agree: a connection may submit scores *)
(* exactly when an HTTP write with the same header passes.                 *)
(***************************************************************************)
WsWritesAsHttp == \A t \in Token : Grant(t) = Gate("write", t)

(***************************************************************************)
(* Nothing is written without authority once any credential is configured: *)
(* every accepted write or submission carries the admin token, or a JWT    *)
(* with the role if one is required; a configuration that names a          *)
(* credential or asks for one never yields an open server.                 *)
(***************************************************************************)
WritesHaveAuthority ==
    (served # None /\ served.op \in {"write", "submit"}) =>
        \/ \A f \in DOMAIN config : ~config[f]
        \/ served.token.type = "admin" /\ (config.admin_token \/ config.api_token)
        \/ /\ served.token.type = "jwt" /\ config.jwks_url
           /\ config.required_role => served.token.role

(***************************************************************************)
(* The cache recovers from failures and picks up rotations: again and      *)
(* again it holds exactly the published keys and is not stale, unless the  *)
(* provider has stopped publishing usable keys.  Otherwise the loop is     *)
(* still asking and gets no usable answer any more: every fetch fails, or  *)
(* one hangs, which nothing ends (reqwest::Client::new() has no timeout).  *)
(***************************************************************************)
CacheRecovers ==
    mode = "Jwt" =>
        \/ []<>(published = {} \/ (keys = published /\ ~Stale))
        \/ []<>(task.pc = "asking") /\ <>[](task.pc # "answer")
=============================================================================

------------------------------ MODULE Shutdown ------------------------------
(***************************************************************************)
(* The end of the server and the background work it waits for.  On SIGTERM *)
(* or ^C axum accepts no more connections and waits for those it has; then *)
(* the task tracker is closed and serve waits until it is empty, at most   *)
(* shutdown_timeout_secs if that is not 0; then the process exits and what *)
(* still runs is dropped.                                                  *)
(*                                                                         *)
(* The tracker holds the deliveries of outbound webhooks, the syncs of     *)
(* inbound ones (which fire deliveries when they end) and, in JWT mode,    *)
(* the loop that refreshes the JWKS.                                       *)
(***************************************************************************)
EXTENDS Naturals, FiniteSets

CONSTANTS
    Clients,        \* connections clients may open
    Streams,        \* those of them that are event streams
    Jobs            \* background jobs the server may start

ASSUME ShutdownAssumption == Streams \subseteq Clients

(* What the server is configured with: is there a JWKS to refresh, is      *)
(* shutdown_timeout_secs greater than 0, is sse_timeout_secs?              *)
Configs == [jwt : BOOLEAN, timeout : BOOLEAN, deadline : BOOLEAN]

VARIABLES
    config,     \* what the server was started with
    phase,      \* of serve: serving, closing, draining, stopped
    conn,       \* per client: none, open or closed
    job,        \* per job: its kind, where it is, the attempts it has made
    tracked,    \* the jobs the tracker waits for
    jwks,       \* the refresh loop: none, waiting for its hour, or refreshing
    timedOut    \* did serve stop waiting for the tracker?

serveVars == <<config, phase, conn, job, tracked, jwks, timedOut>>

Attempts == 3

Idle == [kind |-> "none", pc |-> "none", attempt |-> 0]

Running(j) == job[j].pc \in {"sync", "announced", "sending", "sleeping"}

Open == {c \in Clients : conn[c] = "open"}

ServeInit ==
    /\ config \in Configs
    /\ phase = "serving"
    /\ conn = [c \in Clients |-> "none"]
    /\ job = [j \in Jobs |-> Idle]
    /\ tracked = {}
    /\ jwks = IF config.jwt THEN "waiting" ELSE "none"
    /\ timedOut = FALSE

Alive == phase # "stopped"

-----------------------------------------------------------------------------
(* Background jobs.                                                        *)

(* Mutant: fire without its tracker, as the command line calls it.         *)
NotTracking(j) == tracked

(* task_tracker.spawn                                                      *)
Tracking(j) == tracked \cup {j}

Delivery == [kind |-> "delivery", pc |-> "sending", attempt |-> 1]

SyncTask == [kind |-> "sync", pc |-> "sync", attempt |-> 0]

Ends(j, how) ==
    /\ job' = [job EXCEPT ![j].pc = how]
    /\ tracked' = tracked \ {j}
    /\ UNCHANGED <<config, phase, conn, jwks, timedOut>>

(* The endpoint answers 2xx, or 4xx, which is not tried again.             *)
Answered(j) ==
    /\ Alive /\ job[j].pc = "sending"
    /\ \E answer \in {"delivered", "refused"} : Ends(j, answer)

Exhausted(j) ==
    /\ Alive /\ job[j].pc = "sending" /\ job[j].attempt = Attempts
    /\ Ends(j, "exhausted")

(* Another status, an error, or no answer in 10 seconds: back off.         *)
Backoff(j) ==
    /\ Alive /\ job[j].pc = "sending" /\ job[j].attempt < Attempts
    /\ job' = [job EXCEPT ![j].pc = "sleeping"]
    /\ UNCHANGED <<config, phase, conn, tracked, jwks, timedOut>>

Retry(j) ==
    /\ Alive /\ job[j].pc = "sleeping"
    /\ job' = [job EXCEPT ![j].pc = "sending", ![j].attempt = @ + 1]
    /\ UNCHANGED <<config, phase, conn, tracked, jwks, timedOut>>

(* run_sync has a new version and fires a delivery from within its task.   *)
SyncFires(j, d) ==
    /\ Alive /\ job[j].pc = "sync" /\ job[d] = Idle
    /\ job' = [job EXCEPT ![j].pc = "announced", ![d] = Delivery]
    /\ tracked' = Tracking(d)
    /\ UNCHANGED <<config, phase, conn, jwks, timedOut>>

(* run_sync returns (PushSync), with a new version or without.             *)
SyncEnds(j) ==
    /\ Alive /\ job[j].pc \in {"sync", "announced"}
    /\ Ends(j, "synced")

(* The loop has no end: a refresh, failed or not, and then an hour's wait. *)
RefreshJwks ==
    /\ Alive
    /\ \/ jwks = "waiting" /\ jwks' = "refreshing"
       \/ jwks = "refreshing" /\ jwks' = "waiting"
    /\ UNCHANGED <<config, phase, conn, job, tracked, timedOut>>

-----------------------------------------------------------------------------
(* Connections.                                                            *)

Connect(c) ==
    /\ phase = "serving" /\ conn[c] = "none"
    /\ conn' = [conn EXCEPT ![c] = "open"]
    /\ UNCHANGED <<config, phase, job, tracked, jwks, timedOut>>

(* A handler answers.  It may have fired a delivery, or queued a sync, on the way. *)
Respond(c) ==
    /\ Alive /\ c \in Open \ Streams
    /\ conn' = [conn EXCEPT ![c] = "closed"]
    /\ \/ UNCHANGED <<job, tracked>>
       \/ \E j \in Jobs, new \in {Delivery, SyncTask} :
             /\ job[j] = Idle
             /\ job' = [job EXCEPT ![j] = new]
             /\ tracked' = Tracking(j)
    /\ UNCHANGED <<config, phase, jwks, timedOut>>

(* A stream ends when its client leaves it or its own deadline has passed. *)
StreamEnds(c) ==
    /\ Alive /\ c \in Open \cap Streams
    /\ conn' = [conn EXCEPT ![c] = "closed"]
    /\ UNCHANGED <<config, phase, job, tracked, jwks, timedOut>>

-----------------------------------------------------------------------------
(* serve.                                                                  *)

ShutdownSignal ==
    /\ phase = "serving"
    /\ phase' = "closing"
    /\ UNCHANGED <<config, conn, job, tracked, jwks, timedOut>>

(* axum::serve returns when every connection is closed; the tracker is closed. *)
CloseTracker ==
    /\ phase = "closing" /\ Open = {}
    /\ phase' = "draining"
    /\ UNCHANGED <<config, conn, job, tracked, jwks, timedOut>>

(* task_tracker.wait() returns.                                            *)
Drained ==
    /\ phase = "draining" /\ tracked = {} /\ jwks = "none"
    /\ phase' = "stopped"
    /\ UNCHANGED <<config, conn, job, tracked, jwks, timedOut>>

(* Mutant: the timeout is looked at when the tracker is empty.             *)
TimesOutWhenDrained ==
    /\ config.timeout /\ phase = "draining" /\ tracked = {} /\ jwks = "none"
    /\ phase' = "stopped" /\ timedOut' = TRUE
    /\ UNCHANGED <<config, conn, job, tracked, jwks>>

TimesOut ==
    /\ config.timeout /\ phase = "draining"
    /\ phase' = "stopped" /\ timedOut' = TRUE
    /\ UNCHANGED <<config, conn, job, tracked, jwks>>

Job(j) == Answered(j) \/ Exhausted(j) \/ Backoff(j) \/ Retry(j) \/ SyncEnds(j)

Serve == CloseTracker \/ Drained \/ TimesOut

ServeNext ==
    \/ ShutdownSignal \/ Serve \/ RefreshJwks
    \/ \E c \in Clients : Connect(c) \/ Respond(c) \/ StreamEnds(c)
    \/ \E j \in Jobs : Job(j) \/ \E d \in Jobs : SyncFires(j, d)

(* Handlers answer, requests to endpoints end within their 10 seconds, and *)
(* serve goes on.  A stream's client need not leave, the deadline is sure. *)
ServeSpec ==
    /\ ServeInit /\ [][ServeNext]_serveVars
    /\ WF_serveVars(Serve) /\ WF_serveVars(RefreshJwks)
    /\ \A c \in Clients : WF_serveVars(Respond(c)) /\ WF_serveVars(config.deadline /\ StreamEnds(c))
    /\ \A j \in Jobs : WF_serveVars(Job(j))

-----------------------------------------------------------------------------
(* Every variable has its type; a delivery is attempted at most 3 times.   *)
ServeTypeOK ==
    /\ config \in Configs
    /\ phase \in {"serving", "closing", "draining", "stopped"}
    /\ conn \in [Clients -> {"none", "open", "closed"}]
    /\ job \in [Jobs -> [kind : {"none", "delivery", "sync"},
                         pc : {"none", "sync", "announced", "synced", "sending", "sleeping",
                               "delivered", "refused", "exhausted"},
                         attempt : 0..Attempts]]
    /\ tracked \in SUBSET Jobs
    /\ jwks \in {"none", "waiting", "refreshing"}
    /\ timedOut \in BOOLEAN

(* A server that stops without running into its timeout drops no delivery, *)
(* not even one a sync has fired while the tracker was draining.           *)
NothingLeftBehind ==
    phase = "stopped" /\ ~timedOut => \A j \in Jobs : ~Running(j)

(* After the signal the server stops, though endpoints may never answer,   *)
(* if streams have a deadline and the endless refresh loop a timeout.      *)
ShutdownEnds ==
    phase = "closing" /\ (Streams = {} \/ config.deadline) /\ (~config.jwt \/ config.timeout)
        ~> phase = "stopped"
=============================================================================

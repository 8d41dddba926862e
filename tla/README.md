# Riley Leaderboards: specifications

TLA+ models of the leaderboard service, the TLC runs that check them on small
instances, and TLAPS proofs for instances of any size. Paths are relative to
`crates/` (`core` is `riley-leaderboards-core/src`, `api` is
`riley-leaderboards-api/src`, `cli` is `riley-leaderboards-cli/src`). `PROJECT.json` maps every definition to the lines
it models.

## The system

A board holds entries; a version is an immutable list of placements of entries.
Three ways lead to a version: a client sends placements, a snapshot freezes
accumulated scores, or a sync reads files. Clients poll for versions or are
pushed events.

| Component | State | Operations | Interacts with | What is hard |
|---|---|---|---|---|
| versions, boards, entries (`core/repo`) | Postgres: boards, entries, versions, placements | create, PATCH, delete, number, rank, poll with `since` | row locks, cascades | requests at once: numbering, limits, stale copies, cascades, deadlock |
| accumulated scores (`repo/scores.rs`) | Postgres: one score per entry | submit, snapshot | versions | a snapshot among submissions and deletions |
| realtime scores (`repo/realtime.rs`) | Redis: sorted set and names, by slug | submit, snapshot, clear | versions, entries | two stores without a common transaction |
| ranking (`repo/versions.rs`) | none | validate, derive positions, diff | all of the above, sync, import | ties, absent values, two comparisons that should agree |
| file sync (`core/sync`) | files, database | create or update board, entries, version | webhook, command line | a series of transactions that may stop anywhere |
| GitHub webhook (`api/routes/webhooks.rs`) | clone, mutex, background tasks | accept, fetch, reset, sync, announce | git, sync, event bus | deliveries in any order, git that fails or hangs |
| event bus (`api/sse.rs`, `api/ws.rs`) | channels, connection counter, debounce times | subscribe, publish, prune, drop | routes, clients | threads between an atomic and a lock |
| outbound webhooks, shutdown (`api/outbound_webhooks.rs`, `api/lib.rs`) | deliveries, task tracker, connections | fire, retry, drain | routes, webhook, JWKS | everything that must end before the process does |
| export, import (`repo/export.rs`) | a file | export, import | ranking | three reads without a transaction; versions older than the board's configuration |
| auth, JWKS (`api/auth.rs`) | mode, key cache and its time stamp, write right of open WebSockets | refresh, decide a request, decide an upgrade, serve the connection | the boards' routes, identity provider | two locks, refreshes that fail or hang, keys that are withdrawn, connections that outlive their deadline |
| collections, references (`repo/collections.rs`, `repo/references.rs`) | rows that point at boards and versions | create, PATCH, delete, add, remove | boards, versions | ids resolved by one statement and used by another |
| pagination (`list_paginated` of five tables) | the client's cursor | page | every writer | rows with equal times, rows that commit late, deletions |
| configuration, command line | values | start, sync | all | little |

## Modules

`Ranking` has operators only. `Store`, `Sync` and `Transfer` extend it; `Store`
implements `VersionLog`. `Realtime`, `EventBus`, `PushSync`, `Shutdown`, `Auth`,
`Catalog` and `Paging` stand alone; where one uses another's operation it takes it as one step and says so
(`PushSync` a sync, `Shutdown` a push task and the refresh loop, `Realtime` the
statements of `Store`, `Catalog` and `Transfer` the calls that write boards and
versions). Every `MC` module only gives constants to the module it is named after.

### Ranking

`ValidPlacements`, `DeriveScoredPositions` (the window function of
`derive_scored_positions`), `Diff` and `PlacementsChanged` (the comparison a sync
makes) are translated from `repo/versions.rs` and `sync/execute.rs`. Slugs and
tiers are model values, scores small integers or `NotFinite`.

### Store

One board and its rows. A handler is a request; an action is one statement of a
repository function. Row locks are modelled as Postgres takes them (FOR UPDATE,
FOR NO KEY UPDATE, FOR KEY SHARE), a handler's writes become visible at commit,
and a request may be dropped between any two statements. `received` is a client
that polls with `since`. `VersionLog` is what readers are promised: an
append-only log, and a reader that receives it without a gap; deleting the board
discards both.

### Realtime

A board whose scores are in Redis: one action per command or statement, each of
which may fail. `issued`, `owed` and `dropped` are a ledger of what clients
submitted and what requests took from Redis without saving it; no action's guard
depends on them except for the bound. `SteadySpec` leaves failures and deletions
out, to show what is lost without any.

### Sync

`sync_board`, transaction by transaction, by two syncers that may be stopped
anywhere. What the files say is a record, any of `Files` when a sync starts,
since commits come in between; TOML is not modelled. `steady` records whether
syncs have so far run one at a time and come to their lists, and is read by no
guard.

### PushSync

Background tasks of accepted pushes. A commit is the number of its push. A git
command is a process of its own that takes effect when it ends; after
`GitTimesOut` the process goes on without its task, and `hung` records that it
happened. The mutex is a queue, as tokio's is. A directory that cannot be listed
fails the task (`SyncFails`); a board that does not parse, or whose sync fails, does
not (`BoardFails`): the task goes on and reports completion, and the field `missed`,
which no guard reads, keeps what the code only logs.

### EventBus

Connections and publishers on several threads: one action per atomic instruction
or section under the RwLock. A receiver is a bounded queue that drops its oldest
event. A request commits a version and then publishes it, and may end in between:
dropped while the COMMIT is awaited or a snapshot's keys are deleted, or told of an
error by a COMMIT that took effect (`LosePublisher`). The command line commits
versions in a process without the bus (`CommitElsewhere`). `silent` has the versions
of both; `since`, `heard` and `lagged` record what clients saw; no guard reads any of
them.

### Shutdown

`serve` after the signal: connections, then the tracker, then the exit. Deliveries
have their three attempts, syncs fire deliveries while the tracker drains, the
JWKS loop is what the tracker also waits for. `config`, chosen at the start, is
whether there is a JWKS, a shutdown timeout and a deadline for streams. WebSockets are not among the
connections: after the upgrade axum no longer waits for them.

### Transfer

A board that is written, patched, deleted, exported and imported. It is where the
algorithms of `Ranking` are compared with reference definitions. An export is its
three statements (`ExportBoard`, `ExportVersions`, `ExportPlacements`), with the
other calls between them; `reader` has what they have seen.

### Auth

`FromConfig` is `AuthMode::from_config` on which fields of `[auth]` are set, and
`Gate` and `Grant` are the two places where a token is judged: the middleware of the
boards' routes (the webhook, health, metrics and docs routes do not pass it), and
`has_write_auth` for the submissions of a WebSocket. A JWT is a key id and whether
it has the role; its signature and its other claims are one Boolean. The cache is
two variables, since the code has a lock for each: a refresh writes keys and stamp
in two steps and `get_key` reads stamp and keys in two. The identity provider
changes its keys; requests to it fail, are stored up to `MaxFlight` ticks after it
answered, or hang for ever. A connection is the loop of `handle_socket`: at the
`select!` ("open") it takes any branch that is ready, a message or an event also when
its deadline has come, and in an arm ("scoring", "sending", "closing") it looks at no
other branch and time passes without a bound. Instants are ages in ticks, capped at `AgeCap`. `gone` and `answered` are
ages of what the provider did and are read by no guard; `served` is what the last
step let through.

### Catalog

The statements of requests on collections and references. A request keeps the ids
it has resolved while boards and collections are deleted (with their cascades) and
others take their slugs; rows and foreign keys are checked at its last statement.
Names and metadata are values, so that a PATCH that does not mention a field can
be told from one that does. `display_order` and the texts of a reference are left
out.

### Paging

The one query of the five `list_paginated`, in either direction, on one table
among writing transactions. `created_at` is the start of a transaction, so rows of
one are equal in it and rows become visible late; ids break the tie and come in no
order. The client follows `next_cursor` with a new `limit` for each page; `got`,
`page` and `steady` record what it has seen and what it is owed. Cursors are
keys of rows: that a client sends text that is no cursor is left out (400).

## Runs

All bounds are constants of a cfg; the ones that only bound the search are marked
"bound" where they are declared. `tlc -workers 2 -config <cfg> <module>`.

| Run | Shows |
|---|---|
| `store_direct` | with two requests at a time, numbers are contiguous, the limit holds, placements keep their entries, versions follow the configuration at their commit, PATCHes do not overwrite each other, `VersionLog` is implemented |
| `store_scores` | on a board that accumulates scores, later snapshots have at least what earlier ones had, and no request waits for ever |
| `realtime_all` | with three requests at a time, snapshots that keep the scores advance, a submission enters at most one version of those that clear, and what gets lost was taken by a request that failed, was rejected or deleted the board |
| `sync_all` | after a success the latest version has the content of the files, whatever was stopped or raced before; while `steady` also the ranking, and no version twice |
| `transfer_all` | diff, positions, the comparison of the sync and import agree with their reference definitions on each board type; an export never has a part of a version, and one that met the deletion of its board is not imported |
| `bus_all` | a client that does not lag misses no version but those that no request lived to publish, scores keep their distance, slots are accounted for and limited |
| `push_all` | pushes in any order only advance the database while git answers in time, are announced in order, a success without a failed or skipped board means the push is there, every task ends although git hangs |
| `shutdown_all` | in every configuration an exit without timeout leaves nothing behind, and the server stops unless streams have no deadline, or there is a JWKS and no timeout |
| `auth_all` | a withdrawn key is refused after the staleness limit, and the submissions of a connection by the age of the connection later; no JWT passes when the provider has been silent for longer; nothing is written, by a request or by a connection, without authority in any configuration that starts, the cache recovers unless usable answers stop coming, and a connection that is not held up in one arm ends at its deadline |
| `catalog_all` | a reference pins a version of its own board, a membership has its board and its collection, PATCHes of a collection keep each other's fields |
| `paging_all` | a client that follows the cursors gets every row that was there all the time, in order and none twice, and comes to an end |

Two requests reach every race of two; three are used where a holder and two
waiters matter (`realtime_all`, `bus_all`, `push_all`). Two versions suffice for
what relates an earlier and a later one, two entries for a rank, two board ids
for deletion and recreation. `bus_all` has three clients for two slots and a
buffer that one version and two scores overflow; its one version is published, lost by
its request, or committed elsewhere (several at once are left to `NoneMissed`). In `auth_all` a tick is an hour:
the stamp of the cache is compared with two of them, a refresh is due at each, and
an answer may be one old when it is stored; two keys and two rotations suffice for
a key that goes and comes back. One request is enough there, since requests only
read the cache. `paging_all` has four rows, so that there are three pages and a
tie across a page's end, and limits of 0, of the default, and above the maximum.
In `catalog_all` two boards and two collections exist at once or one after the
other under the same slug. Symmetry is used on handlers,
board ids, syncers, connections and publishers, in `catalog_all` on all ids, slugs
and values, and in no run with a liveness property. Deadlock is checked except in `push_all` and `shutdown_all`, where
the system comes to its end.

Fairness. `store_scores`: strong fairness of each request's steps, since Postgres
serves a row's waiters in order and detects deadlocks. `push_all`: weak fairness
of a task until it ends, since tokio polls it and each git command ends or times
out; none for GitHub or for a git process nobody waits for. `shutdown_all`: weak
fairness of handlers, of each delivery (a request has a timeout of 10 s), of
`serve`, of the refresh loop, and of streams only when `sse_timeout_secs` gives
them a deadline. `auth_all`: time passes (strong, since it waits for short steps),
the refresh task and the requests run, and a deadline that a connection's loop comes
to again and again is taken (strong, since `select!` polls its branches in a random
order). Nothing is assumed of the provider or of an arm of the loop: reqwest and
axum are given no timeout, so a fetch or a send may hang for ever.
`paging_all`: the client asks for the next page while there is one.

### Where code and documents disagree

This run ends in a counterexample; `PROJECT.json` quotes both sides.

| Run | Property | Counterexample |
|---|---|---|
| `realtime_rejected` | `NoScoreLost` | a clearing snapshot that a limit rejects deletes the scores it took, though nothing failed (`SteadySpec`) |

Disagreements without a run of their own. The models have these behaviours, and
the properties above are stated so that they hold with them:

- A sync that stops after updating the board row, or finds no entries that time,
  never makes the version the change calls for: the next one finds the row as the
  files want it (`core/sync/execute.rs:169`; `:133` "sort_direction and tier_config
  affect ranking — force a new version"). `RankingIsSynced` is stated while no sync
  stops (`steady`).
- Import derives the positions of every version from the direction the board has
  now, so versions ranked before a change of `sort_direction` come back reversed
  (`core/repo/export.rs:329`; `README.md:15` "every state is a version, nothing is
  overwritten"). `ImportKeepsVersions` excepts them.
- `shutdown_timeout_secs` bounds only the drain after `axum::serve` has returned,
  which waits for open connections, streams included (`api/lib.rs:281`;
  `core/config.rs:167` "Graceful shutdown timeout in seconds. 0 = wait
  indefinitely"). `ShutdownEnds` asks for a deadline of the streams.
- An export that meets the deletion of its board has versions without placements
  (`core/repo/export.rs:98`; `:87` "all its versions with placements"). Such a file
  is refused by import, so nothing is lost silently.
- Two snapshots that clear may commit in the other order than they took the
  scores, since RENAME precedes the lock (`core/repo/realtime.rs:209`; `:233`
  "Lock the board row to serialize concurrent snapshots").
- An entry may be deleted while Redis has, or is about to get, a score of it
  (`core/repo/entries.rs:172`; `realtime.rs:24` "so entry_id exists for
  snapshots"); the next snapshot fails on it.
- A scored board whose file gives positions that are not the derived ones gets a
  version on every sync, since the two are compared (`core/sync/execute.rs:340`;
  `DESIGN.md:19` "no new version is created"). `NoRepeatedVersion` excepts files that
  give the positions of a scored board. Taking the positions out of a tiered
  board's file is not noticed (`:353`).
- A changed `sort_direction` on an ordered board makes its sync fail
  (`core/repo/boards.rs:158`; `DESIGN.md:11` "succeeds silently").
- Import refuses an export whose old versions use a tier that the board has since
  lost (`core/repo/export.rs:196`).
- The gauge of connections is set after the counter changed, by two connections in
  either order, and may stay wrong (`api/sse.rs:100`; `README.md:21`).
- Pruning a channel forgets the time of its last score, so the next subscriber may
  get one sooner than the interval (`api/sse.rs:172`; `config.rs:152` "Minimum
  interval (ms) between score.updated SSE events per board").
- A git command that timed out runs beside the next task's, since the child is not
  killed (`api/routes/webhooks.rs:220`; `lib.rs:29` "to prevent concurrent git
  operations").
- A version may have the message of an earlier commit than the one it was made
  from (`webhooks.rs:167`).
- The JWKS loop is tracked and never ends, so an idle server in JWT mode always
  runs into its timeout, and without one never stops (`api/auth.rs:255`; `:120`
  "so tasks participate in graceful shutdown").
- The version of a request that is dropped between its commit and `publish_version`
  (`core/repo/realtime.rs:360` awaits Redis there), or whose COMMIT reports an error
  after it took effect (`core/repo/versions.rs:150`), is announced to nobody, nor is
  one of the command line (`cli/main.rs:171`; `api/sse.rs:105` "always sent, no
  debouncing"). `NoVersionMissed` says that nothing else is missed.
- A webhook sync logs that it completed although a board was skipped
  (`core/sync/parse.rs:119`) or failed (`core/sync/execute.rs:54`): `run_sync` passes
  over `SyncAction::Failed` (`webhooks.rs:310`, `:314` "webhook sync completed").
  `PushIsSynced` is about tasks without such a board.
- `ws_timeout_secs` does not bound a connection (`api/ws.rs:95`; `core/config.rs:164`
  "WebSocket connection timeout in seconds"): the sleep is polled only between two
  arms, whose awaits have no bound, and another branch that is ready may be taken
  first. So neither is the age of its right to submit bounded. `RevokedIsRefused` is
  stated with the age of the connection, and `ConnectionsEnd` for those that come back
  to the `select!`.
- A JWKS fetch that hangs blocks the refresh loop for ever, since the client has no
  timeout (`api/auth.rs:182`, `:257`; `:248` "refreshes the JWKS every 60 minutes");
  after two hours every JWT is refused (`FailsClosed`), also when the provider is well
  again. `CacheRecovers` has this as its second case. That an answer which does come
  is stored within `MaxFlight` is an assumption on the network as well.
- Deliveries are attempted up to three times (`api/outbound_webhooks.rs:149`;
  `DESIGN.md:31` "logged but not retried").

Seen while reading, outside the models: an `[auth]` table with `expected_issuer` or
`expected_audience` and no mechanism starts an open server (`api/auth.rs:101` looks
at three other fields; `WritesHaveAuthority` is about those); the pages of versions
are ordered by `created_at`, the start of a transaction, which need not follow the
version number (`core/repo/versions.rs:191`, `:160` has the number); the event of a
version is published after its transaction has released the lock, so two may come in
the other order (`api/routes/versions.rs:93`), and the last score of a burst is
debounced without a trailing event (`api/sse.rs:147`); `DESIGN.md` says that syncs do not fire
`board.created` (`run_sync` and the command line do), that JWKS keys are RSA only
(EC and EdDSA are parsed), that there is no SSE timeout (there is one), and that
the command line may lose deliveries (it joins them). A list in a file that names
an entry twice is rejected when it would create a version but can be reported as
"no change" when the count of placements agrees; `ContentIsSynced` leaves such
lists out.

## Proofs

`tlapm <module>.tla` on `RankingProofs`, `StoreProofs`, `EventBusProofs`,
`RealtimeProofs`, `SyncProofs`, `TransferProofs`, `AuthProofs` and `ServerProofs`
(`PushSync`, `Shutdown`, `Paging` and `Catalog`): every obligation is proved. The theorems hold for any number of
handlers, boards, entries, clients, publishers, rows, transactions, jobs, tasks,
requests and keys, and any limits, under the assumptions named in the modules: limits
are naturals, inputs have their types, `None` (SQL's NULL) is no row, request or
instant, the sets of connections and keys (in `Transfer`, of slugs) are finite, and
what the program itself
refuses does not occur (an accumulating board that is not scored, a clearing board
that is not realtime). Type correctness is proved of every module that a run checks and not
repeated in the runs: as the theorem `TypeCorrect` (`ServeTypeCorrect` for
`Shutdown`, `ListTypeCorrect` for `Paging`, `CatalogTypeCorrect` for `Catalog`), and for
`Realtime` as a part of `Invariance`. With that every safety invariant, every action
property and the refinement that a run checks is also a theorem; what only TLC shows is
named at the end of this section.

`RankingProofs` has no theorem about a state: it has the lemmas about the operators of
`Ranking` that the proofs of `Store`, `Sync` and `Transfer` share, for any rows and
lists. Derived positions order the rows (`DerivedPositionOrders`), are exactly 1..n
(`DerivedPositionsNumber`: they differ and none exceeds n, so by counting they are all
of them), and depend on nothing but who ranks before whom (`SamePositions`), so that
deriving them again changes nothing (`DerivedAgain`). `ComparisonMeans` says what
`placements_changed` amounts to: it counts and looks up, and with one row per slug a
list of distinct slugs that agrees in number and slug by slug has the slugs of the rows.

`StoreProofs`: `TypeCorrect`, `Contiguous` (`NumbersContiguous`) and `LimitHolds`
(`VersionLimitHolds`). None is inductive: a handler that has computed a number
and not yet committed must be shown to be the only one. The invariant `IInv` adds
that the holders of FOR UPDATE are exactly the handlers at certain statements and
that there is at most one (`HoldersExclude`), that the table holds the numbers
1..n once each (`Counted`, `NumbersUnique`), and that a computed number is n + 1
and, if limited, within the limit (`NumberIsNext`, `NumberInLimit`). Finiteness
of the rows (`FinitelyMany`) is needed because the limit counts them. The lemmas
are by kind of step: what starts a request, statements, builds, commits.

`FullInv` adds what the row locks and the build of a version protect, and gives the
rest of the module's safety:
- `PlacementsKept` (`PlacementsKeepTheirEntries`): who has inserted placements
  holds FOR KEY SHARE on the entries they name, and who deletes an entry holds it
  for itself (`LocksHeld`, in a table of locks that are compatible,
  `LocksCompatible`), so the one does not get past the other (`RowsBuilt`).
- `SnapshotsNeverGoBack` (`SnapshotsAdvance`): a snapshot holds the board row from
  before it reads the scores to its commit, so what a later one reads is at least
  what any version has (`CutsCovered`, `CutsRead`).
- `RankedAsConfigured` (`RankedUnderCurrentConfig`) and `PatchesKeepTheRest`
  (`PatchesDoNotOverwrite`), action properties: the copy a holder has of the board
  row is the row (`SeenIsCurrent`), and the rows about to be committed were built
  from it (`RowsRankable`). `DerivedPositionOrders` is the lemma about the window
  function: it numbers the rows in their order, since who ranks before a row has
  fewer rows before it.
- `ImplementsLog` (`ImplementsVersionLog`): the refinement, step by step. The
  published log is the table in the order of its numbers, which `LogHolds` shows to
  be a sequence with every version once; the commit of a version is `Publish`, a
  poll `Deliver`, the cascade of the board's deletion `Discard`, and every other step
  a stutter. `ReceivedPrefix` has the client's list a prefix of the log.

`EventBusProofs`: `TypeCorrect`, `SlotsCorrect` (`SlotsAccounted`), `LimitHolds`
(`ConnectionLimit`) and `NoneMissed` (`NoVersionMissed`). The invariant adds what
a slot's holder knows at each step of subscribe and drop, and that a receiver is
on the channel the registry has for its board, which is why pruning looks again
under the write lock. `NoVersionMissed` is proved client by client: a version is
heard, queued, still with its publisher, or silent, unless the queue overflowed.
`ScoresApart` (`ScoresSpaced`): a score in a queue, and one that has passed the
check and is not yet sent (`Pending`), is no younger than its board's stamp
(`Stamped`), and a check passes only an interval after the stamp; so these scores are
an interval apart (`Spaced`). A stamp is forgotten only with a channel that nobody
receives from, whose queues are gone (`Registered`).

`ServerProofs`, of `PushSync`: `TasksExclude` (a task at work is at the head of the mutex's queue,
and no other is), `Advances` (`DatabaseAdvances`), `AnnouncesInOrder`
(`AnnouncedInOrder`) and `DoneMeansSynced` (`PushIsSynced`). What is announced is the
newest version because its task still holds the mutex (`AnnouncingNewest`). The other
two hold while git answers in time: then every git process has a task that waits for
it (`GitIsAwaited`), no process of another task moves the clone under the holder, and
what it has fetched, checked out and read is at least its push and at least every
commit that has a version (`Carried`, `VersionsChecked`). A task that missed its board
has no part in `PushIsSynced`, but the version it may have committed is one of these.

`RealtimeProofs`: `NoneLostSilently` (`NoSilentLoss`), `InOneSnapshot`
(`SnapshottedOnce`) and `NewerSnapshots` (`SnapshotsDoNotGoBack`). A score is in one
place at a time (`InOnePlace`): RENAME moves all of them at once to a key that
belongs to one snapshot. The places are the board's keys, the keys of a request,
and a version, so a submission that is owed is in one of them or was dropped by a
request that said so (`Accounted`). A snapshot that leaves the scores reads them
under the row lock (`LockHeld`), and scores submitted later are newer (`Known`), so
versions that keep the scores only advance (`Forward`).

`ServerProofs`, of `Paging` (names with `List`): `ListTypeCorrect`, `SteadyRowsListed` (`NothingSkipped`) and
`PagesAreOrdered` (`PagesInOrder`). The invariant adds that no row the client has
got is behind its cursor (`CursorIsLast`), which with the transitivity of the
order makes the next page follow all pages before it; that a listing starts with
nothing (`NewIsEmpty`) and is owed only rows that are still there
(`SteadyIsThere`); and that without its board a table has no rows and gets none
(`NoBoardNoRows`), for the page that finds the board gone. The step of a page rests
on `PageStep`: what a page leaves out follows its last row, and a page with
successors is not empty because `effective_limit` is at least 1.

`ServerProofs`, of `Shutdown` (names with `Serve`): `NoneLeftBehind` (`NothingLeftBehind`). The invariant says that the tracker holds exactly the jobs that run (`TrackedRun`): a job is tracked in the step
that starts it, also one that a sync fires while the tracker drains, and leaves the
tracker in the step that ends it. So a server that stopped without its timeout, for
which `StoppedIsDrained` has an empty tracker, has no job running. A delivery that
backs off has an attempt left (`SleepersHaveTries`), which bounds the attempts.

`SyncProofs`: `Synced` (`ContentIsSynced`), `RankedAsSynced` (`RankingIsSynced`) and
`NothingRepeated` (`NoRepeatedVersion`, an action property), for any number of syncs
and any files: their type and direction may be any words, their lists any sequences of
placements. Whatever a version stores has one row per slug (`VersionsTabular`), so a
list of distinct slugs that the comparison finds unchanged has its content
(`AgreesContent`, from `ComparisonMeans`). The copy of the board row that a sync compares
with may be stale, but its type is the board's (`SeenBoard`), and the type is all that
the comparison looks at. While `steady`, one sync runs at a time (`OneAtATime`), its
copy is the row, and the latest version follows the row's configuration or a version is
forced (`Steady`); deriving positions from rows that have derived ones changes nothing
(`DerivedAgain`), which is why a stored version follows it. A version is found unchanged
by the comparison that follows (`StoredAgrees`, `Repeats`).

`TransferProofs`: `WholeExports` (`ExportIsWhole`), `DiffsApply` (`DiffApplies`),
`PositionsRank` (`PositionsAreRanks`), `SyncAgrees` (`SyncAgreesWithDiff`) and
`ImportsKeep` (`ImportKeepsVersions`). The invariant says that a version is a table with
one row per entry, under the entry's key, whose positions on a scored board are those
that its scores derive in the direction the board had then (`Kept`). An export under way
has listed no version that was not there (`Reading`), so the file has each version whole
or, of a deleted board, empty (`Exported`), and an import has valid lists (`Imported`),
which an empty one is not. For `SyncAgrees` on a scored board, whose derived positions
the comparison does not see, the same keys and scores derive the same positions
(`StoredPositions`). For `ImportsKeep` the keys are new: with no two scores equal they
decide nothing, and `SamePositions` gives each row the position it came with
(`RankedAnew`).

`ServerProofs`, of `Catalog` (names with `Catalog`): `PinsAreOwn` (`PinsOwnVersion`), `MembersAreLive`
(`MembershipsAreLive`) and `PatchesAreKept` (`CollectionPatchesKept`, an action
property). The invariant adds what a request has found at each statement
(`RequestsResolved`): ids are not given out again, so a version found for a board is
its own for good, or gone, which the foreign keys notice; and that a PATCH about to
write holds the lock of a row that is as it was read (`RowsLocked`). One
consequence on the way: deleting a board never clears a pin of another board's
reference, the `ON DELETE SET NULL` of the schema has nothing to do.

`AuthProofs`: `RevocationHolds` (`RevokedIsRefused`), `ClosedWhenStale`
(`FailsClosed`), `AuthorityHolds` (`WritesHaveAuthority`) and `ChecksAgree`
(`WsWritesAsHttp`, of which there is no run: it compares the two decisions under the
configuration and no step can disturb it). The invariant relates ages: the provider's
last answer, and the removal of any key that is in the cache and no longer published,
are at most `MaxFlight` older than the stamp (`CacheAges`), also between the two writes of a
refresh, because the keys are written first. A request between the two halves of
`get_key` has found the stamp fresh, and a connection that may submit has shown the
credential of the server's mode and a key no older than the limits and its own age
(`Entitled`), whatever arm of its loop it is in. Ages of connections are told apart up
to the deadline; of one that has outlived it the theorem says nothing about withdrawn
keys, as the code does not.

Only model-checked: liveness, since fairness and ENABLED are beyond the prover
(`EveryRequestFinishes`, `EveryTaskEnds`, `ShutdownEnds`, `CacheRecovers`,
`ConnectionsEnd`, `ListingEnds`). No module that is proved about uses a RECURSIVE operator, and no proof
needs induction over data: what is counted is counted by `Cardinality`, and
`PositionsAreRanks` says that positions are 1..n and order the rows instead of comparing
with a sorted sequence, of whose construction nothing could be proved here.

## Not modelled

Contents of names, notes, metadata and payloads (except that a PATCH keeps them);
TOML and JSON syntax, finding the configuration file; HMAC and JWT signatures; the
event and board filters of outbound webhooks; rate limiting, CORS, metrics (except
the connection gauge), OpenAPI, health; migrations. The PATCH of an entry, which
locks and writes its row as that of a collection does. Reads of several statements
other than the export (`get_by_number`, `latest`, `get_with_boards`), the diff of
two stored versions as statements, and an entry's history change no state. Postgres is taken at its default
isolation level with the row locks described; its failure loses no committed
data. Redis restarts without persistence are not modelled.

## Plan

Done, in this order: `Ranking`, `Store` with `VersionLog` and its proofs;
`Realtime`; `Sync`; `EventBus` and its proofs; `Transfer`; `PushSync`;
`Shutdown`; `Auth`; `Paging` and its proofs; the export as statements in
`Transfer`; `Catalog`; the proofs of `Shutdown`, `Catalog` and `Auth`; of `PushSync`
and `Realtime`; the rest of the safety of `Store` and `EventBus`, and the refinement
of `VersionLog`; the proofs of `Sync`; the lemmas of `RankingProofs` and the proofs of
`Transfer`.

Next models:
1. The PATCH of an entry in `Store`, with the locks of its row.
2. A composition of `Store` and `EventBus`: a client that combines events with
   polling has every version.

Next proofs: those of what the next models add. The safety of every module there is
has been proved.

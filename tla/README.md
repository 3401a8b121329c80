# A TLA+ model of the Incident Management System

The repository is a small incident-management service: clients POST signals, a
BullMQ worker debounces them into work items, engineers walk work items through
a lifecycle that ends with a root-cause analysis (RCA), and a dashboard shows
the open ones. It runs as one Node process (`backend/`) over three stores —
Redis (queue, keys, cache), MongoDB (raw signals), PostgreSQL (work items,
ledger, RCAs) — with a React frontend.

The backend has next to no in-memory state: what is hard about it is the order
in which asynchronous handlers reach three stores that share no transaction,
and what is left behind when one of them, or the process, stops half-way. The
frontend is hard where answers overtake each other and timers outlive pages.

## 1. The system and what makes its parts correct

| Component | State it keeps | Operations | Hard behaviour | Correct when |
|---|---|---|---|---|
| Ingestion (`routes/signals.ts`) | requests under way, rate-limit windows, jobs of the queue | limit, validate, add one or many | retries of clients, lost replies, batches, a process that ends meanwhile | what was answered 202 is queued whole, and later processed; nothing that was refused is |
| Bootstrap and shutdown (`index.ts`, the open and close functions of `db/` and `queue/`) | which services are open, the closes awaited, the reporter's await | bootstrap, report, SIGTERM, SIGINT, kill | a second signal, handlers in flight, a reporter that reopens what was closed | nothing is closed under its users; shutdown ends |
| Signal worker (`queue/SignalQueue.ts`, `services/SignalService.ts`) | BullMQ job, attempts, stalls; locals of up to 50 handlers | gate, upsert, claim, create + alert or read + refresh + record, patch, mark | interleaving at each await; retry from the top with a new candidate id; deferral; crash | each signal is counted once, on an item of its component; one item per debounce window; an item is alerted |
| Redis keys (`db/redis.ts`) | `debounce:<component>`, `processed:<signal>`, `alert:sent:<item>`, `metrics:signals:count` | SET NX, GET, guarded PEXPIRE, SET, INCR, GETDEL | expiry between any two calls | a claim has one winner; a loser never extends another incident's key |
| Ledger (`services/WorkItemService.ts`, `db/postgres.ts`) | `work_items.signal_count`, `signal_work_items` | `createWorkItem`, `recordSignalAndIncrement` | retried transactions, foreign key on an uncommitted winner | the count agrees with the rows; rows never move |
| Signal documents (`db/mongo.ts`) | `work_item_id` of a document | upsert with `$setOnInsert`, `$set` | no transaction with the ledger | the document exists before anything names the signal |
| Alerts (`patterns/alerting/`) | the dispatch promise, the alert key | claim, dispatch, confirm | races a 25 s timer, outlives its handler | once per committed item, never lost |
| Lifecycle (`routes/workItems.ts`, `patterns/state/`, `transitionStatus`, `submitRca`) | `work_items.status`, `rca_records`, row and key locks, pool | PATCH status, POST rca | concurrent requests, failed queries, lost COMMIT answers | no step is skipped or undone; closed only with a complete, final RCA |
| Dashboard (`services/DashboardService.ts`, `routes/dashboard.ts`, metrics reporter in `index.ts`) | `dashboard:state`, `signalsPerSec` of two services | cache-aside read, invalidate, sample | a fill that overlaps an invalidation; two services with one key | what is served is not older than it may be |
| Websocket feed (`routes/websocket.ts`) | set of open sockets | connect, first state, broadcast, close | first state fails or is overtaken | every connected client is shown the dashboard, and no state that is too old |
| Dashboard page (`pages/Dashboard.tsx`, `hooks/useWebSocket.ts`) | sockets, reconnect timers, two states | mount, unmount, open, close, message, fetch | timers and sockets that outlive the component; effects run twice in StrictMode | one chain of reconnects per effect; live badge and all-clear tell the truth; an open page catches up |
| Incident page (`pages/IncidentDetail.tsx`) | item shown, loads and requests under way, buttons | load, transition, submit RCA, change of route | loads that overtake each other, a reload that fails, other users | it shows nothing the server never had; its buttons come back |

Components call each other as follows. `routes/signals.ts` adds jobs; the worker
takes them, calls `SignalService` (Mongo, Redis), `WorkItemService` (Postgres)
and `AlertContext` (alert, then Redis). `routes/workItems.ts` calls
`WorkItemService`, which shares the rows of `work_items` with the worker. Every
transaction that changes what the dashboard lists deletes `dashboard:state`
after its commit; the reporter reads the dashboard every 5 s and broadcasts it.
`index.ts` opens and closes the stores under all of them. The dashboard page
reads `GET /api/dashboard` and the socket, the incident page
`GET /api/work-items/:id`, and both requests of the lifecycle.

## 2. Modules

| Module | Models | Code |
|---|---|---|
| `SignalPipeline` | the worker, its keys, documents, ledger and alerts | `SignalQueue.ts`, `SignalService.ts`, `redis.ts`, `WorkItemService.ts:22-108`, `AlertContext.ts` |
| `IncidentLedger` | abstract: each signal is counted once on an incident of its component, or given up | the same, as seen from the tables and the queue |
| `WorkItemLifecycle` | PATCH status and POST rca | `WorkItemService.ts:123-245`, `postgres.ts`, `routes/workItems.ts`, `WorkItemStateMachine.ts` |
| `IncidentRecord` | abstract: an item walks the stages in order, the last one only with an RCA | the same, as seen from the tables |
| `DashboardCache` | reads, invalidation, expiry, sampled rate and broadcast of the dashboard | `DashboardService.ts`, `websocket.ts`, `index.ts`, `WorkItemService.ts:299-306` |
| `SignalIngestion` | both POST routes, the rate limit and the queue they add to | `routes/signals.ts`, `index.ts` |
| `Server` | composes `SignalIngestion` with the process: bootstrap, reporter, shutdown, kill, restart | `index.ts`, open and close functions of `postgres.ts`, `mongo.ts`, `redis.ts`, `SignalQueue.ts` |
| `DashboardPage` | the page, its hook, and a server that stops and comes back | `Dashboard.tsx`, `useWebSocket.ts`, `main.tsx` |
| `IncidentPage` | the page over `IncidentRecord` as its server | `IncidentDetail.tsx`, `api/client.ts`, `routes/workItems.ts` |
| `SignalPipelineProofs`, `WorkItemLifecycleProofs`, `DashboardCacheProofs`, `ServerProofs`, `DashboardPageProofs`, `IncidentPageProofs` | theorems about the module they are named after | |
| `SignalBooksProofs` | further theorems about `SignalPipeline`: what is counted, and the books without failures | |
| `MC...` | instances of the above for TLC | |

`WorkItemLifecycle` is shown to implement `IncidentRecord`, and `IncidentPage`
uses `IncidentRecord` as its server: what the page is shown to do rests on what
the transactions are shown to do.

### SignalPipeline

One action is the code from one await to the next; `pc[s]` names the await the
handler of signal `s` has reached (`gate`, `persist`, `incr`, `claim`, then
`create`, `alert`, `setalert`, `await` for the winner of the debounce key or
`read`, `refresh`, `record` for a loser, then `patch`, `mark`, `return`). `target` is
the local `workItemId`, `tries` the loop counter of the foreign-key retries.
A work item id is `[signal, run]`: the uuid drawn by the `run`-th run of the
handler of `signal`, because `candidateWorkItemId` is drawn anew by each run.

- `claimAlertSlot` is a GET and a SET NX: `ReadAlertSlot`, then `ClaimAlertSlot`,
  between which anybody may run.
- `Promise.race` is `AlertSettles` against `AlertTimesOut`; the dispatch is a
  process of its own (`DispatchAlert`, `ConfirmAlertDelivered`,
  `AlertRejects`) that goes on after the timer won.
- A transaction is one action: its effect is seen when it commits. A
  transaction that commits and then loses its answer is, to the handler, the
  failure of the next call; so are the calls that may be repeated without harm.
- The INCR and the two SET NX may not. `ReplyLost` is their effect without their
  answer: the call rejects all the same, or the connection sends the command
  again (ioredis does so for what was in flight), which counts the signal twice,
  or finds the run's own key. A run that meets its own debounce key is a loser to
  itself, and one that meets its own alert key skips the alert.
- `CreateWorkItem` ends with the invalidation of the dashboard, which never
  throws; that key is the state of `DashboardCache` alone.
- Priorities and backoffs order jobs in time; here any waiting job may start.

What BullMQ does is external and modelled from its use: a thrown error
consumes an attempt and requeues the job or fails it (`FailAttempt`);
`moveToDelayed` followed by `return` requeues it without consuming one, as the
comment at `SignalQueue.ts:177-178` relies on (`Defer`); after a crash a job
that was active is requeued once and failed the second time (`Crash`,
`MaxStalls` is the default `maxStalledCount`). A lock lost while its handler is
still alive (Redis away for more than 30 s) is not modelled.

TTLs are untimed: a key may lapse whenever it exists. That covers every timing
the real TTLs allow and some they do not; the bound `MaxExpiries` counts lapses
of one component's debounce key, and properties are stated relative to them.

### WorkItemLifecycle

One action per query, with Postgres's waiting as guards: `SELECT ... FOR UPDATE`
waits for the row, the foreign-key check of a first RCA waits for the same row,
a second upsert waits for the first on the unique key. `connect` waits for a
connection of the pool (`PoolSize`, 20 in the code). An RCA is known by what its
texts and dates amount to: `complete`, `blank` (ten blanks pass the schema's
`min(10)` but not `trim()`) or `inverted` (end before start). The worker opens
items (`CreateWorkItem`); its counting transactions lock the row for one
statement and change neither status nor RCA, and are left out. `ReadFails` is
`queryWithRetry`, `QueryFails` the catch of `withTransaction`.

### DashboardCache

The database is the sequence of its commits and a query sees a prefix of it. A
cached state is known by the prefixes its two queries saw, which may differ,
and by the tick its signals/sec was sampled in; the service of the websocket
route never samples and stores a 0. One tick is the reporter's interval of 5 s.
`since` is when a call of `getDashboardState` began, and a call takes at most
`CallTime` ticks from its GET to its SET. `shown` is what a socket was sent last
and the page goes on showing, reduced to its two queries (`Screen`). `settled`
is a history variable.

### SignalIngestion and Server

A client's `n`-th request is `<<c, n>>`; every later one of the same client
carries the same payload, so it is a retry, and the uuids of a request are pairs
of the request and a position. A request is limited, validated up to its first
await, and then adds all of its jobs in one command (`addBulk` is one script);
the reply of that command may be lost, in which case the connection sends it
again or the call rejects. The worker is reduced to start and end of a job
(`SignalPipeline` has the rest). The queue remembers the last 1000 completed and
500 failed jobs (`removeOnComplete`, `removeOnFail`): a job that ends when `Keep`
are `done` may turn any of them `forgotten`, and a command that is sent again
then adds a forgotten job anew. The rate limit's counters live in the process.

`Server` adds the process. `phase` is the await that bootstrap is at; the worker
and the handlers of the signals are there before the port is (`RegisterRoutes`,
then `Listen`), so that a `ListenFails` may end a process with active jobs.
`service` says of each of the five things that
shutdown closes whether its module variable is null, open or closing; `stop`
has a run of shutdown per signal, since each signal starts one of its own, with
the close it awaits. A close waits for what the library waits for: the port
for its handlers, the worker for its jobs, the pool for the reporter's queries. A
second `pool.end` or `quit` rejects, and any close may (`CloseFails`), which
nobody handles: the process ends with 1. The other closes join the first. The
reporter counts the items and then reads the dashboard, which on a miss is two
more queries (`build`) and a SET (`fill`). It may find a store null and open it again, because
`getPool` and `getRedisClient` create what is missing. `Exit` ends the process:
connections break, active jobs wait for the next process, and a command on its
way may still arrive.

### DashboardPage

A visit is a mounted component with refs of its own. Each visit has slots for
its sockets, each free or `connecting`, `open` or `closing`, and `ws` is the
slot the ref points to; timers are counted per visit, because the ref holds only
the last one. `Mount` runs both effects, twice in a development build
(`main.tsx` has StrictMode), which leaves a first socket closing. A new socket
takes a free slot: a visit never has more than two sockets at once
(`ChainsCorrect`), so that one of its three slots is always free. `heard` and `fetched` are the state the socket
and the fetch brought, abstracted to whether there are active incidents.

### IncidentPage

Runs of `loadData` are kept apart by who started them; each reads the item and
then its RCA, in two steps of the server, and may be answered in any order.
`patch` and `post` are the two requests under way. `Jump` is a change of the
route while the component stays: handlers keep the id they were called with.
In a development build the first load runs twice, `open` and `again`. `failed` is
the set of the requests that failed, by who made them; it, `overtaken`, `acked`
and `jumped` are history variables that say when the page could not know better.

## 3. Runs

| Run | Instance | Checks |
|---|---|---|
| `pipeline_faults` | 2 signals, 1 component; 1 failed call, 1 lapse of the debounce key, 1 of another key; fair | `TypeOK`, `AlertLossBounded`, `PersistedFirst`, `CompletedIsMetered`, `LedgerStable`, `EveryJobSettles`, `ImplementsLedger` |
| `pipeline_crash` | 2 signals; 2 crashes, 1 lapse of each kind | `CountMatchesLedger`, `ItemsNeedWindows`, `AlertedOnceAfterCommit`, `CompletedIsCounted` |
| `pipeline_no_failures` | 3 signals on 2 components at once; lapses and alert timeouts only | `BooksBalance`, `CountedOnOwnComponent` |
| `lifecycle` | 3 PATCHes and an RCA that close an item, and a fifth request that competes; 2 connections, 2 failed queries; fair | `TypeOK`, `LocksReturned`, `OneWinner`, `ImplementsRecord`, `EveryRequestAnswered`, `ClosedRefusesRca` |
| `dashboard` | GET, reporter, client, one writer; 6 ticks, 1 failed call; fair | `TypeOK`, `StalenessBounded`, `SettledWritesShow`, `ShownStatesFresh`, `EveryClientShown` |
| `server` | a client, a retry, batches of 2; 2 signals, 1 end of the process, 1 failed call; fair | `TypeOK`, `AcceptedIsDurable`, `StoresOpenWhileUsed`, `DoneOnce`, `NothingCutOff`, `OneSignalExitsClean`, `ShutdownEnds`, `AcceptedIsProcessed` |
| `dashboard_page` | 2 visits, 2 outages, broken connections or failed fetches, 1 change; both builds; fair | `ChainsBounded`, `ConnectedMeansOpen`, `AllClearKnown`, `PageCatchesUp` |
| `incident_page` | 2 incidents; 1 jump, failure, act of another user or second first load; fair | `TypeOK`, `PageTellsTruth`, `QuietPageFresh`, `ButtonsComeBack` |

The remaining runs each show one statement of the documentation that the code
does not keep (section 5).

Deadlock is checked in the pipeline, lifecycle and dashboard runs, where the
modules have a self-loop only once everything is settled or answered (`Idle`,
`AllAnswered`). A server with no more requests or ends, and a page whose user
does nothing, really come to rest: those runs do not check it.

Why the bounds are enough. Handlers of the worker meet only through the keys
and rows of one component, and every conflict in the code is between a winner
and a loser: two signals have all of them, the third brings a second component.
`MaxAttempts`, `RecordTries`, `MaxStalls` are the program's own 3, 3 and 1.
`MaxRuns` is 3 attempts plus the runs that a crash, a lapse or a deferral may add,
so it never cuts a behaviour short (a smaller value shows up as a deadlock). One
failed call reaches every `catch`, two crashes every point of the handler and the
second stall of one job, which fails it; one lapse reaches every gap between two
calls of one handler. In the lifecycle, four requests are needed to
close an item and the fifth repeats or skips a step or replaces the RCA; two
failures exhaust the two tries of `queryWithRetry`; two connections are fewer
than the requests, so that they wait for each other. For the dashboard `Ttl`
and `CallTime` are 1. A commit in the first tick is older than their sum in the
third, and older than what `ShownStatesFresh` allows (4, and 1 for the failed
call) in the sixth; later commits than that of tick 2 would only need more
ticks. For the server, a batch of two shows a request that is queued in part,
two sends a retry, both signals two runs of shutdown; one end of a running
process is followed by a whole new one. `Keep` stands in for 1000 and 500: with 3
of the four jobs there are, the last to finish makes the queue forget one. On the dashboard page the
second visit meets what the first left behind, and two outages or breaks are a
reconnect that fails, or a break of each visit, followed by a reconnect to a
server that stays. On the incident page one mishap is
a jump, a lost request, another user or the second load of StrictMode, each together with everything the user
can click; two of them at once are beyond what TLC does in minutes. Symmetry is
used only in runs without temporal properties of the fair specification.

Fairness. `WF` of a handler's step: the event loop resumes a handler whose call
has answered, and every call answers or fails (clients have timeouts). `WF` of
`Start`: a worker with a free slot fetches a waiting job. `WF` of a dispatch
and of a request's step likewise; Postgres grants a lock or connection that
stays free. `setInterval` fires for ever. `Server` has one condition for all
its work, since all of it ends, and one for the reporter; it includes
`Bootstrap`, because `docker-compose.yml:82` restarts the container that ends
(`restart: unless-stopped`) and an operator who stops it starts it again. The
page's sockets open or close, its timers fire, the server broadcasts and comes
back. Nothing is assumed of failures, kills, lapses, signals or users.

## 4. Theorems

All hold for any value of the constants, from the named assumptions of the
modules only: finitely many signals, requests, clients and signals to stop;
limits that are positive; stand-ins such as `NoItem` or `NoRequest` that are
none of what they stand in for.

No theorem depends on the bounds of the runs: the counters of failures, jumps and
visits are bounded by constants that may be any number.

`SignalPipelineProofs`:

- `TypeInv` is `TypeOK` with `HandlerOK`: which locals are set at which await,
  and that only an active job has a handler. All later steps rest on it.
- `IdsAgree`: an id in a debounce key or a local belongs to the component, and a
  winner's to its own signal. Needed because the id of a ledger row travelled
  through the key and a local before it was written.
- `LedgerInv`: `CountedOnOwnComponent`, the opener's row, and
  `CountMatchesLedger`, proved together: the count of an item that a
  `CreateWorkItem` meets again must not be reset, and no row may name an item
  before it is open. Gives `CountCorrect`, `ComponentCorrect`; `LedgerAppendOnly`
  follows from the two transactions alone.
- `WorkDone`: what each await has behind it. Gives `CompletionCorrect`,
  `DocumentFirst`.
- `AlertInv`: an item is in one of the phases not opened, opened, dispatching,
  finished, and the runs to come of a signal have untouched ids. Gives
  `AlertsCorrect`, and `AlertKeyIsOwn`: whatever a run meets under the alert key
  is missing or its own resent claim, never an earlier attempt's.
- `WindowInv`: the items won on a component, committed or still in the key or a
  local, are at most the lives its key has had. `ItemsNeedWindows` alone is
  not inductive: a claim commits only two calls later. Gives `DebounceCorrect`.
- `PipelineImplementsLedger`: initial states and steps map to those of
  `IncidentLedger`; the two transactions are its `Count` and `Reopen`, the end of
  a job its `Finish`, exhausted attempts and crashes its `GiveUp`.

`SignalBooksProofs`:

- `MeteredInv`: the counter is at least the number of signals that are completed,
  marked as processed, or past the INCR in the run under way. Completed jobs
  alone are not inductive: a job is completed long after its INCR, and by a
  later run if the gate finds its mark. Gives `MeteringCorrect`.
- `BooksInv`: as long as no call failed and nothing crashed, the signal that
  opened an item is counted on it, and the item's alert is about to be claimed,
  under way or delivered, by a handler that is still there. `BooksBalance` looks
  at empty queues only and says nothing of how one gets there. Gives
  `BooksCorrect`, which is more than its run shows: the failures may be allowed,
  and the books balance until the first of them.

- `AlertLossCorrect`: with no crash, the items that are without an alert and
  without a run that will send one are at most the failures, since each costs one.
  A timer that wins, a lapsed key, a deferral or a retry loses none.

`WorkItemLifecycleProofs`:

- `TypeInv`: types, and which labels a PATCH and a POST can be at. Gives
  `TypeCorrect`, with the bound of `queryWithRetry`.
- `LocksReturned` is inductive with it: a holder is at a label that ends in a
  commit or a rollback, and both release. Gives `LocksCorrect`.
- `TransitionInv`: a PATCH that was allowed its transition holds the row, and the
  transition is legal on the status there (`TransitionStillValid`, with `Held`:
  without the lock it is not inductive). Gives `TransitionsCorrect`.
- `WinnerInv`: an answered success means that the item's status has at least the
  rank asked for, and ranks never fall. Gives `WinnersCorrect`.
- `LifecycleImplementsRecord`: a committed PATCH is `Advance`, a committed POST
  `Explain`, a created item the first `Advance`, all else a stutter; `PostInv` adds that a POST past
  its check names an item that exists.
- `StoredInv` and `ShutOut`: a request stores its RCA as the last thing it does,
  and a POST whose check is yet to come on a closed item stays where it is or is
  answered, since no transition leads out of CLOSED. `ShutOut` is stable, which
  gives the nested temporal formula `ClosedRefused`.
- `ClosedAreExplained`: no closed item is without the row of an RCA, which is
  what is left of "mandatory RCA" (section 5).
- `NoCircularWait`: as long as one request has no answer, what some request waits
  for is free. The holder of a row waits for nothing, the holder of a key for a
  row at most, and a pool without a free connection has a request in a
  transaction. `Ready` spells out what a query waits for, as ENABLED is beyond
  the prover. With `RequestsGoForward`, by which no step takes a request back,
  these are the two halves of `EveryRequestAnswered` that need no fairness.

`DashboardCacheProofs`:

- `TimeInv`: a call is no older than `CallTime`, a cached key has time left,
  the sample is of this tick or the last.
- `SeenInv` and `AgeInv`: what a build has seen by the time it began, and that a
  cached state's age and its TTL have a constant sum. `StalenessBounded` alone is
  not inductive, since it forgets how old the state is. Give `StalenessCorrect`,
  `SettledCorrect`.
- `ShownInv`: of the ticks that have been reported, those that neither a screen
  reflects (`FreshAt`) nor a run under way will (`Covered`) are each a
  failure. A broadcast that overtakes an earlier one is why the ticks have to be
  counted rather than the last delivery remembered. Gives `ShownCorrect`.

`ServerProofs`:

- `IngestionInv`: nothing is queued before its handler adds it, and nothing is
  answered before its handler ends; with it `AcceptedIsDurable` is inductive.
  Gives `AcceptedCorrect`, and `DoneOnceCorrect`: once, for as long as the queue
  remembers the job.
- `ProcessInv`: whatever is not open any more was closed after all that use it
  (`ClosedInOrder`), every run of shutdown is behind that front (`Behind`), and
  whatever is closing has a run that awaits it. Gives `StoresCorrect`,
  `DrainCorrect`, `ExitCorrect` and `TypeCorrect`, for any number of signals:
  each run skips what is null, so that a later one may overtake the first. Both
  action properties name the failures that break the promise: the listen, and
  the close of the port or of the queues, cut work off; a close of anything makes
  the exit code 1.

`IncidentPageProofs`:

- `PageInv` adds to the types what a call under way may carry: what a load has
  read the server still has (`Honest`), because statuses and RCAs only advance;
  an item read as closed has an RCA by the time the RCA is read, because no
  incident closes without one; a request that was granted names a status and an
  RCA the server has. It also says that a button is disabled for its request
  or for the reload after it, never for both, which is why the end of a reload
  may enable it. `TypeCorrect` and `TruthCorrect` follow for any incidents and
  any number of jumps, failures and other users. The server's steps are those of
  `IncidentRecord` alone, whose order `WorkItemLifecycleProofs` proves of the
  service.

- `FreshInv`: what is shown lacks the incident of the route, its buttons or a
  stored RCA only while the load that brings it is under way (`Shown`), and such
  a load, unless something was shown after it began, finds at least what the
  page was told (`Told`, `Explained`). `QuietPageFresh` looks at pages at rest
  only; what makes it true is that a load overtaken by another marks the page as
  `overtaken` when it is shown. Gives `QuietCorrect`.

`DashboardPageProofs`:

- `ChainInv`: sockets in use plus pending timers of a visit are at most the runs
  of its effect, and at least one for the visit that is shown. Every close turns
  a socket into a timer and every timer into a socket at most; the slot of a new
  socket is free, because there are fewer chains than slots. `CurrentInv` says
  that the ref never points to a closed socket. Gives `ChainsCorrect`, for any
  number of visits.
- `ConnectedInv`: in a production build a visit has a single socket, so the flag
  is set exactly while it is open; in StrictMode it is set only while one is.
  Gives `ConnectedCorrect`.
- `FetchInv`: a page that is not loading has had an answer, or something broke.
  Gives `AllClearCorrect`.

Every invariant of every passing run is proved, and every action property and
refinement (`BooksBalance` under the hypothesis its run makes with its bounds).
Only model-checked: all liveness (`EveryJobSettles`, `EveryRequestAnswered`,
`EveryClientShown`, `ShutdownEnds`, `AcceptedIsProcessed`, `PageCatchesUp`,
`ButtonsComeBack`), because fairness needs ENABLED, which the prover cannot
expand.

## 5. Where code and documentation disagree

| Run | Statement | What the code does |
|---|---|---|
| `finding_poisoned_slot` | README:325 "Transient failures self-heal" | a claim whose item never commits leaves a key that names nothing; the retries of the same signal read it, and keep it alive |
| `finding_alert_lost` | README:120 "at-least-once delivery without permanent loss" | a failed dispatch is swallowed, the job completes, no retry follows |
| `finding_closed_on_blank_rca` | README:276 "throws if RCA missing or incomplete" | the RCA is read without a lock and replaced before the close commits |
| `finding_client_retry` | `routes/signals.ts:49-51` "a client retrying the HTTP call never double-processes a signal" | every request draws new uuids, so a retry is a new job |

Others follow from the same models and have no run of their own:

- A retry of a run whose item was committed draws a new id and may win the key
  again: two items for one signal (`SignalQueue.ts:73-74` "Guards against ...
  double Work Item creation"). `ItemsNeedWindows` says what does hold.
- The document keeps the first run's id when a later run wins (README:326
  "produce exactly the same result").
- A POST whose status check came before the close may replace the RCA of a
  closed item (`WorkItemService.ts:193` "Cannot submit RCA for a closed work
  item."). `ClosedRefusesRca` says what does hold.
- README:324 says that a `kill -9` "loses zero signals". No signal leaves the
  queue (`AcceptedIsDurable`), but a job that stalls twice is failed, with its
  signal uncounted for good; `pipeline_crash` reaches that.
- README:334 "Engineers see new incidents within 5 seconds of the first signal".
  A read that began before the commit may fill the cache after the invalidation,
  and then the screen waits for the TTL, that call, and the next broadcast and
  its call. `ShownStatesFresh` is the bound that does hold: the 10 s of the TTL,
  an interval of 5 s and two calls, and an interval more for each failure.
- `routes/signals.ts:49-51` has duplicates of a job id ignored; that is so only
  while the queue remembers the job (`DoneOnce`).
- README:327 "`SIGTERM` handler drains in-flight jobs". A listen that fails after
  the worker started, or a close that rejects, ends the process with 1 and may
  leave jobs to stall: `NothingCutOff` and `OneSignalExitsClean` say which.
- After a jump the incident page asks for the next status of the incident it
  still shows, on the incident of the new route.

## 6. Not modelled

- List queries, filters, the LIMIT of 100 incidents, health checks and the
  rendering of signals only read.
- The values of the RCA form and the arithmetic of MTTR: no state depends on
  them; two hazards of theirs are listed without a property.
- The alert strategies only log; `getWorkItemQueue`, `insertSignalWithRetry`,
  `incrementSignalCount`, `updateSignalsPerSec` and `registerStrategy` have no
  caller.
- `scripts/simulate-failure.ts` generates load; configuration and types are
  values and declarations, and appear as constants.
- Docker's health checks and the start order of the containers.
- A websocket whose connection is gone without a close event: neither side pings,
  so the page would go on as connected. Sockets of `DashboardPage` always close.
- Overlapping runs of the reporter in `Server` (`DashboardCache` has a set of
  them; the run of `dashboard` takes one).

## 7. Plan

Done: everything in section 2 with its runs, and the proofs of section 4.

Next, in this order:

1. `DebounceWindow`: the keys with their TTLs in time, for what the untimed
   model cannot say: how long a poisoned key lives, how far a window slides.
2. Measures like `RequestsGoForward` for the other modules that promise an end:
   the handlers of a job, and the runs of shutdown.

# A verification project for the analytics pipeline and the shop

The repository holds three programs that feed one another:

* `pipeline/`, a generic Go library for in-process pipelines: a source, linear
  stages with worker pools, a sink;
* `api/`, an HTTP server that takes analytics events from a shop, runs them in
  windows through such a pipeline and stores them in SQLite; it also keeps the
  accounts and sessions of the shop and answers statistics queries;
* `ecom/`, a browser shop, with `tracker.js`, the script that buffers, sends
  and retries the analytics events, and a loader that queues commands for it.

The modules below model the parts with the hardest control flow.  TLC checks
them on small instances; TLAPS proves safety results about pipeline runs, the
built-in stages and sinks, the ingest worker, the tables and statistics,
accounts, the tracker and its loader for every instance.  Paths are relative to
the repository.

## 1. Inventory

| Component | Source | State | Operations | Correct when |
|---|---|---|---|---|
| pipeline run | `pipeline/pipeline.go` | channels between stages, the derived context, `runErr` behind a `sync.Once`, per-worker counters, the batch being built | `FromSlice` feeder, `batcher` (size, timer, end, cancel), `runStage` workers, `drainSink`, `execute`, publication of metrics | nothing is lost, duplicated or reordered that the options promise; channels close once, after their writers; the call returns and its goroutines exit; the error is the one that happened; the result is final |
| stages | `pipeline/stage.go`, `route.go`, `examples_stage.go` | none, but for the seen set of `Deduplicate` | `Process`, `safeProcess`, `If`, `applyStages` | a panic costs its batch and nothing else; a branch keeps its drop counts |
| Deduplicate | `pipeline/stage.go` | mutex, map, LRU list | `Process` | one element per key passes; the LRU forgets only what it may; the mutex is released |
| sinks | `pipeline/reduce.go`, `api/internal/ingest/sink.go` | accumulator | `Push`, `Consume` | what is pushed is counted |
| ingest worker | `api/internal/ingest/worker.go` | the event channel, the current window, five atomic counters | `Submit`, `Run`, `runWindow`, `feedWindow`, `flush`, `Close`, `Wait`, `Stats` | an accepted event is stored once; counters agree; shutdown ends |
| ingest stages | `api/internal/ingest/pipeline.go` | none | consent, whitelist, normalisation, enrichment, dedup key | only valid, consented events get through |
| events handler | `api/internal/handlers/events.go` | none | decode, limit, `Submit` loop, 202/400/413 | answers what happened |
| lifecycle | `api/main.go` | root context, server, worker | signal, `Shutdown`, `Close`, `Wait`, listener failure | stops in an order that loses nothing and ends |
| accounts | `api/internal/handlers/auth.go`, `api/internal/auth`, `api/internal/store/users.go` | users, session cookies | signup, login, logout, me, `RequireAuth` | one account per address; a session belongs to its user; an account lets its owner in |
| SQLite store | `api/internal/store` | tables `events`, `stage_metrics`, `users` | transactional inserts, five statistics queries, one connection | a flush is all or nothing; the figures of an answer fit together; nobody keeps the connection |
| configuration | `api/internal/config`, `pipeline/config.go` | none | `Load`, `defaultConfig`, options, `normalize` | values are usable |
| browser tracker | `ecom/public/tracker.js` | buffer, timer, consent, `initialized`; the retry queue in `localStorage`, shared by all tabs | `init`, `track`, `flush`, `setConsent`, `enqueueRetry`, `replayQueue`, `sendBatch`, visibility/unload/online listeners | an event is delivered, held or given up by policy; nothing is sent without consent, or twice of the page's own making |
| tracker loader | `ecom/app/lib/tracker.ts` | `pending`, `ready`, `flushScheduled`, timeouts | `call`, `ensureReady`, `tick` | commands run once, in order |
| shop stores and routes | `ecom/app/stores`, `ecom/app/routes` | session, cart, order in progress | restore, login, logout, cart, checkout, product pages | late answers overwrite nothing newer |
| API client | `ecom/app/lib/api.ts` | none | fetch wrappers | stateless |

How they interact:

* Within a run everything goes through channels.  The batcher, each worker and
  `drainSink` select between their channel and the run's derived context;
  `execute` waits for the workers' `WaitGroup`s but not for the batcher or the
  feeder.
* Request handlers and the worker share one buffered channel
  (non-blocking send, blocking receive) and the atomic counters.  Each window
  is one pipeline run with a fresh source and sink; the worker flushes the
  sink's records after the run has returned.
* `main` stops the two through the root context (the signal cancels it, and
  with it the worker's), `srv.Shutdown` with a 15 s limit, `Close` of the
  channel and `Wait`.
* The worker's two transactions, the statistics queries and the users' queries
  take turns on the store's one connection (`SetMaxOpenConns(1)`).
* The tabs of a browser share the session cookie, which an answer sets for all
  of them; each keeps its own `authStore`.
* Tabs share the retry queue through `getItem` and `setItem` with no lock.
  The tracker sees the API through `fetch` (an answer, or none) and
  `sendBeacon` (no answer at all).

What is hard here: the interleaving of pools, closers and cancellation in one
run; partial failure (a panicking batch, a failing `Push`, a failing
transaction); timers racing with sizes and ends; a shutdown with three actors;
non-atomic snapshots; a storage shared without a lock; requests without
answers; crashes between two storage operations.  `PROJECT.json` lists each
such place under `hazards`, with the properties that guard it, or why none does.

## 2. Modules

| Module | Models | Built on |
|---|---|---|
| `StreamRun` | what a caller may expect of one run: it delivers promised elements only, each at most once; a nil result of a run nobody cut short means all of them; after the return nothing changes | - |
| `PipelineRun` | one run of `pipeline.execute`, goroutine by goroutine | implements `StreamRun` |
| `Stages` | the built-in stages and sinks at work: two workers on one `If` stage with `Filter`, `Deduplicate`, `Map` and `Generate` in its branches, and `Reduce` or `Collect` into a `ChannelSink` | - |
| `IngestWorker` | handlers, the event channel, the worker and its windows, the counters, and `main`'s shutdown | uses `StreamRun`'s promise for a window's run |
| `Intake` | what becomes of one event from `ToEvent` through the ingest stages to its row | - |
| `Analytics` | the two tables between the worker's transactions and the statistics requests, over one connection | `Intake` |
| `Config` | `config.Load` and the pipeline's defaults, options and `normalize` | - |
| `Accounts` | the auth endpoints, the users table, and the tabs of one browser with their `authStore` | `Config` |
| `Tracker` | the pages of one shop, their shared retry queue, the requests and the API's answers | - |
| `TrackerLoader` | the command queue before `/tracker.js` has run | - |
| `*_proofs` | theorems about `PipelineRun`, `Stages`, `IngestWorker`, `Analytics`, `Config`, `Accounts`, `Tracker`, `TrackerLoader` | the module of that name, TLAPS |
| `MC*` | small values of the constants for TLC | the module of that name |

### State and actions against the code

**PipelineRun.**  `chan[c]` and `closed[c]` are the Go channels (`chan[0]` the
batcher's output); `ctx` says whether the run's context is live, cancelled by
the run itself (`derived`) or by the caller; `batcher`, `wpc[s][w]` and `main`
are program counters, `batch`, `held[s][w]` and `sinkBatch` the locals that
hold elements; `metrics` merges the workers' own counters, which nobody reads
before the workers are joined; `err` is the stage whose error `runErr` keeps,
`result` what `execute` returned.  A batch is a set of element numbers, its
order their numeric order.  A rendezvous channel (`Depth = 0`) is a joint step
of sender and receiver.  `safeProcess` is one operation: the stage's output and
drop count, or a panic that costs the whole batch.  Latency samples and
percentiles are left out.  `discarded` and `delivered` are there for the
properties; the program has no such variable.

A step is what a goroutine does between two operations visible to others
(channel, context, `Once`, `WaitGroup`).  A `select` with several ready cases
is a choice among actions.

**Stages.**  `work[w]` is what worker `w` is doing with its batch: before the
mutex of `Deduplicate` (`Lock`), in the then-branch, in the else-branch.  What a
stage makes of its input is an operator (`Filter`, `Map`, `Generate`,
`Deduplicate`, threaded as `applyStages` does); the critical section is one
action (`Then`), since nobody else can look inside it, but a key function that
panics in the middle leaves the keys before it learnt and the mutex to its
`defer`.  `stat` merges the `If` stage's counters, `sinkStat` the sink's.
`push` is what `Consume` has not pushed yet, `out` the channel of `ChannelSink`,
`acc` the fold of `Reduce` (the order of elements, which determines any fold).
The loops with `append` are recursive functions over the positions of a batch.
`cap` and `sink` are drawn in `Init`, so one run covers the kinds.  A cancel may
come at any time: a worker that has a batch to send may then leave the pool
without it, and a `Push` that finds the channel full gives up.  The channel
between the pool and the sink is unbounded here; `PipelineRun` has the full ones.
`log` (the keys looked at), `passed` (what the then-branch let through, for the
batches that came through), `took` (the elements the sink took, in order),
`shedAt` and `gaveUp` (which of them, by position, were shed or given up) are
histories.

**IngestWorker.**  `queue` is the buffered channel, `counters` the atomics
behind `/metrics`, `hpc[h]` a handler between the two `Add`s and the send of
`Submit`, `wkr` the worker's place in the window, `inRun` the events the window
has fed, `recs` what the run left in the sink, `events` the table, `expired`
whether `Shutdown`'s 15 seconds ran out.  `entered`, `told` and `lost` are
histories for the properties.  A run of the pipeline is not repeated here:
`Outcomes` is the set of record sets `PipelineRun` allows for a window (one
event per dedup key among the admitted ones; any part of that once the context
is cancelled).  It relies on `DEDUP_CAPACITY` (200000 by default) exceeding the
number of keys of one window (`WINDOW_MAX_EVENTS`, 2048 by default); `Stages`
models the LRU at its limit.  `InsertEvents` is one transaction, which succeeds
or fails as a whole, and whose rows are visible from its commit on; that
`persisted` counts them is a step of its own (`CountPersisted`).  What a failure
in the middle of a transaction means, and the rows of `InsertStageMetrics`, are in
`Analytics`.

**Intake and Analytics.**  An event is a record of what the stages look at: a
type named without case and blanks, the session, times in minutes (0 is Go's
zero time), an amount, and the properties with the in-band keys `_consent` and
`_received_at` that `ToEvent` adds.  Clamping keeps any of the public keys,
since Go maps have no order, so `Enriched` is a set of results.  `Analytics`
runs a window in one step (`ran` remembers what it put out) and then holds the
connection for each of the two transactions (`Begin`, `Commit`, `Fail` after no,
half or all of the rows).  A statistics request holds it for one query at a time
(`QueryStart`, `QueryEnd`) and collects in `seen` what each of its five queries
saw: the sums and groupings are functions of that.

**Config and Accounts.**  An environment variable is a sequence of at most one
value; unset and unparsable are the same to the code.  `Accounts` starts a
server in one of several environments and may restart it in another.  A row's
id is its position in `users`.  A cookie is a record of the token's subject,
expiry and key and of the cookie's `MaxAge`.  The token expires so long after it
was issued, the cookie so long after the browser has stored it: `Tick` lets time
pass and takes a cookie that is too old out of the `jar`, without any page being
told.  `last` remembers the cookie as it was last set or cleared.  A call (`calls`) has been sent, is
between the `INSERT` and the `SELECT` of `CreateUser`, or is answered; its
answer may be lost at any point, with or without its effect.  `Stored` puts an
answer's cookie into the shared `jar`, `After` is what `authStore` or the
dashboard makes of the answer.  bcrypt and the signature are what they decide:
equal passwords, equal keys.  `last`, `mixed` (tabs whose session calls overlapped),
`known` and `broke` in a call, and `made` (the bound) are no variables of the
program.

**Tracker.**  `work[p]` is the list of storage operations the handler in
progress on page `p` has still to do.  Another page may run between two of
them, the same page may not: that is the browser's event loop, and the reason
two tabs can overwrite each other.  A request in `flights` is open, answered
well, refused (400/413) or failed; a beacon's fate is never reported to the
page.  `connected` is the browser's own notion of being online: a request may
fail because it is not, or while it is (a 5xx, an API that is down), and only
the return of a lost connection (`ComesBack`) puts an `online` event before a
page (`notice`), whose listener replays the queue.  Histories, per event:
`reached` and `unanswered` count its arrivals at the API and the lost answers to
them; `shed` and `unheard` record what was given up by policy and what
disappeared; `stranded` holds what failed while the page was online, until a
replay takes it up.

**TrackerLoader.**  `timers` counts the armed timeouts; commands are the
numbers of their calls.

Each module also holds operators introduced by "Fault": the forms a plausible
bug would give the operator below.  Nothing uses them in the specification;
they show of every property that a bug can break it (`mutants` in
`PROJECT.json`).

## 3. Runs

### Pipeline run, stages and sinks

| Run | Asks | Instance |
|---|---|---|
| `pipe_skip` | types, channel discipline, no loss, no duplicate, counters, refinement of `StreamRun` | 5 elements, two stages with two workers, batches of 2, one-place channels, batch timer, a stage-1 panic, SkipAndCount |
| `pipe_order` | order with one worker per stage; a partial batch moves although the source is silent for ever; a cancelled call returns from such a source too | one worker, timer flushes, a skipped batch, a shed element, cancellation at any instant |
| `pipe_failfast` | the verdict and its finality; `execute` and its batcher end | 4 elements in batches of 1, rendezvous channels, two elements that can take both workers of the last stage, failing sink, cancellation |
| `stages` | the LRU forgets only what it may, one element per key passes, the counters of `If` account for every element, the sink hands on what it took in order, every batch ends | four batches in any order, an LRU of two keys or an unbounded set, a key function and a map function that panic, three sinks, a cancel at any time |

Why these are enough: two workers per stage are needed and enough for a race
within a pool (send against close, both leave, first error wins), two stages
for a channel that is both an input and an output, four or five elements for a
full batch, a partial one and a batch that waits in a channel.  Depth 0 and
depth 1 are the two kinds of channel.  `MaxElem` adds the element that the
Generate stage makes; stage 1 is the Filter.  In `stages`, four keys against
two places force evictions and the return of an evicted key, and each way to
fail (no key, poison) meets a batch with something in both branches; one place
in `ChannelSink.Out` is full most of the time.

### Ingest worker

| Run | Asks | Instance |
|---|---|---|
| `ingest` | no loss, no double write, counters; nobody submits after `Close` unless `Shutdown` gave up; `Close` alone drains everything; what a client was told is accepted gets written; a signal ends the process | three handlers with bodies of no, one and two events, four events of which two share a key, queue 1, window 2; a signal or `Close` at any instant, a `Shutdown` that may time out, a listener and transactions that may fail |
| `ingest_signal_loss` | refutes a comment, see findings | two handlers, queue 2 |

A queue of one place gives refusals, a waiting event and an event in hand at
the same time; a window of two is filled, left partial and left empty.

### Store, statistics and accounts

| Run | Asks | Instance |
|---|---|---|
| `analytics` | rows are clean; a query sees a window whole or not at all; the figures of an answer differ in one direction only; rollups cover what was collected; a request is answered | two windows out of six events (equal keys, no consent with a forged flag, an unknown type, a clock ahead, two types in one minute), one request with one of five queries, transactions that fail after none, half or all of their rows, failing queries |
| `accounts` | one account per address, sessions and answers name the right one; an account lets its owner in; the page agrees with the cookie set last; restoring ends | two tabs, two addresses and two spellings, a password too long, two environments (a session lives for one tick of the clock in one of them, for 24 in the other) and two that do not start, two calls at a time, three forms, reloads or restarts, one tick |
| `accounts_expiry` | refutes documentation, see findings | the same |

Two windows are the least for a flush between two queries of a request, and one
request at a time is enough, as requests only read.  `Windows` keeps the sets of
posts a window may take to four that meet the hard cases.  Two of them leave two
rows: both lie within every range that is answered, or on either side of the end of
the default range, and one of the queries reaches far enough for both.  A
transaction that fails after half of such a window's rows and is not rolled back
shows part of it.  One tick of the clock is enough for a session that ends: the
token expires while its cookie is stored, while the answer that carries it is still
under way, or while a call that presents it is.  Two tabs and two
calls are the least for answers that overtake each other; three calls make
signup, logout and login possible in one behaviour, with further `restore`s
that cost nothing.

### Tracker and loader

| Run | Asks | Instance |
|---|---|---|
| `tracker_retry` | every event accounted for, in one place at a time; none arrives again but for a lost answer of its own; timer and buffer agree; nothing sent without consent; every event is delivered, given up, or stranded | one page, 3 events, batches of 2, a retry queue of 2 (its cap), a refused event, two faults (outages, failures while online, lost answers), quota errors, hides, reloads, crashes between any two storage operations, consent given and revoked |
| `tracker_tabs` | refutes documentation, see findings | two pages, four events |
| `loader_queue` | order, the queue drains | 6 calls, up to 8 armed timeouts |

Three events and batches of two fill a batch and leave one; a queue of two is
exceeded by a held batch and a failed one.  Two faults are the least for an
outage during which a replay fails again, and for a failure while online after
one.

### Bounds that are not the program's

`MaxFails` (outages, requests that fail while the browser is online, and lost
answers; requests that fail during an outage are not counted), `NCalls` and
`MaxTimers` (the loader's calls and timeouts), `NWindows`, `Horizon` (the
clock of `Accounts`), `MaxOpen` (calls under way at once) and `MaxCalls` (forms,
dashboard loads, reloads and restarts together).  `TickEarly` stops at
`MaxTimers` because the number of timeouts is otherwise unbounded.
`CHECK_DEADLOCK FALSE` appears where the system may really stop: a FailFast run
with the feeder blocked for ever, all pages closed, no more windows and
requests to come, or a bound spent.

### Fairness

* Go's scheduler runs every goroutine that can take a step: weak fairness per
  goroutine.  An armed timer fires: weak fairness of the timeout.  Nothing obliges
  a caller to cancel, a client to come or a signal to arrive.
* A `select` picks at random among ready cases, so a case ready again and
  again is taken in the end: strong fairness of `WorkerTake` and
  `WorkerCancelled` in `IngestWorker`, against the window's timer.
* `StallingSpec` is fairness without the obligation to offer an element: weak
  fairness of the whole batcher would count receiving as its progress and so force
  the source to speak.
* `Stages`: the workers, the sink and the reader of `ChannelSink.Out` go on.
  A blocking `ChannelSink` needs the last one, as its comment says.  After a cancel
  nobody is obliged to hand a worker another batch, as the batcher stops, but a
  worker ends the batch it has.
* `Analytics`: the worker goes on, a query that runs ends (weak), and a request
  that waits for the connection gets it (strong), because `database/sql` serves
  those who wait in turn.
* `Accounts`, per tab: the server answers what it has received, and the event
  loop runs the continuation of what has arrived.  Connections may break, but
  need not; nobody is obliged to fill in a form.
* A handler of a page runs to its end (weak), the event loop gets round to
  timers, callbacks and queued `online` events whatever else keeps it busy
  (strong), a request is answered or fails (weak), and no outage lasts for ever
  (weak fairness of `ComesBack`).  An `online` event is queued only by the end of an
  outage: nothing makes one come after a 5xx or a lost answer while the browser
  stayed online.  `Delivered` therefore names the events left behind by such a
  failure (`stranded`): they wait for the next page, a consent or an outage, none
  of which need come.
* Loader: timeouts fire.  The script is not obliged to arrive.

## 4. What is proved

All theorems hold for every value of the constants that satisfies the named
assumptions of the module: finite sizes, session lifetimes above zero, batches and windows of at least one,
finite pools and event sets, Boolean options, stages that map elements to
elements and never two to the same one (an element stands for one value on its
way), Filters that emit what they were given or nothing, batches and outputs of
Generate that are sequences of elements, request bodies that share no delivery
(a delivery is one submission of an event; two deliveries of the same event
have equal keys), posts with a Boolean consent, integer times and amounts and
finitely many properties, finite windows.  Two results have a hypothesis of
their own.  `OrderKept` assumes `StagesKeepOrder`: elements are numbered so that
what a stage makes of a smaller one is smaller, as in a stage that goes through
its batch from the front.  `NoneLost` and `NoneSentTwice` are about one page
with its retry queue to itself; with two pages both are false: one overwrites
the queue another has just written (`tracker_tabs`), and both replay a queue
that both have read.

| Module | Theorem | States |
|---|---|---|
| `PipelineRun_proofs` | `TypeCorrect` | `Spec => []TypeOK` |
| | `ChannelDiscipline` | `[]ClosedMeansWritersGone`: no send on a closed channel, no double close |
| | `ReturnFinality` | `ReturnIsFinal`: after the return no step changes the result, the counters, the error, or a worker |
| | `Verdict` | `[]ErrorVerdict`: an error exactly if something failed under FailFast, and then the run's context is cancelled |
| | `EachOnce` | `[]NothingTwice`: an element is in one place of the run at most |
| | `NoneMissing` | `[]NothingLost`: while nobody has cancelled, every element the stages let through is in one |
| | `PromiseHolds` | `PromiseKept`: the run implements `StreamRun` |
| | `OrderKept` | `InOrder` (under `StagesKeepOrder`): with one worker per stage, elements arrive in the source's order |
| | `CountsAddUp` | `[]MetricsAddUp` |
| `Stages_proofs` | `SinkKeepsAccount` | `[]SinkAccounts`: what comes out of the sink is what it took, in order and each element once, less what was shed, given up or is in hand |
| | `LikeLRU` | `[]RemembersLikeLRU`, for every capacity |
| | `OnePerKey` | `[]ExactlyOne` |
| | `IfKeepsAccount` | `[]IfAccounts` |
| `IngestWorker_proofs` | `TypeCorrect` | `[]TypeOK` |
| | `CloseAfterSubmit` | `[]NoSubmitAfterClose` |
| | `RowsWrittenOnce` | `[]WrittenOnce` |
| | `NoEventLost` | `[]NothingLost` |
| | `CloseDrains` | `[]DrainedByClose` |
| | `CountersAgree` | `[]CountersAddUp`: up to the `Submit` calls between two Adds and the window between its commit and its Add |
| `Analytics_proofs` | `RowsAlwaysClean` | `[]RowsClean` |
| | `WindowsSeenWhole` | `[]WholeWindows` |
| | `CountsOrdered` | `[]AnswersOrdered` |
| | `RollupsAlwaysCover` | `[]RollupsCover` |
| `Config_proofs` | `SizesUsable` | a server that starts gives its pipeline runs, windows and channel usable sizes |
| `Accounts_proofs` | `Sessions` | `[]SessionSound`: accounts are unique, sessions and answers name the right one |
| | `LoginHonoured` | `[]LoginAfterSignup` |
| | `PageAgrees` | `[]UIAgrees`: a page whose session calls did not overlap shows the account of the cookie set last, which the browser holds or has dropped for its age |
| `TrackerLoader_proofs` | `CommandsInOrder` | `[]AppliedInOrder` |
| | `CommandsNotStranded` | `[]NeverStranded` |
| `Tracker_proofs` | `TimerAgrees` | `[]TimerMatchesBuffer` |
| | `SpeaksOnlyWithConsent` | `SpeaksWithConsent` |
| | `NoneLost` | `[]NothingLost`, for one page |
| | `NoneSentTwice` | `[]NothingSentTwice`, for one page: each event in one place, and at the API at most once more than its own answers were lost |

The arguments:

* *Pipeline run.*  `TypeOK` is inductive by itself.  `ClosedMeansWritersGone`
  is inductive relative to it: only `StageClose` closes a stage's channel, with
  all workers done, and a worker that is done never leaves that place.
  `ReturnIsFinal` needs the strengthening `StagesJoined`: once `main` is past
  its wait, every stage has closed its output.  With the channel discipline all
  workers are then done, so the only goroutines left are the batcher, the feeder
  and the caller, none of which touches the variables named.  `ErrorVerdict` is
  inductive relative to `TypeOK`; the work is in `Fail`, which counts the error,
  sets `err` if it is the first one and cancels.
* *Elements of a run.*  What becomes of an element is told by its trails, paths
  through the stages still ahead; two trails with one end are the same, since
  the first place where they differ, counted from the end, would be an element
  that two others emit.  A place of the run (the slice, the batch being built,
  a queue, a worker's hands, the sink's) is looked at from every stage `k`: what
  it holds, as it will be when it awaits `k`.  `HandsInv` says that a goroutine
  which is not at work on a batch holds none, `FlowInv` that no two places, and
  no two batches of one queue, have anything in common.  Every step passes
  elements from one place to another, loses them, or splits the sink's batch
  (`Moves`), and each of these keeps places apart: `EachOnce`.  `Conserved` adds
  that nothing that was not promised turns up, and that all of it is there
  while the context is live: `NoneMissing`.  `DrainInv`: under a live context a
  goroutine ends only when its input is closed and empty.  With it a run that
  was not cut short has nothing left anywhere when its stages are joined, which
  is what the last step of `StreamRun`, a return without error, asks for;
  `PromiseHolds` maps every other step to one of `StreamRun` or to a stutter.
* *Order.*  Places are ranked from the sink backwards.  `InLine` says that what is
  further on is smaller, `QueuesInLine` the same of the batches of a queue; with
  one worker per stage a batch moves past nobody.  What FailFast or a cancel
  discards leaves the line for good.
* *Counters.*  `CountInv`: for every stage, what has been put out before it is
  what it took in and what still waits for it (`BooksKept`); a Filter's three
  counters agree at any time (`FilterBooks`), and so do the sink's with what it
  delivered, if it never failed (`SinkBooks`).  `DrainInv` empties what waits.
* *Stages.*  A loop over a batch is a recursive function of the position; the
  proofs take it as a function that exists and steps (`LoopRuns`), and go
  through it by induction up to the batch's length, as a fact about a set of
  numbers that holds 0 and the successor of each of its members (`UpTo`).
  `SinkInv`: what came out of the sink holds the elements of `took` at the
  positions that were handled and neither shed nor given up, each at its rank
  among them (`Order`), `push` holds the last positions (`Positions`), and the
  counters are the sizes of these sets (`SinkCounts`).  A step of the sink
  handles the next position or all that are left; a new batch only makes `took`
  longer.  `LRU`: the depth
  of a key is the number of keys looked at since its own last look, and the list
  holds each key that is not too deep at the place of its depth; one look
  moves the keys before the place it found by one, and leaves those behind it.
  `OneInv`, with `Apart` (a batch waits, is in the hands of one worker, has
  come through, or has failed): each key the stage knows has exactly one place
  among the elements that are through the then-branch, or a failed batch has
  looked at it.  A batch that fails in the else-branch gives its places up, so the
  invariant must also say that its elements are looks of its own.  `BooksInv`:
  a batch adds to the counters of `If` what it adds to the sizes of what it gave
  the else-branch and got from it, a failed one no more than came in, and
  `errs` is the number of failed batches.
* *Ingest worker.*  Four layers, each inductive relative to those before it.
  `CloseInv`: the channel is closed only outside the serving phase, and with no
  handler at work unless `Shutdown` gave up.  `PlaceInv`: what a handler has
  still to submit has not entered the channel, what anyone downstream has did
  enter it, and these places are disjoint; this is why nothing is written
  twice.  `FlowInv`: while the context is live, a run that returned kept a
  record of every admitted event of its window, those records are in a table (or
  in a failed transaction) when the window ends, and the stream is finished only
  when the closed channel is empty; from it follow `NothingLost` and, at the
  worker's exit, `DrainedByClose`.  `CountersAddUp` is inductive relative to
  `PlaceInv`: the sets whose cardinality it speaks of grow and shrink by one
  handler or one event at a time, and a transaction adds rows that are not there:
  between its commit and the `Add` the table is ahead by the window's records, and
  by nothing else.
* *Tables and statistics.*  `Inv` says of the runs that each put out something
  its window may (`RunsInv`), of the tables that they hold windows whole or not
  at all, each row by its window (`TablesInv`), of the rollups which windows they
  are of (`RollInv`), and of a request that what a query saw is still there
  and was seen by later ones (`SeenInv`).  Windows differ in the `win` of their
  rows, so one that commits cannot complete another; tables only grow, which
  makes figures of one answer differ in one direction.
* *Accounts.*  `IInv` says of the table that addresses are canonical and unique,
  and of every call (`CallOK`) what its answer may name.  Rows are only added
  (`Grows`), so what a call was told stays true under the calls of others.
  `UIInv` adds, for a tab whose session calls have not overlapped with
  another's (`Alone`), that the call it has under way is the only session call
  of the browser, that the shared cookie is the one the call left with, and that
  nobody is signed in while a form is open: then the answer's cookie and what
  the page makes of the answer name the same account.  Time enters by `Timed`: the
  browser holds the cookie set last until it is too old, so a call that leaves
  without a cookie is one more that names no other account.
* *Loader.*  `QueueInv` adds to the order that `flushScheduled` implies an armed
  timeout, and a waiting command that flag.
* *Tracker.*  The timer needs only the types of buffer and timer.  For consent
  the strengthening is `WorkShape`: what a handler may have ahead of it, and
  that the rest of a replay (remove the queue, send it) is ahead only of a page
  with consent.  That holds because consent changes only in a handler that finds
  nothing ahead, and a page that dies loses its handler with its consent.
  `HomeInv` is where one page matters: the queue a handler has read is still the
  queue when it writes.  Then every step moves events between the buffer, the
  handler, what it has read, the stored queue and the requests, and drops none
  but to `shed` or `unheard` (`LostInv`); an event is in one of them at a time, and
  while it is in any, each of its arrivals at the API so far is one whose
  answer was lost, which is counted event by event (`OnceInv`).
* *Configuration.*  `SizesUsable` closes the gap between the environment and
  the assumptions above: `SizesAssumption` of `PipelineRun` always holds, and
  that of `IngestWorker` unless `INGEST_BUFFER_DEPTH` is 0.

Only model-checked: whatever needs fairness, since liveness and `ENABLED` are out
of the prover's reach (`PartialBatchMoves`, `CancelEnds` and `RunEnds` of a run,
`EveryBatchEnds`, `AcceptedIsStored`, `ShutdownEnds`, `StatsAnswered`,
`RestoreEnds`, `Delivered`, `QueueDrains`).  Every other property of a passing
run is proved.  The three violations of section 5 are counterexamples.

## 5. Findings

Each has a run that TLC finds violated.

| Run | The code | The text |
|---|---|---|
| `ingest_signal_loss` | the signal cancels the worker's context first, and `feedWindow` leaves: accepted events stay in the channel, in hand, or in a run that is cancelled with it | `api/internal/ingest/worker.go:76` "all accepted events have been flushed" |
| `tracker_tabs` | `enqueueRetry` reads, extends and writes back; two tabs overwrite each other's queue | `scripts/README.md:102` "persisted to localStorage" |
| `accounts_expiry` | the dashboard's `load` shows the 401 of an expired session as an error and leaves `authStore` signed in, so nothing redirects | `ecom/README.md:104` "Session expiry / 401 - protected routes redirect to `/login`" |

The models show other behaviours that a reader of the texts may not expect.
They have no run of their own; the properties name them as exceptions.

* `pipeline/pipeline.go:107`: after FailFast the `FromSlice` feeder stays
  blocked until the caller's context ends, against "so it never leaks"
  (line 101).  `RunEnds` excepts it.
* `pipeline/pipeline.go:275`: a cancelled run counts as output a batch whose
  send it gave up.  `MetricsAddUp` speaks of runs that nobody cut short.
* `pipeline/stage.go:160`: a batch that panics has taught its keys to the
  Deduplicate stage, and later first occurrences are dropped.  The second
  alternative of `ExactlyOne`.
* `api/main.go:85`: once `Shutdown`'s 15 seconds are over, `Close` closes the
  channel under a slow handler, whose next `Submit` panics.  The condition
  `~expired` of `NoSubmitAfterClose`.
* `api/internal/ingest/worker.go:200`: `Stats` loads the counters one by one,
  against "point-in-time view" (line 186): a scrape can see more events decided
  on than submitted, since `CountersAddUp` holds only instant by instant.
* `api/internal/ingest/worker.go:155`: a window with no surviving event records
  no stage metrics, so its drops are counted nowhere.  `RunReturnsEmpty`.
* `pipeline/route.go:35`: when one branch of `If` fails, what the other put out
  is lost and not counted as dropped.  `IfAccounts` is an inequality for it.
* `pipeline/pipeline.go:309`: a `Push` that fails ends its batch, whose rest is
  counted as output.  `sinkStat.out` in `SinkAccounts`.
* `api/internal/store/store.go:33`: "reads still use the pool under WAL" (and
  `api/api-design.md:36`), while `SetMaxOpenConns(1)` in the next line leaves
  one connection: statistics wait for flushes, one query at a time.
  `AnswersOrdered` says what a reader can see of it.
* `api/internal/store/users.go:41`: when `CreateUser` cannot read its row back,
  the client is told 500 and the account exists.  `LoginAfterSignup` counts it.
* `ecom/app/stores/authStore.ts:28`: an answer of `restore` that comes after one
  of `login` overwrites it, in one tab or through the shared cookie in two.
  `mixed`, the exception of `UIAgrees`.
* `api/internal/auth/auth.go:107`: the cookie's `MaxAge` makes the browser drop it
  when the session is over, while a page that is open goes on showing its user.
  The second alternative of `UIAgrees`.
* `ecom/public/tracker.js:264`: a batch that fails while the browser is online is
  replayed only by a new page, a consent or the end of some later outage.
  `stranded` in `Delivered`.
* `ecom/public/tracker.js:237`: a batch that `sendBeacon` took and that then
  fails is in no queue.  `unheard` in `NothingLost`.
* `ecom/app/lib/tracker.ts:85`: a tick that comes too early arms two, in spite of
  the guard at line 82.  `TickEarly`, and the bound `MaxTimers`.

## 6. Plan

Done, in this order: `PipelineRun` with `StreamRun`, `IngestWorker`, `Tracker`,
`TrackerLoader`, `Stages`, `Accounts` with `Config`, `Analytics` with `Intake`,
and the proofs above.  Left, in order of importance:

1. `EndToEnd`: the replays of two tabs (`tracker.js:281`), with the windows'
   deduplication between them and the table; batches of events built before
   consent, which the server drops after the grant (`tracker.js:189`).
2. `Checkout`: the cart, the order in progress and late product answers, as far
   as they keep state.

## 7. Not modelled

Cryptography of passwords and cookies, HTTP parsing, CORS, `/health`, logging,
markup and styling; latency percentiles and throughput (numeric reporting); the
benchmarks and tests; the text of fields, which the stages only trim and cut;
JavaScript event construction and the click and history patches of the tracker,
and the guard of its `sendBatch` for an endpoint that is not set
(`tracker.js:229`), which the documents make mandatory: without one it drops every
batch and reports success;
the cart, checkout, product and home pages of the shop, whose state never leaves
the page; the Go memory model below the level of its synchronisation operations.
`Stats` of the worker loads counters one by one (`worker.go:200`), which no
property here depends on.  `INGEST_BUFFER_DEPTH` 0 starts a server (`Config`)
but is outside `IngestWorker`'s assumptions.  SQLite, the browser and the
network appear by how the code uses them: transactions that commit or roll back,
one connection, a storage whose accesses are atomic one by one, a shared cookie,
requests that may fail before or after they arrive.

## 8. Running

    tlc -workers 2 -config pipe_skip.cfg MCPipelineRun
    tlapm PipelineRun_proofs.tla   # and the other *_proofs modules

`PROJECT.json` names the module and the configuration of every run.

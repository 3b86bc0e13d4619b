# Flash-sale backend: TLA+ specifications and proofs

A verification project for the order system in `src/src`: a NestJS API and an
order worker that sell a limited stock through Redis, BullMQ and PostgreSQL.
Paths below are relative to `src/src` unless they start with `src/`.

## 1. The system

| Component | Where | State | Operations |
| --- | --- | --- | --- |
| Gatekeeper and compensation | `redis/lua/*.lua`, `redis/redis.service.ts` | `stock:flash_sale:*`, `lock:order:*`, `bought:*`, `compensated:*` on redis-data | five Lua scripts, `markBought`, lock TTL |
| Order API | `orders/orders.service.ts` | none of its own; a call is a sequence of awaits | `createOrder`, `readStoredJob`, `compensate`, `compensateIfReserved` |
| Order queue | BullMQ, options in `orders/orders.service.ts` | one job per (user, product) | add, take, complete, fail, back off, stalled check, trim |
| Order worker | `orders/orders.processor.ts` | transaction in progress, attempt number | `process` |
| Database | `database/migrations`, `orders/entities` | `products.remaining_stock`, `orders`, row lock | conditional UPDATE, INSERT with UNIQUE, COMMIT, ROLLBACK |
| Seeding, bootstrap, reset | `seed/*`, `database/migrate-and-seed.ts`, `database/reset.ts` | the script's place in its sequence; writes database and counters | migrate, upsert, `SELECT` and `SET NX`; DELETE, UPDATE, SCAN and DEL |
| Load test | `src/loadtest.js` | counters per HTTP status | one request at a time per account, thresholds on a round |
| Catalog read path | `products/products.service.ts`, `redis/redis.service.ts` | pages, index and flush throttle on redis-cache; in-flight promises, timer and last flush per process | `listProducts`, `getStocks`, `invalidateCatalogCache` |
| Integrity check | `observability/integrity.service.ts` | none; three reads at different moments | `check` |
| Counters | `observability/metrics.service.ts` | buffer per process, hash on redis-data | `inc`, `flush`, `onModuleDestroy`, `readCounters`, `reset` |
| Insights page and scraper | `observability/insights.page.ts`, `observability.controller.ts` | the numbers drawn | `tick`, `snapshot`, `prometheus` |
| Health probes | `health/health.controller.ts` | none; four indicators side by side | `live`, `ready` |
| Database connections | `config/database.config.ts`, every `createQueryRunner` | a pool per server and process | lend, give back, reject |
| Auth, configuration, Bull-Board, logging | `auth`, `config`, `bull_board`, `common`, `logger` | none that the others depend on (the exception filter's 500 is `RequestFails` of `Metrics`) | |

How they interact. `POST /orders` calls the gatekeeper script, which checks
counter, bought flag and lock and, if all allow it, decrements the counter and
sets the lock to a fresh `requestToken`. The API then stores a job named
`order:{user}:{product}` and reads it back: BullMQ silently keeps an older job
of that name, so only the stored token tells whose job it is. The worker runs
`UPDATE .. WHERE remaining_stock > 0` and `INSERT` in one transaction, then sets
the bought flag and releases the lock. Every path that leaves a reservation
without a job must put the unit back: `compensate.lua` (no job),
`compensate-if-reserved.lua` (the gatekeeper's answer was lost) and
`compensate-once.lua` (the last attempt failed).

What is hard: a client timeout does not undo what Redis ran; jobs are delivered
at least once; a worker may die at any await; the lock times out by itself; a
job name may be taken, free or forgotten; Redis and PostgreSQL have no common
transaction; a script has none either and may end after any statement; counts,
readings and resets of different processes are not ordered; everybody in a
process shares one pool of connections and waits for it without a limit. The
full list, at the line where each hazard bites, is under
`hazards` in `PROJECT.json`.

What makes each part correct: the database never sells a unit twice and a user
never buys twice; Redis never offers more than the database has; no reservation
is lost, returned twice, or returned after its sale; a refused request never
buys; every reservation is settled; a "critical" verdict of the integrity check
is never a false alarm; a shared promise settles, shared counters are not a
cache, no catalog page stays stale for ever and no invalidation is forgotten.
However its scripts end and whatever Redis forgets, a round sells no unit that
an earlier one sold, and a completed reset is followed by a round that sells
exactly the stock. A count is neither doubled nor forgotten without a reason that has a name, and
the page shows the truth in the end. Readiness tells the truth, and whoever
waits for a connection gets one or an error.

## 2. Modules

| Module | Models | Notes |
| --- | --- | --- |
| `StockLedger` | the promise about units: on the shelf, held, sold | abstract specification, no technology in it |
| `RedisData` | redis-data as the order path uses it | each Lua script is one operator, because Redis runs a script atomically |
| `OrderQueue` | BullMQ as the order path uses it | external; one job slot per user |
| `OrderDB` | the product row, its row lock, the orders table | UNIQUE (user, product); an order is remembered by the request that paid for it |
| `OrderFlow` | `createOrder`, `process`, time and faults; their properties | EXTENDS the chain above |
| `OrderFlowInv` | the inductive invariants of the write path: `PathInvariant` and `HoldInvariant`, of the path alone, `WriteInvariant`, `ReservationInvariant`, `ExclusionInvariant`, `HeldIsHandled` | |
| `Rounds` | migrate-and-seed, seed:redis, reset and a loss of redis-data beside the write path, under the load test's clients | EXTENDS `OrderFlowInv` |
| `IntegrityCheck` | `IntegrityService.check()` beside the running write path | EXTENDS `OrderFlowInv` |
| `CatalogCache` | the cached pages, their index, `invalidateCatalogCache()` and the flush | component of its own |
| `CatalogRead` | `GET /products`: page, single flight, stock overlay | EXTENDS `CatalogCache` |
| `Metrics` | the buffers, their flushes, the shared hash, readings, resets, the end of a process | component of its own |
| `Observability` | the page and the scraper that read the counters | EXTENDS `Metrics` |
| `Pools` | the connection pools of one process, its readiness probe | component of its own |
| `MCOrderFlow`, `MCIntegrityCheck`, `MCCatalogRead`, `MCRounds` | instances and sets of faults for TLC | |
| `StockLedgerProofs`, `OrderFlowProofs`, `ReservationProofs`, `IntegrityProofs`, `CatalogProofs`, `RoundsProofs`, `MetricsProofs`, `PoolsProofs` | theorems | TLAPS |

**Write path.** One product is modelled: products share no key, row or job name.
A request is its token, a fresh UUID per call. `pc[r]` is the await a
`createOrder` call is at, or its answer; `wpc[w]` is the await a worker slot is
at in `process`, with the token and `attemptsMade` of the job it took. A slot is
one unit of `WORKER_CONCURRENCY` of one process. `claims` is the one history
variable: the requests that were decremented for and not given back.

A fault happens only if it is in the constant `Faults`, so each configuration
names what it tolerates; the twenty faults are listed in `OrderFlow`. Six are
*ambiguous*: they make the program believe something that is not so
(`AddReplyLost`, `CompensationResent`, `CommitReplyLost`, `WorkerCrash`,
`JobLockLost`, `EarlyTrim`). The list is tight: adding any one of them breaks
some property of the run `not_ambiguous`.

Abstractions that matter:

- PostgreSQL's `UPDATE` waits for the row lock, so the transaction of one slot
  holds the row from its UPDATE to its COMMIT or ROLLBACK. A unique violation
  is decided against committed rows, which is exact because the row lock
  serialises all transactions of a product.
- A worker that lost the lock of its job runs on to its end and BullMQ ignores
  its result.
- A script that Redis ran and ioredis sends again after a reconnect takes two
  steps (`GatekeeperResent` then `GatekeeperRunsAgain`; `CompensationResent` then
  `Compensate`), between which anybody else may move. A gatekeeper call that is
  sent again counts as one that waits for its answer, so the lock does not time
  out under it without `LateTtl`. Not modelled: a command that ioredis still
  sends after `commandTimeout` let its caller go on.
- `LockExpires` may happen at any time (the TTL is 30 s, an outage may last
  longer). Without the fault `LateTtl` it does not happen during the second
  that a caller waits for a gatekeeper answer.
- Left out: `queryRunner.release()`, which is `Release` of `Pools`, the 300 s TTL
  of the `compensated:*` guard (a retry chain takes about two seconds), the unreachable `default` verdict,
  counters and logging; the unreachable `!job` branch does what `EnqueueFails` does. `invalidateCatalogCache()`, the last
  call of `process`, changes nothing the write path reads; it is `Sell` and
  `Invalidate` of `CatalogCache`.

**Integrity check.** The check changes nothing, so one check that starts at any
moment stands for all. The SELECT with its aggregate is a snapshot of the
master; the counters are read after it, because `checkProducts()` awaits one
after the other; the queue counts are read at any time, because `Promise.all`
starts all reads together. Replication lag, Redis INFO and pool size are
displayed and enter no verdict.

**Catalog.** The catalog is its version, the number of committed sales: what a
page holds is the version of the replica when it was read. Sale *n* stands for
the call of `invalidateCatalogCache()` that follows it and for the timer and the
flush that come of it, so a call needs no identity of its own. `window[c]` says
whether `lastCatalogFlushAt` of a process is at least a window ago. The throttle
key has the same length as the window and is set a round trip after the process
closed its window, so it ends after that window: `throttle` names the process
that set it and becomes `Expiring` when its window opens. A process that ends
takes its calls, its flushes and its pending timer with it, which is `unref()`'d
(`ProcessEnds`). An error of the throttle's SET NX lets the flush go ahead,
whether or not the key was set; if it was, that is the step that set it. `tried` and `flushed`
are history; a flush that met the throttle key of another counts as tried. For the reader, `flight` and `mflight` name the reader whose promise
`inFlight` and `stockReadsInFlight` hold, `seen` is the state of the counters an
answer shows and `since` their state when the first request of its MGET asked.
Left out: the arithmetic of pages, the throttled report of missing counters, and
a cached page that is not JSON, which counts as a miss like any error.

**Rounds.** The variables of the write path keep their meaning, and the scripts
write them: `script` is the script that runs and its next statement or command,
`read` the `remaining_stock` that `seedRedisStockWith()` selected and has yet to
`SET NX`. `ScriptFails` ends a script after any step. migrate-and-seed may start
at any moment, because the entrypoint of app-1 runs it, and so may seed:redis;
seed alone is a migrate-and-seed that ends after its upsert. reset, the load and the
order of the scripts are the operator's, and the code checks none of it. The
model trusts the operator with three things: a reset starts when the round is
over (`RoundOver`), the load waits for its end, and one script runs at a time.
`RedisLost` is redis-data coming back without its volume, at any moment.
The DEL of the metrics by reset is not among its steps: the sale does not read
them, and to the processes that count it is a `DeleteCounters` of a process that
counts nothing. `fresh`, `before` and `calm` are history: the last reset was completed and
BullMQ kept no job, the requests older than it, and whether redis-data was lost
only at rest. reset does not delete jobs, so a user of the last round may be
deduplicated against a job that BullMQ still keeps; hence the condition on jobs
in `fresh`.

**Counters.** A count is a member of `Events`, so that "counted once" becomes
"found in one place": in `buffer`, in a command of `sent`, in `hash`, or in
`lost` under its reason. `sent[i]` is the connection of a process: ioredis
delivers its commands in order, and nothing orders two connections. The timer
does not wait for the flush before, so several pipelines may be on the way.
`exec()` may reject, resolve with errors that `flush()` does not look at, or be
sent again by a client that reconnects (`again`, `twice`), with a reset or a
reading of another process in between. (That it rejects is what the catch of
`flush()` is for; a pipeline that times out resolves with an error per command.)
A DEL or HGETALL sent again changes nothing that a later one would not.
`onModuleDestroy()` flushes once more; the process counts on until it exits,
when `quit()` has waited for what was sent. `counted`, `excused` and `lost`
are history. Bounds: one reset at a time and none before the first count, one
slow answer at a time, `MaxSent` unanswered commands of a process, `MaxFaults`
faults. One counter name stands for all.

**Pools.** A task is one use of one server by a worker slot, by one of the four
indicators of a readiness call, or by a check: it waits in `line`, borrows,
queries and gives back. `out` counts the connections that are lent, `stuck` those
of the primary that `startTransaction()` lost before the `try`. A server that goes down
breaks the connections in use. A transaction that failed for good compensates in
Redis before its `finally` releases, and a check reads the counters before its
does, so a connection is held across an await on another server. The bound `MaxStuck` is below
`PoolSize` by assumption: with every connection stuck everybody waits for ever,
which is what the `connect()` and `startTransaction()` outside the `try` can come to.

## 3. What TLC checks

| Run | Instance | Shows |
| --- | --- | --- |
| `any_fault` | 1 user, 2 requests, 2 units, 2 slots, 1 attempt, all twenty faults | `WriteInvariant`, `OneOrderPerUser`, `BoughtMeansOrdered`, `LockProvesClaim`, `OnlyHolderUnlocks` |
| `not_ambiguous` | 2 users, 3 requests, 1 unit, 2 slots, 3 attempts, 13 faults | `ReservationInvariant`, `NoUnitReturnedTwice`, `SoldIsClaimed`, `RedisNeverAhead`, `AdmittedFindsStock`, `RefusedNeverSold`, refinement of `StockLedger` (`LedgerSpec`) |
| `settled` | 2 users, 3 requests, 2 units, 2 slots, 2 attempts, failures the code compensates, lock outlives the purchase, fair | `NoLeakAtRest`, `NoAdmissionAfterSale`, `EverythingEnds` |
| `crash` | 2 users, 2 units, 2 slots, 2 attempts, workers die, jobs stall out, locks time out, fair | `OnlyStalledOutLeaks`, `ReservationsSettle` |
| `verdict` | 2 users, 1 request each, 1 unit, 2 slots, 1 attempt, units leak and come back twice, jobs run twice, workers die, reads fail | `NeverOversold`, `CheckInvariant`, `DriftFound`, `CriticalIsTrue` |
| `catalog` | 1 page, 1 process with 2 readers, 1 sale, all nine cache faults, fair | `ReadInvariant`, `FlightsAreLive`, `StockIsLive`, `EveryReadAnswered`, `PagesBecomeFresh` |
| `flush` | 3 sales of 1 process that lives on, 1 reader, the cache fails or evicts | `FlushInvariant`, `EverySaleTried` |
| `rounds` | 2 users, 3 requests, 1 unit, 1 slot, 1 attempt, all three scripts any number of times, redis-data lost any number of times | `RoundsInvariant`, `SeedNeverAhead`, `RoundSellsOut`, `SeedAsSpecified` |
| `metrics` | 2 processes, 2 counts, 1 reading at a time, 2 unanswered commands per process, one fault of any kind, fair | `CounterInvariant`, `NeverOverstates`, `TermKeepsCounts`, `ResetClearsOwn`, `CountsArrive`, `PageCatchesUp` |
| `pools` | 1 slot, 1 probe, 1 check, 2 connections per pool, 1 of them stuck, 1 outage, fair | `PoolInvariant`, `NobodyWaitsForever` |

Why the bounds are enough. Two requests of one user meet on the lock, the job
name, the flag and the constraint; a third, of another user, competes for the
units. One unit makes the counter reach zero, two let both users buy. Two slots
are what it takes for a job to run twice at once. Two attempts have a first and
a last one, three also one between. `MaxStalled` is BullMQ's default of 1. The
set of states is finite without any other bound: counters are limited by the
requests and attempts. `NeverOversold` is checked in `verdict`, where a unit that
came back twice lets Redis admit two buyers for the one there is, so that the
second UPDATE meets a row at zero; `any_fault` has one user, who buys once, and is
about everything else that may go wrong at once. Worker slots are symmetric, in
`any_fault` the two requests and in `verdict` the two buyers with their requests
too; symmetry is not used where liveness is checked. In `crash` every job may
stall out, so crashes are not bounded there. In the catalog, three sales of a
process are one that flushes, one that sets the timer and one that rides along;
two readers are one that loads and one that joins; pages and processes do not share promises, so one
of each is enough for the readers. `MaxVersion` bounds sales and `MaxStock` the
changes of the counters. In the rounds, the user with two requests buys in two
rounds, or meets in the second what the first left; the other competes for the
one unit; the faults of the write path are left to its own runs and, for
`RoundsInvariant`, to the proof. Of the counters, two processes are one that
resets and one whose flush is overtaken; two unanswered commands of a process are
two flushes that overlap, or one with a reading or a reset; one fault is enough for each reason of
loss, and two counts for a batch that is added to a buffer put back. In the
pools, three kinds of tasks compete for two connections to the primary, and for
one once the other is stuck.

Two runs expect a violation, each the counterexample to a sentence of the
repository (quoted in `PROJECT.json` under `findings`):

| Run | Sentence | Counterexample |
| --- | --- | --- |
| `commit_lost` | stock is given back only after a permanent failure (`orders/orders.processor.ts:103`) | the reply to COMMIT is lost, later attempts fail before the INSERT |
| `flush_lost` | every update invalidates the cache, fresh within a second (`redis/redis.service.ts:335`, `:340`) | a process that meets another's throttle key drops its flush and sets no timer |

Three more sentences do not hold as they stand. They are met by the model and
need no run:

- sold out in the worker is said to mean that Redis was ahead
  (`orders/orders.processor.ts:109`); it is also what a redelivery meets when the
  first delivery sold the last unit and died. `AdmittedFindsStock` is what holds:
  without an ambiguous fault a first delivery never gets there.
- negative drift with an empty queue is said to be a leak
  (`observability/integrity.service.ts:137`); a sale that commits between the
  SELECT and the MGET looks the same. `DriftFound` is what holds: the warning is
  right when the check was made at rest.
- the gap before the `try` is said to be the only path that takes stock and
  cannot give it back (`src/docs/Architecture/architecture.md:677`); a job that
  stalls too often is failed by BullMQ without a call of `process` (fault
  `StalledOut`). `OnlyStalledOutLeaks` is what holds: with workers that die and
  no failure of `startTransaction()`, these jobs are the whole leak.

The gap that the documentation does acknowledge (`connect()` and
`startTransaction()` outside the `try`, `orders/orders.processor.ts:63`) is the
fault `BeginFails`: with it `NoLeakAtRest` does not hold, so the runs that check
that property leave it out, and the safety properties are checked with it. What
holds where `flush_lost` fails is `EverySaleTried`, the part the trailing timer
guarantees, and `PagesBecomeFresh`, the part the TTL guarantees.

Fairness of the write path (`Fairness` in `OrderFlow`, runs `settled` and
`crash`). Weak fairness of each call of `createOrder` once it has arrived and of
each busy slot, because an awaited promise settles (Redis commands time out
after 1 s); of a slot taking a job, because BullMQ's worker loop keeps fetching;
of the end of a backoff, of the stalled-job check for a job whose worker is gone,
both timers of BullMQ; and of the seed, which the release step runs. No fairness
is assumed for arrivals, faults, lock expiry or trimming. A job that loses its
worker more than `MaxStalled` times is failed by BullMQ, so crashes cannot keep it
alive for ever (without the fault `StalledOut` they stop at `MaxStalled`).

Fairness of the catalog (`CatalogFairness`, run `catalog`). Weak fairness of each
step of a reader that is under way, of the replica replaying what the master
committed, and of the end of a TTL. Nothing makes a reader come, a sale happen,
a timer fire or a flush take place: `PagesBecomeFresh` rests on the TTL, as the
catch of `flushCatalogCache()` says.

Fairness of the counters (`ObsFairness`, run `metrics`). Weak fairness of each
flush, because the timer goes on firing while the process runs; of what is on a
connection being served or dropped; of the restart of a dead container
(`restart: unless-stopped`); of the page's `tick()` and of a slow answer's
arrival. Strong fairness of the exit of a process that was told to stop, since
new readings may disable it again and again, and of the page being the one whose
reading is answered, since a scraper may take any single one of them.
`PageCatchesUp` also needs that counting and resetting end: counts do because
`Events` is finite, and a DEL of an empty hash changes nothing.

Fairness of the pools (`PoolFairSpec`, run `pools`). Weak fairness of each task
going on once it has begun, and of the answer of a probe whose indicators are
all in: a query ends, fails with its server, or times out in Redis. Nothing makes
a server come back, and no task is made to begin. The line of a pool is first
come, first served, as in `pg-pool`.

## 4. What is proved

`StockLedgerProofs`: `LedgerConserves`, the abstract ledger conserves units for
every finite set of requests and every stock.

`OrderFlowProofs`, for all values of the constants and **every** set of faults,
from the assumptions on the constants alone:

- `TypeCorrectness`, `NothingOversold`, `OneOrderEach`, `BoughtIsOrdered`,
  `LockIsEvidence`: `Spec => []` of `TypeOK`, `NeverOversold`,
  `OneOrderPerUser`, `BoughtMeansOrdered` and `LockProvesClaim`; `LocksAreKept`:
  the action property `OnlyHolderUnlocks`.

  No invariant of these is inductive alone. `WriteInvariant` adds that a job
  lies under the user of its token, that exactly the slots between UPDATE and
  COMMIT own the row lock, with a unit left and past the INSERT no order of the
  user, and that `markBought` runs for a committed order only. The step lemmas `ApiStep`,
  `WorkerStep` and `TimeStep` go through the actions one by one; `LockProvesClaim`
  needs that every script that gives a unit back also deletes that token's lock.

`ReservationProofs`, assuming no ambiguous fault (`NoAmbiguity`):

- `UnitsReturnedOnce`, `SoldStaysClaimed`, `NeverAhead`, `AdmissionIsKept`,
  `RefusalIsKept`, from `ReservationsInOrder`. `ReservationInvariant` says who
  holds each unit: a request before its job is stored, a queued or delayed job,
  a slot whose attempt is undecided; it also says that a slot owns the job it
  runs and that only a last attempt compensates. Units are counted once, in
  `NoUnitReturnedTwice`; from that and `NeverOversold`, `RedisNeverAhead` is
  arithmetic on cardinalities (orders are a subset of claims).
- `PathImplementsLedger`: `Spec => LedgerSpec`, with the refinement mapping
  shelf = counter (the stock before the seed), held = claims without orders,
  sold = orders. A gatekeeper step maps to `Reserve`, a compensation to
  `Cancel`, a COMMIT to `Confirm`, everything else to a stutter.
- `NobodyAdmittedTwice`, also assuming that no lock times out before its
  purchase is over (`LockTtl`): `Spec => NoAdmissionAfterSale`.
  `ExclusionInvariant` is the strengthening. While a request has a unit, the lock
  is its own or its user has the bought flag (`Exclusive`), so a user has one
  reservation at most; the lock goes only after the flag is set
  (`ReleaseFollowsMark`); a guard of compensateOnce stands only for a unit that
  was given back (`GuardedIsReturned`).
- `NothingLeaks`: `Spec => []NoLeakAtRest`, assuming `EveryFailureNoticed`: no
  ambiguous fault, none of the six in `LeakFaults`, after which no
  compensation runs or none can see the unit, and not both `LockTtl` and `Trim`.
  With both, a user whose lock timed out before the bought flag was set and whose
  finished job is gone is admitted again; the UNIQUE constraint refuses the
  second order, and the worker takes that for a redelivery and gives nothing
  back. `HeldIsHandled` is the strengthening: whoever holds a unit is a
  call that has not returned, with its lock where compensate-if-reserved.lua
  will look for it, or a job that will be tried (`Tried`). At rest there is
  neither, so claims are orders, and the two equations of units agree.

`IntegrityProofs`, for every set of faults: `CheckInvariantHolds`,
`CriticalIsNoFalseAlarm` and `EveryDriftIsFound`. The argument of the second: the
row was in balance when it was read and has only fallen since (`RowOnlyFalls`),
so a counter above the row that was read is above the row that is there. Of the
third: a check that began at rest has read, at each stage, what is still there
(`RestIsSeen`), since nothing moves a unit once every request is answered and
every job finished. Whether the sale made Redis wrong does not matter, hence no
assumption on the faults.

`CatalogProofs`, for every number of processes, pages, sales and readers,
all resting on `FlushInvariant` (`SalesAreInHand`) and `ReadInvariant`:

- `CatalogInvariantHolds`, `PromisesAreLive`, `SharedStockIsLive`, whatever
  fails. `FlightsAreLive` alone is not inductive: `FlightsAreOwned` says that a
  promise lies under the process and page of its reader, so that a reader who
  turns to another page leaves nothing behind. `StockIsLive` needs
  `BatchesAgree`: all requests that await one MGET have one beginning, and the
  MGET runs after it.
- `TrailingTimerLosesNoSale`, unless a worker dies between commit and call or
  with its timer (`CallsSurvive`). `SaleInHand` is the strengthening: while a sale has not been
  tried, some call, timer or flush will read the sales after it.

`RoundsProofs`, for every set of faults, with scripts that end anywhere and a
redis-data that is lost at any moment: `RoundsInvariantHolds`,
`UnitsStayBounded`, `OneOrderPerRound`. `NeverOversold` and
`BoughtMeansOrdered` do not survive a script that ended half way, so
`PathInvariant` is the part of `WriteInvariant` that does not speak of the stock,
and its step lemmas are those of `OrderFlowProofs`. `UnitsBounded` takes the
place of the equation: it is kept by reset because orders are deleted before the
stock is restored, and by the seed because the upsert leaves `remaining_stock`
alone. `ScriptInvariant` says that during a reset nothing else moves, for which
`NoWorkerMoves` and `OverStaysOver` are needed. The module extends
`ReservationProofs`, and says more under more assumptions:

- `SeedStaysBehind` and `SeedIsOneStep`, assuming no ambiguous fault. Neither
  equation of units survives a half-run script, so `ShelfInvariant` counts what
  is still to come: the units on the shelf and those in flight (`InFlight`: of a
  call that has not returned, or of a job that is not finished) are no more than
  the row has. One step moves one unit at most (`HoldInvariant` says which), and
  as long as there is no counter nothing is in flight, so the stock that the seed
  selected is still the row's when its SET NX takes effect. That is also why the two
  steps of the seed implement the one of `OrderFlow`.
- `RoundsSellOut`, assuming that nothing fails that the customer would notice
  (`Smooth`: only `Trim` and `PostCommitFails` may happen). The load test's
  thresholds are about such a load: one failed call that was compensated is a
  503. `ResetProgress` says which part of the state each step of a reset has
  already restored, and that it stays so. When the last step completes, the
  round satisfies what holds at the start of a sale, so that
  `FreshInvariant` can take over the invariants of the write path, all four of
  them, for each round after; `AnswersAreTrue` adds what the answers say: whoever
  is accepted has a unit, and whoever met "sold out" finds the counter still at
  zero, because without a compensation it only falls. Counting buyers against units
  is then arithmetic on a bijection between users and claims.

`MetricsProofs`, for every number of processes, counts, readers and faults:
`CountsStayOnce`, `ReadingsNeverOverstate`, `TermKeepsWhatItCan`. The inductive
invariant states the place of one count at a time: every count is somewhere
(`Located`), no two places share one (`Apart`), and what a reading found in the
hash is in no buffer any more, even after the hash was deleted (`ReadApart`), so that
adding up hash and buffer adds disjoint sets. `StoppingExcused` says that the
buffer of a stopping process holds excused counts only. The lemmas on sequences
(`Sending`, `Answering`) say what one command more or less on a connection does
to the counts that it carries. `ResetSweepsOwn` is the action property
`ResetClearsOwn`, from `SweptInvariant`: a connection delivers in order, so what a
DEL on its way names of the time before it is neither behind it on that
connection nor in the buffer, except for what a failed flush put back.

`PoolsProofs`, for every number of slots, probes, checks and connections:
`ReadinessIsTrue` and `PoolInvariantHolds`. `MetAsFound` relates the state of
each indicator to the servers met since the call began; it needs `UsedIsUp`, that
a connection in use leads to a server that is up. `LentAccounted` is arithmetic on
the set of holders: every step of a task adds one holder, takes one away, or
leaves the set as it is (`OneLent`, `OneGivenBack`, `SameHolders`).

Only model-checked:

- liveness (`EverythingEnds`, `ReservationsSettle`, `EveryReadAnswered`,
  `PagesBecomeFresh`, `CountsArrive`, `PageCatchesUp`, `NobodyWaitsForever`), which
  needs fairness and ENABLED and is out of the prover's reach;
- `OnlyStalledOutLeaks`, that is, what leaks where workers die (run `crash`).
  `NothingLeaks` excludes crashes, because a job may then be redelivered after its
  order was committed, which `JobHolds` rules out.

## 5. Not modelled

- Of the counters: the heartbeat of each process (the HSET in the pipeline of
  `flush()`, `readInstances`), which is displayed and enters no count, `readRedis` and `readPool`.
- Of the scripts: migrations that find something to do, the first insert of a
  product and a seed file whose stock changed, a pipeline that seeds some
  products and not others (one product is modelled), and `app-entrypoint.sh`,
  whose only part here is that it runs migrate-and-seed at any start of app-1.
- Of the catalog: the arithmetic of pages and limits, the throttled report of
  missing counters.
- Of the insights page: the button that pauses its polling, and a snapshot that
  fails because its integrity check does.
- Of redis-data: a restart with an older state of its append-only file. It loses
  all or nothing.
- Of the load test: latencies, the read scenario beyond the requests that
  `CatalogRead` has, the report.
- Authentication, Bull-Board, logging and the parsing of the
  configuration keep no state a property could be about.
- A user whose last job failed for good is refused until BullMQ forgets that job
  (`orders/orders.service.ts:206`). The model has it; whether it is right is a
  decision about the product, so no property states it.

What is left to prove: `OnlyStalledOutLeaks`, with workers that die between any two
steps. A slot and a queued job may then hold a unit that is sold already, so the
invariant has to tell a job whose order exists from one whose order is yet to
come, and to show that the UNIQUE constraint ends the former without a
compensation.

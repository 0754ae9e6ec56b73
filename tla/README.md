# A TLA+ model of the load-test bench

This directory models the distributed load generator of this repository: the
coordinator that dispatches a run to a fleet of workers and aggregates what they
report, the control plane that owns the run's row and streams its ticks, the worker
registry, the load engine and the coordinated-omission scheduler its connections are
paced by. The modules are translated from the sources under `src/`; TLC checks them on
small instances and TLAPS proves the main theorems for every value of the constants.

Contents: 1 the system, 2 the modules and the code, 3 the runs, 4 bounds and
fairness, 5 the proofs, 6 where the code and its documents disagree, 7 what is
not modelled, 8 the plan.

## 1. The system

A user creates a run through the HTTP API of the **control plane** (Go,
`src/control`), which stores it in PostgreSQL and posts it to the **coordinator**
(Rust, `src/engine/src/coordinator`). The coordinator sends a slice of the run to
every registered **worker node** (`src/engine/src/worker_node.rs`) over gRPC; each
runs the **load engine** (`worker.rs`, `sched.rs`) and streams one Partial per
second back. The coordinator merges them into a live feed of ticks which it pushes to
the control plane, and at the end pushes the run's final results. The control plane
streams ticks to browsers, counts their cost, and evaluates sampled responses.

| Component | Source | State it keeps | Operations |
|---|---|---|---|
| Run dispatch and aggregation | `coordinator/dispatch.rs` | per-run locals: fleet snapshot, `per_tick`, `cum`, one `WorkerSummary` per task, the Partial channel | `dispatch_with_ticks`, `run_one_worker`, `aggregate_loop`, `aggregate_tick` |
| In-flight registry and abort | `coordinator/mod.rs` | `runs`: run id to (addresses, cancel token) | `register_run`, `deregister_run`, `abort_run`, `fan_out_aborts` |
| Worker node | `worker_node.rs` | `run_tokens`: run id to cancel token | `RunSlice`, `Abort` |
| Coordinator admin endpoints | `coordinator/admin.rs` | `FinalsAcc` per request | `run_endpoint` (push ticks, finalize), `abort_endpoint` |
| Worker registry and reaper | `coordinator/mod.rs`, `bin/worker_node.rs` | `workers`: id to address and `last_heartbeat`; the workers' timers | `register`, `heartbeat`, `reap_dead_workers`, startup retries, re-register loop |
| Run row and its writers | `control/internal/api`, `store` | the row: status, reason, finals | `CreateRun`, `dispatchToCoordinator`, `AbortRun`, `MarkRunning/Failed/Aborted`, `FinalizeRun` |
| Cost guard | `api/costguard.go` | `costGuard`: run id to (active, tripped) | `checkCost` per ingested tick |
| Send schedule | `sched.rs` | one `ConnSched` per connection | `intended_send_time`, `usec_to_next_send`, `advance`, `defer_origin` |
| Load engine | `worker.rs`, `hist.rs` | shared atomic counters, histograms, the abort flag, samples | `connection_task`, ticker, `classify` |
| Tick ingestion and SSE | `api/stream.go`, `sse/sse.go`, `store/ticks.go` | `subs`: run id to subscriber channels; the `run_ticks` rows | `IngestTick`, `Subscribe`, `Publish`, `StreamRun`, `persistTick`, `GetTicks` |
| Offload evaluation | `offload/cache.go`, `offload.go` | `entries`: run id to evaluator | `evalOneSample`, `Cache.Get`, `NewEvaluator`, `Evaluate` |
| Response classification, cliff detection | `worker.rs`, `bin/worker.rs`, `admin.rs` | two maps of buckets by offered rate | `classify`, `detect_cliff_rps`, `FinalsAcc` |
| Comparisons, regression, templates | `api/comparisons.go`, `compare.go`, `regression.go`, `templates.go` | rows | pairwise creation, statistics, CRUD |
| Single-binary engine CLI | `bin/worker.rs` | `bucket_accum` | runs one engine without a fleet, pushes ticks and finals |
| Request validation and credential scrubbing | `api/validate.go`, `scrub.go`, `errors.go`, `types.go` | none | checks of one request |
| Histogram rendering | `api/histogram_json.go` | none | decoding of a stored histogram |
| Mock target | `mock/src/lib.rs` | `RpsMeter`'s ring of atomic buckets | `record`, `current_rps`, fault injection |
| Clients and configuration | `cli`, `mcp`, `web`, `gates`, `config`, `migrations` | none the system depends on | |

How they interact. The dispatcher goroutine of the control plane holds one HTTP
request open for the whole run; during it the coordinator pushes ticks and the finals
back over separate requests, so that two processes write the same row at once. An
abort goes from the user to the control plane (a row update), to the coordinator
(`abort_run`), to the aggregation loop (a cancel token) and to each worker (an Abort
RPC). The cost guard takes the same path from a tick. Workers reach the coordinator
only to register; the coordinator dials them for a run.

What makes each component correct, and what is hard about it:

* **Dispatch**: seconds are published once, in order, complete and exactly summed,
  while streams interleave, run ahead of each other and break; totals never claim
  load nobody reported; a worker whose engine did not run to its end is reported lost, and
  one whose engine did only if its final Partial was lost with the stream; every
  dispatch returns.
* **Abort**: an abort finds a run as long as an engine fires for it, stops the feed after at
  most the one tick that is being merged, reaches the engines, and is the only thing that
  makes a run aborted. It races the spawn of tasks, the insertion of tokens, and the end of
  the run.
* **Row**: it moves forward only; finals stand; one abort wins; a stopped fleet has
  a cause in the row; a run ends. Requests and statements are lost, the control plane
  restarts, and handlers are dropped half way.
* **Cost guard**: racing goroutines fill its cache; the ceiling must hold anyway.
* **Registry**: dead workers disappear, live ones stay or come back, a restarted
  coordinator learns its fleet, in any alignment of three independent timers.
* **Scheduler**: no request early, none measured from anything but the original
  schedule, no lateness charged that was not earned, catching up bounded.
* **Load engine**: every request is settled once and in one report, while tasks share
  relaxed counters, a histogram and a buffer with a ticker that reads them one by one;
  an abort stops every connection after at most one more request; a connection that
  cannot open must not hold up the others.
* **Ticks and watchers**: watchers come, lag and leave in the middle of a publication;
  none of them may stall or crash it, and what one sees is what was published. Rows are
  written in any order and some never; a replay shows the others in order, with totals
  that lack exactly what is missing.
* **Offload cache**: goroutines that miss together fetch and store together; a failure
  of one must not decide for the others.

## 2. The modules and the code

Each component has a module with its state and actions, a `...Props` module with its
properties, an `MC...` module that TLC runs, and a `..._proofs` module (OffloadCache and
CliffDetect, which judge responses, share `Evaluation_proofs`). **SumTheorems** has what the
proofs need to know of sums. `Fault_...`
operators are plausible mistakes in the operator that follows them; no action uses
one. Putting one in the original's place must break the property it belongs to, which
shows that the property depends on that code (`mutants` in PROJECT.json).

**TickFeed** is the abstract live feed, with no streams, tasks or failures: the fleet
is fixed once, workers do some work each second, and second *n* is published after
second *n*-1, once the whole fleet has done it, with the exact sum.

**Dispatch** is one run on the fleet, and implements TickFeed (`TickFeedSpec`).
`ListWorkers`, `RegisterRun`, `JoinTasks`, `DeregisterRun` are the steps of
`dispatch_with_ticks` between its await points; `RunSlice`, `DialFails`, `RejectSlice`,
`ReceivePartial`, `StreamEnds` those of a `run_one_worker` task; `EngineTick`,
`EngineStops`, `SliceEnds` and `DeliverAbort` the worker node; `AbortRun` is
`abort_run` (cancel and the start of the fan-out happen without an await between them),
`LoseAbort` an Abort RPC that fails. One turn of `aggregate_loop` is several steps, because
`abort_run` runs on another thread: the `select!` is biased, so that `PollToken` looks at
the cancel token first; then `Aggregate` takes a Partial, merges it and sends its second if
that is complete now, without looking at the token again; `SelectWaits` is the
`select!` that finds no Partial and will be polled from the start when woken, and
`LeaveAggregation` the end of the channel. What a worker completes in each second is
given by `Yield`. A Partial is its tick, its final flag and
one count: every counter of its buckets is added the same way. `WorkerDies` takes the
process, and a suffix of what it had sent, `StreamBreaks` the connection only.
Seconds 1 to `MaxTicks` are a run of that duration; a worker may stop earlier.

**RunRow** is what the runs table promises: forward only, a terminal status left alone
by all but the one finalize push, finals written once.

**RunLifecycle** is one row with everybody who writes it, and implements RunRow
(`RowSpec`): the handler `CreateRun`, the dispatcher goroutine (`DispatchMarks`,
`DispatchPosts`, `DispatchReplied`, `DispatchFailed`), the coordinator's
`run_endpoint` (`CoordRegisters` ... `CoordReplies`; the dispatch inside it is reduced
to its registration, its ticks, the moment it reads the token and its deregistration),
`AbortRun` of any number of users (`AbortRow`, the FOR UPDATE transaction, then
`AbortPropagates`), and one `checkCost` goroutine per ingested tick (`CostLoads`,
`CostStores`, `CostTrips`, `CostStops`). SQL statements are atomic; their WHERE
clauses are the guards. `Lose`, `DbFails`, `ControlRestarts` and `HandlerDropped` are
what goes wrong. Money is abstracted to `OverTick`, the first tick whose cumulative
cost exceeds the ceiling.

**LoadRun** is what a run of the engine promises: one request at a time on a connection,
each settled once by a verdict or an error, and a report that is the sum.

**WorkerEngine** is `run_with_ticks_cancel` and its tasks, and implements LoadRun
(`LoadRunSpec`). Every access to shared memory that another task can come before or after is a
step: for a connection `Dial`, the barrier, `LoopTop` (the only reader of the abort flag),
`Send`, `Receive` (histogram), `Count`, `TakeNumber` (`fetch_add` on the sample sequence),
`PushSample` (the push under the buffer's lock), `Judge`, `ClaimOnset`, `StoreOnset`, `Obey`
(the rate-limit policy), `PauseEnds`; for the ticker `Wake`, one `LoadCounter` per counter,
`LoadRest`, `SendTick`; for the run `Start`, `Cancel` (the bridge from the token to the flag),
`Return`. The four `fail_*` tiers are one verdict. When a request is due is ConnSched's
subject: here a pacing connection may go on at any time.

**LiveFeed** is the way of one run's ticks through the control plane: the coordinator's
push loop (`Post`, `PostLost`, `PostBreaks`), `IngestTick` with `Broker.Publish` (`RLock`,
one `Deliver` per subscriber, `RUnlock`), each `StreamRun` (`Subscribe`, `Receive`,
`ClientGone`, and the cleanup's `LockToLeave`, `Delist`, `Close` under the broker's
mutex), and `Persist`, the goroutine that inserts the tick's row, in any order and after
any delay. `rows` is the table in the order of the inserts, `ByElapsed` the query with its
ORDER BY and `Replay` the endpoint, which sums the seconds' requests (`Total`) up again, as the
table keeps no running totals.

**OffloadCache** is `evalOneSample` for several samples of several runs at once, through
`Cache.Get`: `Lookup` and `Store` are critical sections, `Fetch` is between them.

**CliffDetect** feeds the same ticks to the two cliff detectors, `FinalsAcc` of the
coordinator and `detect_cliff_rps` of the single binary. The threshold is compared in
whole numbers, and a cliff is named by the lower edge of its bucket.

**Registry** is the worker registry in discrete time. `SendRegister`, `RegisterReplied`,
`RegisterFails` are `dial_and_register` as called by the startup loop (backoff, at most
`MaxAttempts`) and by the re-register interval; `CoordRegister`, `Heartbeat` and `Reap` are
the coordinator's handlers and reaper, each one critical section of the `workers` lock. An RPC
is two steps, request and answer, which together take a living worker at most `RpcTimeout`.
That timeout is the worker's own (`Endpoint::timeout` sends no deadline to the server): a
request whose sender gave up or died stays `late`, and may be served at any later time
(`LateRegister`) or never. The timeout does not bound `connect()` either; that a dial succeeds
or is refused at once is an assumption. `CoordCrashes` empties the registry; `CoordStarts` may
bring up a coordinator of another contract version, which refuses the workers. `Tick` passes
one unit of time when nothing is due, and what is due at one instant happens in any order. No
worker of this repository calls `Heartbeat`; `Beaters` are workers that behave as
`bench.proto` says.

**ConnSched** is one connection: the state of the `ConnSched` struct and the loop of
`connection_task` around it. `Schedule` is one call of `usec_to_next_send`, `Wait`
its result and `NoteWindow` its effect; `Send`, `Receive`, `ReceiveBackoff`,
`PauseEnds`, `Leave`, `ConnectionFails` are the loop. Time is in whole units (the
source's microseconds) and rates are fractions, so the source's f64 products are exact
quotients rounded down where it casts to `u64`: rounding errors of f64 are not modelled.
The bytes of a response, its classification and the histograms are not either.

How the modules depend on each other: `Dispatch` takes the registry's contents as an
arbitrary nonempty set (`ListWorkers`), which is what `Registry` allows, and sees the
engine as a source of ticks that stops, which `RunReturns` justifies. `RunLifecycle`
relies on `DispatchReturns` for the fairness of its coordinator. `LiveFeed` starts from
the ticks in the order `TickFeedSpec` gives them, and `OffloadCache` from the samples the
ticks carry (`NthSampledOnce`: no sample in two ticks).

## 3. The runs

| Run | Checks | Shows |
|---|---|---|
| `Dispatch_fleet` | `TypeOK`, `FeedAgreesWithSummary`, `AbortFreezesFeed`, `TickFeedSpec`, `SummaryIsHonest`, `LossIsReal`, `RunningIsAbortable`, `NoSpontaneousAbort`, `DispatchReturns` | through a death, a broken stream or a lost dial at any point, refused slices, and an abort racing every step: the feed refines TickFeed (every second once, in order, complete and exactly summed), agrees with the independently kept summary and publishes at most one tick after the token fired; totals and lost-worker counts are right; an abort finds what it can stop and nothing else aborts a run; every dispatch returns and leaves the registry |
| `RunLifecycle_row` | `TypeOK`, `FinalsCarryOutcome`, `OneAbortAccepted`, `FleetStopHasCause`, `CostCeilingHolds`, `RowSpec`, `RunEnds` | the row refines RunRow under two aborts, the cost checks of several ticks, a lost request, a lost finalize, a database error and a restart in any place; a dispatched run's row becomes terminal |
| `Registry_fleet` | `TypeOK`, `DeadIsForgotten`, `FleetIsRelearned`, `EvictionMeansMisses`, `LiveIsKnownAgain` | who is registered, when, for a worker with and one without heartbeats through a restart, a Register that is lost or served after its worker gave up or stopped, lost heartbeats and deaths |
| `ConnSched_loop` | `TypeOK`, `NeverEarly`, `SlotsAreOriginal`, `LatenessIsEarned`, `CatchUpIsPaced`, `NeverIdles` | when a connection sends and what each request is measured against, on four constant rates and a ramp |
| `WorkerEngine_run` | `ReportIsExact`, `AbortDrains`, `RunReturns`, `LoadRunSpec` | the report is one account of the run, an abort drains, the run returns and refines LoadRun, with 429s under two policies, failures, a cancel and the deadline in every order |
| `WorkerEngine_ticks` | `TicksAreHonest`, `NthSampledOnce` | over two ticks: the verdicts of a tick lag its total by at most a response a connection and lead it by no more than its histogram does, its deltas add up to its totals, and every second response is sampled once, wherever the ticker comes between the claim of a sample and its push |
| `LiveFeed_stream` | `NoSendOnClosed`, `WatcherView`, `ReplayMatchesFeed`, `PublishEnds` | what a watcher sees, with watchers that come, lag and leave, a post lost or broken and a refused insert; and what a replay at any moment shows: the stored seconds in order, with the live totals less the requests of the seconds that are missing |
| `OffloadCache_race` | `VerdictsMatchSpec`, `EntryIsFinal` | three samples of two runs race through the cache: each gets its own run's verdict |
| `Dispatch_lost_abort`, `RunLifecycle_immutable`, `Registry_evicted`, `CliffDetect_mirror` | one claim each | violated: see section 6 |

Every property is stated in words above its definition.

## 4. Bounds and fairness

`Dispatch_fleet`: two workers and two seconds are the least for which one worker runs ahead
of another, two seconds are open in `per_tick` at once, and more than one tick could follow
an abort. Every worker completes a different power of
two in every second (`MCYield`), so that no two sums are the same. One failure, a death, a
broken stream or a lost RPC, and one abort meet at every pair of steps; both workers lost at
once is left to the theorems, which hold for any number of failures.
`RunLifecycle`: two users abort, three ticks race to fill the cache with two of them
over the ceiling, and one failure of every kind may come anywhere. `Registry_fleet`:
scaled constants (eviction after 2, scan every 1, re-register every 4, RPC timeout 1)
keep the re-registration far longer than the eviction, as in the source (3, 1, 10 s);
the source's RPC timeout of 5 s, longer than its eviction, is too large for two
workers, and the theorems, which hold for every choice of these constants, cover it.
`Registry_evicted` uses the source's own constants in seconds, except that its
startup backoff begins at 1 s. `WorkerEngine_run`: two connections, two responses and one
second, so that one tick is put together while both connections do anything, one
sample in two, and a Retry-After above and one below the cap (`MaxRequests` bounds the
responses). Two seconds of it exceed five minutes of TLC, so what ticks say is the subject of
`WorkerEngine_ticks`: two seconds and three responses, passes or 429s of the continue policy,
which leaves out the onset and the pauses that no tick's counts depend on; its connections
are interchangeable (SYMMETRY, sound as the run has no liveness property). `LiveFeed_stream`:
two watchers, three ticks and a buffer of one overflow, overtake each other and leave in the
middle of a publication; the ticks have 4, 2 and 1 requests, so that a total tells which
of them it counts; `MaxFaults` allows one failure. `OffloadCache_race`: three
samples of two runs put two goroutines in one race and a third in another, with specs
without rules, with two tiers and with one that does not compile. `CliffDetect_mirror`:
two seconds of eight kinds. `ConnSched_loop`: gaps of 4, 2.5, 1 and 0.5 units and a
ramp, responses shorter and longer than a gap, eighteen units of time; enough for a
stall, a catch-up window, a pause inside it and a second window.

Fairness. `Dispatch`: tasks that are ready are polled (tokio), a stream delivers or
fails, and an engine stops, because each connection leaves its loop at the run's
deadline; nobody has to abort, crash or break anything, and `EngineTick` is not fair.
`RunLifecycle`: goroutines run and requests are answered or fail (the HTTP clients have
timeouts); `DispatchReplied` may rely on the coordinator answering, which is
`DispatchReturns`. `Registry`: timers fire, requests are served or time out, time passes,
and a stopped coordinator is started again, the case the re-register loop exists for; a request
nobody waits for any more need not be served;
restarts and losses are bounded, so that the liveness property speaks of what comes after
the last of them. `WorkerEngine`: the runtime polls every ready task, dials and reads end by
their timeout, sleeps end, and time passes; nobody has to cancel. `LiveFeed`: the runtime
runs a publisher that can go on and a cleanup that holds the broker's mutex; nothing is
assumed of the clients, so that `PublishEnds` holds whatever they do, nor of the database.
The mutex itself is fair in the sense of Go's RWMutex: a publisher waits only for a
watcher that holds it. All of it is weak fairness. `ConnSched`, `OffloadCache` and
`CliffDetect` have safety properties only.

Memory order. The engine's counters are `Relaxed` atomics; the models are sequentially
consistent. `ReportIsExact` does not depend on it (the report is read after the tasks
are joined). `TicksAreHonest` does: it relies on the ticker's loads, and a
connection's additions to `completed` and to a verdict's counter, being seen in program
order, as x86 does; a weaker machine may show a verdict lag of more responses.

Deadlock is checked in every run but `CliffDetect_mirror`, whose bounded seconds end: a system
that is finished stutters in `Quiet` or `Done`, under the conditions in which the code has
nothing left to do.

## 5. The proofs

The proof modules hold for any fleet, any number of users, ticks and requests, any
schedule, and any values of the constants that satisfy the ASSUME of the module
(types only, and in `Registry` that an RPC times out before the next re-registration is
due, as 5 s and 10 s do). They assume nothing else, with two exceptions that are hypotheses
of their theorems: `CoordinatorMissesNoCliff` takes the loads of a second to be natural
numbers, and `ConnectionNeverIdles` takes a response to last at least one unit of the
clock, a microsecond. Every invariant and every action property that a passing run
checks is proved.

**SumTheorems**: what the models add up is `SumFunction` of the community modules, a recursive
definition. The library's induction theorems take an operator as a parameter, which the
provers cannot instantiate; `SubsetInduction` states induction over the subsets of a finite
set for a *set* of subsets instead, and follows from the library's theorem that the strict
subset ordering is well founded. With it `SumIsSize` shows that a sum is the number of units
it counts, and the rest (`SumChange`, `SumPlus`, `SumMonotone`, `SumAppend`, and `Upto`, the sum
of a sequence's first elements, `SumRenamed`, that a sum does not depend on the order, and
`SumDisjoint`) are facts about finite sets.

**Dispatch_proofs**: `TypeOK`, `TicksConsecutive`, `AbortFreezesFeed`, and the refinement
`TickFeedSpec`. A property such as "second *n* is published after *n*-1" is not inductive:
it depends on what is in flight. `FeedInv` says that there are, for each worker, a
number *taken* of seconds its task has read from the stream and a number *filed* of
seconds the aggregator has put into `per_tick`, such that the stream holds the
worker's seconds *taken*+1, *taken*+2, ... in order, the channel holds *filed*+1 ...
*taken*, and `per_tick` holds exactly the reports of the seconds that are filed and not
published. From it, a second can close only when it is the next, and its entry is
the whole fleet's. A step of `Dispatch` then maps to `Choose`, `Work`, `Publish` or a
stutter of TickFeed; the refinement mapping is the identity on `fleet`, `produced` and
`emitted`.

`AbortFreezesFeed` counts from `atAbort`, the length of the feed when the token fired. While the
loop has polled the token and not yet merged a Partial, nothing has been published since;
anywhere else at most one second has, and the next look at the token ends the loop.

Beside `FeedInv`, for the same *taken* and *filed*, `BooksInv` keeps the accounts: what a task
has counted is the sum of the first *taken* seconds of its worker (`SliceAccounts`), a task has
finished when it has read one more than those, the final Partial, and `cum` is the sum of the
seconds published, over the fleet (`FeedAccount`). The feed adds seconds across workers, the
summary workers across seconds: `FeedAgreesWithSummary` is that one order of summation never
exceeds the other, because a second is published only after every task has read it.
`SummaryIsHonest` and `LossIsReal` (a lower and an upper bound of the workers reported lost)
follow with what a task that ended knows of its connection and
its engine (`SlicesKnown`); so does `RunningIsAbortable`, for which the registry entry must last
from `RegisterRun` to `DeregisterRun` and no task may still be streaming when the tasks are
joined. `NoSpontaneousAbort` needs the tokens on the workers and the Abort RPCs on their way
to lead back to an accepted abort (`AbortTraces`).

**RunLifecycle_proofs**: `TypeOK`, `FinalsCarryOutcome`, the refinement `RowSpec`,
`OneAbortAccepted`, `FleetStopHasCause`, `CostCeilingHolds`. `RowInv` adds how far dispatcher and coordinator
can be relative to the row, and that finals are written once. `Exclusive` says that
whoever was told of an accepted abort is alone and left the row terminal. `CostInv`
relates what a goroutine has read, the cache and the row: while no statement has
failed they agree, which makes the race for the cache harmless. `StopInv` says that already
whoever is *about* to stop the fleet, an aborter on its way to the coordinator or a cost
goroutine past its statement, leaves a stopped row behind; a row that shows completed was
finalized so.

**Registry_proofs**: `TypeOK`, `DeadIsForgotten`, `FleetIsRelearned`, `EvictionMeansMisses`.
`RegInv` relates the clocks two by two: an entry's age and the time to the next scan,
a stopped worker's entry and the time since it stopped or, if later, since the coordinator
last accepted a Register of it (`QuietClock`), a serving worker's interval and the
coordinator's start, a heartbeat's period and the misses so far.

**ConnSched_proofs**: `TypeOK`, `NeverEarly`, `SlotsAreOriginal`, `LatenessIsEarned`,
`CatchUpIsPaced`, `NeverIdles`. `SchedInv` adds how late the connection is at every point of its loop
and, for an open window, that it began no later than earned and counts from where it
began. Two arithmetical facts carry it: `CatchUpFits` (the whole parts of *k* slots at
twice the rate fit into *k* slots of the schedule) and `RampSlotDefined` (the integer
square root exists; shown by counting the initial segment of numbers below it).
For `NeverIdles`, `IdleInv` says where the connection is relative to the slot it has just
served: at it or later when a response has arrived (`Arrived`), and in a window later by
one unit of the clock at least (`PastWindow`). That unit pays for rounding: one more
slot at twice the rate takes at most one unit more than one more slot of the schedule
(`CatchUpGap`). A response that takes no time is excluded, because then it may be too much.

**WorkerEngine_proofs**: `TypeOK`, `AbortDrains`, `NthSampledOnce`, `TicksAreHonest`,
`ReportIsExact` and the refinement `LoadRunSpec`. `Between` says what the ticker's shapes are
before the start and between two ticks. `AbortDrains` needs that nothing was sent late while
the flag was down (`Drains`). `Sampling` adds that a connection samples only when sampling is
on; the sampled sequence numbers are then the multiples, each in the buffer, in exactly one
tick, or held by the one connection that is between `TakeNumber` and `PushSample` with it.
`TicksAreHonest` is about reads that no lock holds together. Its invariant has two parts:
`Accounts`, that at every instant the completed responses are the judged ones and those of the
connections between `Count` and `Judge`, at most one each, and the histogram's are the
completed ones and those between `Receive` and `Count`; and `TickSoFar`, that the counters a
tick has loaded so far are no larger than they are now, and what it has still to load has only
grown since. `ReportIsExact` rests on `ReportInv`: at every instant a shared counter is the
sum over the connections of their own results (`SumsMatch`), and the onset, once claimed, is
stored or about to be, by a connection that was limited (`OnsetKnown`). When all connections
have left, `Accounts` has nobody in between, and nothing moves any more.

**Evaluation_proofs**, of OffloadCache: `VerdictsMatchSpec`, `EntryIsFinal`. `CacheInv` says that what a
goroutine holds and what an entry holds is what its own run's spec gives, so that whoever
stores last stores the same, and that a goroutine ends without a verdict only when its run
has no usable rules or its own database call failed.

**LiveFeed_proofs**: `NoSendOnClosed`, `WatcherView`, `ReplayMatchesFeed`, `TypeOK`. `Mutex`
says that no publisher is at work while a watcher holds the broker's mutex, `Listed` that a
channel is in the list once and until it is delisted, and that what a publisher has before it
is in the list, `OpenChannels` that those are open: a channel is closed only after it has left
the list, when no publisher is reading it. `FeedTypeCorrect` adds `DataTypes`, the types of
what the mutex does not protect, and needs `FeedInv` for the receiver of a tick to be a
watcher. `ViewInv` follows every tick to every watcher: what is published is what w missed,
was sent, lost to a full buffer or has coming from a publisher (`ViewOf`), and no tick that
was sent is coming again; a publisher has a watcher before it once (`Lists`), and while no
post broke only the last posted tick is on its way (`PostOrder`), which is what puts them in
order. `ReplayMatchesFeed` needs that the table holds one row, with its own second's requests,
for every handler that has ended and was not refused, and nothing else (`StoreInvariant`), and
of the sort that it is a permutation of those rows (`SortExists`, `RowsInOrder`). The
endpoint's running total at a row is then a sum over the rows before it in time: renamed to a
sum over their seconds (`SumRenamed`) and completed with the missing ones (`SumDisjoint`), it
is the live total.

Of CliffDetect: `CoordinatorMissesNoCliff`, that every bucket the engine worker's
detector fails the coordinator's fails too. `SameBuckets` relates the two maps: same
buckets, same totals and passes, and no more 429s than what did not pass. The
disagreement of section 6 can only be a cliff too many on the coordinator's side, or one
at a lower rate.

Only model-checked: the five liveness properties (`DispatchReturns`, `RunEnds`,
`LiveIsKnownAgain`, `RunReturns`, `PublishEnds`), because TLAPS does not treat fairness and
ENABLED. The four violated claims of section 6 are counterexamples, so there is nothing to
prove of them. `TicksConsecutive` and the `TypeOK` of WorkerEngine and LiveFeed are proved and
have no run of their own: `TickFeedSpec` implies the first, and the others' runs are the
largest.

## 6. Where the code and its documents disagree

The first four have a run that ends in a counterexample.

1. *A lost abort* (`Dispatch_lost_abort`). An Abort RPC that reaches a worker before
   `run_slice` has inserted the run's token finds nothing to cancel, is acknowledged
   like any other, and the engine runs its whole duration.
2. *Terminal states change* (`RunLifecycle_immutable`). `FinalizeRun` writes whatever
   the row's status is: an aborted run may become completed. RunRow states what holds.
3. *Live workers are evicted* (`Registry_evicted`). Entries live 3 s, and are refreshed every
   10 s, because no worker sends heartbeats.
4. *The detectors differ* (`CliffDetect_mirror`). The coordinator's `cliff_rps` says that it
   mirrors the engine worker's, but counts 429s among the samples: a target that
   only limits the rate has a cliff on a fleet and none on the single binary.

Read off the same code, without a run of their own:

5. *A late abort*. The token is read at `dispatch.rs:285` and the run deregistered at
   `dispatch.rs:319`; an abort in between is answered as accepted, and the run completes,
   against the comment at `mod.rs:126`.
6. *One tick after the abort*. "Abort: stop aggregating immediately" (`dispatch.rs:412`), and
   a token that fires after the `select!` has polled it does not stop the tick that the
   Partial in hand closes. `AbortFreezesFeed` states what holds.
7. *Re-learning takes longer than a period*. A restarted coordinator "re-learns the fleet
   within this window" (`bin/worker_node.rs:104`; ":86" says "~1 period"), 10 s. The interval
   starts when the answer to the startup Register is in: a worker whose Register the old
   coordinator served begins to serve on an answer that may be `RpcTimeout` old, sends its
   next Register a period after that, and has it served up to `RpcTimeout` later.
   `FleetIsRelearned` states that bound, 20 s with the source's constants.
8. *A row stays running*. The finalize push is best effort (`admin.rs:289`), and the
   dispatcher relies on it (`dispatch.go:120`): `RunEnds` excludes a lost push.
9. *No resumption*. `writeTickEvent` gives every event an id that "lets them resume"
   (`stream.go:361`), and `StreamRun` reads no Last-Event-ID: a watcher that reconnects
   misses what was published meanwhile (`missed` in LiveFeed).
10. *A short stream*. The command-line client uses one HTTP client with a total timeout
   of ten seconds (`cli/src/main.rs:258`), for the tick stream of a longer run too.

Limits met on the way: an aborted run reports no lost worker, whatever died before the abort
(`dispatch.rs:289`; `LossIsReal` excludes it); a stream broken under a live worker leaves its
`run_tokens` entry for ever and its engine firing (`worker_node.rs:135`; `RunningIsAbortable`
excludes it); one failed `GetRunCost` turns the ceiling off for the rest of the run
(`costguard.go:31`; `CostCeilingHolds` excludes it); an abort accepted before the coordinator
registers the run stops the row and not the fleet (`dispatch.go:54`); a `run_endpoint` whose
client went away leaves its run registered; a worker registers before it listens
(`bin/worker_node.rs:82`), so that its first slice may fail to dial; `connect()` has no
timeout of its own (`bin/worker_node.rs:190`); a Register that is served after its worker died
puts a dead worker back for four more seconds (`mod.rs:224`); an abort does not wake a
connection from its Retry-After sleep (`worker.rs:1005`), which may outlast the run by
`max_backoff_ms`; what an engine samples after its last tick is never shipped
(`worker.rs:753`); after the connection of a tick's POST broke, its handler and the next one's
publish side by side, so that a watcher may see two ticks out of order (`admin.rs:218`;
`WatcherView` excludes it).

## 7. What is not modelled

* Histograms and their V2 encoding, and the percentiles taken from them: a library, and
  numbers TLC cannot enumerate. WorkerEngine counts the samples of a histogram.
* `classify`: a pure function of one response. WorkerEngine chooses the verdict freely.
* A panicking connection task (`worker.rs:739`), and `last_retry_after_ms`, a value that is
  stored and reported and that nothing depends on.
* `FinalsAcc`'s `last_*` fields: overwritten by each tick.
* The rates `aggregate_tick` derives from its counts, and `effective_rps`, the last tick
  scaled to the surviving workers (`admin.rs:257`): floating point over what Dispatch counts.
* Validation, scrubbing, templates, configuration, migrations: sequential checks of one
  request, or SQL run once, without a state other parts depend on.
* The statistics of comparisons and regressions: floating point over query results.
* The mock target: a response generator to test against.
* The single binary's arguments, pushes and printed report (its cliff detector is in
  CliffDetect), the clients (`cli`, `mcp`, `web`), gates and compose files: outside the
  system.
* f64 rounding in the scheduler (rates are exact fractions), and its `saturating_add`
  (a `u64` of microseconds does not wrap in any run).
* The gRPC and HTTP libraries: streams are in order, may lose a suffix, and end.

## 8. The plan

1. Done: TickFeed, Dispatch, RunRow, RunLifecycle, Registry, ConnSched, LoadRun,
   WorkerEngine, LiveFeed, OffloadCache, CliffDetect and their proofs.
2. Proofs: done for every invariant, action property and refinement that is checked. Open:
   what liveness rests on and is itself safety, that a dispatch that has not returned, a run
   that has not ended or a publisher that has not finished can always take a step.
3. **EngineCli** (`bin/worker.rs`): the receiver of ticks that lags behind the report, and
   its two pushes; the outcomes of `cli/src/main.rs`.
4. Comparisons: the pairwise creation of two runs, and what a failure between leaves.
5. **MockMeter** (`mock/src/lib.rs`): a ring of atomics rolled by compare-and-swap.

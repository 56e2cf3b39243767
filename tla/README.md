# A verification project for fre

`fre` is a C++ library (and a small HTTP service around it) that runs events
through a pipeline of stages (ingest, eval, inference, policy, emit) and emits
one decision per event. Tenants share a thread pool through shuffle-sharded
strands and are rate limited; evaluators keep windowed counts in a store that
may be persisted in DuckDB or kept in an external backend.

The modules here model the parts of it where threads, timeouts, restarts and
failures meet, and the algorithms whose results are hard to foresee. TLC checks
them on small instances, and TLAPS proves every safety property of the passing
runs for every value of the constants.

## 1. Inventory

| Component | State | Operations | What is hard | Module |
|---|---|---|---|---|
| Pipeline (`src/pipeline/pipeline.cpp`) | `state_`, `in_flight_`, `ever_started_`, stages, router | `start`, `submit`, `submit_sync`, `drain`, coroutine `run_event` | callers, pool workers and the controller interleave; drain and restart under live submissions | `Pipeline` |
| SyncContext / StopToken | `decision`, `error`, `cancelled`, `done` under one mutex | capture, give up, signal | the caller's answer and the emission must agree | `Pipeline`, `SubmitOutcome` |
| TenantRouter admission (`src/sharding/tenant_router.cpp`) | map of tenants; token bucket, last refill time, concurrency counter per tenant | `get_or_create_tenant`, `try_acquire`, `release` | lock-free refill with stale clock readings; optimistic increments | `TenantRouter` |
| Shuffle sharding (`assign_cells`) | tenant → K cells | `cells_for` | termination of the draw, distinctness | `TenantRouter`, `ShuffleShard` |
| Ingest, eval, inference stages | configuration; per event results and degraded reasons | `process` | failure modes; an inference timeout that detaches its worker | `Stages` |
| Policy stage, decision types | registry, rules, matches | `add_type`, `add_incompatible`, `process`, `compute_active_decisions` | conflicts between decision types, tie-breaks | `PolicyStage` |
| Rule engine | rule tree | `evaluate` | missing fields, null children, the clock | `RuleEngine` |
| Pipeline configuration | builder, rules | `add_rule`, `validate`, `build` | references hidden deep in a rule | `PolicyStage`, `RuleEngine` |
| Emit stage | dropped counter | `process` | retries, one target failing | `Pipeline` |
| InProcessWindowStore, ThresholdEvaluator | versioned value per key | `get`, `compare_and_swap`, `expire`; a bounded CAS loop | lost updates, a key expiring under an evaluation | `WriteBackStore` |
| WriteBackWindowStore | dirty and expired sets, primary, table | CAS, expire, `flush_sync`, background loop, recovery | update between swap and mark, failed writes, crash and restart | `WriteBackStore` |
| DuckDbWindowStore, WindowedHistoricalEvaluator | table, parquet archive | CAS, `upsert_batch`, archiver, `query_range` | an epoch moving between tiers while it is read; failed or interrupted moves | `WriteBackStore`, `WarmArchive` |
| ExternalWindowStore | backend, fallback | delegation | switching stores between a read and its swap | `ExternalStore` |
| Service harness, fleet router | listening socket, running pipeline; topology | connections, drain command, `stop`; `owns`, `redirect_hint` | drain, destructor and requests at once; agreement of the fleet | `Service`, `FleetRouter` |
| Allow/deny and ONNX evaluators, plugin loader | lists, session, plugin context | `evaluate`, `load` | nothing concurrent | – |
| Serializer, logging, errors, Redis stub | none | formatting | nothing that another component observes | – |

How they interact: a caller's `submit*` asks the router for admission and for the
tenant's strand, and spawns `run_event` there. The coroutine calls the stages;
eval-stage evaluators call the stores; the policy stage reads the outputs of the
stages before it; the emit stage calls the targets. The caller and the coroutine
of a `submit_sync` share one SyncContext. `drain` waits on `in_flight_`, stops
and joins the pool; `start` replaces stages and router. The service's connection
threads call `submit` and `drain`; its main thread drains when it ends.

What makes each correct: a `submit_sync` caller and the targets see the same
outcome; the in-flight count is exact and a drain keeps its promise; no interval
of time is credited twice and no slot leaks; a failure shows in the decision and
blocks it where the configuration says so; surviving decisions are compatible
and none is lost without a reason; window counts lose no update, whichever store
or tier they are in; the table catches up with the memory and never goes back;
nothing is accepted after a client was told that the service is drained.

## 2. Modules

| Module | Models | Used by |
|---|---|---|
| `SubmitOutcome` | abstract contract of `submit_sync`: an outcome settled once, seen alike by caller and targets | refined by `Pipeline` |
| `Pipeline` | lifecycle, both submission paths, `run_event`, emission | `MCPipeline`, `PipelineProofs` |
| `ShuffleShard` | the draw of cells and of instances from seeds | `MCTenantRouter`, `MCService` |
| `TenantRouter` | creation of a tenant, its token bucket and concurrency counter | `MCTenantRouter`, `TenantRouterProofs` |
| `Stages` | one event through ingest, eval and inference, to the final verdict | `MCStages`, `StagesProofs` |
| `RuleEngine` | rule evaluation and the stage references of a rule | `PolicyStage` |
| `PolicyStage` | registration, `validate`, `PolicyStage::process`, active decisions | `MCPolicyStage`, `PolicyStageProofs` |
| `WriteBackStore` | primary store, CAS loop, dirty/expired sets, flushers, table, crash and restart | `WriteBackProofs` |
| `WarmArchive` | DuckDB table and archive, archiver, `query_range`, historical evaluator | `WarmArchiveProofs` |
| `ExternalStore` | backend with a local fallback | `ExternalStoreProofs` |
| `FleetRouter` | owners of a tenant, redirect hints | `Service` |
| `Service` | main thread, accept loop, connection handlers around one pipeline | `MCService`, `ServiceProofs` |

Each module with state has a type invariant, and each is proved (that of `PolicyStage` is
`Shape` in its proof module). Those of `Pipeline`, `TenantRouter` and `WriteBackStore` are
checked by runs too. The runs use `WriteBackStore`, `WarmArchive` and `ExternalStore`
themselves, without an `MC` module.

The `MC` modules give constants that are functions, records or sequences their
values; the `.cfg` files give the rest.

Operators introduced by a comment "Mutant:" are deliberately wrong variants of
the definition that follows them. Nothing uses them in the specifications; each
stands for a plausible bug, and the property listed for it in `PROJECT.json` fails
when it takes the place of the definition.

### Pipeline

Variables are the fields of `Pipeline::Impl` (`state`, `everStarted`, `inFlight`,
the router as `gen`, `poolUp`, `queue`, `known`, `slots`) and, per event, the
caller's program counter `pc`, the coroutine's `wpc`, and the SyncContext's fields
as sets of events (`ctxDecision`, `ctxError`, `ctxCancelled`, `ctxDone`). One
action is one atomic access or one critical section:

* `StartBegin`, `StartInstall` (the new router), `StartMark`, `StartRun`; `DrainBegin`,
  `DrainQuiet` or `DrainExpire`, `DrainStop`, `DrainJoin`;
* `SubmitEnter` / `SubmitSyncEnter`, `TryAcquire`, `Count`, `CellsFor`, `Spawn` (or
  `SpawnDangling`), `Release`, and for `submit_sync` `WakeDone`, `GiveUp`, `ReturnError`;
* `RunBegin`, `IngestReject`, `Evaluate` or `EvaluateThrows`, `Capture`, `EmitTarget` per
  target, `SignalDone`, `Complete` (the `fetch_sub`), and `NotifyDrain` for the one that took
  the count to zero.

`drain_mutex` is released only inside the wait of `drain()`; it is held while the pool is
joined (`DrainHoldsMutex`), and `NotifyDrain` needs it. An evaluation may hang, because
nothing makes it end, or throw, which ends the coroutine without `on_event_complete()`.

What the stages compute is `Stages`' and `PolicyStage`'s; here `Evaluate` is one
step, and an event is rejected or not. Admission by the token bucket may refuse at
any time; the bucket itself is `TenantRouter`'s.

Spawning on a strand of a destroyed router is undefined behaviour. The model keeps
one outcome, that the coroutine never runs, and marks it `dangling`.

### TenantRouter and ShuffleShard

The first call for a tenant creates it with the tenant mutex held (`BeginCreate`,
one `DrawCell` per round of `assign_cells`, `Emplace`); other calls find it
(`FindTenant`). `tokens`, `last` and `inFlight` are the three atomics; each thread
has the locals of `try_consume` (`now`, `prev`, `add`). The retry loops of the
deposit and of the consumption succeed as one atomic update. `Word` stands for
2^64; the elapsed time is computed modulo `Word` and then read as signed, as the
code does. `claimed`, `granted` and `grantedAt` are history.

The cells drawn are a parameter of `TenantRouter`, so that its proofs hold for every
sequence of draws. `ShuffleShard` computes the sequence from the seeds of
`hash_seeds.hpp` modulo 16, which is exact for 2, 4, 8 and 16 cells; it repeats with
period 8 after the list of seeds, so the rounds after it are represented by a jump
back (`RepeatFrom`).

### Stages

One event. `Ingest`, one `CallEvaluator` per evaluator, `FinishEval`; for each
inference evaluator `Spawn`, then `Timeout`, or `Completed`, `Join` and `Collect`;
`FinishInference`, `Policy` (any verdict, and a rule may throw), `Decide`. The workers of the inference
stage are threads (`Assign`, `Complete`). A worker that was detached keeps
references to the locals of a finished iteration. What its stores do then is
undefined behaviour; in the builds at hand the next iteration's locals occupy the
same stack slots, or not, so each store is either seen by the running iteration or
by nobody (`Lands`). Torn reads of the result are not among the outcomes.

Scores are numbers compared with a threshold; reasons, names and metadata are
left out. The timeout of the eval stage is never looked at by the code and
therefore not in the model.

### RuleEngine and PolicyStage

A rule is a sequence of nodes, children after their parent; 0 is a null pointer.
Evaluation is a recursive function over the positions. A tag's value is the set of
facts the operators can observe: its text, the texts it contains and begins with,
the number it parses to, if any. Each time-dependent node reads the clock by
itself: `Matching` lets the event grow older between any two nodes.

`PolicyStage` registers types, pairs and rules in any order (`AddType`,
`AddIncompatible`, `AddRule`), validates (`Build`), evaluates rule after rule
(`RuleThrows`, `RuleDoesNotMatch`, `LegacyRuleMatches`, `TypedRuleMatches`), resolves
conflicts (`Resolve`) and sorts what is left (`ComputeActiveDecisions`). `std::sort`
is not stable: `SortedBy` is the set of all orders it may produce. The lists the code
builds by filtering (survivors, typed results) are given by the positions kept, and `Kept`
puts those in order; the walk of `collect_stage_refs` reaches the least set of nodes
closed under `Children` (`Reached`). Neither needs recursion, so both can be reasoned
about.

### WriteBackStore

`primary` and `warm` map keys to `[aggregate, version]`; a missing key and a row
of zeros read the same through `get` and are both `Zero`. Writers step through
`Evaluate`, `Get`, `Swap` or `SwapFails`, `MarkDirty`; or `Expire`, `MarkExpired`.
Flushers step through `FlushSwap`, `FlushRead` per key, `FlushUpsert` or
`FlushRequeue`, `FlushDelete` per key, `FlushReturn`. `Crash` loses everything but
the table; `Close`/`Closed` is the destructor with its last flush; `Start` is the
constructor with `LoadWarmTier`. `tier` records what the constructor found.
`counted`, `expiredOnce` and `overlapped` are history; `overlapped` holds the keys whose latest
flush took them while another flush still held them (`HeldBesides`).

### WarmArchive

One tenant, entity and window, so a key is an epoch and a row one number. Calls
that hold `mutex_` are one step; the archiver and `query_range` have connections of
their own, and each of their SQL statements is a step: `SelectOld`, then `Copy` and
`Delete` per epoch; `Ask`, `ReadWarm`, `ReadCold`. Any statement may fail: a failed
COMMIT is not noticed and the swap is answered as if it were written (`CommitFails`), a
failed export is ignored and the epoch deleted all the same, a failed `DELETE` is tried
again in a later cycle, a failed read of the archive counts as zero. `Crash` keeps
the table and the files. A sum of counts is the number of evaluations in them
(`Evaluations`), which needs no recursion over the epochs. `counted`, `disturbed`, `asked` and `coldOk` are history.

### ExternalStore

`Choose` asks `is_available()` anew for every call, so an evaluation may read from one
store and swap in the other. The backend is user code: `Flip` changes its
availability at any time and `BackendFails` fails any call sent to it; a
compare-and-swap whose answer is lost is `Swap`.

### Service and FleetRouter

The main thread (`Start` or `StartFails`, `Stop`, `JoinAndDrain`, `Drained`, `Exit`),
the accept loop (`IoCheck`, `Accept`, `AcceptFails`) and one handler per connection,
each on a detached thread. The pipeline is what the harness sees of `Pipeline`: its
state, with `submit` in two steps (the check and the rest) and `drain` in two (its
beginning and its end). The destructor's drain and a handler's may overlap; each
writes the state. A handler's own steps (`RequestStep`) are told apart from those that wait
for its client or for `Pipeline::drain()` (`WaitStep`). `FleetRouter` computes the owners of a
tenant at any instance of the fleet, from the draws for its hash, which are a parameter as in
`TenantRouter`; `MCService` takes them from `ShuffleShard`. The draw of `assign_instances` ends
for the hashes in `Ending` only; for another, `owns()` does not return and the handler stays
at its `Gate`. An address is the number of the instance that
answers there, and `FleetAssumption` says that the topology file gives no instance the
address of another; entries may lack an address or be repeated.

## 3. Runs

Passing runs:

| Run | Instance | Shows |
|---|---|---|
| `pipeline_submit` | events a (submit) and u (submit_sync with token) of two tenants on one strand; two targets, two starts, drains that expire, fair; 335,106 states | `ErrorMeansNoEmission`, `DrainWaitsForAccepted`, refinement of `SubmitOutcome`; `InFlightExact` and `StoppedMeansQuiet` when the router is replaced under live calls; `SubmitSyncReturns`, `ReturnedDecisionIsEmitted`, `DecidedGivesBack` |
| `router_acquire` | two threads, 7 of 8 cells, capacity 2, clock up to 4, fair | `GrantsWithinBudget`, `HoldersWithinCap`, `SlotsExact`, `ShardExact`, `RefillTimeAdvances`, `TryAcquireDecides` |
| `stages_verdict` | two evaluators in each stage, four outcomes each, every event kind and composition rule, four combinations of failure modes, fair | `DegradedExact`, `FailClosedBlocks`, `OwnResult`, `TimeoutEnforcedAtFirst` |
| `policy_decisions` | three types of two priorities, up to two pairs, up to three of six rules, three settings | `ActiveAreCompatible`, `SuppressedForAReason`, `TopDecisionFirst`, `VerdictOfReported`, `BuiltIsResolved` |
| `store_persist` | one key, two writers that also expire, two flushers, two starts, failing writes, fair; 681,203 states | `CountExact`, `WarmCaughtUp`, `WarmNeverRegresses`, `EventuallyPersisted` |
| `archive_query` | one writer, two epochs, look-backs of one and two windows, two starts, failing statements and commits, fair; 733,126 states | `MovedIntact`, `FlagNotMissed`, `FlagJustified`, `OldEpochsLeave` |
| `external_routes` | two threads, three attempts, three versions, fair | `CountExact`, `CallReturns` |
| `service_drain` | three connections, two tenants, instance 1 of 4, fair | `DrainedIsFinal`, `RedirectsToOwners`, `Answered` |

Why the bounds suffice. Pipeline: an event of each submission path, one with a token, gives
every role, and the two meet on a strand and on the in-flight count; two starts give a
restart, and a caller that is late for it; two targets distinguish a partly emitted decision. Router: two
threads give a claim and a late claim or a consumer between them, and a caller that
waits for the mutex; a clock of 4 gives readings older than the last claim and a
full bucket; 7 cells of 8 make the draw go through repeated rounds. Stages: two
inference evaluators are the fewest in which a detached worker meets a later
iteration, and two of each stage make every composition rule differ. Policy: three
types with two pairs give a loser that beats another; two rules of one type give the
choice of its attribution; the rules use every kind of node, one setting is accepted with
a stage, one without any stage and registry and with FailClosed, and one is refused. Stores: two writers give every race on a key, two
flushers two batches of one key, two starts a recovery; a scan that fails at start is left to
the theorems; three attempts are enough to retry twice and to give up. Archive:
two epochs are one in the table and one on its way; two counts reach the threshold
only together; look-backs of one and two windows make the range begin at zero and
later. Service: three connections give an event under way, a drain and
a request after it; the topology file has an instance without an address and one with
two entries. The theorems of section 5 lift all the safety results to any number of events,
threads, keys, evaluators, rules and connections.

`CHECK_DEADLOCK FALSE` appears where the system may really stop: a pipeline whose calls have
all returned, or whose drain waits for ever (`pipeline_submit`, `pipeline_drain`), a process that is not
started again (`store_persist`, `archive_query`, `service_drain`), an event that has been
decided, or waits for an evaluator that never returns (`stages_verdict`,
`stages_timeout`), a decision that was made (`policy_decisions`).

Runs that show a disagreement between the code and its documentation (each is
described under `findings` in `PROJECT.json`):

| Run | Property | What the code does |
|---|---|---|
| `pipeline_lost` | `NoAcceptedEventLost` | accepts an event onto a pool that is being stopped |
| `pipeline_drain` | `DrainReturns` | `drain()` joins the pool with `drain_mutex` held, and the worker that took the count to zero waits for that mutex, although every evaluation ends |
| `router_refill` | `RefilledAfterInterval` | the integer rate is 0 for realistic limits |
| `stages_timeout` | `TimeoutEnforced` | a detached worker's completion ends the next worker's deadline |

### Other deviations met while modelling

They have no run of their own; where a property would fail because of one, its
definition names the exception.

* `submit_sync` may return a decision before its targets have seen it (INV-1 of
  `specs/002-sync-submit-api/contracts/sync-submit-api.md` says they have).
  `ReturnedDecisionIsEmitted` is what holds: they will.
* The concurrency slot is given back when the coroutine is spawned, so
  `max_concurrent` bounds callers inside `submit`, not "in-flight evaluations"
  (`tenant_router.hpp`).
* A submission that looked its strand up before a drain and a restart spawns on a
  destroyed strand.
* An evaluator that throws or hangs keeps its in-flight count: no stage before the policy
  stage catches the exception and `asio::detached` drops it, so `on_event_complete()` is not
  reached (`specs/002-sync-submit-api/plan.md:40` has "coroutine always reaches
  `on_event_complete()`"). Drains then end by their deadline only.
* A caller that passed its state check before a drain can have its event evaluated by the
  next router while `state_` is still Starting.
* `assign_cells` and `assign_instances` need not end: with K close to the number of cells it
  depends on the seeds whether K distinct ones are ever drawn. With four instances and two owners
  per tenant only the owner sets {0, 2} and {1, 3} occur.
* Of two overlapping flushes that hold one key the older batch may be written last, so the
  row stays behind or goes back until the key is flushed again
  (`write_back_window_store.cpp:116` has "we always flush the latest in-memory value"). A key
  expired and counted again before a flush is upserted and then deleted. `WarmCaughtUp`,
  `WarmNeverRegresses` and `EventuallyPersisted` name both exceptions (`FlushedInTurn`).
* Equal priorities: the type named first in the pair survives, not "the earlier match"
  (`decision_type.hpp`). Cyclic ties, or a type declared incompatible with itself, can
  remove every decision.
* Under FailClosed a rule that throws adds a Block result but does not raise the
  policy stage's verdict, although `pipeline_config.hpp:27` has "Treat the stage as blocked
  (verdict = Block, skipped = true)"; `VerdictOfReported` leaves that case out. A rule with
  StageIsDegraded on a stage the pipeline lacks is built, since `collect_stage_refs` looks at
  StageVerdictIs only (`specs/001`, the policy user story, has "startup fails with an error
  identifying the missing stage dependency"). `EvaluatorWasSkipped` and `EvaluatorReasonIs` look at the
  evaluator's first result only. `validate` accepts "emit" as a stage a rule may refer
  to, although it has not run when rules are evaluated.
* With the WeightedScore rule a FailClosed timeout does not block the event.
* The result of the COMMIT in `compare_and_swap` is ignored: a swap whose COMMIT failed is
  answered as made and its count is in no tier. `MovedIntact` and `FlagNotMissed` leave such
  epochs out (`disturbed`).
* A write to an epoch that was archived is lost at its next export; a failed
  compare-and-swap commits a row of zeros; a failed export still deletes the epoch
  (`specs/004` has "losing a flush cycle does not corrupt the warm tier"); a failed read
  of the archive counts as zero; an epoch being moved may be counted twice.
* The external store never reports `StateStoreUnavailable` in a decision, does not fall
  back when a call fails, expires a key in one store only, and writes a plain `bool`
  from several threads.
* A handler's drain and the destructor's overlap, which `pipeline.hpp` forbids; detached
  handlers may outlive the harness; closing the acceptor need not wake a blocked
  `accept`; a request with fields of the wrong type is closed without an answer;
  with `instances_per_tenant` 0 nobody owns a tenant; a harness destroyed without
  `start` drains a pipeline that has no router.

## 4. Fairness

* Callers inside a call, coroutines whose evaluation has ended (`FinishStep`), pool threads
  with a queued coroutine on a running pool, and the steps of a start and of a drain are
  weakly fair: they are OS threads. `GiveUp` is part of the caller's step because the latency
  budget always ends; `DrainExpire` because a drain has a deadline. Nothing makes a caller
  submit, the controller act or an evaluation end, which is user code. `pipeline_drain`
  assumes in addition that evaluations end (`EvaluatingSpec`), so that its counterexample is
  not a hanging evaluator.
* A thread inside `try_acquire` is weakly fair.
* The coroutine of `Stages` is weakly fair, and so is a worker whose evaluator has
  returned; an inference evaluator need never return. The deadline always passes, so
  a poll that is not ended by a completion ends in `Timeout`.
* The store's background thread wakes up every `flush_interval_ms`
  (`run_flush_loop`), hence weak fairness of its `FlushSwap`. Strong fairness of
  `FlushUpsert` of a batch that is not empty says that a write retried for ever is not refused for ever; without
  it nothing could be promised about persistence.
* The archiver is weakly fair for the same reason, and strong fairness of `Delete` says
  that a `DELETE` tried in every cycle succeeds at last. Nothing is assumed of exports.
* A thread inside a call of the external store is weakly fair; the backend is not
  assumed to come back.
* Connection handlers are weakly fair between reading a request and answering it or calling
  `drain()` (`RequestStep`). Nothing is assumed of the clients (`read_until` has no timeout),
  of `drain()`, which need not return, of the main thread and of the accept loop.

## 5. Proofs

`PipelineProofs`. `TypeOK` is inductive. The other results rest on
`SubmitInv == TypeOK /\ QueueInv /\ CallInv /\ SyncInv`: the queues hold exactly
the events whose coroutine is queued, each once (`QueueInv`); the caller's position
determines whether the coroutine exists and what was returned (`CallInv`); the
SyncContext's fields, the coroutine's position and the answer agree (`SyncInv`:
a decision is captured only if the caller had not given up, an error answer means
the coroutine is not, and will not be, emitting). `ErrorMeansNoEmission` alone is
not inductive, since nothing in it says that a coroutine still running will see the
cancellation. `InFlightExact` follows from how each step changes `Outstanding`;
`DrainWaitsForAccepted` from it, because an in-flight count of 0 leaves no
outstanding event. `StoppedMeansQuiet` uses an invariant of the lifecycle
(`LifecycleInv`): a pool that has been joined runs nothing until the next router is there. The refinement
`PipelineImplementsOutcome` maps each step to a step of `SubmitOutcome` or a
stutter.

`TenantRouterProofs`. `TypeOK` is inductive; the elapsed time modulo `Word` is the
plain difference for clock readings below half of `Word`
(`ElapsedIsDifference`), hence `RefillTimeAdvances`. `HoldersWithinCap` (`CapIsKept`)
and `SlotsExact` (`NoSlotLeaks`) are proved together, because admission is decided on
the counter. `ShardIsExact` needs that at most one thread draws and none once the
tenant is in the map (`ShardInv`). `RateIsKept` bounds the tokens consumed, in the
bucket and claimed but not deposited by the burst and the refill of the time claimed
so far; the history variable `claimed` keeps the sum over the threads, so that no
induction over a set is needed.

`WriteBackProofs`. `TypeOK` needs `LocalsOK` (an evaluation still trying has an
attempt left; only a reading flusher has a snapshot). `CountExact` needs that every
value still on its way counts as many evaluations as its version says
(`CountInv`). `WarmCaughtUp` and `WarmNeverRegresses` are proved for any number of flushers, for
the keys that were not expired since the start (`Lasting`) and whose latest flush was not
begun inside another one of the key (`FlushedInTurn`): the latest value of such
a key is always dirty, about to be marked, in the snapshot and not read too early, or
in the table (`OnItsWay`), and table, batch and memory are ordered by version
(`InOrder`). `WarmNeverRegresses` exempts a process whose start could not scan an open
database (`tier = "unread"`): `load_warm_tier` ignores that error, counting begins at
zero, and the next flush replaces the persisted rows, which carry no version guard.

`ExternalStoreProofs`. `TypeOK` is inductive. `CountExact` needs `CountInv`: a value that an
evaluation has read, from whichever store, holds as many evaluations as its version
says, so that a swap sent to the other store writes a count that is right there too,
because the versions agree.

`WarmArchiveProofs`. `MovedIntact` needs `MoveInv`: an undisturbed epoch selected for the
move still has its row, and the one between COPY and DELETE is not selected twice and has
its file, so the DELETE loses nothing. `FlagJustified` and `FlagNotMissed` are about a query
whose two statements other steps separate: `BoundInv` says that no row and no file has
more than was counted, and `QueryInv` that what was counted when the query began is in
what its first statement summed or in a file its second will find (`Covered`). The lemma
`Growth` compares the sums from the sets of evaluations behind them.

`StagesProofs`. `Types` is `TypeOK` with the index inside the stage's evaluators.
`ThreadInv` places the threads: none before its iteration, finished or left behind after
it, and in it a thread has stored its result before it is seen as completed. `OwnResult`
follows, since only a thread left behind can store into another's iteration.
`DegradedInv` and `BlockInv` extend the two results about the decision to every point on
the event's way: what went wrong is in the current stage's reasons and results, then in
its output; only an error stored and not yet collected is still to be accounted for.

`PolicyStageProofs`. `KeptElements` and `ReorderedElements` say that filtering and sorting
keep each element once (`Lists`); they use the cardinality theorems, since an injection
between finite sets of one size is onto. `AllReached` shows that the walk over a rule
meets all its nodes, from the least node it would miss; `BuiltIsResolved` then holds at
`Build` and is kept. `Inv` relates the evaluation's variables: rules and matches are sorted
(`Ordered`), the matches are the matched rules with a type (`MatchesInv`), the verdict is
the strictest of the results not skipped so far (`VerdictInv`) and a skipped one passes unless
the stage fails closed (`SkippedInv`), typed results and active decisions
correspond one to one to the surviving matches (`TypedInv`, `ActiveInv`). None of the four
properties of the decision is inductive, since each speaks only of the end. From `Inv`
they follow by arguments about the losers: of two incompatible types that fired one is a
loser (`ActiveAreCompatible`); the first match of a type survives unless the type is a loser
(`SuppressedForAReason`), which the strictly highest one cannot be (`TopDecisionFirst`).

`ServiceProofs`. `DrainedIsFinal` needs `DrainInv`: since a client was told so the pipeline
does not run, and no handler that read its request afterwards is inside `submit`.
`RedirectsToOwners` needs that a handler inside `submit` has passed the ownership gate
(`RedirectInv`), and `HintIsOwners`: taking the first entry of each owner yields every
owner's listed address. `OwnersAreExact` says that for every hash whose draw
ends (`Ending`) `assign_instances` finds exactly `instances_per_tenant` owners, or the whole
fleet if that is smaller: the set drawn grows by at most one a round (`OwnersOfDraws`).
Whether a draw ends is a matter of the seeds' values.

Assumptions are those named in the modules (`PipelineAssumption`,
`RouterAssumption`, `WriteBackAssumption`, `ExternalAssumption`, `ArchiveAssumption`,
`StagesAssumption`, `PolicyAssumption`, `FleetAssumption`, `ServiceAssumption`): finite sets
where sizes are compared, the ranges of the parameters, rules that are trees, and a
topology file that is right. TLC evaluates each on the instances of the runs.

Only model-checked: all liveness properties (`SubmitSyncReturns`,
`ReturnedDecisionIsEmitted`, `DecidedGivesBack`, `TryAcquireDecides`,
`EventuallyPersisted`, `CallReturns`, `OldEpochsLeave`, `TimeoutEnforcedAtFirst`,
`Answered`): the prover has no fairness reasoning. What `Evaluate` computes for a rule is
a recursive function and would need induction over data; the theorems about
`PolicyStage` hold whatever it returns. The values that `ShuffleShard` draws are computed by
TLC; the theorems hold for all draws.

## 6. Not modelled

ONNX, the Redis stub, serialisation, logging and error texts (wrappers or
formatting); allow/deny lists (a lookup in sets loaded once) and the plugin loader
(one owner, no concurrency): to the stages both are evaluators with an outcome. The
service's configuration and environment loading; the retry back-off times and the
dropped-decisions statistic; the expiry callback (user code). `drain()` before any
`start()` is excluded: the code dereferences a null router there. Cell counts and
fleet sizes that are not powers of two up to 16 need more bits of the hash than the model
keeps. The examples are clients of the library.

## 7. Plan

Every component that is modelled has its safety properties checked and proved. What is
worth adding:

1. Action properties of `Service` and `Stages` (what a step may never do) beside the
   invariants.
2. A refinement of the pipeline's state as `Service` sees it by `Pipeline`, so that the two
   models of `drain` and `submit` are tied together by a proof and not by a reading of
   both.
3. `FlagNotMissed` for more than one query at a time; when the row of a key that was expired,
   or flushed twice at a time, is right again.

# KVWarden in TLA+

KVWarden sits between OpenAI-style clients and the vLLM or SGLang engines it starts. It decides which
request may reach an engine and when (a budget per tenant, a bounded priority queue in front of the
engine), proxies answers and streams, and loads and unloads models. Everything that decides runs as
coroutines on one asyncio loop. Around it are opt-in telemetry with a receiver of its own, programs that rent a
GPU pod and run benchmarks on it, and scripts that profile the engines.

This directory models the server and those programs in TLA+, checks them with TLC on small instances and proves
part of it with TLAPS for every instance. File names below are relative to the repository; `K/` stands for `src/kvwarden/`.

- [Running](#running)
- [Inventory](#inventory)
- [How coroutines become actions](#how-coroutines-become-actions)
- [Modules](#modules)
- [Runs, bounds and what they show](#runs-bounds-and-what-they-show)
- [Where the code disagrees with what it says](#where-the-code-disagrees-with-what-it-says)
- [Fairness](#fairness)
- [Proofs](#proofs)
- [Not modelled, and the plan](#not-modelled-and-the-plan)

## Running

    tlc -config MCAdmission.cfg MCAdmission        # one of the runs in the table below
    tlapm AdmissionProofs.tla                      # all obligations are proved
    tlapm TenantProofs.tla
    tlapm QueueProofs.tla
    tlapm PathProofs.tla
    tlapm LifecycleProofs.tla
    tlapm EngineCacheProofs.tla
    tlapm TelemetryProofs.tla
    tlapm ExperimentProofs.tla

`PROJECT.json` lists the components, the runs with their properties, for each property a mutation of the
code's model that violates it, the source lines each definition stands for, the findings, the hazards and
the theorems.

## Inventory

| Component | State it keeps | Operations | Talks to |
|---|---|---|---|
| Admission controller, `K/router/admission.py` | `_in_flight`, `_sequence`, the heap `_waiters` of `_QueueEntry` (priority, sequence, event, cancelled), three totals | `acquire(priority, timeout)`, `release()` | called by the request path |
| Tenant records, `K/tenant/manager.py` | per tenant: budget, token bucket (`_tokens`, `_last_refill_t`), `_available`, a semaphore, usage counters | `register_tenant`, `try_acquire_for_tenant`, `release_for_tenant`, `record_completion`, `priority_score` | called by the request path |
| Request path, `K/router/router.py` | nothing between requests but counters; per request: the two slots, `released`, `response`, the stream generator | `handle_request`, `route_request`, `_stream_with_admission` | all of the components of this table down to the metrics |
| Model lifecycle, `K/router/router.py` | `_models`, `_model_configs`, `_load_locks`, two gauges | `start`, `load_model`, `unload_model`, `evict_model`, `ensure_model_loaded`, `stop` | engine adapters |
| Bucket queues and workers, `K/router/router.py` | four `asyncio.Queue`s, eight worker tasks, a future per request | `enqueue_request`, `_queue_worker` | the request path. No HTTP route uses them |
| Engine adapters, `K/engines/` | subprocess, shared HTTP session, `_healthy`, circuit breaker (`_consecutive_timeouts`, `_circuit_open_until`) | `start`, `stop`, `health_check`, `forward_request` | the engine process |
| Cache manager, `K/cache/manager.py` | blocks, blocks of each of three tiers, hit counters | `allocate_block`, `access_block`, `free_*`, `promote_block`, `demote_block`, `_evict_from_tier` | the router only calls `free_blocks_for_model` |
| Request metrics, `K/common/metrics.py` | Prometheus counters, gauges, histograms | `record_*` | called by path and lifecycle |
| Telemetry, `K/_telemetry.py` and `telemetry-worker/src/index.ts` | opt-in config file; in the worker a KV counter per client and day, a table of events | prompt, `submit`; `POST` validation, rate limit, insert | the client posts to the worker |
| Benchmark pod, `K/_bench/` | one rented pod, report files | provision, wait, run, teardown, compare | the RunPod API |
| Pod orchestrators, `scripts/m4_path_c_orchestrator.py`, `scripts/p1_preflight_orchestrator.py` | a pod id, failed attempts, results of cells, a thread pool for API calls | create, wait, run the cells over ssh, delete | the RunPod API, the pod |
| Profiling scripts and GPU monitor, `profiling/scripts/`, `scripts/gpu_monitor.py`, `scripts/run_all_baselines.sh` | requests in flight behind a semaphore, summaries of runs; the monitor's buffer and file | sweep, background load, py-spy recording; sample, flush | an engine, the monitor by signal |
| Command line and configuration, `K/cli.py`, `K/common/config.py` | none | argument parsing, YAML, rendering; `_run_server` wires the server | everything |

What is hard in it, and what must hold:

- *Admission.* A parked `acquire()` can be granted, time out and be cancelled at nearly the same time, in
  different loop callbacks; entries whose caller is gone stay in the heap and are dropped lazily. Right means:
  never more than `max_concurrent` at the engine, no one overtakes, no wake-up is lost, every slot is counted
  once and every outcome in one column.
- *Tenants.* Three counters of the same thing; a bucket refilled lazily from elapsed time. Right means: the
  counters agree with the requests in progress, no window of time lets more through than the limit says.
- *Request path.* Two slots taken one after the other, given back by one of two `finally` blocks whose
  ownership moves when a stream starts; five ways a stream ends, a client that goes away or stops reading, a
  generator abandoned at its `yield`, the last `write_eof()` after all of it. Right means: both slots are given back exactly once and not before the
  engine is done with the request, metrics and answers agree, every request ends.
- *Lifecycle.* Check, evict and load span several awaits; `stop()` runs while the server still listens. Right
  means: one engine per model, no engine process without an owner, no request waiting for ever on a load lock.
- *Engines.* Late results of calls made before the circuit opened; a server that comes up late, hangs, ignores
  SIGTERM or exits; a cancelled start. Right means: the circuit is open only because of timeouts nothing has
  refuted and does not stay open, `start()` and `stop()` leave no process behind.
- *Cache.* Evictions that cascade into a tier that is full itself. Right means: the two indexes agree, no tier is
  over its capacity, what is evicted was worth no more than what stays.
- *Telemetry.* A config file several runs of the program read and truncate without a lock; read-then-write of a
  counter by concurrent events, whose lifetime each of them renews. Right means: nothing is sent without consent, an
  opt-out lasts, events are dropped only for others of the same id, and rows are kept no longer than promised.
- *Programs that rent pods.* A signal, a failing step, a lost answer or a call that hangs between renting the pod
  and returning it. Right means: a program deletes every pod it knows of, accounts for every cell, and ends.
- *Profiling.* A server that never answers; a monitor told to stop while rows wait in its buffer. Right means:
  each request is in one summary once (a run in which all failed has no counts), each sampled row is in the file, the
  phase ends.

## How coroutines become actions

A coroutine gives up the loop only at an `await` that really suspends. The locks of `admission.py` and
`manager.py` are only ever held across code that does not suspend, so they are never contended and never
suspend either; the admission queue is unbounded, so `put` does not block; a tenant's semaphore is taken only
when it is positive (an invariant here, `SlotsAccounted`). What remains are the awaits of `wait_for`, of the
engine, of the client's socket, and of the load locks. One action is one run of a coroutine from such a point
to the next, with everything it does in between.

Three things are *not* atomic and are kept apart: a timer callback fires; `release()` sets an event; the
parked task resumes. Between any two of them other coroutines run. What a timer does that fires after the
event was set depends on the runtime: on Python 3.11 `wait_for` ignores it, from 3.12 on it cancels the task
(`pyproject.toml` allows both). The constant `LateTimerCancels` says which; the theorems hold for both, the
runs use 3.12's behaviour, which includes the other's.

Elsewhere the unit is different. No method of the cache manager suspends: a call is one action. Two runs of the
command line are processes: opening the config file, which truncates it, and writing it are two actions, and the
process may be killed between them. The worker gives up control at every `await` of a store. A program that rents
a pod is sequential, so an action is a step that can fail; what runs beside it is the provider, signals, and the
threads that still hold calls it gave up on. In the profiling scripts py-spy is run synchronously, so the event
loop stands still meanwhile.

## Modules

| Module | Models | Correspondence |
|---|---|---|
| `Admission` | `AdmissionController` | A call is a member of `Requests`. `pc` is where its coroutine is; `waiters` the entries in the heap; `rank`, `signalled`, `cancelled` the fields of an entry; `timer` the `wait_for` timer. `AdmitFast`, `RejectFull`, `Enqueue` are the three ways into `acquire()`; `TimerFires`, `ReturnAdmitted`, `ReturnTimedOut`, `TaskCancelled` what happens to a parked call; `Release` is `release()` with its whole pop loop (`HandOver`: entries ahead of the first live one are dropped and it gets the slot; `FreeSlot`: nobody is left) |
| `PrioritySemaphore` | what `Admission` promises | An atomic semaphore with a priority line: no timers, events, counters or leftover entries. Slots that leaked count as occupied |
| `TenantRecord` | one tenant's `TenantRecord` and the `TenantManager` operations on it | Time is in ticks; the bucket is in sixtieths of a token, so `rate_limit_rpm` is the integer gain per tick (the code's float is the same number without rounding). `Grant` and `Refuse` are `try_acquire_for_tenant`, the implicit registration of an unknown tenant included; `RegisterNew` and `UpdateBudget` are the two branches of `register_tenant`. The server itself only uses the implicit registration; the explicit one is for programs that embed the manager |
| `TokenBucket` | what the bucket promises | A bucket that is filled at every tick |
| `TenantQueue` | how `route_request` pairs the tenant's slot and the admission slot | Extends the state of `Admission` by `active` (`usage.active_requests` of each tenant). Each action is an `Admission` action with what the request does to its tenant in the same run. `Priority` is the score formula of `fifo` and `drr` |
| `RequestPath` | `handle_request`, `route_request`, `_stream_with_admission` | `stage` is where a request's task or its generator is. The slots are changed only through the actions of `TenantQueue` (instance `Q`), so the composition is visible in every action; `EndStream` is the generator's `finally` and the handler up to its answer or to `write_eof()`, whose end is `EofWritten`, `EofFails` or `CancelClosing`: the stages `Closing`, where the slots are given back and the metrics recorded already. The rest are the HTTP answer (`status`, `committed`), `record_request` (`recorded`), `record_sse_disconnect` (`disconnects`) and the client (`clientGone`) |
| `ModelLifecycle` | `start`, `load_model`, `unload_model`, `evict_model`, `ensure_model_loaded`, `stop`, the adapters' processes | `models` is `_models`; an adapter is named by who loads it, and `process` is its engine. The actions of `ensure_model_loaded` are `Hit`, `UnknownModel`, `WaitForLock`, `Load`, `Evict`, `Evicted`, `FinishLoad`, `FailLoad`; `Preload`, `Listen`, `BeginStop`, `StopNext`, `StopUnloaded`, `EndStop` are the main coroutine. Any loaded model may be the victim: the score only picks one |
| `EngineAdapter` | `K/engines/base.py` | `phase` is where `start()` or `stop()` is: `Launch`, `StartFails`, `Poll`, `StartTimesOut`; `Stop`, `Kill`, `Reap`; `Cancel` at any await. `call` is where each `forward_request()` is: `Refuse` (`_check_circuit`), `Forward`, `Iterate` (the first step of a stream), `Succeed` (`_note_success`), `TimeOut` (`_note_timeout`), `Fail` for every end that notes nothing. The server (`ServesHttp`, `Hangs`, `Exits`) is the environment. `outcomes` is a history of the last results |
| `EngineProcess` | what `ModelLifecycle` assumes of an adapter | `start()` ends with a ready engine or with none, `stop()` with none, unless cancelled; both end |
| `CacheManager` | `K/cache/manager.py` | `ledger` holds the two indexes (`_blocks` and `_tier_blocks`). `Allocations` is the loop over the tiers of `allocate_block`; `EvictUntil` is the loop of `_evict_from_tier` as a fold over the blocks in score order, and `Rankings` the orders a sort by `reuse_score` can give: the clock enters the score only by the order of the accesses and a bounded weight, so `Outscores` is the part that is certain: more uses and a later access, or `Margin` (which the weights give) times as many uses. Blocks with as many uses are left unordered, for their scores are equal when both accesses are within the millisecond `reuse_score` clamps to, or so old that rounding loses recency; `fresher` is the order of `last_access_time`, as a set of pairs. A failed allocation or promotion keeps its evictions, as in the code |
| `TelemetryClient` | `K/_telemetry.py` and its callers in `cli.py` | An invocation of `kvwarden` is a member of `Invocations`; `Begin...` are the ways into `maybe_prompt_and_record_event`, `Command` is `kvwarden telemetry on` and `off`; `Open`, `Write`, `SaveFails`, `Killed` are `_save_config`. `Garbled` is what two overlapping writes of different length leave |
| `TelemetryWorker` | `telemetry-worker/src/index.ts` | `Receive`, `Lose`, `Get`, `Put`, `Drop`, `StoreFails`, `Insert`, `InsertFails` are `fetch()`; `Sweep` is `scheduled()`; `Midnight` and `Expire` are time and the store's expiry; `putAge` is a history, how many days ago an event was counted |
| `Telemetry` | both | What an invocation posts is what the worker receives |
| `RunPod` | what the three programs share | The provider's pods and its answers, signals, calls given up on (`leaked`) |
| `PathCOrchestrator` | `scripts/m4_path_c_orchestrator.py` | `main()` and `probe()`: attempts (`CreateOk`, `CreateFails`, `NotRunning`, `AttemptFails`, `Retry`), cells (`Launch`ed, polled, pulled, `Skip`ped), cleanup and exit; `LateCall` is a thread of the pool |
| `PreflightOrchestrator` | `scripts/p1_preflight_orchestrator.py` | `main()` |
| `ReproduceHero` | `K/_bench/hero.py`, `K/_bench/pod.py` | `ensure_pod`, the bench, `PodContext.teardown`, the signal handlers once they are installed |
| `PodPrograms` | the three | One of them runs; the properties |
| `BenchmarkClient` | `AsyncBenchmarkClient`, `GPUMetricsCollector`, `count_tokens` in `profiling_utils.py` | `req` is where each request of a run is; the semaphore is `Permits` against `limit` |
| `SchedulerProfile` | `profile_vllm_scheduler.py`, `profile_sglang_scheduler.py` | `main()`: the sweep, then the recording with a background load. A run whose requests all failed has a summary without counts (`NoCounts`) |
| `GpuMonitor` | `scripts/gpu_monitor.py` | `SampleRow` appends one row of a turn, `EndTurn` tests the buffer and flushes it, `SigTerm`, `Stop` with the final flush; a kill comes between any two of them |
| `BaselinePhase` | a phase of `scripts/run_all_baselines.sh` | The shell, the script and the monitor together |
| `MC...` | | Constants and the symmetry set of the runs |
| `AdmissionProofs`, `TenantProofs`, `QueueProofs`, `PathProofs`, `LifecycleProofs`, `TelemetryProofs` | | Theorems about the module of that name |
| `EngineCacheProofs` | | Theorems about `EngineAdapter` and `CacheManager` |
| `ExperimentProofs` | | Theorems about `BaselinePhase` and `PodPrograms` |

The layers implement one another: `RequestPath` implements `TenantQueue`, whose admission part takes only the
steps of `Admission`, which implements `PrioritySemaphore`. In `RequestPath` the token bucket appears as a
refusal that may happen to any request (`RefuseBudget`); `TenantRecord` says when. The model load inside the
`try` appears as `FailBeforeStream` or nothing; `ModelLifecycle` says how. The processes of `ModelLifecycle` start
and stop as `EngineProcess` says, and `EngineAdapter` implements that. `Telemetry`, `PodPrograms` and
`BaselinePhase` compose their parts by conjunction: a step of one leaves the variables of the others alone,
except where one starts, signals or posts to another.

## Runs, bounds and what they show

| Run | Instance | Distinct states | Shows |
|---|---|---|---|
| `admission` | 4 calls, 1 slot, queue of 2, two priorities, one call cancellable | 33,341 | `SlotAccounting`, `ConcurrencyCap`, `NoBarging`, `NoOvertaking`, the refinement of `PrioritySemaphore`, and under fairness `WaiterServed` and `PhantomsDrain` |
| `tenant` | 4 calls, a clock of 4 ticks, the default budget and two others | 47,458 | `SlotsAccounted`, `RateWindow`, the refinement of `TokenBucket` |
| `queue` | 5 requests of 2 tenants (3 and 2), cap 3, queue of 3, `drr`, all cancellable | 607,419 | `TenantSlotsAccounted`, `DeficitBound` |
| `path` | 3 requests of 2 tenants, 1 slot, queue of 1, one cancellable | 519,713 | `SlotSpansService`, `RecordedOnce`, `AnsweredAsRecorded`, the refinement of `TenantQueue`, and under fairness `EveryRequestEnds` |
| `lifecycle` | 2 configured models and 1 extra one, 3 requests (two for the same model) | 79,062 | `EveryEngineOwned`, `SingleEngine`, `ServedByRegistered`, `GaugesAccounted`, and under fairness `CallsReturn` |
| `cache` | 4 blocks of sizes 1, 1, 2, 3 in tiers of 2, 2, 4; 2 lookups | 32,255 | `LedgerAgrees`, `CapacityRespected`, `EvictionKeepsTheBest` |
| `engine` | 4 calls at a time, threshold 3, cooldown of 2 ticks, 2 polls | 159,762 | `OpenAfterStreak`, and under fairness `CircuitRecovers` and the refinement of `EngineProcess` |
| `telemetry` | 3 invocations, limit 2 a day, retention 1 day | 962,722 | `ConsentRespected`, `OptOutHolds`, `NoUndueDrop`, and under fairness `RowsAreDeleted` |
| `pods` | 3 pods, 2 attempts, 2 cells, 1 thread, 1 call that hangs, one signal of each kind | 532,145 | `EveryPodIsGivenBack`, `CellsAccounted`, and under fairness `ProgramEnds` |
| `profiling` | runs of 3 requests at levels 1 and 2, a load of 2; 2 GPUs, a buffer of 4, at most 9 rows | 361,833 | `RunsAreWhole`, `RowsKept`, and under fairness `PhaseEnds` |

The type invariant is checked with them: as `TypeOK` in the first two, and as the first conjunct of the first
property in the others (`ConsentRespected` and `NoUndueDrop` for the two halves of `telemetry`). The two other
runs, `admission_leak` and `lifecycle_stop`, end in a violation, see below. `profiling` is the one run where
deadlock is not an error: a phase is over at some point.

Why these bounds. *Admission:* with one slot and four calls there can be a holder, two parked calls of
different or equal priority, and one that arrives between a hand-over and its resumption or finds the queue
full; timed-out and cancelled entries can lie before, between and behind live ones. More slots add holders that
interact only through `_in_flight`. *Tenant:* half a token per tick, so that levels between tokens, the cap at
the burst, refusals by rate and by concurrency, and a registration with another budget all occur. *Queue:* the
flooding tenant can have more requests in line than the other's score, which is the number `DeficitBound`
is about; the queue has to hold three for that and to be full for `RejectOverload`. *Path:* one request at the
engine, one parked, one refused or arriving. *Lifecycle:* the extra model makes eviction possible at all; two
requests for one missing model race for its load; every load may fail, so a configured model can be missing.
*Cache:* one block is larger than the first tier and one fills the second, so an eviction can move several
blocks, drop some, and still not suffice; two accesses separate use from recency. *Engine:* one call more than the
threshold, so that a call is in flight when the circuit opens; slots are reused, so the number of calls is not
bounded. *Telemetry:* one invocation more than the limit, which three need to reach with one id, and enough for a
save over a save and a third that reads. *Pods:* an attempt that fails and one after it, each with a pod, and a pod
whose creation was never answered; one worker and one hanging call exhaust the pool. *Profiling:* more requests
than the level, two levels; turns of three rows (two GPUs and their sum) against a buffer of four, so that a turn
ends below the flush, and reaches it in the middle of a turn.

The bounds that are constants of the models: `MaxTime` (the clock stops), `MaxLookups`, `MaxPolls`, `MaxHangs`,
`MaxRows` and the finite sets of calls, blocks, invocations and pods. The history `putAge` counts no further
than two days. Nothing else is cut off: sequences, counters and totals are bounded by these.

## Where the code disagrees with what it says

Two of these are runs of their own, which TLC ends with a counterexample; `PROJECT.json` quotes the line that is
contradicted. For the others the property is in its module too: added to the configuration named here, TLC
violates it.

| Property | Where | What happens |
|---|---|---|
| `InFlightIsHonest` | run `admission_leak` | The timer of a parked call fires, then `release()` grants it the slot, then the call resumes and reports a timeout. The slot is never released again, and `in_flight` stays one too high until restart. On Python 3.12 the opposite order loses it too, and so does a cancellation of a granted call |
| `StopStopsEngines` | run `lifecycle_stop` | `cli.py` stops the router before it stops listening: a request that arrives while `stop()` unloads the models starts a new engine, which nobody stops |
| `StreamCeiling` | `PROPERTY`, `MCRequestPath.cfg` | "Hard ceiling for any single streaming response" (`K/router/router.py:36`) is the fence of the generator. The `write_eof()` after it drains the connection without a timer: a client that does not read keeps the handler there. No slot is held by then |
| `DropsBeyondTheDay` | `PROPERTY`, `MCTelemetry.cfg` | "at most 100 events in 24h. Beyond that we silently drop" (`telemetry-worker/src/index.ts:38`): each put renews the 24 hours of the whole count (line 127), so an id that sends a few events every day is dropped with far fewer than the limit in any 24 hours. `NoUndueDrop` is what remains true |
| `AdmissionRespectsBudget` | `PROPERTY`, `MCTenantRecord.cfg` | `register_tenant` of a known tenant ("or update an existing one", `K/tenant/manager.py:198`) changes the `budget` field and none of the limits computed from the old one |
| `ActiveRequestsAreLive` | `INVARIANT`, `MCTenantQueue.cfg` | A `max_tokens` that is not a number raises between the tenant's slot and the `try` that gives it back (`K/router/router.py:464`) |
| `BusierTenantWaits` | `PROPERTY`, `MCTenantQueue.cfg` without its `SYMMETRY` | The `drr` score is computed once, on arrival (`K/router/router.py:470`); a slot can go to the tenant with more requests in flight, although `docs/tuning_guide.md:30` says it waits. `DeficitBound` is what remains true |
| `OneReasonPerStream` | `INVARIANT`, `MCRequestPath.cfg` | A stream that times out is counted under `timeout` and under `upstream_error` (`K/router/router.py:827`) |
| `DisconnectsAreTheClients` | `INVARIANT`, `MCRequestPath.cfg` | An engine that drops the connection is reported as a client's disconnect, with 499 if nothing was sent yet (`K/router/router.py:849`) |
| `RefusedOnlyWhenFull` | `PROPERTY`, `MCCacheManager.cfg` | `_evict_from_tier` compares what it has evicted, not what is free, with what is needed (`K/cache/manager.py:422`). So it may clear a whole tier, and `allocate_block` returns `None` although the block would fit in the space that is free now; the docstring says "None if no tier has space" |
| `CtrlCReachesCleanup` | `INVARIANT`, `MCPodPrograms.cfg` | `hero.py:426` says Ctrl-C "always reaches the cleanup path"; the handlers are installed after `ensure_pod()` has created the pod and waited up to minutes for it, and a signal in that time leaves the pod running |
| `LoadWhileRecording` | `INVARIANT`, `MCBaselinePhase.cfg` | "Generate load while py-spy is recording" (`profile_vllm_scheduler.py`): the recording blocks the event loop, so nothing is sent after what was sent before it began |

The properties of the passing runs are stated so that they hold in spite of these: `SlotAccounting` counts the
leaked slots, `TenantSlotsAccounted` the forgotten ones, `WaiterServed` lets a call wait for ever only if a
slot has leaked, `EveryEngineOwned` speaks of the time until `stop()` returns, `EveryPodIsGivenBack` of the pods
whose id the program was given and of programs no signal cut short.

What reading and modelling showed besides, without a property of its own because it is the direct effect of a
line:

- *Engine.* `_healthy` is set to `False` when the circuit opens and no success sets it again; a success of a call
  from before the circuit opened closes it before the cooldown; after the cooldown any number of calls go through,
  not the "one chance" of `base.py:285`; a stream looks at the circuit when it is created, not when it posts; an
  engine that exits is noticed by nobody, and `/health` goes on answering 200.
- *Cache.* `demote_block` accepts a faster tier; `allocate_block` for an id that is live leaves a stale entry in
  the old tier (the model allocates only ids that are not live, which is what "unique" in the docstring asks).
- *Telemetry.* `kvwarden telemetry off` reports success when saving failed; a torn or garbled file makes the
  program prompt again; concurrent events pass the rate limit.
- *Pods.* The `except` clause of an attempt in `m4_path_c_orchestrator.py` forgets the pod's id even if its DELETE
  failed; an alarm that falls into an attempt or an API call is taken for a failure of that and does not come
  again; the cost is looked at between cells only; a cell that was given up on may still run on the pod while the
  next one starts; SIGTERM is not handled; a pod given by `--reuse-pod` is deleted like a rented one.
- *Profiling.* The SGLang script's last pattern, `python.*sglang`, finds the script itself; the dump of cProfile
  comes right after it is enabled; an error of the tokenizer other than `ImportError` ends `gather()` with the
  collector still running; under `set -e` a failing script leaves the monitor and the engine running; a monitor
  that is signalled before its handlers are installed dies without a file.

## Fairness

- `Admission`: weak fairness of a parked task that is ready to resume (the loop runs every ready task) and of
  `Release` of a holder (the router calls it in a `finally`; that the holder gets there is what `RequestPath`
  shows). Timers are *not* assumed to fire, so `WaiterServed` does not rest on timeouts.
- `RequestPath`: weak fairness of the 30 s admission timer, of resuming tasks, of the end of the `try` (load and
  engine calls have timeouts of their own), of the stream fence (600 s by default), of the asyncgen finalizer that
  closes an abandoned generator, and of the error `write_eof()` raises when its connection is lost. No client has to
  read or to close, and no engine has to send. So `EveryRequestEnds` says: a request ends, or waits in `write_eof()`
  for a client that is still there.
- `ModelLifecycle`: weak fairness of the end of `adapter.start()` and `adapter.stop()` (both are bounded by
  timeouts), of `stop()`'s loop and of the next waiter of a load lock. No load has to succeed and `stop()` need
  not be called.
- `EngineAdapter`: weak fairness of the clock, of the polling loop of `start()` (it has a deadline), and of the
  kill and the wait at the end of `stop()`. The engine need not serve, answer or exit, and no call has to be made.
- `Telemetry`: weak fairness of the day's end and of the scheduled deletion: the cron trigger of `wrangler.toml`
  fires daily and may fail, but not for ever.
- `PodPrograms`: weak fairness of the steps of the program that runs (each wait has a deadline) and of a call that
  hangs, which the operating system ends some time. No signal has to come and no request has to succeed.
- `BaselinePhase`: weak fairness of the shell, of the monitor's start and stop and the rest of a turn it has begun, of `main()` and, for each request,
  of what the event loop runs by itself: ready tasks and timers, the request's timeout among them. The server need
  not answer and the monitor need not begin another turn.

## Proofs

`AdmissionProofs`, for any finite set of calls, any slot count, queue size and priorities, any set of
cancellable calls and both runtimes (the assumptions named in `Admission`):

- `TypeCorrect`, `SlotsAccounted`, `CapHolds`, `NoBargingHolds`: `Spec => []P` for the invariants of the run;
- `NoOvertakingHolds`: the action property;
- `Refinement`: `Spec => ImplementsSemaphore`;
- `ParkedIsQueued`: the calls that wait without a grant are exactly the live entries of the heap;
- `OutcomesCounted`: each call is in one of the three totals once it is over, in none before.

The inductive invariant is `IInv`: types (with `inFlight` an integer only; that it is not negative follows from
the accounting), `ParkedIffQueued`, `TicketInv` (queued entries have distinct sequence numbers, all below
`_sequence`), `SlotAccounting`, the cap, and `NoBarging`. `TicketInv` is what the refinement needs: it makes the
order of the heap total, so a hand-over to `w` leaves exactly the live entries other than `w` in the queue
(lemma `HandOverKeepsLive`). `NoBarging` is what lets the fast path map to `Enter`, which demands an empty line.
`SlotAccounting` needs `ParkedIffQueued`: the call that gets the slot was not occupying one, even if its caller
is gone. For `OutcomesCounted` a call's move from one stage to another is a change of the finite set counted by a
total, by at most that call (lemma `TallyOfMove`).

`TenantProofs`, for any finite set of calls, any budgets (zero rates, bursts and caps included) and any clock:

- `TypeCorrect`, `SlotsAccountedHolds`, `RateWindowHolds`: the invariants of the run;
- `Refinement`: `Spec => ImplementsTokenBucket`.

`RateWindow` is not inductive: it speaks of windows between two admissions. `OpenWindow` strengthens it to the
windows that are still open (what was admitted since the i-th admission plus what is in the bucket is at most
capacity plus supply since then), and `FreshInv` says that the record of a tenant not registered yet is
untouched, which is why registering it with other limits is harmless.

`QueueProofs`, for any finite sets of requests and tenants, any cap, queue, set of buckets and slots, and both disciplines:

- `TenantSlotsHold`, `DeficitHolds`: `Spec => []P` for the invariants of the run;
- `QueueIsAdmission`: `Spec => A!Spec`, each step is one of `Admission` or leaves it alone;
- `QueueCap`: with it, `ConcurrencyCap` holds of the two slots together.

The theorems of `AdmissionProofs` are used through an instance of that module, whose constants the module's own
assumptions justify: the invariant of the controller is a conjunct of `IInv` and need not be proved again. The others
are `SlotsInv` (`active_requests` is the cardinality of a set: the requests of the tenant that are parked, hold a slot,
or lost it), `LostInv` (a request lost between the slots has not called `acquire()`) and `LineInv`. `DeficitBound`
itself is not inductive, as it speaks of the line at a request's arrival only: `LineInv` says for every n that at most n
live entries of a tenant have a priority that its n-th active request could have been given. A request that parks as
the n-th finds at most n - 1 of its tenant in line, because each of them is counted in `active_requests`.

`PathProofs`, for any requests, tenants, slots and queue places:

- `Refinement`: `Spec => ImplementsTenantQueue`;
- `SlotSpansServiceHolds`, `RecordedOnceHolds`, `AnsweredAsRecordedHolds`: the invariants of the run;
- `EngineCap`: never more than `max_concurrent` requests between admission and release, on the whole path.

Again the invariant of the layer below comes from an instance, of `QueueProofs`. What is added is said of each request
alone: `Slots` (where its coroutine is and what it holds), `Progress` (what it has been answered and recorded while it
is on its way) and `Accounted` (what must agree once it is over). An action changes one request, so a step
preserves the invariant if it does so for that one (lemma `OthersStayGood`).

`LifecycleProofs`, for any finite sets of configured models, extra models and requests:

- `EnginesOwned`, `OneEnginePerModel`, `GaugesCount`, `RequestsKeepTheirEngine`: the invariants of the run.

`EveryEngineOwned` and `SingleEngine` say nothing of who holds a lock, so they are not inductive. `IInv` adds, until
`stop()` returns: `Owners` (an engine starts exactly while its loader is loading, is up exactly while it is
registered, stops exactly while someone unloads it), `Locks` (whoever loads or evicts under
`ensure_model_loaded` holds the lock of a model that is known and not registered), and `Untried` (a model whose
first load is not over is out of the requests' reach: the server does not listen yet, or no request knows the
model). `Untried` is needed because `start()` and an embedding program call `load_model` without the lock. `GaugesCount`
counts finite sets: a load adds a model, a pop moves one from the registered to the unloaded, the end of an unload
removes it. `RequestsKeepTheirEngine` is a pigeonhole argument (lemma `RoomForConfigured`): while only configured
models are known and one of them is missing, fewer than the maximum are registered, so `ensure_model_loaded`
takes the branch that evicts nobody. After `stop()` has returned none of this holds, which the run
`lifecycle_stop` shows.

`EngineCacheProofs`, for any set of concurrent calls, any threshold, cooldown and number of polls:

- `OpenOnlyAfterStreak`: `Spec => []OpenAfterStreak`. `Streak` strengthens it: `_consecutive_timeouts` is at most the
  number of timeouts at the end of the history, and the circuit is open only while it is at the threshold. A late
  timeout renews an open circuit, and a late success resets both, in whatever order the calls end.
- `ProcessAsPromised`: `Spec => Process!Init /\ [][Process!Next]_ProcessState`, which is `ImplementsEngineProcess` without
  its fairness. `OwnerInv`: until `start()` or `stop()` is over the adapter owns the process it launched, and when either
  is over that process has exited.

And for any finite set of blocks of any sizes and any capacities of the three tiers:

- `LedgerAgreesHolds`, `CapacityHolds`: the invariants of the run;
- `TheBestAreKept`: `Spec => EvictionKeepsTheBest`.

The invariant, `CacheInv`, is short: the ledger is sound (the two indexes agree and no tier is over its capacity), the
counters have their types, and `fresher` is a strict total order of the blocks present. The work is in
what one operation does, for `_evict_from_tier` is a loop over a sorted list in a loop over the tiers. `EvictionInv` is the
loop invariant: after k blocks of the ranking, those before the point where enough was freed have left the tier for
the next one or for good, the others have not moved, and the tier's use has gone down by exactly what is counted as freed.
Each block that moves is checked against what the next tier holds at that moment, so the cascade keeps capacities
(`MovedSound`). `AllocationIs` repeats this for the loop over the tiers: a tier is disturbed by its own eviction only, once.
As the blocks that left come first in the ranking, none of them outscored one that stayed. The proof uses
nothing of `Outscores` but that rankings respect it, so it holds for any weights and any order of ties.

The use of a tier is a sum over a set, defined by a fold, and the library's theorems about folds and induction take
operators, which no prover here can instantiate. The induction is done by hand, on sets: of a family of subsets of a finite
set one is minimal (`MinimalSubset`, from the well-foundedness of strict inclusion), so a least counterexample can be picked.
This gives that the recursion of a fold over a finite set has a solution (`FoldExists`), so that its
`CHOOSE` picks one; that a sum grows by the size of each new block (`WeightAdd`); and that `FoldLeft`
over a ranking is a run of single steps (`EvictRuns`).

`TelemetryProofs`, for any number of invocations, any limit and any retention:

- `ConsentHolds`, `OptOutStays`: the invariants of the client;
- `DropsAreDue`: `Spec => NoUndueDrop`, whatever the stores do.

`ConsentRespected` speaks of what is sent; `ConsentInv` says the same of the file and of every record an invocation has
read or is about to write, since the file is read, truncated and written by several of them. `OptOutInv` adds that from an
undisturbed `telemetry off` on no record on its way to the file is enabled, and `AfterInv` that what began since
then and is enabled said yes itself. On the worker's side `CounterInv` bounds each counter, and each value read from one and
not yet written back, by the number of admitted events of that id: concurrent events lose increments but never add one.
`LastPut` says that a counter that is there was put by an admitted event, today or, if it is a day old, yesterday.

`ExperimentProofs`, for any number of GPUs, any flush interval, any levels, repeats and requests of a run:

- `RowsAreKept`: `Spec => []RowsKept`, in the composition with the shell and the script. `RowsInv`: sampled rows are the
  written ones and those in the buffer, which is short of a flush but for the rows of the current turn, and empty before
  the loop and after the monitor's own end.
- `RunsHold`: `Spec => []RunsAreWhole`. `ScriptInv` adds that the sweep is not over while a run goes on. A run ends only
  when each of its requests is `ok` or `failed`, so the two counts of a summary that has counts add up to all of them.

and for any number of pods, attempts, cells, workers and API calls that hang:

- `PodsAreGivenBack`: `Spec => []EveryPodIsGivenBack`. `Gives`: at any time a program has sent a DELETE for every pod it was
  given but the one it holds, and it holds none where it asks for one. A teardown has been done only on the way out.
- `CellsAreAccounted`: `Spec => []CellsAccounted`. `Tally` follows the status: an attempt that fails sets it, so a program
  that closes with 0 came from a sweep that is complete; no cell that runs has a skipped one before it, as it started within
  the budget; and a budget once spent does not return.

Assumptions. The constants are as the code makes them: sets of requests, tenants, calls, blocks and events are finite, sizes
and limits are naturals, zero where the code allows it, names differ from the values they are compared with. They are the
`ASSUME`s of the modules, which TLC evaluates in the runs. No theorem has other hypotheses, and those constants that only bound a run
(`MaxTime`, `MaxLookups`, `MaxPolls`, `MaxHangs`, `MaxRows`) may have any value.

Model-checked only: the liveness properties (`WaiterServed`, `PhantomsDrain`, `EveryRequestEnds`, `CallsReturn`, `CircuitRecovers`,
`RowsAreDeleted`, `ProgramEnds`, `PhaseEnds`) and the termination that `ImplementsEngineProcess` promises. They rest on
fairness, and so on `ENABLED`, which is beyond the prover. Every other property of the passing runs is a theorem.

## Not modelled, and the plan

Outside the repository, and modelled only from how the code uses it (`external` in the map): asyncio's tasks, timers
and generator finalizers, the HTTP server and clients, the engine process, the provider's pods, the key-value store and the database
of the telemetry worker, the operating system's signals and files.

Not modelled:

- Bucket queues and workers. Nothing calls `enqueue_request`: no HTTP route and no command. In every state the
  program can be in, the eight workers wait on empty queues until `stop()` cancels them.
- Prometheus gauges and histograms that mirror modelled counters, usage sums nothing reads to decide
  (`record_completion`), request bodies answered with 400 before any state is touched, and logging.
- `/health` beyond what it reads, the keys of `_models`: an engine that exits by itself still counts as loaded.
- An interrupt during `start()`, which ends the program without `stop()`.
- Command lines and ports of the engines, argument parsing, configuration files, manual pages, text rendering.
- The numbers: percentiles, means, charts, reports, the comparison of two reports, workload generation, the notebook.
  They are computed once from what a run recorded.
- `scripts/provision_runpod.py` creates a pod, prints its address and exits; it never deletes one.
  `scripts/p1_gauge_cadence.py` polls one gauge. The `benchmark_*` scripts are load generators of the same shape as
  `BenchmarkClient`, without its background load. `run_all_baselines.sh` has other phases that run such scripts.

Theorems to come, in this order:

1. The layers put together: `PathProofs` and `QueueIsAdmission` give that a behaviour of `RequestPath` is one of `Admission`,
   so `NoOvertaking` and the implementation of `PrioritySemaphore` hold of the whole path.
2. `ModelLifecycle`: each engine of it starts and stops as `EngineProcess` says, the counterpart of `ProcessAsPromised`.
3. The steps of the liveness arguments that need no fairness: that a parked call's place in line never gets worse, and
   that a program's attempts and cells only count up.

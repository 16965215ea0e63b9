# CodedLLM: TLA+ specifications

CodedLLM recovers slow or lost KV-cache shards from sparse XOR parity shards. This
directory holds a TLA+ model of it, from the planner to the concurrent serving runtime
and the device code, of its simulators and parameter sweep, and of its transport smoke
test; TLC configurations that check the model on small instances; and TLAPS proofs
about it. Source paths below are relative to the repository.

## 1. Inventory of the system

| Component | State | Operations | Interacts with |
|---|---|---|---|
| Code graph (`graph_generator.hpp`, `plan.hpp`) | `k`, `m`, sorted map parity -> systematic neighbours; a plan's operations and dependency lists | validation | read by all |
| `DecodePlanner` (`src/coding/planner.cpp`) | locals of one call: remaining shards, plan, producing operations | `CreatePlan` | called by policy, coordinator, simulators |
| CPU codec (`src/coding/codec.cpp`) | the caller's shard slots | `encode_parity_cpu`, `execute_decode_plan_cpu` | executes plans |
| Tracker and policy (`src/runtime/policy.cpp`) | first arrival time of each shard | `MarkArrived`, `IsSystematicComplete`, `GetMissingSystematic`, `CreatePlan`, `Evaluate` | one tracker per request in the coordinator |
| `RecoveryCoordinator` (`src/runtime/coordinator.cpp`) | request table under a mutex: slots, tracker, status, `recovery_submitted`, `recovery_rejected`, `recovery_closed`, `late_arrivals`, `word_count`; the attached transport; a reference-counted `Impl` | `AttachTransport`, `StartRequest`, `OnShardArrived` (transport callback), `OnRecoveryComplete` (executor callback), `WaitForCompletion`, readers, destructors | transport calls in, executor is called under and outside the lock and calls back; callbacks hold `Impl` while they run, and the last holder destroys it |
| `CudaRecoveryExecutor` (`src/runtime/cuda_recovery_executor.cpp`) | queue, staging contexts, running and cancelled requests, stopping flag, worker threads, condition variable | `EstimateRecoveryCost`, `StageShard`, `Submit`, `Cancel`, destructor, `WorkerLoop` | calls the device code, calls completion handlers without its lock |
| Device code (`kernels/sparse_decoder.cu`, `tuning.cuh`) | staging and decode contexts, CUDA streams, launch-configuration cache | create, stage, run, prepare, launch, download; XOR kernels | used by the executor and benchmarks |
| `ShardTransport` (`serving.hpp`) | external, interface only | `SetArrivalHandler`, `StartRequest` | calls `OnShardArrived` on threads of its own |
| `RecoveryQueue` (`src/simulation/recovery_queue.cpp`) | slots, depth, completion times | `AdvanceTime`, `GetExpectedRecoveryCost`, `SubmitJob` | shared by the requests of a cluster simulation |
| `ClusterSimulator`, `RequestSimulation` (`cluster_simulator.cpp`, `simulator.cpp`) | trackers, event list, metrics | `Run` | planner, policy, queue |
| Workload generator (`workload_generator.cpp`) | random engines | `Generate`, full and capacity-normalised replication | feeds the sweep |
| Parameter sweep (`experiments/phase7_parameter_sweep.cpp`) | options, calibration table, metrics of each strategy | nested loops, baselines, coded strategy, percentiles | generator, simulator |
| Graph constructors (`graph.cpp`, `graph_generator.cpp`) | - | `CodeGraph::Validate`, `GenerateRegularGraph` | their graphs go to planner, encoder and sweep |
| Transport smoke test (`scripts/transport_smoke.py`) | two server threads, their listeners and maps | producers, `Coordinator.run`, `Consumer.run`, `main` with deadline, joins and shutdown | TCP connections |
| Analysis scripts, benchmarks, tools | files | statistics, measurement | - |

What is hard here:

* **Concurrency.** `OnShardArrived` decides under the coordinator's lock but stages,
  submits and cancels across two mutexes, in part after releasing the first one;
  transport threads, workers and completion callbacks interleave at each release.
* **Failure.** Any CUDA call may throw: in the middle of staging, in `Submit`, in a
  worker. The transport may lose, repeat, reorder and delay shards, and may be replaced.
* **Ordering.** A result may come after natural completion; a cancellation may come
  before the submission it is meant for. In the smoke test shutdown may overtake data.
* **Lifetimes.** Coordinator and executor may be destroyed with callbacks in flight,
  and by whichever thread drops the last reference.
* **Progress.** Condition-variable wake-ups, shutdown with work in the queue, the
  planner's fixed-point loop.
* **Exactness.** Chained XOR releases: one wrong operation corrupts everything after it.
* **The device.** Kernels, uploads and downloads run on a stream while the host goes
  on; hundreds of threads write one buffer without synchronisation.
* **Simulated time.** Ties, duplicates, jobs that end exactly now, quotes that must be
  the costs the queue then honours, and a queue that survives from one `Run` to the next.

`PROJECT.json` lists each hazard at its line with the properties that cover it.

## 2. Modules

| Module | Models | State and actions |
|---|---|---|
| `ErasureCode` | graph, `ValidateGraph`, `CodeGraph`'s validation, `GenerateRegularGraph` (the set of graphs some seed gives), XOR algebra, reference definition of peelability | operators only |
| `Planner` | `DecodePlanner::CreatePlan` | the function's locals; `StartPlanning` (validation), then per equation `SkipEquation` or `ReleaseShard`, and `EndPass` |
| `Codec` | `execute_decode_plan_cpu` | plan, slots, next operation; `StartDecode`, `ExecuteOperation`, `ReturnDecoded` |
| `CodedRecovery` | planner and decoder composed on an encoded request | `Plan`, `Submit` (the copy of the slots), `Decode` |
| `CudaRecoveryExecutor` | executor, worker loop, staging contexts | one action per method outcome (returns, rejects, throws) and per critical section of the worker loop; `"wait"`/`"ready"` model the condition variable |
| `ExecutorClients` | arbitrary callers of the executor | `ClientCall` |
| `Coordinator` | coordinator, tracker and policy, composed with the executor | the locked part of `OnShardArrived` is one action per outcome; `CancelRecovery`, `SubmitTask`, `RecheckCompletion`, `RecordRejection` are the steps after the unlock; `OnRecoveryComplete` is a worker's completion call |
| `RequestLifecycle` | what the coordinator promises | abstract: `Start`, `Receive`, `EndRecovery` |
| `ServingClient` | `WaitForCompletion`, both destructors, the weak and strong references to `Impl`, and the executor's reference count, composed with `Coordinator` | `impl_refs` (actors that hold `Impl`), who destroys, who joins, the client's place; callbacks are split into entering (locking the weak pointer), the coordinator's own steps and leaving |
| `DeviceDecode` | the one-shot, prepared and staged decoders of `sparse_decoder.cu`, next to `Codec` | context (buffers, word counts, flattened sources and offsets, staged copies), the stream as a FIFO of commands, the caller's slots; one action per API call, its failures and its return from a wait; `DeviceStep` executes the next command |
| `XorKernel` | one kernel launch: launch configuration, grid-stride loop over vectors of four words, tail | per thread its index and place; `VectorIteration`, `LeaveLoop`, `Tail` |
| `RecoveryQueue` | the simulator's queue | the class's members and a history of the schedule; `AdvanceTime`, `SubmitJob`, `ExpectedRecoveryCost` |
| `ClusterSimulator` | `ClusterSimulator::Run`, composed with the queue | the locals of `Run`; `Run` (sorting and checks), `NextInstant`, one action per outcome of a group of arrivals, `Report` |
| `RequestSimulation` | `RequestSimulation::Run`; also the abstract specification of one request of a cluster run | the locals of `Run`; the cost oracle may wait or quote any cost |
| `WorkloadGenerator` | arrivals, replica selection, both replication baselines | operators only |
| `ParameterSweep` | the sweep, composed with generator and `ClusterSimulator` | `GenerateWorkload`, `CapacityBaseline`, `FullBaseline`, `StartCoded`, `Simulate` (the simulator's steps with the sweep's service times and wait oracle), `PrintRows`, `NextCell`, `NextPoint` |
| `TransportSmoke` | `scripts/transport_smoke.py` | listeners as FIFO queues of connections; one action per accepted connection, per forwarded shard and per step of `main`; `DeadlinePasses`, `JoinTimesOut` |
| `CodedRecoveryProofs`, `CoordinatorProofs` (executor and coordinator), `ServingProofs`, `ClusterProofs` (queue and simulator), `SweepProofs`, `SmokeProofs`, `XorKernelProofs`, `DeviceProofs` | theorems (section 4) | - |
| `MC*` | instances for TLC | - |

Abstractions, and why they are sound:

* A payload is the set of systematic shards whose XOR it is. XOR acts on each word
  alike, so equal sets mean equal bits for every content; the word count of a shard is
  kept because the decoder checks it. In the executor and the coordinator a payload is
  identified by its shard ID, since duplicates carry what the first delivery carried.
* Operation indices count from 1 (from 0 in the code).
* Times are left out, except that the executor's estimate and the oracle's wait cost
  are compared in units of `estimated_service_cost`; the oracle is external and may
  return any value of `WaitCosts`.
* In `Coordinator` a plan is what theorem `PeelingIsComplete` says `CreatePlan` returns:
  it exists iff the missing shards are peelable, and it outputs all of them.
* The locked section of `OnShardArrived` is one step although it takes the executor's
  mutex twice: executor steps in between concern other requests, or only make the
  estimate the one of a state the executor passed through, so they can be moved before it.
* Arrivals that throw before changing anything are stutters and have no action.
* A device buffer that was allocated and not filled holds a symbol of its own, so any
  result computed from it differs from the right one.
* In `DeviceDecode` the CPU decoder runs first on a copy of the same slots. Callers
  download only after a launch has returned and hand a staged decode only shards whose
  staging has returned; the callers in the repository do, and for the coordinator the
  latter is `DecodesOnlyUploaded`.
* A `RecoveryQueue` multiset entry carries the number of its job, which keeps equal
  times apart and which no operation reads. Sorting the trace and walking it by index
  is modelled by always processing the least (time, request) of the remaining events.
  `ClusterSimulator` takes the planner's verdict from its reference definition.
* In `ServingClient` a mutex keeps a callback that has entered from acting, not from
  holding its reference. The client drops its executor reference when
  `~RecoveryCoordinator` has returned, as the repository's does; it waits for its requests
  first or destroys the coordinator at any moment (`WaitsFirst`). A worker that comes to
  join itself stays where it is: there the program is terminated.
* Random draws are any value of the small sets the instance names (gaps, delays before
  clamping, shuffles); arrival rates and probabilities only shape them, so a point of
  the sweep's outer loops is a number. Percentages of a row are counts.
* Graph, degree, queue depth and concurrency of the sweep are those of the instance;
  the list of shard sizes varies. The plan whose cost is estimated is any map from the
  missing shards to parity equations that can be peeled in some order; the cost of each of
  its operations is looked up by the operation's own number of sources, and a lookup that
  fails ends the simulation. `RunBaseline` has no action for its two exceptions, events
  that disagree on a start time and a missing systematic arrival: `FullTrace`
  (`SweepProofs`) shows that generated and replicated traces have neither.
* TCP is reliable and connecting succeeds before the server accepts, so a listener is a
  queue; a connection carries one frame; a payload is a set of original shards. Timeouts
  of the smoke test may strike at any time.
* Code marked as a mutant (`..AtOnce`, `..Unchecked`, ...) is a deliberately wrong
  variant of the definition that follows it. No specification uses it; it shows that
  the property named in `PROJECT.json` fails if the code had that bug.

## 3. Runs

Deadlock checking is off: calls return, executors shut down, the sweep and the smoke
test end, and a system to which nobody delivers anything rests.

| Run | Instance | Shows |
|---|---|---|
| `recovery` | all graphs with (k, m) in {(1,1), (2,2), (3,2)}, equations of 1-3 neighbours in ascending order, one with three parity shards that needs two passes, and graphs of `GenerateRegularGraph`; all missing and available sets; malformed graphs and sets; `MaxShardId` = 5 makes the overflow checks reachable | `PlanTopological`, `PeelingComplete`, `BitExactRecovery`, `RecoverablePlansExecute`, `RegularGraphsServe`, `RecoveryEnds` |
| `executor` | 3 requests, 2 workers, no extra queue slots, 2 shard IDs of which one is out of range, failing CUDA calls | `ExecutorSound` (a request is queued or running at most once, the capacity is kept, a busy request has no open context, cancellation marks belong to running tasks), `QueueDrains`, `ShutdownDrains` |
| `coordinator` | 2 requests, 2 transport threads, 1 worker, capacity 1, one parity shard, a transport that is replaced | `TypeOK`, `OneRecoveryPerRequest`, `SubmissionResolves` |
| `coordinator_faults` | 1 request, 2 threads, two parity shards, 2 transports, 2 payload sizes, failing CUDA calls | `CompletedHasAllShards`, `CompletedReleasesExecutor`, `DecodesOnlyUploaded`, `OneRecoveryPerRequest`, `CompletesOnce`, `ImplementsLifecycle` |
| `serving` | 2 requests, one transport thread, 1 worker, one queue slot; the client destroys the coordinator at any moment and then drops its executor reference | `NoUseAfterDestruction`, `DestructionReleasesExecutor`, `StagedMatchesSupplied` (one delivering thread), `WaitReturns`, `TeardownCompletes` (every worker ends, unless one of them has come to join itself) |
| `device_decode` | four slots with shards of 0, 1 and 2 words; plans of at most two operations with sources and outputs that are missing, present, repeated, misordered or out of range; up to two launches; failing CUDA calls and repeated attempts | `ExecutedEquationsHold` (CPU), `RefusalsAgree`, `ResultsMatchCpu`, `HostShardsGenuine` |
| `xor_kernel` | blocks of three and four threads, grids of one and two, capped and not, and 1 to 27 words | `KernelCoversShard`, `WordsWrittenOnce` |
| `cluster` | two slots, depth 3, two Runs over traces with contention, ties, duplicates, negative times, unknown shards, requests that never complete | `QueueSound`, `WorkConserving`, `QuotesAreHonoured`, `ReportMatchesTrace`, `ImplementsRequestSimulation` |
| `sweep` | 2 requests with two systematic shards and one parity shard, one slot, depth 2; all draws from two gaps, three delays and two replica delays, all shuffles; lists of shard sizes with two costs, an unmeasured and a repeated size | `ReplicasBalanced`, `CodedRowsExact` (also that no decode cost is missing in the middle of a simulation), `StrategiesNeverSlower`, `PercentilesExact` |
| `transport_smoke` | 2 requests, six producers in any order, timeouts | `HandoffComplete`, `SmokeEnds` |
| `coordinator_race` | 1 request, 2 threads | `StagedMatchesSupplied` is violated (section 5) |
| `teardown` | 1 request; the client waits, then lets coordinator and executor go at once | `NoSelfJoin` is violated (section 5) |

Bounds. Two threads and two parity shards are the smallest instance in which a
recovery starts while another delivery of the same request is under way, both for a
parity shard and for the missing systematic one. Two requests and capacity one make
the estimate stale between decision and `Submit`. Three requests fill an executor of
capacity two and leave one to reject. `MaxLate` bounds the counter of late
arrivals, which nothing else reads. In `serving` one thread and one worker are enough
for either to be the one that drops the last reference, and two requests for `~Impl` to
be interrupted between two cancellations. Two launches of a prepared context are enough
for one launch to overlap the next and the download; two operations for a chain. The
kernel instances have one or two blocks of few threads, so that the loop wraps round the
grid and the tail falls to one, two or three threads. `MaxTime`, `MaxJobs` and
`MaxRuns` bound simulated time and history: more jobs than slots and depth together,
and a second `Run` that meets the queue of the first. In `sweep` two requests contend
for one slot, and a recovery wins at once, wins behind another, or is not worth it;
`ReplicasBalanced` itself ranges over up to six shards and all replica counts. Two
smoke-test requests mix rebuilt, natural and repeated handoffs in both queues.
`StreamBound` limits how often a failing launch is repeated.

Fairness. `FairSpec` of `CodedRecovery`: sequential functions keep running.
`FairExecutorSpec`: each worker thread is scheduled. `FairSpec` of
`Coordinator`: each worker, and each transport thread that is inside a callback, is
scheduled. `FairServingSpec`: the same, and a client that was woken in
`WaitForCompletion` and a destructor that has begun go on. `SmokeSpec`: the smoke test's
threads are scheduled, and nothing depends on a timeout. No fairness is assumed of
clients, of deliveries or of timeouts, and none of the mutexes: an action that needs one
is continuously enabled in the model because critical sections are single steps. No run
uses symmetry.

## 4. Proofs

`CodedRecoveryProofs` (every graph, every missing and available set, any word count, no
bound):

* `PlannerInvariance` proves the inductive invariant `PlannerInv`: `PlannerTypeOK`,
  `ProducerInv` (`remaining` and the outputs so far partition the missing shards, and
  the producing map sends each released shard to its operation), `OperationInv` (every
  operation is its parity equation minus its output), `PlanTopological`, `StoppingInv`
  and `StalledInv`. The last two are what completeness needs. `StoppingInv`: a stopping
  set among the missing shards stays within `remaining`, because no equation touches it
  exactly once; a plan that empties `remaining` therefore leaves none. `StalledInv`: in
  a pass without progress the equations before the cursor do not touch `remaining`
  exactly once; at the end of such a pass `remaining` is itself a nonempty stopping set.
* `PlannerTypeCorrect`, `PlansAreTopological` and `PeelingIsComplete` follow.
* `DrawnGraphsServe`: a drawn graph is valid because every equation has `degree` different
  neighbours in range (`DrawnGraphIsValid`, `DrawnGraphConverts`), so a `throw` of the
  planner would contradict `ThrowInv`, and `OperationInv` gives the number of sources.
* `RecoveryInvariance`: `RecoveryInv` is `PlannerInv` with `HandOffInv` (what the
  decoder was given is what the planner returned and the shards that had arrived) and
  `SlotsInv` (a slot holds the encoded payload if its shard had arrived or its operation
  has run, and nothing otherwise). The XOR is handled without induction:
  `EncodedParityIsNeighbors` says what a parity shard holds, and `SolvedEquation` that
  in an operation each neighbour other than the output occurs exactly twice, by the
  cardinality of the sets of its positions.
* `RecoveryIsBitExact`, `RecoverablePlansAlwaysExecute`.

`CoordinatorProofs`, the executor alone (any requests, workers, depth and callers):

* `ExecutorInvariance`: `ExecutorInv` is `ExecutorTypeOK`, `ExecutorSound` and
  `WorkersInv` (a worker without a task has forgotten the last one; the running requests,
  which the capacity check counts, are finitely many). There is one lemma per method and
  per critical section of the worker loop, stated about the executor's variables alone,
  so that the coordinator's proofs use them too.
* `ExecutorIsSound`.

`CoordinatorProofs`, coordinator and executor (any valid graph, requests, threads, transports, workers, oracle; with
and without CUDA faults):

* `CoordinatorInvariance`: `CoordinatorInv` is `TypeOK` and `ExecutorInv` with `StatusInv`
  (slots are what the tracker marked until a recovery replaces them), `ContextInv` (a
  staged shard that the tracker has marked has been uploaded), `TaskInv` (a task yields all
  systematic shards and belongs to a submitted recovery), `ThreadInv` (a thread on its way
  into or out of `Submit` is alone with its request; cancellation marks are only for
  requests that completed naturally), `PursuitInv` (a submitted recovery of a pending
  request is with somebody) and `ReleaseInv` (a completed request has left the executor, or
  a thread is on its way to cancel what it left). The last three are what the window
  between the unlock and `Submit` needs.
* `CoordinatorTypes`, `CompletedRequestsAreWhole`, `CompletedRequestsAreReleased`,
  `DecodesReadUploads`, `RecoveriesAreUnique` are read off it; `RequestsCompleteOnce` and
  the refinement `CoordinatorImplementsLifecycle` are shown step by step under it.
* `StagedShardsMatch` is proved under the hypotheses that one thread delivers and CUDA
  calls do not fail; without the first it is false (section 5). It adds `StagingInv`.

`ServingProofs` (same generality, any moment of destruction):

* `ServingInvariance`: while somebody has a strong reference, `CoordinatorInv` holds
  (`AliveInv`), which reuses the whole proof of `CoordinatorProofs`; when nobody has one,
  the requests that `~Impl` has passed are quiet in the executor (`QuietInv`), and only the
  executor moves. `LifetimeInv` links threads in a callback to references.
* `DestructionReleases`, `DestroyedIsUnused`. There is no theorem that workers do not join
  themselves: they may (section 5).

`ClusterProofs`, the queue alone (any number of slots, any depth, any service times):

* `QueueInvariance`: `QueueTypeOK`, `PendingInv` (the multiset holds exactly the jobs of
  the history that complete after the current time, and the depth is its size) and
  `SlotInv` (a slot's free time is not before the end of any job on it, and jobs on one
  slot do not overlap). Neither property is inductive without the link to the history.
* `DepthIsExact` by a bijection between the multiset and the pending jobs;
  `ConcurrencyIsBounded` because jobs running at one moment are on different slots, an
  injection into the slots. That `std::min_element` has a result is the existence of a
  least element among the slots (`EarliestSlotExists`). `QueueIsSound` joins the two.
  They hold for every client, also one that submits for the future and then for an
  earlier moment, which `ClusterSimulator` never does; run `cluster` does not show that case.

`ClusterProofs`, the simulator with its queue (any valid graph, any set of traces, any
answers of the callbacks, any queue):

* `ClusterInvariance`: `ClusterInv` is the queue's `QueueInv` with `SlotsBusy` (up to the
  moment it becomes free a slot is busy), `WaitersWait`, `JobInv`, and, while `Run` is
  under way, `OrderInv` (events are processed in order, those of a request and an instant
  together), `InstantInv`, `TrackerInv`, `NaturalInv`, `DecisionInv` and `ReportInv`.
  `SlotsBusy` holds because the simulator submits at the current time only; for other
  clients it does not.
* `QuotesHold`, `QueueConservesWork`, `SharedQueueIsSound`, `ReportsAreRight`.
* `ClusterImplementsRequests`: the refinement mapping cuts one request out of the run; its
  groups of arrivals are the steps of a `RequestSimulation`, all else stutters.

`SweepProofs` (any numbers of points, requests, shards, parities and sizes, any draws, any
calibration table, any queue):

* `SweepInvariance`: `SweepInv` says, phase by phase, what the sweep knows. `TraceReady`:
  the generated trace has one arrival per request and shard, not before its request
  starts (`FullTrace`), and the waiting metrics are its baseline. `Improves`: no request of
  a baseline is slower than in the waiting one. `SimulationInv`: the simulator keeps
  `ClusterInv` on that very trace, its clock is not ahead of the remaining arrivals, and
  every recovery admitted so far ends before its request would complete
  (`RecoveriesWin`). `CodedInv` and `RowsInv`: the metrics and the printed rows.
* Why it is inductive. The generator's recursive sums exist and are times (`PartialSums`,
  `ArrivalTimesExist`). A replica only brings an arrival forward, so a last systematic
  arrival cannot move back (`ReplicatedIsFull`, `CompletionMonotonic`). The simulator
  cannot throw: shards and times are valid; every operation has as many sources as the
  graph's degree (`RegularEquations`), so its cost is the one that was looked up ahead of
  the cell, and the sum for an incomplete request is positive (`EstimateIsPositive`); the
  oracle's answer is not negative. An admitted quote
  is below the oracle's answer and therefore ends before the completion
  (`AdmitSimulates`); the replay finds the completion that the oracle read off the trace,
  because in a full trace both are the last systematic arrival, which is unique
  (`ReplayAgrees`).
* `CodedRows` is read off it. `NeverSlower` also needs that the nearest-rank percentile
  exists (`RankedLatency`: the least value that enough requests do not exceed) and is
  monotonic in the latencies and in the rank (`PercentileMonotonic`), by counting the
  requests at most and below a latency. `ExactPercentiles` adds that the rank is the least
  count that is the given share of the requests (`RankIsLeast`).
* `ReplicationIsBalanced`, for every number of shards and replicas, every shuffle and every
  run of requests, and from it `ReplicasAreBalanced`. Request `r` replicates the positions
  from `r * c` to `(r + 1) * c` modulo `k` (`WindowPositions`); so a run of requests covers
  a stretch of the line, position `j` is replicated as often as the stretch passes one of
  `j`, `j + k`, ... (`SelectedCount`), and two such counts differ by one at most.

`SmokeProofs` (any finite set of requests, timeouts at any time):

* `SmokeInvariance`: `SmokeInv` follows each shard on its way. `ShardInv`: it is unsent, in
  the coordinator's queue or in its slots. `HandoffInv`: a systematic shard of a complete
  request is being handed on, in the consumer's queue or received. `ForwardInv`,
  `CloseInv` (close frames are the last of their queues, as long as no join has timed out)
  and `EndInv` (who has ended when `main` goes on) are what the shutdown order needs.
* `SmokeVerdict`: unless a join timed out, a server ends only after the frames ahead of its
  close frame, hence has received everything.

`XorKernelProofs` (any word count, grid, block of at least three threads):

* `KernelInvariance`: `LaunchInv`, `WalkInv` (a thread only visits vectors congruent to its
  index modulo the stride) and `OutputInv` (exactly the vectors their owners have passed,
  and the tails of the threads that are done, have been written). That each vector has one
  owner is Euclidean division, of which the module proves what it uses.
* `GridCoversShard`, `ThreadsNeverRace`.

`DeviceProofs` (every plan, well formed or not; any number of slots, any shards, empty ones
too; with and without CUDA faults; any `MaxLaunches`; `StreamBound` is not used):

* `DeviceInvariance`: `DeviceInv` is, for the CPU decoder, `CodecInv`: each operation that
  has run is sound (`RanSoundly`: its sources were there before it, its output was not, and
  nobody has written them since), and when the decoder threw, the next operation could not
  run. For the device it is `StreamInv` (each command of the stream finds what it reads:
  the device has the CPU's payload there, or a command ahead of it writes it), `PlanInv`
  (the flattened sources and offsets are the plan's), `ReadyInv` (what the kernels need is
  in the device or on its way, and after a complete launch so are all outputs),
  `StagingInv`, `DownloadInv` (the downloads of a call are the last commands, and those
  executed brought the CPU's payloads) and `EarlyInv`. `StreamInv` speaks of commands that
  are still queued, which is why host and device can be proved separately: a step of the
  device makes good what it writes and spoils nothing (`StreamAdvances`); a step of the
  host appends commands that find what they need (`KernelsFounded`, `DownloadsFounded`).
* The validation loop and the kernels of the one-shot decoder are recursive functions.
  `RecursionExists` shows that they are defined, and `UpTo`, an induction over a set of
  numbers by its least missing member, what they compute: `ScanForesees` and `ScanRejects`
  (the scan has the word counts the CPU will have, and fails where the CPU fails) and
  `KernelsComputePlan`.
* `DecodersRefuseAlike`, `DeviceMatchesCpu`, `FailuresAreClean`, `EquationsStayTrue`.

Assumptions, each named in the module that declares the constants and evaluated by TLC:
`MaxShardIdAssumption`, `InputsAssumption` (the arguments have the C++ types; validity is
not assumed), `WordsAssumption` (a request's shards are not empty, which `OnShardArrived`
checks), `QueueAssumption` (at least one slot, which the constructor checks),
`ExecutorAssumption` (finitely many workers, at least one), `ClientAssumption` (types of
the callers' arguments), `CoordinatorAssumption` and `ClusterAssumption` (a valid graph,
which the constructors check; typed traces and costs; `NoTime` is no time),
`ServingAssumption` (the client, the threads and the workers are different actors),
`KernelAssumption` (a block has at least three threads: the tail relies on it and CUDA's
block sizes are multiples of a warp), `DeviceAssumption` (plan and slots have the C++
types: a vector of optionals, numbered from 0; validity of the plan is not assumed),
`SweepAssumption` (types of draws, sizes and costs; the graph is one that
`GenerateRegularGraph` draws, within the generator's limits; requests count from 0) and
`SmokeAssumption` (some requests, finitely many).

Every invariant, action property and refinement of the passing runs is stated by a
theorem. Only model-checked: liveness (`RecoveryEnds`, `QueueDrains`, `ShutdownDrains`,
`SubmissionResolves`, `WaitReturns`, `TeardownCompletes`, `SmokeEnds`), which needs fairness
and `ENABLED`. Recursive functions and sums over the naturals are reasoned about by their
least counterexample (`LeastNatural`), since the induction rules of the library take
operators that the provers cannot instantiate.

## 5. Findings

`coordinator_race`. Thread A's arrival makes the request recoverable: under the lock it
sets `recovery_submitted` and copies the slots. Before A calls `Submit`, thread B
delivers another shard of the request; `StageShard` accepts it, since the request is
neither queued nor running. A's `Submit` moves the context, which now holds one shard
more than the task. `run_staged_decode_plan_cuda` compares the two, throws "Staged
shards must match the supplied host shard slots", and the request becomes `Failed`
although it could be recovered. With a single delivering thread (run `serving`) this
cannot happen.

`teardown`. `OnRecoveryComplete` makes the request `Recovered` and wakes the client
while the worker is still inside the completion lambda, which holds the `shared_ptr` it
got from `weak.lock()`. A client that now destroys the coordinator and lets its executor
pointer go, as `tests/integration/test_cuda_recovery_coordinator.cpp` does at the end of
its scope, leaves the worker with the last reference to `Impl` and through it to the
executor. The worker then runs `~CudaRecoveryExecutor::Impl` and calls `join` on itself,
which throws out of a destructor. Run `serving` allows the same step: there the workers
end in every other case.

## 6. Not modelled, and the plan

Not modelled: timing metrics and error texts; the words inside a shard; the parsing of
arguments and of the calibration file and the CSV output of the sweep and the smoke test;
analysis scripts, benchmarks, tools and shell drivers, which are sequential I/O and
floating-point statistics; the cache of launch configurations, a memo under one mutex;
the demonstration pair `run_sparse_decode_cuda`/`_cpu`; `GetSnapshot` and `GetShard`,
which only read. `WaitForCompletion` keeps an iterator of an `unordered_map` across its
wait, and a `StartRequest` meanwhile may rehash the table; the common implementations
keep the node, so the model lets the lookup succeed.

Order of development: planner and codec first, since everything else relies on them; then
executor, coordinator and teardown; the device code; the queue and the simulators; the
sweep and the smoke test. Each was model-checked before it was proved. What is left:
liveness proofs, which are beyond the prover; and the parts listed above.

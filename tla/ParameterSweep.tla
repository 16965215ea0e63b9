--------------------------- MODULE ParameterSweep ----------------------------
(***************************************************************************)
(* The parameter sweep of experiments/phase7_parameter_sweep.cpp, composed *)
(* with the workload generator and the cluster simulator.  For each point  *)
(* of the outer loops (seed, arrival rate, straggler probability, parity   *)
(* count) it draws a workload, gives it to the waiting and the two         *)
(* replication baselines, then simulates coded recovery for each shard     *)
(* size on a fresh simulator and prints four rows that are compared later. *)
(*                                                                         *)
(* The rates and probabilities only shape the random draws, so an outer    *)
(* point is just a number here.  Degree, graph, queue depth and            *)
(* concurrency are those of the instance.  Percentages are counts, and the *)
(* rows are those of the current cell.                                     *)
(***************************************************************************)
EXTENDS ClusterSimulator, WorkloadGenerator

CONSTANTS
    PointCount,     \* points of the outer loops
    NumRequests,
    Gaps,           \* gaps between requests that may be drawn
    Draws,          \* delays that may be drawn, before clamping,
    ReplicaDraws,   \* and those of replicas
    Degree,
    ShardSizeLists, \* sequences that --shard-sizes-mib may give
    DecodeCosts     \* the calibration table: from <<degree, size>> to a cost

\* What ParseOptions and the table's constructor let through.
OptionsAccepted(sizes) ==
    /\ PointCount > 0
    /\ NumRequests > 0
    /\ Graph.m \in 1 .. Graph.k
    /\ Degree \in 1 .. Graph.k
    /\ sizes # <<>>
    /\ \A i \in DOMAIN sizes : sizes[i] > 0
    /\ \A i, j \in DOMAIN sizes : sizes[i] = sizes[j] => i = j
    /\ \A c \in DOMAIN DecodeCosts : DecodeCosts[c] > 0

ASSUME SweepAssumption ==
    /\ PointCount \in Nat /\ NumRequests \in Nat
    /\ \A sizes \in ShardSizeLists : sizes \in Seq(Nat)
    /\ \A c \in DOMAIN DecodeCosts : DecodeCosts[c] \in Int
    /\ Graph \in GenerateRegularGraph(Graph.k, Graph.m, Degree)
    /\ ValidShardCounts(Graph.k, Graph.m, MaxShardId)
    /\ RequestIds = 0 .. NumRequests - 1
    /\ Gaps \subseteq Nat
    /\ Draws \subseteq Int /\ ReplicaDraws \subseteq Int

VARIABLES
    sweep_pc,       \* "generate", "capacity", "full", "cell", "simulate",
                    \* "rows", "done" or "threw"
    shard_sizes,    \* the option's value, which never changes
    point,          \* the points that are finished
    cell,           \* the position in shard_sizes
    request_arrivals, base_events,
    wait_metrics, capacity_replication_metrics, full_replication_metrics,
    rows            \* the summaries of the current cell's four rows

baselineVars == <<wait_metrics, capacity_replication_metrics, full_replication_metrics>>
sweepVars == <<sweep_pc, shard_sizes, point, cell, request_arrivals, base_events, baselineVars, rows>>
allVars == <<sweepVars, clusterVars>>

NoMetrics == <<>>
NoRows == <<>>

SweepInit ==
    /\ ClusterInit
    /\ sweep_pc = "generate"
    /\ shard_sizes \in {sizes \in ShardSizeLists : OptionsAccepted(sizes)}
    /\ point = 0
    /\ cell = 1
    /\ request_arrivals = <<>>
    /\ base_events = {}
    /\ wait_metrics = NoMetrics
    /\ capacity_replication_metrics = NoMetrics
    /\ full_replication_metrics = NoMetrics
    /\ rows = NoRows

-----------------------------------------------------------------------------
\* The last systematic arrival of a request.
GetNaturalCompletionTimes(trace) ==
    [r \in RequestsOf(trace) |->
        CHOOSE x \in {e.time : e \in trace} :
            LET systematic == {e \in trace : e.request = r /\ e.shard < Graph.k}
            IN /\ \E e \in systematic : e.time = x
               /\ \A e \in systematic : e.time <= x]

RunBaseline(trace) ==
    LET completion == GetNaturalCompletionTimes(trace)
    IN [r \in RequestsOf(trace) |->
          [latency |-> completion[r] - (CHOOSE e \in trace : e.request = r).start,
           won |-> FALSE, admitted |-> FALSE, rejected |-> FALSE, waited |-> FALSE,
           unrecoverable |-> FALSE]]

SystematicDraws == [RequestIds \X Systematic(Graph) -> ReplicaDraws]
AllDraws == [RequestIds \X Shards(Graph) -> Draws]
Shuffles == {p \in [Systematic(Graph) -> Systematic(Graph)] :
                \A i, j \in Systematic(Graph) : p[i] = p[j] => i = j}

GenerateWorkload ==
    /\ sweep_pc = "generate"
    /\ \E gaps \in [RequestIds -> Gaps], delays \in AllDraws :
         /\ request_arrivals' = GenerateRequestArrivalTimes(gaps)
         /\ base_events' = Generate(request_arrivals', delays, Graph.k, Graph.m)
    /\ wait_metrics' = RunBaseline(base_events')
    /\ sweep_pc' = "capacity"
    /\ UNCHANGED <<shard_sizes, point, cell, capacity_replication_metrics,
                   full_replication_metrics, rows, clusterVars>>

\* As many replicas per request as there are parity shards.
CapacityBaseline ==
    /\ sweep_pc = "capacity"
    /\ IF ValidReplicationEvents(base_events, request_arrivals)
         THEN /\ \E delays \in SystematicDraws, permutation \in Shuffles :
                   capacity_replication_metrics' =
                     RunBaseline(ApplyCapacityNormalizedReplication(
                         base_events, request_arrivals, delays, Graph.k, Graph.m, permutation))
              /\ sweep_pc' = "full"
         ELSE sweep_pc' = "threw" /\ UNCHANGED capacity_replication_metrics
    /\ UNCHANGED <<shard_sizes, point, cell, request_arrivals, base_events, wait_metrics,
                   full_replication_metrics, rows, clusterVars>>

FullBaseline ==
    /\ sweep_pc = "full"
    /\ \E delays \in SystematicDraws :
         full_replication_metrics' =
             RunBaseline(ApplyReplication(base_events, request_arrivals, delays, Graph.k))
    /\ sweep_pc' = "cell"
    /\ UNCHANGED <<shard_sizes, point, cell, request_arrivals, base_events, wait_metrics,
                   capacity_replication_metrics, rows, clusterVars>>

-----------------------------------------------------------------------------
(***************************************************************************)
(* RunCodedStrategy: a fresh queue and simulator, with measured decode     *)
(* costs and an oracle that knows when the request completes by itself.    *)
(***************************************************************************)
Measured == <<Degree, shard_sizes[cell]>> \in DOMAIN DecodeCosts

FreshQueue ==
    /\ slot_available_times' = [s \in Slots |-> 0]
    /\ job_completion_times' = {}
    /\ current_queue_depth' = 0
    /\ current_time' = 0
    /\ schedule' = <<>>

StartCoded ==
    /\ sweep_pc = "cell"
    /\ IF Measured
         THEN /\ sweep_pc' = "simulate"
              /\ runs' = 1
              /\ Begin(base_events)
              /\ FreshQueue
         ELSE sweep_pc' = "threw" /\ UNCHANGED clusterVars
    /\ UNCHANGED <<shard_sizes, point, cell, request_arrivals, base_events, baselineVars, rows>>

\* The plans for what has arrived: from each missing shard to the parity shard
\* whose equation yields it.  In every set of missing shards there is a first one
\* to be produced, by an equation that has no other shard of the set.
Plans(arrived) ==
    LET missing == Systematic(Graph) \ arrived
    IN {plan \in [missing -> arrived \cap Parity(Graph)] :
          \A S \in (SUBSET missing) \ {{}} :
             \E s \in S : Neighbors(Graph, plan[s]) \cap S = {s}}

\* A mutant of CostKey: the parity shard is not counted.
CostKeyOfNeighbors(p) == <<Len(Equation(Graph, p)) - 1, shard_sizes[cell]>>

\* What the cost of an operation is looked up by: its sources are the parity shard
\* and the neighbours but the output.
CostKey(p) == <<Len(Equation(Graph, p)), shard_sizes[cell]>>

\* The sum over the operations.  A lookup that throws ends the simulation like a
\* service time that is refused, for which 0 stands.
EstimateServiceTime(plan) ==
    LET costs == [s \in Systematic(Graph) |->
                    IF s \in DOMAIN plan THEN DecodeCosts[CostKey(plan[s])] ELSE 0]
        total[s \in Systematic(Graph)] == IF s = 0 THEN costs[0] ELSE total[s - 1] + costs[s]
    IN IF \A s \in DOMAIN plan : CostKey(plan[s]) \in DOMAIN DecodeCosts
         THEN total[Graph.k - 1] ELSE 0

\* A mutant of WaitRemaining: the time that has passed is not taken off.
WaitRemainingFromStart(r, now) ==
    GetNaturalCompletionTimes(base_events)[r] - request_arrivals[r]

WaitRemaining(r, now) ==
    LET completion == GetNaturalCompletionTimes(base_events)[r]
    IN IF completion > now THEN completion - now ELSE 0

Simulate ==
    /\ sweep_pc = "simulate"
    /\ \/ NextInstant
       \/ \E r \in RequestsOf(events) :
            \/ ProcessGroup(r)
            \/ \E plan \in Plans(trackers[r] \cup {e.shard : e \in Group(r)}) :
                 Decide(r, EstimateServiceTime(plan), WaitRemaining(r, instant))
       \/ Report
    /\ sweep_pc' = CASE sim_pc' = "done" -> "rows"
                     [] sim_pc' = "threw" -> "threw"
                     [] OTHER -> "simulate"
    /\ UNCHANGED <<shard_sizes, point, cell, request_arrivals, base_events, baselineVars, rows>>

-----------------------------------------------------------------------------
\* A mutant of Rank: the product is rounded down.
RankRoundedDown(percent, n) ==
    LET rank == (percent * n) \div 100 IN IF rank < 1 THEN 1 ELSE rank

\* The nearest rank, counted from 1.
Rank(percent, n) == LET rank == (percent * n + 99) \div 100 IN IF rank < 1 THEN 1 ELSE rank

\* The latency at that rank of the sorted vector.
Percentile(m, percent) ==
    LET n == Cardinality(DOMAIN m)
        atMost(v) == Cardinality({r \in DOMAIN m : m[r].latency <= v})
        below(v) == Cardinality({r \in DOMAIN m : m[r].latency < v})
    IN CHOOSE v \in {m[r].latency : r \in DOMAIN m} :
          below(v) < Rank(percent, n) /\ Rank(percent, n) <= atMost(v)

Summarize(m) ==
    [p50 |-> Percentile(m, 50), p95 |-> Percentile(m, 95), p99 |-> Percentile(m, 99),
     admitted |-> Cardinality({r \in DOMAIN m : m[r].admitted}),
     rejected |-> Cardinality({r \in DOMAIN m : m[r].rejected}),
     waited |-> Cardinality({r \in DOMAIN m : m[r].waited}),
     unrecoverable |-> Cardinality({r \in DOMAIN m : m[r].unrecoverable}),
     won |-> Cardinality({r \in DOMAIN m : m[r].won})]

PrintRows ==
    /\ sweep_pc = "rows"
    /\ rows = NoRows
    /\ rows' = [wait |-> Summarize(wait_metrics),
                replication_capacity_normalized |-> Summarize(capacity_replication_metrics),
                replication_full |-> Summarize(full_replication_metrics),
                codedllm |-> Summarize(metrics)]
    /\ UNCHANGED <<sweep_pc, shard_sizes, point, cell, request_arrivals, base_events, baselineVars,
                   clusterVars>>

NextCell ==
    /\ sweep_pc = "rows"
    /\ rows # NoRows
    /\ cell < Len(shard_sizes)
    /\ cell' = cell + 1
    /\ sweep_pc' = "cell"
    /\ rows' = NoRows
    /\ UNCHANGED <<shard_sizes, point, request_arrivals, base_events, baselineVars, clusterVars>>

NextPoint ==
    /\ sweep_pc = "rows"
    /\ rows # NoRows
    /\ cell = Len(shard_sizes)
    /\ point' = point + 1
    /\ sweep_pc' = IF point' = PointCount THEN "done" ELSE "generate"
    /\ cell' = 1
    /\ request_arrivals' = <<>>
    /\ base_events' = {}
    /\ wait_metrics' = NoMetrics
    /\ capacity_replication_metrics' = NoMetrics
    /\ full_replication_metrics' = NoMetrics
    /\ rows' = NoRows
    /\ runs' = 0 /\ Begin({}) /\ FreshQueue    \* the simulator is gone
    /\ UNCHANGED shard_sizes

SweepNext ==
    \/ GenerateWorkload \/ CapacityBaseline \/ FullBaseline
    \/ StartCoded \/ Simulate
    \/ PrintRows \/ NextCell \/ NextPoint

SweepSpec == SweepInit /\ [][SweepNext]_allVars

-----------------------------------------------------------------------------
(***************************************************************************)
(* The capacity-normalised baseline is fair: any run of consecutive        *)
(* requests, from any request on, replicates every shard equally often up  *)
(* to one, for each number of shards and replicas, also when they have a   *)
(* common divisor, the windows wrap or the request IDs pass a multiple of  *)
(* the number of shards (workload_generator.cpp:155-163).                  *)
(***************************************************************************)
ReplicasBalanced ==
    sweep_pc = "generate" =>
        \A k \in 1 .. 6 : \A replica_count \in 0 .. k, first \in 0 .. k, n \in 0 .. k :
            Balanced(first .. first + n, k, replica_count, [i \in 0 .. k - 1 |-> k - 1 - i])

(***************************************************************************)
(* The coded row is comparable with the waiting row.  The sweep ends early *)
(* only when the cost looked up ahead of a cell was not measured, never at *)
(* an operation in the middle of a simulation; the completion times the    *)
(* oracle takes from the trace are the ones the simulator finds by replay, *)
(* so a recovery that the policy admits always wins, even behind a queue,  *)
(* and a request without one has exactly the latency of waiting            *)
(* (phase7_parameter_sweep.cpp:299-313, 340-368, 477).                     *)
(***************************************************************************)
CodedRowsExact ==
    /\ sweep_pc = "threw" => ~Measured
    /\ sweep_pc = "rows" =>
         \A r \in RequestIds :
            LET coded == metrics[r].latency
                waiting == wait_metrics[r].latency
            IN /\ metrics[r].admitted <=> coded < waiting
               /\ metrics[r].won <=> coded < waiting
               /\ coded <= waiting

NoSlower(row) ==
    /\ row.p50 <= rows.wait.p50 /\ row.p95 <= rows.wait.p95 /\ row.p99 <= rows.wait.p99
    /\ row.p50 <= row.p95 /\ row.p95 <= row.p99

(***************************************************************************)
(* Every strategy can only gain on the same trace: no percentile of a      *)
(* replicated or coded row is above that of the waiting row, whatever the  *)
(* replicas' draws, the queue and the ties are                             *)
(* (workload_generator.cpp:181-183, 210-212,                               *)
(* phase7_parameter_sweep.cpp:370-378).                                    *)
(***************************************************************************)
StrategiesNeverSlower ==
    rows # NoRows =>
        /\ NoSlower(rows.replication_capacity_normalized)
        /\ NoSlower(rows.replication_full)
        /\ NoSlower(rows.codedllm)

\* v is the least latency that `percent' of the requests do not exceed.
IsPercentile(v, m, percent) ==
    /\ 100 * Cardinality({r \in DOMAIN m : m[r].latency <= v}) >= percent * NumRequests
    /\ 100 * Cardinality({r \in DOMAIN m : m[r].latency < v}) < percent * NumRequests

RowOf(row, m) ==
    /\ IsPercentile(row.p50, m, 50)
    /\ IsPercentile(row.p95, m, 95)
    /\ IsPercentile(row.p99, m, 99)

(***************************************************************************)
(* The percentiles of every row that is printed are those of all requests  *)
(* of the point under that row's strategy: p50, p95 and p99 are the least  *)
(* latencies that 50, 95 and 99 percent of the requests do not exceed, at  *)
(* any number of requests, at the ends of the sorted vector and with ties  *)
(* (phase7_parameter_sweep.cpp:370-378, 399-402).                          *)
(***************************************************************************)
PercentilesExact ==
    rows # NoRows =>
        /\ RowOf(rows.wait, wait_metrics)
        /\ RowOf(rows.replication_capacity_normalized, capacity_replication_metrics)
        /\ RowOf(rows.replication_full, full_replication_metrics)
        /\ RowOf(rows.codedllm, metrics)
=============================================================================

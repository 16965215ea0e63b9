-------------------------- MODULE WorkloadGenerator --------------------------
(***************************************************************************)
(* The synthetic workloads of src/simulation/workload_generator.cpp: the   *)
(* arrivals of the shards of many requests, and the two replication        *)
(* baselines, which give shards a second chance to arrive earlier.         *)
(*                                                                         *)
(* Times are microseconds.  The exponential gaps between requests and the  *)
(* normally distributed delays are what the random engines happen to draw; *)
(* a delay is drawn per shard and clamped at zero.  One configuration and  *)
(* seed always give the same request arrivals, which is why replication    *)
(* may draw them again and compare.  Requests count from 0, and a vector   *)
(* of events is the set of its elements, since no two of them agree in     *)
(* request and shard.                                                      *)
(***************************************************************************)
EXTENDS Integers, FiniteSets

\* What the constructor requires: every shard has an ID.
ValidShardCounts(k, m, max_shard_id) ==
    k \in 1 .. max_shard_id /\ k + m <= max_shard_id + 1

\* The cumulative sums of the gaps that precede each request.
GenerateRequestArrivalTimes(gaps) ==
    LET arrival[r \in DOMAIN gaps] == IF r = 0 THEN gaps[0] ELSE arrival[r - 1] + gaps[r]
    IN arrival

Sample(drawn) == IF drawn < 0 THEN 0 ELSE drawn

\* Every request sends each of its k + m shards once.
Generate(arrivals, delays, k, m) ==
    {[time |-> arrivals[r] + Sample(delays[<<r, s>>]), request |-> r, shard |-> s,
      start |-> arrivals[r]] : r \in DOMAIN arrivals, s \in 0 .. k + m - 1}

\* A mutant of FirstReplica: neighbouring requests start next to each other.
FirstReplicaNext(request_id, k, replica_count) == request_id % k

FirstReplica(request_id, k, replica_count) == ((request_id % k) * replica_count) % k

\* The shards of a request that get a replica: a window of the shuffled shards.
SelectCapacityNormalizedReplicas(request_id, k, replica_count, permutation) ==
    {permutation[(FirstReplica(request_id, k, replica_count) + i) % k] :
        i \in 0 .. replica_count - 1}

\* TRUE iff ValidateReplicationEvents returns.
ValidReplicationEvents(events, arrivals) ==
    \A e \in events : e.request \in DOMAIN arrivals /\ e.start = arrivals[e.request]

\* A mutant of WithReplica: the replica replaces the original.
WithReplicaOnly(e, arrivals, delays) ==
    [e EXCEPT !.time = arrivals[e.request] + Sample(delays[<<e.request, e.shard>>])]

\* The earlier of the original and a replica that is sent when the request starts.
WithReplica(e, arrivals, delays) ==
    LET replica_arrival == arrivals[e.request] + Sample(delays[<<e.request, e.shard>>])
    IN [e EXCEPT !.time = IF replica_arrival < @ THEN replica_arrival ELSE @]

ApplyReplication(events, arrivals, delays, k) ==
    {IF e.shard >= k THEN e ELSE WithReplica(e, arrivals, delays) : e \in events}

ApplyCapacityNormalizedReplication(events, arrivals, delays, k, replica_count, permutation) ==
    {IF /\ e.shard < k
        /\ e.shard \in SelectCapacityNormalizedReplicas(e.request, k, replica_count, permutation)
       THEN WithReplica(e, arrivals, delays) ELSE e : e \in events}

-----------------------------------------------------------------------------
SelectedBy(s, window, k, replica_count, permutation) ==
    {r \in window : s \in SelectCapacityNormalizedReplicas(r, k, replica_count, permutation)}

\* The requests of a window replicate every shard equally often, up to one.
Balanced(window, k, replica_count, permutation) ==
    \A s, t \in 0 .. k - 1 :
        Cardinality(SelectedBy(s, window, k, replica_count, permutation))
            <= Cardinality(SelectedBy(t, window, k, replica_count, permutation)) + 1
=============================================================================

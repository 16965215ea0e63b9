-------------------------- MODULE RequestSimulation --------------------------
(***************************************************************************)
(* RequestSimulation (src/simulation/simulator.cpp): the simulation of one *)
(* request on its own.  Run takes the instants of the arrivals in order,   *)
(* marks all shards of an instant, stops at the first instant at which the *)
(* systematic shards are complete, and starts at most one recovery before. *)
(*                                                                         *)
(* The client's cost oracle may prefer to wait, or quote any cost that is  *)
(* not negative.  It is also what ClusterSimulator promises to do for each *)
(* of its requests, whatever the other requests do to the shared queue.    *)
(***************************************************************************)
EXTENDS ErasureCode

CONSTANTS Graph, NoTime

VARIABLES
    request_pc,     \* "idle", "instants", "complete", "returned" or "threw"
    ahead,          \* the arrivals still to come: a set of [time, shard]
    arrived,        \* the shards the tracker has marked
    recovery_start_time, recovery_completion_time,      \* optional
    natural_completion_time,                            \* optional
    result          \* what Run returned: final_latency and recovery_won

requestSimVars == <<request_pc, ahead, arrived, recovery_start_time,
                    recovery_completion_time, natural_completion_time, result>>

NoResult == [final_latency |-> NoTime, recovery_won |-> FALSE]

FreshLocals ==
    /\ arrived' = {}
    /\ recovery_start_time' = NoTime
    /\ recovery_completion_time' = NoTime
    /\ natural_completion_time' = NoTime
    /\ result' = NoResult

Init ==
    /\ request_pc = "idle"
    /\ ahead = {}
    /\ arrived = {}
    /\ recovery_start_time = NoTime
    /\ recovery_completion_time = NoTime
    /\ natural_completion_time = NoTime
    /\ result = NoResult

\* Run is called for some trace, or the simulation is dropped.
Run ==
    /\ request_pc' = "instants"
    /\ \A e \in ahead' : e.time \in Int /\ e.shard \in Nat
    /\ FreshLocals

Drop ==
    /\ request_pc' = "idle"
    /\ ahead' = {}
    /\ FreshLocals

\* The next instant's arrivals are marked.
MarkInstant(now) ==
    LET group == {e \in ahead : e.time = now}
    IN /\ request_pc = "instants"
       /\ group # {}
       /\ now >= 0
       /\ \A e \in ahead : now <= e.time
       /\ \A e \in group : e.shard \in Shards(Graph)
       /\ ahead' = ahead \ group
       /\ arrived' = arrived \cup {e.shard : e \in group}
       /\ UNCHANGED result

Complete == Systematic(Graph) \subseteq arrived
Recoverable ==
    Peelable(Graph, Systematic(Graph) \ arrived, arrived \cap Parity(Graph))

CompleteNaturally(now) ==
    /\ MarkInstant(now)
    /\ Complete'
    /\ request_pc' = "complete"
    /\ natural_completion_time' = now
    /\ UNCHANGED <<recovery_start_time, recovery_completion_time>>

KeepWaiting(now) ==
    /\ MarkInstant(now)
    /\ ~Complete'
    /\ UNCHANGED <<request_pc, recovery_start_time, recovery_completion_time,
                   natural_completion_time>>

StartRecovery(now) ==
    /\ MarkInstant(now)
    /\ ~Complete'
    /\ recovery_start_time = NoTime
    /\ Recoverable'
    /\ recovery_start_time' = now
    /\ recovery_completion_time' \in Int
    /\ recovery_completion_time' >= now
    /\ UNCHANGED <<request_pc, natural_completion_time>>

\* The recovery counts only if it is strictly earlier.
RecoveryWon ==
    /\ recovery_completion_time # NoTime
    /\ recovery_completion_time < natural_completion_time

Return ==
    /\ request_pc = "complete"
    /\ request_pc' = "returned"
    /\ result' = [final_latency |-> IF RecoveryWon THEN recovery_completion_time
                                                   ELSE natural_completion_time,
                  recovery_won |-> RecoveryWon]
    /\ UNCHANGED <<ahead, arrived, recovery_start_time, recovery_completion_time,
                   natural_completion_time>>

\* A negative time, an unknown shard, the oracle, or a trace that ends too early;
\* the instant's arrivals may have been marked.
Throw ==
    /\ request_pc = "instants"
    /\ request_pc' = "threw"
    /\ ahead' \subseteq ahead
    /\ arrived \subseteq arrived'
    /\ UNCHANGED <<recovery_start_time, recovery_completion_time,
                   natural_completion_time, result>>

Next ==
    \/ Run \/ Drop \/ Return \/ Throw
    \/ \E now \in {e.time : e \in ahead} :
         CompleteNaturally(now) \/ KeepWaiting(now) \/ StartRecovery(now)

Spec == Init /\ [][Next]_requestSimVars
=============================================================================

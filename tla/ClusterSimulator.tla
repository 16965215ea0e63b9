--------------------------- MODULE ClusterSimulator --------------------------
(***************************************************************************)
(* ClusterSimulator (src/simulation/cluster_simulator.cpp), composed with  *)
(* the recovery queue: Run replays the shard arrivals of many requests in  *)
(* simulated time, decides for each request at each arrival instant        *)
(* whether to recover it, and reports the latency of each request.         *)
(*                                                                         *)
(* The sorted vector of events is the set of the events still to process:  *)
(* sorting by (time, request, shard) and taking the events of one instant  *)
(* and one request together means processing the least (time, request)     *)
(* next.  A tracker is the set of shards it has marked.  The service time  *)
(* and the wait cost come from the client's callbacks: any value of        *)
(* ServiceTimes and WaitCosts.                                             *)
(*                                                                         *)
(* A simulator can Run several times; its queue is not reset in between.   *)
(***************************************************************************)
EXTENDS ErasureCode, RecoveryQueue

CONSTANTS
    Graph,
    Workloads,      \* what Run may be called with: sets of arrival events
    RequestIds,     \* the requests of those events
    NoTime,         \* an empty std::optional
    WaitCosts,      \* values of the wait-cost oracle
    MaxRuns         \* bound on the calls of Run

ASSUME ClusterAssumption ==
    /\ IsBipartiteGraph(Graph) /\ ValidateGraph(Graph)
    /\ \A w \in Workloads : \A e \in w :
         e \in [time : Int, request : RequestIds, shard : Nat, start : Int]
    /\ RequestIds \subseteq Nat
    /\ WaitCosts \subseteq Int
    /\ MaxRuns \in Nat
    /\ NoTime \notin Int

VARIABLES
    sim_pc,         \* "idle", "instants", "groups", "done" or "threw"
    runs,           \* the number of calls of Run
    workload,       \* the argument of the current Run
    events,         \* its events that have not been processed
    instant,        \* current_time of the loop over the instants
    trackers,
    natural_completion_times, recovery_completion_times,    \* the maps
    recovery_rejected, recovery_waited, recovery_unrecoverable,
    job_of,         \* history: the job each admitted request has submitted
    metrics         \* what Run has returned

outcomeVars == <<natural_completion_times, recovery_completion_times, recovery_rejected,
                 recovery_waited, recovery_unrecoverable, job_of>>
runVars == <<sim_pc, runs, workload, events, instant, trackers, outcomeVars, metrics>>
clusterVars == <<runVars, queueVars>>

RequestsOf(w) == {e.request : e \in w}
Put(map, key, value) ==
    [x \in DOMAIN map \cup {key} |-> IF x = key THEN value ELSE map[x]]

ClusterInit ==
    /\ QueueInit
    /\ sim_pc = "idle"
    /\ runs = 0
    /\ workload = {}
    /\ events = {}
    /\ instant = 0
    /\ trackers = <<>>
    /\ natural_completion_times = <<>>
    /\ recovery_completion_times = <<>>
    /\ recovery_rejected = {}
    /\ recovery_waited = {}
    /\ recovery_unrecoverable = {}
    /\ job_of = <<>>
    /\ metrics = <<>>

-----------------------------------------------------------------------------
\* The events of one request share a start time and do not precede it.
ValidWorkload(w) ==
    /\ \A d, e \in w : d.request = e.request => d.start = e.start
    /\ \A e \in w : e.time >= e.start

\* Everything in Run before the loop over the instants.
Begin(w) ==
    /\ workload' = w
    /\ events' = w
    /\ sim_pc' = IF ValidWorkload(w) THEN "instants" ELSE "threw"
    /\ instant' = 0
    /\ trackers' = [r \in RequestsOf(w) |-> {}]
    /\ natural_completion_times' = <<>>
    /\ recovery_completion_times' = <<>>
    /\ recovery_rejected' = {}
    /\ recovery_waited' = {}
    /\ recovery_unrecoverable' = {}
    /\ job_of' = <<>>
    /\ metrics' = <<>>

Run(w) ==
    /\ sim_pc \in {"idle", "done", "threw"}
    /\ runs < MaxRuns
    /\ runs' = runs + 1
    /\ Begin(w)
    /\ UNCHANGED queueVars

\* The outer loop takes the next instant and advances the queue's clock.
NextInstant ==
    /\ sim_pc = "instants"
    /\ events # {}
    /\ \E e \in events :
         /\ \A d \in events : e.time <= d.time
         /\ instant' = e.time
         /\ IF e.time >= 0 /\ e.time >= current_time
              THEN AdvanceTime(e.time) /\ sim_pc' = "groups"
              ELSE sim_pc' = "threw" /\ UNCHANGED queueVars
    /\ UNCHANGED <<runs, workload, events, trackers, outcomeVars, metrics>>

-----------------------------------------------------------------------------
Complete(arrived) == Systematic(Graph) \subseteq arrived

\* The planner's verdict on a tracker: see theorem PeelingIsComplete.
Recoverable(arrived) ==
    Peelable(Graph, Systematic(Graph) \ arrived, arrived \cap Parity(Graph))

\* A mutant of Group: the decision is taken after every single arrival.
GroupOfOne(r) ==
    {CHOOSE e \in events :
        /\ e.time = instant
        /\ e.request = r
        /\ \A d \in events : d.time = instant /\ d.request = r => e.shard <= d.shard}

\* The arrivals of request r at the current instant.
Group(r) == {e \in events : e.time = instant /\ e.request = r}

\* The request whose arrivals the inner loop handles next.
Turn(r) ==
    /\ sim_pc = "groups"
    /\ \E e \in events : e.time = instant /\ e.request = r
    /\ \A d \in events : d.time = instant => r <= d.request

MarkGroup(r) ==
    /\ Turn(r)
    /\ \A e \in Group(r) : e.shard \in Shards(Graph)
    /\ trackers' = [trackers EXCEPT ![r] = @ \cup {e.shard : e \in Group(r)}]
    /\ events' = events \ Group(r)

\* The inner loop ends when the instant has no more arrivals.
Continue == sim_pc' = IF \E e \in events' : e.time = instant THEN "groups" ELSE "instants"

\* MarkArrived rejects a shard ID; the smaller IDs have been marked.
GroupThrows(r) ==
    /\ Turn(r)
    /\ \E e \in Group(r) : e.shard \notin Shards(Graph)
    /\ trackers' = [trackers EXCEPT ![r] =
                        @ \cup ({e.shard : e \in Group(r)} \cap Shards(Graph))]
    /\ sim_pc' = "threw"
    /\ UNCHANGED <<runs, workload, events, instant, outcomeVars, metrics, queueVars>>

\* All systematic shards are there; try_emplace keeps the first such instant.
NaturalCompletion(r) ==
    /\ MarkGroup(r)
    /\ Complete(trackers'[r])
    /\ natural_completion_times' =
         IF r \in DOMAIN natural_completion_times
           THEN natural_completion_times
           ELSE Put(natural_completion_times, r, instant)
    /\ Continue
    /\ UNCHANGED <<runs, workload, instant, recovery_completion_times, recovery_rejected,
                   recovery_waited, recovery_unrecoverable, job_of, metrics, queueVars>>

AlreadyRecovering(r) ==
    /\ MarkGroup(r)
    /\ ~Complete(trackers'[r])
    /\ r \in DOMAIN recovery_completion_times
    /\ Continue
    /\ UNCHANGED <<runs, workload, instant, outcomeVars, metrics, queueVars>>

\* The arrivals leave the request incomplete and without a recovery.
Undecided(r) ==
    /\ MarkGroup(r)
    /\ ~Complete(trackers'[r])
    /\ r \notin DOMAIN recovery_completion_times

CannotRecover(r) ==
    /\ Undecided(r)
    /\ ~Recoverable(trackers'[r])
    /\ recovery_unrecoverable' = recovery_unrecoverable \cup {r}
    /\ Continue
    /\ UNCHANGED <<runs, workload, instant, natural_completion_times,
                   recovery_completion_times, recovery_rejected, recovery_waited, job_of,
                   metrics, queueVars>>

\* A mutant of Reject: the rejection leaves no trace.
RejectSilently(r, service_time) ==
    /\ Undecided(r)
    /\ Recoverable(trackers'[r])
    /\ service_time > 0
    /\ QueueFull
    /\ Continue
    /\ UNCHANGED <<runs, workload, instant, outcomeVars, metrics, queueVars>>

\* GetExpectedRecoveryCost has no quote.
Reject(r, service_time) ==
    /\ Undecided(r)
    /\ Recoverable(trackers'[r])
    /\ service_time > 0
    /\ QueueFull
    /\ recovery_rejected' = recovery_rejected \cup {r}
    /\ Continue
    /\ UNCHANGED <<runs, workload, instant, natural_completion_times,
                   recovery_completion_times, recovery_waited, recovery_unrecoverable,
                   job_of, metrics, queueVars>>

\* A callback's value is refused: a service time that is not positive, or,
\* once there is a quote, a negative wait cost.
DecisionThrows(r, service_time, wait_cost) ==
    /\ Undecided(r)
    /\ Recoverable(trackers'[r])
    /\ service_time <= 0 \/ (~QueueFull /\ wait_cost < 0)
    /\ sim_pc' = "threw"
    /\ UNCHANGED <<runs, workload, instant, outcomeVars, metrics, queueVars>>

KeepWaiting(r, service_time, wait_cost) ==
    /\ Undecided(r)
    /\ Recoverable(trackers'[r])
    /\ ~QueueFull
    /\ service_time > 0
    /\ wait_cost >= 0
    /\ ExpectedRecoveryCost(instant, service_time) >= wait_cost
    /\ recovery_waited' = recovery_waited \cup {r}
    /\ Continue
    /\ UNCHANGED <<runs, workload, instant, natural_completion_times,
                   recovery_completion_times, recovery_rejected, recovery_unrecoverable,
                   job_of, metrics, queueVars>>

\* A mutant of Admit: the quote is asked for after the submission.
AdmitThenQuote(r, service_time, wait_cost) ==
    /\ Undecided(r)
    /\ Recoverable(trackers'[r])
    /\ UNCHANGED instant
    /\ ExpectedRecoveryCost(instant, service_time) < wait_cost
    /\ SubmitJob(instant, service_time)
    /\ recovery_completion_times' =
         Put(recovery_completion_times, r,
             instant + ExpectedRecoveryCost(instant, service_time)')
    /\ job_of' = Put(job_of, r, Len(schedule'))
    /\ Continue
    /\ UNCHANGED <<runs, workload, natural_completion_times, recovery_rejected,
                   recovery_waited, recovery_unrecoverable, metrics>>

\* The quote beats the wait and the job is submitted.  Nothing happens to the
\* queue between the quote and the submission, which therefore succeeds.
Admit(r, service_time, wait_cost) ==
    /\ Undecided(r)
    /\ Recoverable(trackers'[r])
    /\ ExpectedRecoveryCost(instant, service_time) < wait_cost
    /\ SubmitJob(instant, service_time)
    /\ recovery_completion_times' =
         Put(recovery_completion_times, r,
             instant + ExpectedRecoveryCost(instant, service_time))
    /\ job_of' = Put(job_of, r, Len(schedule'))
    /\ Continue
    /\ UNCHANGED <<runs, workload, instant, natural_completion_times, recovery_rejected,
                   recovery_waited, recovery_unrecoverable, metrics>>

\* The rest of an iteration for a recoverable request, given what the
\* client's callbacks answer.
Decide(r, service_time, wait_cost) ==
    \/ Reject(r, service_time)
    \/ DecisionThrows(r, service_time, wait_cost)
    \/ KeepWaiting(r, service_time, wait_cost)
    \/ Admit(r, service_time, wait_cost)

-----------------------------------------------------------------------------
StartOf(r) == (CHOOSE e \in workload : e.request = r).start

Won(r) == /\ r \in DOMAIN recovery_completion_times
          /\ recovery_completion_times[r] < natural_completion_times[r]

RequestMetrics(r) ==
    [latency |-> (IF Won(r) THEN recovery_completion_times[r]
                            ELSE natural_completion_times[r]) - StartOf(r),
     won |-> Won(r),
     admitted |-> r \in DOMAIN recovery_completion_times,
     rejected |-> r \in recovery_rejected,
     waited |-> r \in recovery_waited,
     unrecoverable |-> r \in recovery_unrecoverable]

\* The metrics, unless some request never completes by itself.
Report ==
    /\ sim_pc = "instants"
    /\ events = {}
    /\ IF RequestsOf(workload) \subseteq DOMAIN natural_completion_times
         THEN /\ metrics' = [r \in RequestsOf(workload) |-> RequestMetrics(r)]
              /\ sim_pc' = "done"
         ELSE sim_pc' = "threw" /\ UNCHANGED metrics
    /\ UNCHANGED <<runs, workload, events, instant, trackers, outcomeVars, queueVars>>

\* An iteration that needs none of the client's callbacks.
ProcessGroup(r) ==
    GroupThrows(r) \/ NaturalCompletion(r) \/ AlreadyRecovering(r) \/ CannotRecover(r)

ClusterNext ==
    \/ \E w \in Workloads : Run(w)
    \/ NextInstant
    \/ \E r \in RequestsOf(events) :
         \/ ProcessGroup(r)
         \/ \E service_time \in ServiceTimes, wait_cost \in WaitCosts :
              Decide(r, service_time, wait_cost)
    \/ Report

ClusterSpec == ClusterInit /\ [][ClusterNext]_clusterVars

-----------------------------------------------------------------------------
(***************************************************************************)
(* The latency a recovery is credited with is the one its job really has:  *)
(* each admitted request has submitted one job of its own, and the         *)
(* completion time computed from the quote is the time at which the queue  *)
(* completes that job (cluster_simulator.cpp:97-116).                      *)
(***************************************************************************)
QuotesAreHonoured ==
    /\ DOMAIN job_of = DOMAIN recovery_completion_times
    /\ \A r \in DOMAIN job_of :
         /\ recovery_completion_times[r] = schedule[job_of[r]].stop
         /\ \A q \in DOMAIN job_of : job_of[q] = job_of[r] => q = r

ArrivalTimes(r, s) == {e.time : e \in {d \in workload : d.request = r /\ d.shard = s}}
FirstArrival(r, s) == CHOOSE x \in ArrivalTimes(r, s) : \A y \in ArrivalTimes(r, s) : x <= y

(***************************************************************************)
(* The report agrees with the trace: a request has completed at the        *)
(* instant at which the last of its systematic shards arrived for the      *)
(* first time, whatever duplicates, parity shards and other requests the   *)
(* trace has; its latency is never beyond that; and one that was not       *)
(* admitted was rejected, chose to wait or could not be recovered at some  *)
(* arrival, or was complete at its first instant                           *)
(* (cluster_simulator.cpp:81-121, 128-148).                                *)
(***************************************************************************)
ReportMatchesTrace ==
    sim_pc = "done" =>
        \A r \in RequestsOf(workload) :
            LET m == metrics[r]
                natural == natural_completion_times[r]
            IN /\ \A s \in Systematic(Graph) : FirstArrival(r, s) <= natural
               /\ \E s \in Systematic(Graph) : FirstArrival(r, s) = natural
               /\ m.latency <= natural - StartOf(r)
               /\ \/ m.admitted \/ m.rejected \/ m.waited \/ m.unrecoverable
                  \/ \A e \in workload : e.request = r => e.time >= natural

-----------------------------------------------------------------------------
(***************************************************************************)
(* What a request of a cluster run looks like on its own: nothing after    *)
(* the instant of its natural completion concerns it.                      *)
(***************************************************************************)
Simulated(r) == r \in RequestsOf(workload) /\ ValidWorkload(workload)
Completed(r) == r \in DOMAIN natural_completion_times
Admitted(r) == r \in DOMAIN recovery_completion_times

Ahead(r) ==
    {[time |-> e.time, shard |-> e.shard] :
       e \in {d \in workload : /\ Simulated(r) /\ d.request = r
                                /\ IF Completed(r) THEN d.time > natural_completion_times[r]
                                                   ELSE d \in events}}
ArrivedBy(r) ==
    {e.shard : e \in {d \in workload \ events :
                        /\ Simulated(r) /\ d.request = r
                        /\ Completed(r) => d.time <= natural_completion_times[r]}}

RequestPc(r) ==
    CASE ~Simulated(r) -> "idle"
      [] Simulated(r) /\ Completed(r) -> IF sim_pc = "done" THEN "returned" ELSE "complete"
      [] Simulated(r) /\ ~Completed(r) -> IF sim_pc = "threw" THEN "threw" ELSE "instants"

RecoveryStart(r) == IF Admitted(r) THEN schedule[job_of[r]].submitted ELSE NoTime
RecoveryEnd(r) == IF Admitted(r) THEN recovery_completion_times[r] ELSE NoTime
NaturalEnd(r) == IF Completed(r) THEN natural_completion_times[r] ELSE NoTime

Returned(r) ==
    IF sim_pc = "done" /\ Simulated(r)
      THEN [final_latency |-> metrics[r].latency + StartOf(r), recovery_won |-> metrics[r].won]
      ELSE [final_latency |-> NoTime, recovery_won |-> FALSE]

Alone(r) == INSTANCE RequestSimulation WITH
    request_pc <- RequestPc(r),
    ahead <- Ahead(r),
    arrived <- ArrivedBy(r),
    recovery_start_time <- RecoveryStart(r),
    recovery_completion_time <- RecoveryEnd(r),
    natural_completion_time <- NaturalEnd(r),
    result <- Returned(r)

(***************************************************************************)
(* Sharing a simulator and a queue changes nothing a request can observe   *)
(* except its costs: each request of a cluster run behaves as the request  *)
(* simulator would on that request's trace.  Arrivals of an instant count  *)
(* together and before the decision, one recovery starts at most, and only *)
(* before completion, and it wins only if it is strictly earlier           *)
(* (cluster_simulator.cpp:59-150, simulator.cpp:22-79).                    *)
(***************************************************************************)
ImplementsRequestSimulation ==
    /\ \A r \in RequestIds : Alone(r)!Init
    /\ [][\A r \in RequestIds : [Alone(r)!Next]_(Alone(r)!requestSimVars)]_clusterVars
=============================================================================

---------------------------- MODULE RecoveryQueue ----------------------------
(***************************************************************************)
(* RecoveryQueue (src/simulation/recovery_queue.cpp): the simulator's      *)
(* bounded recovery queue in simulated time.  A job that is admitted gets  *)
(* the slot that becomes free first and occupies it from the later of the  *)
(* submission and that moment; the queue's depth counts every admitted job *)
(* that has not completed, running or not.                                 *)
(*                                                                         *)
(* The multiset of completion times is a set of pairs of a time and the    *)
(* job's number, which keeps equal times apart.  `schedule' is a history   *)
(* variable: what has been admitted, and when it runs.  Calls that throw   *)
(* change nothing and are not steps.                                       *)
(***************************************************************************)
EXTENDS Integers, Sequences, FiniteSets

CONSTANTS
    ConcurrencyLimit,
    MaxQueueDepth,
    ServiceTimes,   \* the service times a caller may ask for
    MaxTime,        \* bound on simulated time
    MaxJobs         \* bound on the number of admitted jobs

ASSUME QueueAssumption ==
    /\ ConcurrencyLimit \in Nat \ {0}
    /\ MaxQueueDepth \in Nat
    /\ ServiceTimes \subseteq Int
    /\ MaxTime \in Nat
    /\ MaxJobs \in Nat

VARIABLES
    slot_available_times, job_completion_times, current_queue_depth, current_time,
    schedule    \* the admitted jobs, in the order of their submission

queueVars == <<slot_available_times, job_completion_times, current_queue_depth,
               current_time, schedule>>

Slots == 1 .. ConcurrencyLimit

QueueInit ==
    /\ slot_available_times = [s \in Slots |-> 0]
    /\ job_completion_times = {}
    /\ current_queue_depth = 0
    /\ current_time = 0
    /\ schedule = <<>>

Later(a, b) == IF a < b THEN b ELSE a

\* A mutant of EarliestSlot: the first slot, free or not.
FirstSlot == 1

\* std::min_element: the first of the slots that become free first.
EarliestSlot ==
    CHOOSE s \in Slots :
        \A u \in Slots : \/ slot_available_times[s] < slot_available_times[u]
                         \/ slot_available_times[s] = slot_available_times[u] /\ s <= u

StartTime(now) == Later(now, slot_available_times[EarliestSlot])

QueueFull == current_queue_depth >= MaxQueueDepth

\* What GetExpectedRecoveryCost returns unless the queue is full.
ExpectedRecoveryCost(now, service_time) == StartTime(now) - now + service_time

\* A mutant of AdvanceTime: a job that completes now still counts.
AdvanceTimeStrictly(now) ==
    LET completed == {job \in job_completion_times : job[1] < now}
    IN /\ now >= current_time
       /\ job_completion_times' = job_completion_times \ completed
       /\ current_queue_depth' = current_queue_depth - Cardinality(completed)
       /\ current_time' = now
       /\ UNCHANGED <<slot_available_times, schedule>>

AdvanceTime(now) ==
    LET completed == {job \in job_completion_times : job[1] <= now}
    IN /\ now >= current_time
       /\ job_completion_times' = job_completion_times \ completed
       /\ current_queue_depth' = current_queue_depth - Cardinality(completed)
       /\ current_time' = now
       /\ UNCHANGED <<slot_available_times, schedule>>

\* SubmitJob returns TRUE; when the queue is full it returns FALSE and
\* changes nothing.
SubmitJob(now, service_time) ==
    /\ now >= current_time
    /\ service_time > 0
    /\ ~QueueFull
    /\ LET stop == StartTime(now) + service_time
       IN /\ slot_available_times' =
               [slot_available_times EXCEPT ![EarliestSlot] = stop]
          /\ job_completion_times' =
               job_completion_times \cup {<<stop, Len(schedule) + 1>>}
          /\ schedule' = Append(schedule, [submitted |-> now, slot |-> EarliestSlot,
                                           start |-> StartTime(now), stop |-> stop])
    /\ current_queue_depth' = current_queue_depth + 1
    /\ UNCHANGED current_time

\* A client that calls the queue directly, with whatever times it likes.
QueueNext ==
    \/ \E now \in 0 .. MaxTime : AdvanceTime(now)
    \/ /\ Len(schedule) < MaxJobs
       /\ \E now \in 0 .. MaxTime, service_time \in ServiceTimes :
            SubmitJob(now, service_time)

QueueSpec == QueueInit /\ [][QueueNext]_queueVars

-----------------------------------------------------------------------------
Job == [submitted : Nat, slot : Slots, start : Nat, stop : Nat]

\* The members of RecoveryQueue have their types.
QueueTypeOK ==
    /\ slot_available_times \in [Slots -> Nat]
    /\ job_completion_times \subseteq Nat \X (Nat \ {0})
    /\ current_queue_depth \in 0 .. MaxQueueDepth
    /\ current_time \in Nat
    /\ schedule \in Seq(Job)

RunningAt(x) == {i \in DOMAIN schedule : schedule[i].start <= x /\ x < schedule[i].stop}
Horizon == {schedule[i].start : i \in DOMAIN schedule}

(***************************************************************************)
(* At no moment of simulated time do more jobs run than there are slots,   *)
(* however submissions, clock advances and service times are interleaved   *)
(* (recovery_queue.cpp:66-70).  The number of running jobs can only grow   *)
(* when one starts, so the start times are the moments to look at.         *)
(***************************************************************************)
ConcurrencyRespected == \A x \in Horizon : Cardinality(RunningAt(x)) <= ConcurrencyLimit

(***************************************************************************)
(* The unsigned depth counter and the multiset it is adjusted by never     *)
(* drift apart: the depth is the number of admitted jobs that complete     *)
(* after the current time, and is within the bound                         *)
(* (recovery_queue.cpp:31-35, 71-72).                                      *)
(***************************************************************************)
DepthCountsPending ==
    /\ current_queue_depth =
         Cardinality({i \in DOMAIN schedule : schedule[i].stop > current_time})
    /\ current_queue_depth <= MaxQueueDepth

(***************************************************************************)
(* The queue keeps its two bounds, also for a client that submits for the  *)
(* future and then for an earlier moment, whose submission SubmitJob does  *)
(* not record (recovery_queue.cpp:25-36, 50-75).                           *)
(***************************************************************************)
QueueSound == ConcurrencyRespected /\ DepthCountsPending

(***************************************************************************)
(* The earliest slot is the right one: while an admitted job waits, every  *)
(* slot is busy.  Needs callers that submit at the current time, as        *)
(* ClusterSimulator does (recovery_queue.cpp:66-70).                       *)
(***************************************************************************)
WorkConserving ==
    \A i \in DOMAIN schedule :
        \A x \in schedule[i].submitted .. schedule[i].start - 1 :
            Cardinality(RunningAt(x)) = ConcurrencyLimit
=============================================================================

---------------------------- MODULE ClusterProofs ----------------------------
(***************************************************************************)
(* The recovery queue, for every concurrency limit, queue depth, set of    *)
(* service times and bound on time: its depth counter is exact, and no     *)
(* more jobs run at a time than there are slots.                           *)
(*                                                                         *)
(* The cluster simulator that shares it, for every valid code graph, every *)
(* set of traces (whatever their length and the number of their requests), *)
(* every answer of the client's callbacks, every queue and every number of *)
(* runs: quotes are honoured, no slot idles while a job waits, and the     *)
(* report agrees with the trace.                                           *)
(***************************************************************************)
EXTENDS ClusterSimulator, TLAPS, FiniteSetTheorems, FunctionTheorems, WellFoundedInduction

(***************************************************************************)
(* The inductive invariant of the queue.                                   *)
(***************************************************************************)

\* The multiset holds the admitted jobs that complete after the current time,
\* and the depth is its size.
PendingInv ==
    /\ job_completion_times =
         {<<schedule[i].stop, i>> : i \in {n \in DOMAIN schedule :
                                             schedule[n].stop > current_time}}
    /\ current_queue_depth = Cardinality(job_completion_times)

\* A slot runs its jobs one after the other and is free after the last of them.
SlotInv ==
    /\ \A i \in DOMAIN schedule :
         /\ schedule[i].start < schedule[i].stop
         /\ schedule[i].stop <= slot_available_times[schedule[i].slot]
    /\ \A i, j \in DOMAIN schedule :
         i < j /\ schedule[i].slot = schedule[j].slot =>
            schedule[i].stop <= schedule[j].start

QueueInv == QueueTypeOK /\ PendingInv /\ SlotInv

-----------------------------------------------------------------------------
\* A nonempty set of natural numbers has a least element.
LEMMA LeastNatural ==
  ASSUME NEW S \in SUBSET Nat, S # {}
  PROVE  \E n \in S : \A m \in S : n <= m
<1>1. PICK n \in S : \A m \in S : ~ (<<m, n>> \in OpToRel(<, Nat))
  BY NatLessThanWellFounded, WFMin, Zenon
<1>2. \A m \in S : ~ (m < n)
  BY <1>1 DEF OpToRel
<1> QED
  BY <1>2

\* std::min_element returns a slot, and none becomes free before it.
LEMMA EarliestSlotExists ==
  ASSUME slot_available_times \in [Slots -> Nat]
  PROVE  /\ EarliestSlot \in Slots
         /\ \A u \in Slots : slot_available_times[EarliestSlot] <= slot_available_times[u]
<1> DEFINE Times == {slot_available_times[s] : s \in Slots}
<1>1. 1 \in Slots
  BY QueueAssumption DEF Slots
<1>2. Times \in SUBSET Nat /\ Times # {}
  BY <1>1
<1>3. PICK x \in Times : \A y \in Times : x <= y
  BY <1>2, LeastNatural
<1> DEFINE First == {s \in Slots : slot_available_times[s] = x}
<1>4. First \in SUBSET Nat /\ First # {}
  BY <1>3 DEF Slots
<1>5. PICK s \in First : \A u \in First : s <= u
  BY <1>4, LeastNatural
<1>6. \A u \in Slots : \/ slot_available_times[s] < slot_available_times[u]
                       \/ slot_available_times[s] = slot_available_times[u] /\ s <= u
  BY <1>2, <1>3, <1>5
<1> QED
  BY <1>5, <1>6 DEF EarliestSlot

\* A job that is admitted starts when its slot is free, not before it is
\* submitted.
LEMMA StartTimeBounds ==
  ASSUME slot_available_times \in [Slots -> Nat], NEW now \in Nat
  PROVE  /\ StartTime(now) \in Nat
         /\ StartTime(now) >= now
         /\ StartTime(now) >= slot_available_times[EarliestSlot]
BY EarliestSlotExists DEF StartTime, Later

\* The pending jobs are finitely many.
LEMMA PendingFinite ==
  ASSUME QueueTypeOK, PendingInv
  PROVE  IsFiniteSet(job_completion_times)
<1> DEFINE Pending == {n \in DOMAIN schedule : schedule[n].stop > current_time}
           f == [i \in Pending |-> <<schedule[i].stop, i>>]
<1>1. IsFiniteSet(1 .. Len(schedule))
  BY FS_Interval DEF QueueTypeOK
<1>2. IsFiniteSet(Pending)
  <2>1. Pending \in SUBSET (1 .. Len(schedule))
    BY DEF QueueTypeOK
  <2> QED
    BY <1>1, <2>1, FS_Subset
<1>3. f \in Surjection(Pending, job_completion_times)
  BY DEF Surjection, PendingInv
<1> QED
  BY <1>2, <1>3, FS_Surjection

-----------------------------------------------------------------------------
LEMMA QueueInvInit ==
  ASSUME QueueInit
  PROVE  QueueInv
<1>1. QueueTypeOK
  BY QueueAssumption DEF QueueInit, QueueTypeOK
<1>2. PendingInv
  BY FS_EmptySet DEF QueueInit, PendingInv
<1>3. SlotInv
  BY DEF QueueInit, SlotInv
<1> QED
  BY <1>1, <1>2, <1>3 DEF QueueInv

LEMMA AdvanceTimePreserves ==
  ASSUME QueueInv, NEW now \in Nat, AdvanceTime(now)
  PROVE  QueueInv'
<1> USE DEF QueueInv
<1> DEFINE completed == {job \in job_completion_times : job[1] <= now}
<1>1. /\ job_completion_times' = job_completion_times \ completed
      /\ current_queue_depth' = current_queue_depth - Cardinality(completed)
      /\ current_time' = now
      /\ now >= current_time
      /\ slot_available_times' = slot_available_times
      /\ schedule' = schedule
  BY DEF AdvanceTime
<1>2. job_completion_times' =
         {<<schedule[i].stop, i>> : i \in {n \in DOMAIN schedule : schedule[n].stop > now}}
  <2>1. \A i \in DOMAIN schedule : schedule[i] \in Job
    BY DEF QueueTypeOK
  <2>2. \A i \in DOMAIN schedule : schedule[i].stop \in Nat
    BY <2>1 DEF Job
  <2> QED
    BY <1>1, <2>2 DEF PendingInv, QueueTypeOK
<1>3. /\ IsFiniteSet(job_completion_times)
      /\ IsFiniteSet(completed)
      /\ IsFiniteSet(job_completion_times \ completed)
  BY PendingFinite, FS_Subset
<1>4. Cardinality(job_completion_times) =
         Cardinality(completed) + Cardinality(job_completion_times \ completed)
  <2> DEFINE rest == job_completion_times \ completed
  <2>1. completed \cup rest = job_completion_times /\ completed \cap rest = {}
    OBVIOUS
  <2>2. IsFiniteSet(completed) /\ IsFiniteSet(rest)
    BY <1>3
  <2> HIDE DEF completed, rest
  <2>3. Cardinality(completed \cup rest) =
          Cardinality(completed) + Cardinality(rest) - Cardinality(completed \cap rest)
    BY <2>2, FS_Union
  <2>4. Cardinality(completed) \in Nat /\ Cardinality(rest) \in Nat
    BY <2>2, FS_CardinalityType
  <2>5. Cardinality(job_completion_times) = Cardinality(completed) + Cardinality(rest)
    BY <2>1, <2>3, <2>4, FS_EmptySet
  <2> QED
    BY <2>5 DEF rest
<1>5. /\ Cardinality(completed) \in Nat
      /\ Cardinality(job_completion_times \ completed) \in Nat
  BY <1>3, FS_CardinalityType
<1>6. current_queue_depth' = Cardinality(job_completion_times')
  <2> HIDE DEF completed
  <2> QED
    BY <1>1, <1>4, <1>5 DEF PendingInv
<1>7. PendingInv'
  BY <1>1, <1>2, <1>6 DEF PendingInv
<1>8. QueueTypeOK'
  <2>1. current_queue_depth' \in 0 .. MaxQueueDepth
    <3> HIDE DEF completed
    <3> QED
      BY <1>1, <1>4, <1>5, QueueAssumption DEF QueueTypeOK, PendingInv
  <2> QED
    BY <1>1, <2>1 DEF QueueTypeOK
<1>9. SlotInv'
  BY <1>1 DEF SlotInv
<1> QED
  BY <1>7, <1>8, <1>9

LEMMA SubmitJobPreserves ==
  ASSUME QueueInv, NEW now \in Nat, NEW service_time \in Int, SubmitJob(now, service_time)
  PROVE  QueueInv'
<1> USE DEF QueueInv
<1> DEFINE slot == EarliestSlot
           start == StartTime(now)
           stop == start + service_time
           n == Len(schedule) + 1
           job == [submitted |-> now, slot |-> slot, start |-> start, stop |-> stop]
<1>1. /\ now >= current_time
      /\ service_time > 0
      /\ ~QueueFull
      /\ slot_available_times' = [slot_available_times EXCEPT ![slot] = stop]
      /\ job_completion_times' = job_completion_times \cup {<<stop, n>>}
      /\ schedule' = Append(schedule, job)
      /\ current_queue_depth' = current_queue_depth + 1
      /\ current_time' = current_time
  BY DEF SubmitJob
<1>2. /\ slot \in Slots
      /\ start \in Nat
      /\ start >= now
      /\ start >= slot_available_times[slot]
  BY EarliestSlotExists, StartTimeBounds DEF QueueTypeOK
<1>3. /\ stop \in Nat
      /\ start < stop
      /\ stop > current_time
      /\ stop > slot_available_times[slot]
  BY <1>1, <1>2 DEF QueueTypeOK
<1> HIDE DEF slot, start, stop
<1>4. job \in Job
  BY <1>2, <1>3 DEF Job
<1>5. /\ Len(schedule') = n
      /\ DOMAIN schedule' = DOMAIN schedule \cup {n}
      /\ n \notin DOMAIN schedule
      /\ n \in Nat \ {0}
      /\ \A i \in DOMAIN schedule : i < n /\ schedule'[i] = schedule[i]
      /\ schedule'[n] = job
  BY <1>1, <1>4 DEF QueueTypeOK
<1>6. QueueTypeOK'
  <2>1. schedule' \in Seq(Job)
    BY <1>1, <1>4 DEF QueueTypeOK
  <2>2. current_queue_depth' \in 0 .. MaxQueueDepth
    BY <1>1, QueueAssumption DEF QueueTypeOK, QueueFull
  <2>3. slot_available_times' \in [Slots -> Nat]
    BY <1>1, <1>3 DEF QueueTypeOK
  <2>4. job_completion_times' \subseteq Nat \X (Nat \ {0})
    BY <1>1, <1>3, <1>5 DEF QueueTypeOK
  <2> QED
    BY <1>1, <2>1, <2>2, <2>3, <2>4 DEF QueueTypeOK
<1>7. PendingInv'
  <2> DEFINE Pending == {i \in DOMAIN schedule : schedule[i].stop > current_time}
  <2>1. {i \in DOMAIN schedule' : schedule'[i].stop > current_time'} = Pending \cup {n}
    BY <1>1, <1>3, <1>5
  <2>2. job_completion_times = {<<schedule[i].stop, i>> : i \in Pending}
    BY DEF PendingInv
  <2>3. job_completion_times' = {<<schedule'[i].stop, i>> : i \in Pending \cup {n}}
    BY <1>1, <1>5, <2>2
  <2>4. <<stop, n>> \notin job_completion_times
    BY <1>5, <2>2
  <2>5. Cardinality(job_completion_times') = Cardinality(job_completion_times) + 1
    BY <1>1, <2>4, PendingFinite, FS_AddElement
  <2> QED
    BY <1>1, <2>1, <2>3, <2>5 DEF PendingInv
<1>8. SlotInv'
  <2>1. \A i \in DOMAIN schedule : schedule[i] \in Job
    BY DEF QueueTypeOK
  <2>2. \A i \in DOMAIN schedule :
          /\ schedule[i].stop \in Nat
          /\ schedule[i].slot \in Slots
    BY <2>1 DEF Job
  <2>3. \A s \in Slots : /\ slot_available_times[s] \in Nat
                         /\ slot_available_times'[s] \in Nat
                         /\ slot_available_times[s] <= slot_available_times'[s]
    BY <1>1, <1>2, <1>3 DEF QueueTypeOK
  <2>4. ASSUME NEW i \in DOMAIN schedule'
        PROVE  /\ schedule'[i].start < schedule'[i].stop
               /\ schedule'[i].stop <= slot_available_times'[schedule'[i].slot]
    <3>1. CASE i = n
      BY <1>1, <1>2, <1>3, <1>5, <3>1 DEF QueueTypeOK
    <3>2. CASE i \in DOMAIN schedule
      <4>1. schedule'[i] = schedule[i]
        BY <1>5, <3>2
      <4>2. /\ schedule[i].start < schedule[i].stop
            /\ schedule[i].stop <= slot_available_times[schedule[i].slot]
        BY <3>2 DEF SlotInv
      <4> QED
        BY <2>2, <2>3, <3>2, <4>1, <4>2
    <3> QED
      BY <1>5, <3>1, <3>2
  <2>5. ASSUME NEW i \in DOMAIN schedule', NEW j \in DOMAIN schedule',
               i < j, schedule'[i].slot = schedule'[j].slot
        PROVE  schedule'[i].stop <= schedule'[j].start
    <3>1. i \in DOMAIN schedule
      BY <1>5, <2>5 DEF QueueTypeOK
    <3>2. schedule'[i] = schedule[i]
      BY <1>5, <3>1
    <3>3. CASE j = n
      <4>1. schedule[i].slot = slot /\ schedule'[j].start = start
        BY <1>5, <2>5, <3>2, <3>3
      <4>2. schedule[i].stop <= slot_available_times[slot]
        BY <3>1, <4>1 DEF SlotInv
      <4>3. schedule[i].stop \in Nat /\ slot_available_times[slot] \in Nat
        BY <1>2, <2>2, <2>3, <3>1
      <4> QED
        BY <1>2, <3>2, <4>1, <4>2, <4>3
    <3>4. CASE j \in DOMAIN schedule
      BY <1>5, <2>5, <3>1, <3>2, <3>4 DEF SlotInv
    <3> QED
      BY <1>5, <3>3, <3>4
  <2> QED
    BY <2>4, <2>5 DEF SlotInv
<1> QED
  BY <1>6, <1>7, <1>8

\* The bookkeeping of the queue is invariant under whatever calls its client
\* makes (recovery_queue.cpp:26-74).
THEOREM QueueInvariance == QueueSpec => []QueueInv
<1>1. QueueInit => QueueInv
  BY QueueInvInit
<1>2. QueueInv /\ [QueueNext]_queueVars => QueueInv'
  <2> SUFFICES ASSUME QueueInv, [QueueNext]_queueVars
               PROVE  QueueInv'
    OBVIOUS
  <2>1. CASE UNCHANGED queueVars
    BY <2>1 DEF queueVars, QueueInv, QueueTypeOK, PendingInv, SlotInv
  <2>2. ASSUME NEW now \in 0 .. MaxTime, AdvanceTime(now)
        PROVE  QueueInv'
    BY <2>2, AdvanceTimePreserves, QueueAssumption
  <2>3. ASSUME NEW now \in 0 .. MaxTime, NEW service_time \in ServiceTimes,
               SubmitJob(now, service_time)
        PROVE  QueueInv'
    BY <2>3, SubmitJobPreserves, QueueAssumption
  <2> QED
    BY <2>1, <2>2, <2>3 DEF QueueNext
<1> QED
  BY <1>1, <1>2, PTL DEF QueueSpec

-----------------------------------------------------------------------------
LEMMA DepthIsPendingCount ==
  ASSUME QueueInv
  PROVE  DepthCountsPending
<1> USE DEF QueueInv
<1> DEFINE Pending == {i \in DOMAIN schedule : schedule[i].stop > current_time}
           f == [i \in Pending |-> <<schedule[i].stop, i>>]
<1>1. f \in Surjection(Pending, job_completion_times)
  BY DEF Surjection, PendingInv
<1>2. f \in Injection(Pending, job_completion_times)
  <2>1. f \in [Pending -> job_completion_times]
    BY <1>1 DEF Surjection
  <2>2. \A i, j \in Pending : f[i] = f[j] => i = j
    OBVIOUS
  <2> HIDE DEF f, Pending
  <2> QED
    BY <2>1, <2>2 DEF Injection, IsInjective
<1>3. IsFiniteSet(job_completion_times)
  BY PendingFinite
<1>4. Cardinality(Pending) = Cardinality(job_completion_times)
  BY <1>1, <1>2, <1>3, FS_Injection
<1>5. current_queue_depth <= MaxQueueDepth
  BY QueueAssumption DEF QueueTypeOK
<1> QED
  BY <1>4, <1>5 DEF DepthCountsPending, PendingInv

\* The depth counter is the number of admitted jobs that have not completed,
\* for every limit and every sequence of calls (recovery_queue.cpp:31-35, 71-72).
THEOREM DepthIsExact == QueueSpec => []DepthCountsPending
BY QueueInvariance, DepthIsPendingCount, PTL

\* Jobs that run at the same time occupy different slots.
LEMMA RunningJobsHaveSlots ==
  ASSUME QueueInv, NEW x \in Nat
  PROVE  /\ [i \in RunningAt(x) |-> schedule[i].slot] \in Injection(RunningAt(x), Slots)
         /\ IsFiniteSet(Slots) /\ Cardinality(Slots) = ConcurrencyLimit
<1> USE DEF QueueInv
<1> DEFINE slot_of == [i \in RunningAt(x) |-> schedule[i].slot]
<1>1. \A i \in DOMAIN schedule :
        /\ i \in Nat
        /\ schedule[i].slot \in Slots
        /\ schedule[i].start \in Nat
        /\ schedule[i].stop \in Nat
  <2>1. \A i \in DOMAIN schedule : i \in Nat /\ schedule[i] \in Job
    BY DEF QueueTypeOK
  <2> QED
    BY <2>1 DEF Job
<1>2. \A i \in RunningAt(x) : i \in DOMAIN schedule /\ schedule[i].start <= x
                                                    /\ x < schedule[i].stop
  BY DEF RunningAt
<1>3. slot_of \in [RunningAt(x) -> Slots]
  BY <1>1, <1>2
<1>4. ASSUME NEW i \in RunningAt(x), NEW j \in RunningAt(x), slot_of[i] = slot_of[j]
      PROVE  i = j
  <2>1. ASSUME NEW a \in RunningAt(x), NEW b \in RunningAt(x),
               schedule[a].slot = schedule[b].slot, a < b
        PROVE  FALSE
    <3>1. schedule[a].stop <= schedule[b].start
      BY <1>2, <2>1 DEF SlotInv
    <3> QED
      BY <1>1, <1>2, <3>1
  <2>2. schedule[i].slot = schedule[j].slot
    BY <1>4
  <2>3. i \in Nat /\ j \in Nat
    BY <1>1, <1>2
  <2> QED
    BY <2>1, <2>2, <2>3
<1>5. slot_of \in Injection(RunningAt(x), Slots)
  <2> HIDE DEF slot_of
  <2> QED
    BY <1>3, <1>4 DEF Injection, IsInjective
<1>6. IsFiniteSet(Slots) /\ Cardinality(Slots) = ConcurrencyLimit
  BY QueueAssumption, FS_Interval DEF Slots
<1> QED
  BY <1>5, <1>6

\* So they are at most as many.
LEMMA SlotsBoundRunningJobs ==
  ASSUME QueueInv
  PROVE  ConcurrencyRespected
<1> SUFFICES ASSUME NEW x \in Horizon
             PROVE  Cardinality(RunningAt(x)) <= ConcurrencyLimit
  BY DEF ConcurrencyRespected
<1>1. \A i \in DOMAIN schedule : schedule[i] \in Job
  BY DEF QueueInv, QueueTypeOK
<1>2. x \in Nat
  BY <1>1 DEF Horizon, Job
<1> DEFINE slot_of == [i \in RunningAt(x) |-> schedule[i].slot]
<1>3. /\ slot_of \in Injection(RunningAt(x), Slots)
      /\ IsFiniteSet(Slots) /\ Cardinality(Slots) = ConcurrencyLimit
  BY <1>2, RunningJobsHaveSlots
<1> HIDE DEF slot_of
<1> QED
  BY <1>3, FS_Injection

\* At no moment do more jobs run than the concurrency limit allows, for every
\* limit and every sequence of calls (recovery_queue.cpp:66-70).
THEOREM ConcurrencyIsBounded == QueueSpec => []ConcurrencyRespected
BY QueueInvariance, SlotsBoundRunningJobs, PTL

\* The queue keeps both of its bounds, for every concurrency limit, every depth
\* and every client, also one that submits for the future and then for an
\* earlier moment (recovery_queue.cpp:25-36, 50-75).
THEOREM QueueIsSound == QueueSpec => []QueueSound
BY DepthIsExact, ConcurrencyIsBounded, PTL DEF QueueSound

-----------------------------------------------------------------------------
(***************************************************************************)
(* The inductive invariant of the simulator.                               *)
(***************************************************************************)
\* The arrivals Run has processed.
Processed == workload \ events

\* Up to the moment at which it becomes free a slot is busy.
SlotsBusy ==
    \A s \in Slots : \A x \in current_time .. slot_available_times[s] - 1 :
        \E i \in RunningAt(x) : schedule[i].slot = s

\* While a job waits every slot is busy.
WaitersWait ==
    \A i \in DOMAIN schedule :
        \A x \in schedule[i].submitted .. schedule[i].start - 1 :
            \A s \in Slots : \E j \in RunningAt(x) : schedule[j].slot = s

\* A request's recovery is the job it has submitted.
JobInv ==
    /\ QuotesAreHonoured
    /\ \A r \in DOMAIN job_of : job_of[r] \in DOMAIN schedule

\* The events of a trace have their types.
TypedTrace(w) ==
    \A e \in w : e \in [time : Int, request : RequestIds, shard : Nat, start : Int]

\* The arrivals are processed in the order of their instants, those of one
\* request and one instant together.
OrderInv ==
    /\ TypedTrace(workload)
    /\ ValidWorkload(workload)
    /\ events \subseteq workload
    /\ \A e \in Processed : e.time \in Nat
    /\ \A e \in Processed, d \in events :
         e.time <= d.time /\ (e.request = d.request => e.time < d.time)

\* Within an instant the clock of the queue shows that instant.
InstantInv ==
    sim_pc = "groups" =>
        /\ instant = current_time
        /\ \A e \in Processed : e.time <= instant
        /\ \A d \in events : instant <= d.time

\* A tracker has marked the shards that have been processed.
TrackerInv ==
    trackers = [r \in RequestsOf(workload) |->
                  {e.shard : e \in {d \in Processed : d.request = r}}]

\* A request has completed at x: all its systematic shards had arrived, and one
\* of them not before.
CompletedAt(r, x) ==
    /\ x \in Nat
    /\ \A s \in Systematic(Graph) :
         \E e \in Processed : e.request = r /\ e.shard = s /\ e.time <= x
    /\ \E s \in Systematic(Graph) :
         /\ \E e \in Processed : e.request = r /\ e.shard = s /\ e.time = x
         /\ \A e \in workload : e.request = r /\ e.shard = s => x <= e.time

NaturalInv ==
    /\ DOMAIN natural_completion_times =
         {r \in RequestsOf(workload) : Complete(trackers[r])}
    /\ \A r \in DOMAIN natural_completion_times :
         CompletedAt(r, natural_completion_times[r])

\* Somebody has taken a decision on request r.
DecidedOn(r) ==
    \/ r \in DOMAIN recovery_completion_times
    \/ r \in recovery_rejected
    \/ r \in recovery_waited
    \/ r \in recovery_unrecoverable

DecisionInv ==
    \A e \in Processed :
        \/ DecidedOn(e.request)
        \/ /\ e.request \in DOMAIN natural_completion_times
           /\ natural_completion_times[e.request] <= e.time

\* What Run has returned.
ReportInv ==
    sim_pc = "done" =>
        /\ events = {}
        /\ RequestsOf(workload) \subseteq DOMAIN natural_completion_times
        /\ metrics = [r \in RequestsOf(workload) |-> RequestMetrics(r)]

TraceInv == OrderInv /\ InstantInv /\ TrackerInv /\ NaturalInv /\ DecisionInv /\ ReportInv

RunInv == sim_pc \in {"instants", "groups", "done"} => TraceInv

ClusterInv == QueueInv /\ SlotsBusy /\ WaitersWait /\ JobInv /\ RunInv

-----------------------------------------------------------------------------
\* The types of a scheduled job.
LEMMA JobTypes ==
  ASSUME QueueInv
  PROVE  \A i \in DOMAIN schedule : /\ i \in Nat
                                    /\ schedule[i].submitted \in Nat
                                    /\ schedule[i].slot \in Slots
                                    /\ schedule[i].start \in Nat
                                    /\ schedule[i].stop \in Nat
<1>1. \A i \in DOMAIN schedule : i \in Nat /\ schedule[i] \in Job
  BY DEF QueueInv, QueueTypeOK
<1> QED
  BY <1>1 DEF Job

\* What a submission adds to the schedule.
LEMMA SubmitJobEffect ==
  ASSUME QueueInv, NEW now \in Nat, NEW service_time \in Int, SubmitJob(now, service_time)
  PROVE  /\ DOMAIN schedule' = DOMAIN schedule \cup {Len(schedule) + 1}
         /\ Len(schedule') = Len(schedule) + 1
         /\ Len(schedule) + 1 \notin DOMAIN schedule
         /\ \A i \in DOMAIN schedule : schedule'[i] = schedule[i]
         /\ schedule'[Len(schedule) + 1] =
              [submitted |-> now, slot |-> EarliestSlot, start |-> StartTime(now),
               stop |-> StartTime(now) + service_time]
<1> DEFINE job == [submitted |-> now, slot |-> EarliestSlot, start |-> StartTime(now),
                   stop |-> StartTime(now) + service_time]
<1>1. schedule' = Append(schedule, job) /\ service_time > 0
  BY DEF SubmitJob
<1>2. job \in Job
  <2>1. /\ EarliestSlot \in Slots
        /\ StartTime(now) \in Nat
    BY EarliestSlotExists, StartTimeBounds DEF QueueInv, QueueTypeOK
  <2>2. StartTime(now) + service_time \in Nat
    BY <1>1, <2>1
  <2> QED
    BY <2>1, <2>2 DEF Job
<1>3. schedule \in Seq(Job)
  BY DEF QueueInv, QueueTypeOK
<1> HIDE DEF job
<1>4. /\ DOMAIN schedule' = DOMAIN schedule \cup {Len(schedule) + 1}
      /\ Len(schedule') = Len(schedule) + 1
      /\ Len(schedule) + 1 \notin DOMAIN schedule
      /\ \A i \in DOMAIN schedule : schedule'[i] = schedule[i]
      /\ schedule'[Len(schedule) + 1] = job
  BY <1>1, <1>2, <1>3
<1> QED
  BY <1>4 DEF job

\* A job that runs keeps running when another one is admitted.
LEMMA RunningJobsStay ==
  ASSUME QueueInv, NEW now \in Nat, NEW service_time \in Int, SubmitJob(now, service_time),
         NEW x \in Nat, NEW s,
         \E i \in RunningAt(x) : schedule[i].slot = s
  PROVE  (\E i \in RunningAt(x) : schedule[i].slot = s)'
<1>1. PICK i \in RunningAt(x) : schedule[i].slot = s
  OBVIOUS
<1>2. i \in DOMAIN schedule' /\ schedule'[i] = schedule[i]
  BY SubmitJobEffect DEF RunningAt
<1> QED
  BY <1>1, <1>2 DEF RunningAt

\* The earliest slot is taken from the moment at which it becomes free, so no
\* slot has a gap: a submission at the current time keeps every slot busy up to
\* the moment at which it becomes free, and starts late only if all are busy.
LEMMA SubmitNowConservesWork ==
  ASSUME QueueInv, SlotsBusy, WaitersWait,
         NEW service_time \in Int, SubmitJob(current_time, service_time)
  PROVE  SlotsBusy' /\ WaitersWait'
<1> DEFINE n == Len(schedule) + 1
<1>1. current_time \in Nat /\ slot_available_times \in [Slots -> Nat]
  BY DEF QueueInv, QueueTypeOK
<1>2. /\ slot_available_times' = [slot_available_times EXCEPT ![EarliestSlot] =
                                     StartTime(current_time) + service_time]
      /\ current_time' = current_time
      /\ service_time > 0
  BY DEF SubmitJob
<1>3. /\ DOMAIN schedule' = DOMAIN schedule \cup {n}
      /\ \A i \in DOMAIN schedule : schedule'[i] = schedule[i]
      /\ schedule'[n].submitted = current_time
      /\ schedule'[n].slot = EarliestSlot
      /\ schedule'[n].start = StartTime(current_time)
      /\ schedule'[n].stop = StartTime(current_time) + service_time
  <2>1. /\ DOMAIN schedule' = DOMAIN schedule \cup {n}
        /\ \A i \in DOMAIN schedule : schedule'[i] = schedule[i]
        /\ schedule'[n] = [submitted |-> current_time, slot |-> EarliestSlot,
                           start |-> StartTime(current_time),
                           stop |-> StartTime(current_time) + service_time]
    BY <1>1, SubmitJobEffect
  <2> QED
    BY <2>1
<1>4. /\ EarliestSlot \in Slots
      /\ StartTime(current_time) \in Nat
      /\ \A u \in Slots : slot_available_times[EarliestSlot] <= slot_available_times[u]
  BY <1>1, EarliestSlotExists, StartTimeBounds
<1>5. StartTime(current_time) = IF current_time < slot_available_times[EarliestSlot]
                                  THEN slot_available_times[EarliestSlot]
                                  ELSE current_time
  BY DEF StartTime, Later
<1> HIDE DEF n
<1>6. SlotsBusy'
  <2> SUFFICES ASSUME NEW s \in Slots,
                      NEW x \in current_time .. slot_available_times'[s] - 1
               PROVE  (\E i \in RunningAt(x) : schedule[i].slot = s)'
    BY <1>2 DEF SlotsBusy, Slots
  <2>1. x \in Nat /\ x >= current_time
    BY <1>1
  <2>2. CASE x < slot_available_times[s]
    <3>1. x \in current_time .. slot_available_times[s] - 1
      BY <1>1, <2>1, <2>2
    <3>2. \E i \in RunningAt(x) : schedule[i].slot = s
      BY <3>1 DEF SlotsBusy
    <3> QED
      BY <1>1, <2>1, <3>2, RunningJobsStay
  <2>3. CASE ~(x < slot_available_times[s])
    <3>1. s = EarliestSlot
      BY <1>1, <1>2, <2>1, <2>3
    <3>2. StartTime(current_time) <= x /\ x < StartTime(current_time) + service_time
      BY <1>1, <1>2, <1>4, <1>5, <2>1, <2>3, <3>1
    <3> QED
      BY <1>3, <3>1, <3>2 DEF RunningAt
  <2> QED
    BY <2>2, <2>3
<1>7. WaitersWait'
  <2> SUFFICES ASSUME NEW i \in DOMAIN schedule',
                      NEW x \in schedule'[i].submitted .. schedule'[i].start - 1,
                      NEW s \in Slots
               PROVE  (\E j \in RunningAt(x) : schedule[j].slot = s)'
    BY DEF WaitersWait, Slots
  <2>1. CASE i \in DOMAIN schedule
    <3>1. x \in schedule[i].submitted .. schedule[i].start - 1 /\ x \in Nat
      BY <1>3, <2>1, JobTypes
    <3>2. \E j \in RunningAt(x) : schedule[j].slot = s
      BY <2>1, <3>1 DEF WaitersWait
    <3> QED
      BY <1>1, <3>1, <3>2, RunningJobsStay
  <2>2. CASE i = n
    <3>1. x \in current_time .. slot_available_times[EarliestSlot] - 1 /\ x \in Nat
      BY <1>1, <1>3, <1>4, <1>5, <2>2
    <3>2. x \in current_time .. slot_available_times[s] - 1
      BY <1>1, <1>4, <3>1
    <3>3. \E j \in RunningAt(x) : schedule[j].slot = s
      BY <3>2 DEF SlotsBusy
    <3> QED
      BY <1>1, <3>1, <3>3, RunningJobsStay
  <2> QED
    BY <1>3, <2>1, <2>2
<1> QED
  BY <1>6, <1>7

\* As many jobs run as there are slots when each slot runs one.
LEMMA BusySlotsAreFull ==
  ASSUME QueueInv, WaitersWait
  PROVE  WorkConserving
<1> SUFFICES ASSUME NEW i \in DOMAIN schedule,
                    NEW x \in schedule[i].submitted .. schedule[i].start - 1
             PROVE  Cardinality(RunningAt(x)) = ConcurrencyLimit
  BY DEF WorkConserving
<1>1. x \in Nat
  BY JobTypes
<1> DEFINE slot_of == [j \in RunningAt(x) |-> schedule[j].slot]
<1>2. /\ slot_of \in Injection(RunningAt(x), Slots)
      /\ IsFiniteSet(Slots) /\ Cardinality(Slots) = ConcurrencyLimit
  BY <1>1, RunningJobsHaveSlots
<1>3. slot_of \in Surjection(RunningAt(x), Slots)
  <2>1. \A s \in Slots : \E j \in RunningAt(x) : schedule[j].slot = s
    BY DEF WaitersWait
  <2>2. \A s \in Slots : \E j \in RunningAt(x) : slot_of[j] = s
    BY <2>1
  <2>3. slot_of \in [RunningAt(x) -> Slots]
    BY <1>2 DEF Injection
  <2> HIDE DEF slot_of
  <2> QED
    BY <2>2, <2>3 DEF Surjection
<1> HIDE DEF slot_of
<1> QED
  BY <1>2, <1>3, FS_Injection

-----------------------------------------------------------------------------
(***************************************************************************)
(* The trace.                                                              *)
(***************************************************************************)

LEMMA WorkloadsTyped == \A w \in Workloads : TypedTrace(w)
BY ClusterAssumption DEF TypedTrace

LEMMA WorkloadTypes ==
  ASSUME NEW w, TypedTrace(w), NEW e \in w
  PROVE  /\ e.time \in Int /\ e.start \in Int
         /\ e.request \in RequestIds /\ e.request \in Nat
         /\ e.shard \in Nat
<1>1. e \in [time : Int, request : RequestIds, shard : Nat, start : Int]
  BY DEF TypedTrace
<1> QED
  BY <1>1, ClusterAssumption

\* ValidateGraph leaves no graph without systematic shards.
LEMMA SystematicShardExists == 0 \in Systematic(Graph)
BY ClusterAssumption DEF IsBipartiteGraph, ValidateGraph, Systematic

\* Marking the arrivals of one request and one instant.
LEMMA MarkGroupEffect ==
  ASSUME QueueInv, OrderInv, InstantInv, TrackerInv, NEW r, MarkGroup(r), workload' = workload
  PROVE  /\ r \in RequestsOf(workload)
         /\ instant \in Nat
         /\ Group(r) # {} /\ Group(r) \subseteq events
         /\ events' = events \ Group(r)
         /\ Processed' = Processed \cup Group(r)
         /\ \A e \in Group(r) : e.time = instant /\ e.request = r
         /\ \A e \in Processed : e.time <= instant /\ (e.request = r => e.time < instant)
         /\ \A d \in events' : instant <= d.time /\ (d.request = r => instant < d.time)
<1>1. /\ sim_pc = "groups"
      /\ \E e \in events : e.time = instant /\ e.request = r
      /\ events' = events \ Group(r)
  BY DEF MarkGroup, Turn
<1>2. /\ instant = current_time
      /\ \A e \in Processed : e.time <= instant
      /\ \A d \in events : instant <= d.time
  BY <1>1 DEF InstantInv
<1>3. instant \in Nat
  BY <1>2 DEF QueueInv, QueueTypeOK
<1>4. events \subseteq workload
  BY DEF OrderInv
<1>5. Group(r) # {} /\ Group(r) \subseteq events
  BY <1>1 DEF Group
<1>6. r \in RequestsOf(workload)
  BY <1>1, <1>4 DEF RequestsOf
<1>7. Processed' = Processed \cup Group(r)
  BY <1>1, <1>4, <1>5 DEF Processed
<1>8. \A e \in Group(r) : e.time = instant /\ e.request = r
  BY DEF Group
<1>9. ASSUME NEW e \in Processed, e.request = r
      PROVE  e.time < instant
  <2>1. PICK d \in events : d.time = instant /\ d.request = r
    BY <1>1
  <2> QED
    BY <1>9, <2>1 DEF OrderInv
<1>10. ASSUME NEW d \in events', d.request = r
       PROVE  instant < d.time
  <2>1. d \in events /\ d \notin Group(r)
    BY <1>1
  <2>2. d.time # instant
    BY <1>10, <2>1 DEF Group
  <2>3. d.time \in Int
    BY <1>4, <2>1, WorkloadTypes DEF OrderInv
  <2> QED
    BY <1>2, <1>3, <2>1, <2>2, <2>3
<1> QED
  BY <1>1, <1>2, <1>3, <1>5, <1>6, <1>7, <1>8, <1>9, <1>10

\* The trackers follow the trace, one request at a time.
LEMMA MarkGroupTrackers ==
  ASSUME QueueInv, OrderInv, InstantInv, TrackerInv, NEW r, MarkGroup(r), workload' = workload
  PROVE  /\ TrackerInv'
         /\ trackers'[r] = trackers[r] \cup {e.shard : e \in Group(r)}
         /\ \A q \in RequestsOf(workload) : q # r => trackers'[q] = trackers[q]
<1> DEFINE Marked(E, q) == {e.shard : e \in {d \in E : d.request = q}}
<1>1. trackers = [q \in RequestsOf(workload) |-> Marked(Processed, q)]
  BY DEF TrackerInv
<1>2. trackers' = [trackers EXCEPT ![r] = @ \cup {e.shard : e \in Group(r)}]
  BY DEF MarkGroup
<1>3. /\ r \in RequestsOf(workload)
      /\ Processed' = Processed \cup Group(r)
      /\ \A e \in Group(r) : e.request = r
  BY MarkGroupEffect
<1>4. Marked(Processed', r) = Marked(Processed, r) \cup {e.shard : e \in Group(r)}
  BY <1>3
<1>5. \A q : q # r => Marked(Processed', q) = Marked(Processed, q)
  BY <1>3
<1> HIDE DEF Marked
<1>6. /\ trackers'[r] = trackers[r] \cup {e.shard : e \in Group(r)}
      /\ \A q \in RequestsOf(workload) : q # r => trackers'[q] = trackers[q]
  BY <1>1, <1>2, <1>3
<1>7. trackers' = [q \in RequestsOf(workload) |-> Marked(Processed', q)]
  BY <1>1, <1>2, <1>3, <1>4, <1>5
<1>8. TrackerInv'
  BY <1>7 DEF TrackerInv, Marked, RequestsOf
<1> QED
  BY <1>6, <1>8

LEMMA MarkGroupOrder ==
  ASSUME QueueInv, OrderInv, InstantInv, TrackerInv, NEW r, MarkGroup(r), Continue,
         UNCHANGED <<workload, instant, current_time>>
  PROVE  OrderInv' /\ InstantInv'
<1>1. /\ instant \in Nat
      /\ Group(r) \subseteq events
      /\ events' = events \ Group(r)
      /\ Processed' = Processed \cup Group(r)
      /\ \A e \in Group(r) : e.time = instant /\ e.request = r
      /\ \A e \in Processed : e.time <= instant /\ (e.request = r => e.time < instant)
      /\ \A d \in events' : instant <= d.time /\ (d.request = r => instant < d.time)
  BY MarkGroupEffect
<1>2. sim_pc = "groups"
  BY DEF MarkGroup, Turn
<1>3. \A e \in Processed' : e.time \in Nat /\ e.time <= instant
  BY <1>1 DEF OrderInv
<1>4. ASSUME NEW e \in Processed', NEW d \in events'
      PROVE  e.time <= d.time /\ (e.request = d.request => e.time < d.time)
  <2>1. CASE e \in Processed
    BY <1>1, <2>1 DEF OrderInv
  <2>2. CASE e \in Group(r)
    BY <1>1, <2>2
  <2> QED
    BY <1>1, <2>1, <2>2
<1>5. OrderInv'
  BY <1>1, <1>3, <1>4 DEF OrderInv, ValidWorkload
<1>6. InstantInv'
  BY <1>1, <1>2, <1>3 DEF InstantInv
<1> QED
  BY <1>5, <1>6

\* A request that had completed has completed at the same instant.
LEMMA CompletedAtStays ==
  ASSUME NEW r, NEW x, CompletedAt(r, x), Processed \subseteq Processed', workload' = workload
  PROVE  CompletedAt(r, x)'
<1>1. x \in Nat
  BY DEF CompletedAt
<1>2. \A s \in Systematic(Graph) :
        \E e \in Processed' : e.request = r /\ e.shard = s /\ e.time <= x
  BY DEF CompletedAt
<1>3. \E s \in Systematic(Graph) :
         /\ \E e \in Processed' : e.request = r /\ e.shard = s /\ e.time = x
         /\ \A e \in workload' : e.request = r /\ e.shard = s => x <= e.time
  BY DEF CompletedAt
<1> QED
  BY <1>1, <1>2, <1>3 DEF CompletedAt

\* The instant at which a group completes its request is the one at which the
\* last systematic shard has arrived for the first time.
LEMMA CompletionInstant ==
  ASSUME QueueInv, OrderInv, InstantInv, TrackerInv, NEW r, MarkGroup(r), workload' = workload,
         ~Complete(trackers[r]), Complete(trackers'[r]), NEW x, x = instant
  PROVE  CompletedAt(r, x)'
<1>1. /\ r \in RequestsOf(workload)
      /\ x \in Nat
      /\ Group(r) \subseteq events
      /\ events' = events \ Group(r)
      /\ Processed' = Processed \cup Group(r)
      /\ \A e \in Group(r) : e.time = x /\ e.request = r
      /\ \A e \in Processed : e.time <= x
      /\ \A d \in events' : x <= d.time
  BY MarkGroupEffect
<1>2. /\ trackers'[r] = {e.shard : e \in {d \in Processed' : d.request = r}}
      /\ trackers[r] = {e.shard : e \in {d \in Processed : d.request = r}}
      /\ trackers'[r] = trackers[r] \cup {e.shard : e \in Group(r)}
  <2>1. TrackerInv' /\ TrackerInv
    BY MarkGroupTrackers
  <2>2. r \in RequestsOf(workload')
    BY <1>1
  <2>3. trackers[r] = {e.shard : e \in {d \in Processed : d.request = r}}
    BY <1>1, <2>1 DEF TrackerInv
  <2>4. trackers'[r] = {e.shard : e \in {d \in Processed' : d.request = r}}
    BY <2>1, <2>2 DEF TrackerInv, RequestsOf
  <2> QED
    BY <2>3, <2>4, MarkGroupTrackers
<1>3. ASSUME NEW s \in Systematic(Graph)
      PROVE  \E e \in Processed' : e.request = r /\ e.shard = s /\ e.time <= x
  <2>1. s \in trackers'[r]
    BY <1>3 DEF Complete
  <2>2. PICK e \in Processed' : e.request = r /\ e.shard = s
    BY <1>2, <2>1
  <2>3. e.time <= x
    BY <1>1
  <2> QED
    BY <2>2, <2>3
<1>4. PICK s \in Systematic(Graph) : s \notin trackers[r]
  BY DEF Complete
<1>5. PICK e \in Group(r) : e.shard = s
  BY <1>2, <1>4 DEF Complete
<1>6. \E d \in Processed' : d.request = r /\ d.shard = s /\ d.time = x
  BY <1>1, <1>5
<1>7. ASSUME NEW d \in workload', d.request = r, d.shard = s
      PROVE  x <= d.time
  <2>1. d \notin Processed
    BY <1>2, <1>4, <1>7
  <2>2. d \in Group(r) \/ d \in events'
    BY <1>1, <2>1 DEF Processed
  <2> QED
    BY <1>1, <2>2
<1> QED
  BY <1>1, <1>3, <1>4, <1>6, <1>7 DEF CompletedAt

-----------------------------------------------------------------------------
(***************************************************************************)
(* One iteration of the inner loop.                                        *)
(***************************************************************************)

\* A group that leaves its request incomplete changes no completion time.
LEMMA IncompleteKeepsNatural ==
  ASSUME QueueInv, OrderInv, InstantInv, TrackerInv, NaturalInv,
         NEW r, MarkGroup(r), ~Complete(trackers'[r]),
         UNCHANGED <<workload, natural_completion_times>>
  PROVE  NaturalInv'
<1>1. /\ trackers'[r] = trackers[r] \cup {e.shard : e \in Group(r)}
      /\ \A q \in RequestsOf(workload) : q # r => trackers'[q] = trackers[q]
  BY MarkGroupTrackers
<1>2. ~Complete(trackers[r])
  BY <1>1 DEF Complete
<1>3. \A q \in RequestsOf(workload) : Complete(trackers[q]) <=> Complete(trackers'[q])
  BY <1>1, <1>2 DEF Complete
<1>4. DOMAIN natural_completion_times =
        {q \in RequestsOf(workload) : Complete(trackers'[q])}
  BY <1>3 DEF NaturalInv
<1>5. Processed \subseteq Processed'
  BY MarkGroupEffect
<1>6. \A q \in DOMAIN natural_completion_times :
        CompletedAt(q, natural_completion_times[q])'
  <2> SUFFICES ASSUME NEW q \in DOMAIN natural_completion_times,
                      NEW x, x = natural_completion_times[q]
               PROVE  CompletedAt(q, x)'
    OBVIOUS
  <2> QED
    BY <1>5, CompletedAtStays DEF NaturalInv
<1> QED
  BY <1>4, <1>6 DEF NaturalInv, RequestsOf, Complete

\* A decision on the request accounts for its group.
LEMMA DecisionAccounts ==
  ASSUME QueueInv, OrderInv, InstantInv, TrackerInv, DecisionInv,
         NEW r, MarkGroup(r), UNCHANGED <<workload, natural_completion_times>>,
         DecidedOn(r)', \A q : DecidedOn(q) => DecidedOn(q)'
  PROVE  DecisionInv'
<1>1. /\ Processed' = Processed \cup Group(r)
      /\ \A e \in Group(r) : e.request = r
  BY MarkGroupEffect
<1> SUFFICES ASSUME NEW e \in Processed'
             PROVE  \/ DecidedOn(e.request)'
                    \/ /\ e.request \in DOMAIN natural_completion_times
                       /\ natural_completion_times[e.request] <= e.time
  BY DEF DecisionInv
<1>2. CASE e \in Group(r)
  BY <1>1, <1>2
<1>3. CASE e \in Processed
  BY <1>3 DEF DecisionInv
<1> QED
  BY <1>1, <1>2, <1>3

LEMMA NaturalCompletionPreserves ==
  ASSUME QueueInv, TraceInv, NEW r, NaturalCompletion(r)
  PROVE  NaturalInv' /\ DecisionInv'
<1> USE DEF TraceInv
<1>1. /\ MarkGroup(r)
      /\ Complete(trackers'[r])
      /\ workload' = workload
      /\ natural_completion_times' =
           IF r \in DOMAIN natural_completion_times
             THEN natural_completion_times
             ELSE Put(natural_completion_times, r, instant)
      /\ \A q : DecidedOn(q)' <=> DecidedOn(q)
  BY DEF NaturalCompletion, DecidedOn
<1>2. /\ r \in RequestsOf(workload)
      /\ instant \in Nat
      /\ Processed' = Processed \cup Group(r)
      /\ \A e \in Group(r) : e.time = instant /\ e.request = r
      /\ \A e \in Processed : e.time <= instant
  BY <1>1, MarkGroupEffect
<1>3. \A q \in RequestsOf(workload) : q # r => trackers'[q] = trackers[q]
  BY <1>1, MarkGroupTrackers
<1>4. /\ DOMAIN natural_completion_times' = DOMAIN natural_completion_times \cup {r}
      /\ \A q \in DOMAIN natural_completion_times :
           natural_completion_times'[q] = natural_completion_times[q]
      /\ r \notin DOMAIN natural_completion_times => natural_completion_times'[r] = instant
  BY <1>1 DEF Put
<1>5. DOMAIN natural_completion_times' =
        {q \in RequestsOf(workload) : Complete(trackers'[q])}
  BY <1>1, <1>2, <1>3, <1>4 DEF NaturalInv
<1>6. ASSUME NEW q \in DOMAIN natural_completion_times',
             NEW x, x = natural_completion_times'[q]
      PROVE  CompletedAt(q, x)'
  <2>1. CASE q \in DOMAIN natural_completion_times
    <3>1. CompletedAt(q, x)
      BY <1>4, <1>6, <2>1 DEF NaturalInv
    <3> QED
      BY <1>1, <1>2, <3>1, CompletedAtStays
  <2>2. CASE q \notin DOMAIN natural_completion_times
    <3>1. q = r /\ x = instant /\ ~Complete(trackers[r])
      BY <1>2, <1>4, <1>6, <2>2 DEF NaturalInv
    <3> QED
      BY <1>1, <3>1, CompletionInstant
  <2> QED
    BY <2>1, <2>2
<1>7. NaturalInv'
  BY <1>1, <1>5, <1>6 DEF NaturalInv, RequestsOf, Complete
<1>8. DecisionInv'
  <2> SUFFICES ASSUME NEW e \in Processed'
               PROVE  \/ DecidedOn(e.request)'
                      \/ /\ e.request \in DOMAIN natural_completion_times'
                         /\ natural_completion_times'[e.request] <= e.time
    BY DEF DecisionInv
  <2>1. CASE e \in Processed
    BY <1>1, <1>4, <2>1 DEF DecisionInv
  <2>2. CASE e \in Group(r) /\ r \notin DOMAIN natural_completion_times
    BY <1>2, <1>4, <2>2
  <2>3. CASE e \in Group(r) /\ r \in DOMAIN natural_completion_times
    <3>1. CompletedAt(r, natural_completion_times[r])
      BY <2>3 DEF NaturalInv
    <3>2. \E d \in Processed : d.time = natural_completion_times[r]
      BY <3>1 DEF CompletedAt
    <3>3. natural_completion_times[r] <= instant
      BY <1>2, <3>2
    <3> QED
      BY <1>2, <1>4, <2>3, <3>3
  <2> QED
    BY <1>2, <2>1, <2>2, <2>3
<1> QED
  BY <1>7, <1>8

\* An iteration that takes a decision, or finds one taken.
LEMMA GroupPreserves ==
  ASSUME QueueInv, TraceInv, NEW r, MarkGroup(r), ~Complete(trackers'[r]), Continue,
         UNCHANGED <<workload, instant, current_time, natural_completion_times>>,
         DecidedOn(r)', \A q : DecidedOn(q) => DecidedOn(q)'
  PROVE  TraceInv'
<1> USE DEF TraceInv
<1>1. OrderInv' /\ InstantInv'
  BY MarkGroupOrder
<1>2. TrackerInv'
  BY MarkGroupTrackers
<1>3. NaturalInv'
  BY IncompleteKeepsNatural
<1>4. DecisionInv'
  BY DecisionAccounts
<1>5. ReportInv'
  BY DEF Continue, ReportInv
<1> QED
  BY <1>1, <1>2, <1>3, <1>4, <1>5

\* The invariant of Run when a Run begins.
LEMMA BeginEstablishes ==
  ASSUME NEW w, TypedTrace(w), Begin(w)
  PROVE  RunInv'
<1> SUFFICES ASSUME sim_pc' \in {"instants", "groups", "done"}
             PROVE  TraceInv'
  BY DEF RunInv
<1>1. /\ workload' = w /\ events' = w
      /\ sim_pc' = "instants"
      /\ ValidWorkload(w)
      /\ trackers' = [r \in RequestsOf(w) |-> {}]
      /\ DOMAIN natural_completion_times' = {}
  BY DEF Begin
<1>2. Processed' = {}
  BY <1>1 DEF Processed
<1>3. OrderInv'
  BY <1>1, <1>2 DEF OrderInv, ValidWorkload
<1>4. InstantInv' /\ ReportInv'
  BY <1>1 DEF InstantInv, ReportInv
<1>5. TrackerInv'
  BY <1>1, <1>2 DEF TrackerInv, RequestsOf
<1>6. NaturalInv'
  <2>1. \A r \in RequestsOf(w) : ~Complete(trackers'[r])
    BY <1>1, SystematicShardExists DEF Complete
  <2> QED
    BY <1>1, <2>1 DEF NaturalInv, RequestsOf, Complete
<1>7. DecisionInv'
  BY <1>2 DEF DecisionInv
<1> QED
  BY <1>3, <1>4, <1>5, <1>6, <1>7 DEF TraceInv

\* The loop over the instants only moves the clock.
LEMMA NextInstantPreserves ==
  ASSUME ClusterInv, NextInstant
  PROVE  ClusterInv'
<1> USE DEF ClusterInv
<1>1. /\ sim_pc = "instants"
      /\ workload' = workload /\ events' = events /\ trackers' = trackers
      /\ UNCHANGED outcomeVars
      /\ metrics' = metrics
  BY DEF NextInstant
<1>2. PICK e \in events :
         /\ \A d \in events : e.time <= d.time
         /\ instant' = e.time
         /\ IF e.time >= 0 /\ e.time >= current_time
              THEN AdvanceTime(e.time) /\ sim_pc' = "groups"
              ELSE sim_pc' = "threw" /\ UNCHANGED queueVars
  BY DEF NextInstant
<1>3. TraceInv
  BY <1>1 DEF RunInv
<1>4. e \in workload /\ e.time \in Int
  BY <1>3, WorkloadTypes DEF TraceInv, OrderInv
<1>5. CASE e.time >= 0 /\ e.time >= current_time
  <2>1. /\ AdvanceTime(e.time)
        /\ sim_pc' = "groups"
        /\ e.time \in Nat
        /\ schedule' = schedule
        /\ slot_available_times' = slot_available_times
        /\ current_time' = e.time
        /\ current_time \in Nat
    BY <1>2, <1>4, <1>5 DEF AdvanceTime, QueueInv, QueueTypeOK
  <2>2. QueueInv'
    BY <2>1, AdvanceTimePreserves
  <2>3. SlotsBusy'
    <3> SUFFICES ASSUME NEW s \in Slots, NEW x \in e.time .. slot_available_times[s] - 1
                 PROVE  \E i \in RunningAt(x) : schedule[i].slot = s
      BY <2>1 DEF SlotsBusy, RunningAt, Slots
    <3>1. x \in current_time .. slot_available_times[s] - 1
      BY <1>5, <2>1 DEF QueueInv, QueueTypeOK
    <3> QED
      BY <3>1 DEF SlotsBusy
  <2>4. WaitersWait'
    BY <2>1 DEF WaitersWait, RunningAt, Slots
  <2>5. JobInv'
    BY <1>1, <2>1 DEF JobInv, QuotesAreHonoured, outcomeVars
  <2>6. Processed' = Processed
    BY <1>1 DEF Processed
  <2>7. OrderInv'
    BY <1>1, <1>3, <2>6 DEF TraceInv, OrderInv, ValidWorkload
  <2>8. InstantInv'
    <3>1. \A d \in Processed : d.time <= e.time
      BY <1>3 DEF TraceInv, OrderInv
    <3> QED
      BY <1>1, <1>2, <2>1, <2>6, <3>1 DEF InstantInv
  <2>9. TrackerInv'
    BY <1>1, <1>3, <2>6 DEF TraceInv, TrackerInv, RequestsOf
  <2>10. NaturalInv' /\ DecisionInv'
    BY <1>1, <1>3, <2>6
       DEF TraceInv, NaturalInv, CompletedAt, DecisionInv, DecidedOn, RequestsOf, outcomeVars,
           Complete
  <2>11. ReportInv'
    BY <2>1 DEF ReportInv
  <2> QED
    BY <2>2, <2>3, <2>4, <2>5, <2>7, <2>8, <2>9, <2>10, <2>11 DEF RunInv, TraceInv
<1>6. CASE ~(e.time >= 0 /\ e.time >= current_time)
  <2>1. sim_pc' = "threw" /\ UNCHANGED queueVars
    BY <1>2, <1>6
  <2> QED
    BY <1>1, <2>1
       DEF queueVars, outcomeVars, QueueInv, QueueTypeOK, PendingInv, SlotInv, SlotsBusy,
           WaitersWait, RunningAt, Slots, JobInv, QuotesAreHonoured, RunInv
<1> QED
  BY <1>5, <1>6

\* What a step that leaves the queue alone keeps.
LEMMA QueueUntouched ==
  ASSUME ClusterInv, UNCHANGED queueVars,
         UNCHANGED <<job_of, recovery_completion_times>>
  PROVE  QueueInv' /\ SlotsBusy' /\ WaitersWait' /\ JobInv'
<1>1. QueueInv'
  BY DEF queueVars, ClusterInv, QueueInv, QueueTypeOK, PendingInv, SlotInv
<1>2. SlotsBusy' /\ WaitersWait'
  BY DEF queueVars, ClusterInv, SlotsBusy, WaitersWait, RunningAt, Slots
<1>3. JobInv'
  BY DEF queueVars, ClusterInv, JobInv, QuotesAreHonoured
<1> QED
  BY <1>1, <1>2, <1>3

LEMMA ProcessGroupPreserves ==
  ASSUME ClusterInv, NEW r, ProcessGroup(r)
  PROVE  ClusterInv'
<1> USE DEF ClusterInv
<1>1. UNCHANGED queueVars /\ UNCHANGED <<job_of, recovery_completion_times>>
  BY DEF ProcessGroup, GroupThrows, NaturalCompletion, AlreadyRecovering, CannotRecover,
         outcomeVars
<1>2. QueueInv' /\ SlotsBusy' /\ WaitersWait' /\ JobInv'
  BY <1>1, QueueUntouched
<1>3. sim_pc = "groups" /\ TraceInv
  BY DEF ProcessGroup, GroupThrows, NaturalCompletion, AlreadyRecovering, CannotRecover,
         Undecided, MarkGroup, Turn, RunInv
<1>4. current_time' = current_time
  BY <1>1 DEF queueVars
<1>5. CASE GroupThrows(r)
  BY <1>2, <1>5 DEF GroupThrows, RunInv
<1>6. CASE NaturalCompletion(r)
  <2>1. /\ MarkGroup(r)
        /\ Continue
        /\ UNCHANGED <<workload, instant, current_time>>
    BY <1>4, <1>6 DEF NaturalCompletion
  <2>2. OrderInv' /\ InstantInv' /\ TrackerInv'
    BY <1>3, <2>1, MarkGroupOrder, MarkGroupTrackers DEF TraceInv
  <2>3. NaturalInv' /\ DecisionInv'
    BY <1>3, <1>6, NaturalCompletionPreserves
  <2>4. ReportInv'
    BY <2>1 DEF Continue, ReportInv
  <2> QED
    BY <1>2, <2>2, <2>3, <2>4 DEF RunInv, TraceInv
<1>7. CASE AlreadyRecovering(r)
  <2>1. /\ MarkGroup(r)
        /\ ~Complete(trackers'[r])
        /\ Continue
        /\ UNCHANGED <<workload, instant, current_time, natural_completion_times>>
        /\ DecidedOn(r)'
        /\ \A q : DecidedOn(q) => DecidedOn(q)'
    BY <1>4, <1>7 DEF AlreadyRecovering, outcomeVars, DecidedOn
  <2> QED
    BY <1>2, <1>3, <2>1, GroupPreserves DEF RunInv
<1>8. CASE CannotRecover(r)
  <2>1. /\ MarkGroup(r)
        /\ ~Complete(trackers'[r])
        /\ Continue
        /\ UNCHANGED <<workload, instant, current_time, natural_completion_times>>
        /\ DecidedOn(r)'
        /\ \A q : DecidedOn(q) => DecidedOn(q)'
    BY <1>4, <1>8 DEF CannotRecover, Undecided, DecidedOn
  <2> QED
    BY <1>2, <1>3, <2>1, GroupPreserves DEF RunInv
<1> QED
  BY <1>5, <1>6, <1>7, <1>8 DEF ProcessGroup

\* The quote is the time the submission really takes: nothing happens to the
\* queue in between.
LEMMA AdmitPreserves ==
  ASSUME ClusterInv, NEW r, NEW service_time \in Int, NEW wait_cost \in Int,
         Admit(r, service_time, wait_cost)
  PROVE  ClusterInv'
<1> USE DEF ClusterInv
<1> DEFINE n == Len(schedule) + 1
           stop == StartTime(instant) + service_time
<1>1. /\ MarkGroup(r)
      /\ ~Complete(trackers'[r])
      /\ r \notin DOMAIN recovery_completion_times
      /\ SubmitJob(instant, service_time)
      /\ recovery_completion_times' =
           Put(recovery_completion_times, r,
               instant + ExpectedRecoveryCost(instant, service_time))
      /\ job_of' = Put(job_of, r, Len(schedule'))
      /\ Continue
      /\ UNCHANGED <<workload, instant, natural_completion_times, recovery_rejected,
                     recovery_waited, recovery_unrecoverable>>
  BY DEF Admit, Undecided
<1>2. sim_pc = "groups" /\ TraceInv
  BY <1>1 DEF MarkGroup, Turn, RunInv
<1>3. instant = current_time /\ instant \in Nat
  BY <1>2 DEF TraceInv, InstantInv, QueueInv, QueueTypeOK
<1>4. service_time \in Int /\ current_time' = current_time
  BY <1>1, QueueAssumption DEF SubmitJob
<1>5. QueueInv'
  BY <1>1, <1>3, <1>4, SubmitJobPreserves
<1>6. SlotsBusy' /\ WaitersWait'
  BY <1>1, <1>3, <1>4, SubmitNowConservesWork
<1>7. /\ DOMAIN schedule' = DOMAIN schedule \cup {n}
      /\ Len(schedule') = n
      /\ n \notin DOMAIN schedule
      /\ \A i \in DOMAIN schedule : schedule'[i] = schedule[i]
      /\ schedule'[n].stop = stop
  <2>1. /\ DOMAIN schedule' = DOMAIN schedule \cup {n}
        /\ Len(schedule') = n
        /\ n \notin DOMAIN schedule
        /\ \A i \in DOMAIN schedule : schedule'[i] = schedule[i]
        /\ schedule'[n] = [submitted |-> instant, slot |-> EarliestSlot,
                           start |-> StartTime(instant), stop |-> stop]
    BY <1>1, <1>3, <1>4, SubmitJobEffect
  <2> QED
    BY <2>1
<1>8. instant + ExpectedRecoveryCost(instant, service_time) = stop
  BY <1>3, <1>4, StartTimeBounds DEF ExpectedRecoveryCost, QueueInv, QueueTypeOK
<1> HIDE DEF n, stop
<1>9. /\ DOMAIN recovery_completion_times' = DOMAIN recovery_completion_times \cup {r}
      /\ DOMAIN job_of' = DOMAIN job_of \cup {r}
      /\ recovery_completion_times'[r] = stop
      /\ job_of'[r] = n
      /\ \A q \in DOMAIN recovery_completion_times :
           q # r => recovery_completion_times'[q] = recovery_completion_times[q]
      /\ \A q \in DOMAIN job_of : q # r => job_of'[q] = job_of[q]
  BY <1>1, <1>7, <1>8 DEF Put
<1>10. /\ DOMAIN job_of = DOMAIN recovery_completion_times
       /\ \A q \in DOMAIN job_of :
            /\ job_of[q] \in DOMAIN schedule
            /\ recovery_completion_times[q] = schedule[job_of[q]].stop
            /\ \A p \in DOMAIN job_of : job_of[p] = job_of[q] => p = q
  BY DEF JobInv, QuotesAreHonoured
<1>11. JobInv'
  <2>1. ASSUME NEW q \in DOMAIN job_of'
        PROVE  /\ job_of'[q] \in DOMAIN schedule'
               /\ recovery_completion_times'[q] = schedule'[job_of'[q]].stop
    BY <1>1, <1>7, <1>9, <1>10
  <2>2. ASSUME NEW q \in DOMAIN job_of', NEW p \in DOMAIN job_of', job_of'[p] = job_of'[q]
        PROVE  p = q
    BY <1>1, <1>7, <1>9, <1>10, <2>2
  <2> QED
    BY <1>9, <1>10, <2>1, <2>2 DEF JobInv, QuotesAreHonoured
<1>12. DecidedOn(r)' /\ \A q : DecidedOn(q) => DecidedOn(q)'
  BY <1>1, <1>9 DEF DecidedOn
<1>13. TraceInv'
  BY <1>1, <1>2, <1>4, <1>12, GroupPreserves
<1> QED
  BY <1>5, <1>6, <1>11, <1>13 DEF RunInv

LEMMA DecidePreserves ==
  ASSUME ClusterInv, NEW r, NEW service_time \in Int, NEW wait_cost \in Int,
         Decide(r, service_time, wait_cost)
  PROVE  ClusterInv'
<1> USE DEF ClusterInv
<1>1. CASE Admit(r, service_time, wait_cost)
  BY <1>1, AdmitPreserves
<1>2. CASE DecisionThrows(r, service_time, wait_cost)
  <2>1. /\ sim_pc' = "threw"
        /\ UNCHANGED queueVars
        /\ UNCHANGED <<job_of, recovery_completion_times>>
    BY <1>2 DEF DecisionThrows, outcomeVars
  <2> QED
    BY <2>1, QueueUntouched DEF RunInv
<1>3. CASE Reject(r, service_time) \/ KeepWaiting(r, service_time, wait_cost)
  <2>1. /\ UNCHANGED queueVars
        /\ UNCHANGED <<job_of, recovery_completion_times>>
        /\ MarkGroup(r)
        /\ ~Complete(trackers'[r])
        /\ Continue
        /\ UNCHANGED <<workload, instant, natural_completion_times>>
        /\ DecidedOn(r)'
        /\ \A q : DecidedOn(q) => DecidedOn(q)'
    BY <1>3 DEF Reject, KeepWaiting, Undecided, DecidedOn
  <2>2. QueueInv' /\ SlotsBusy' /\ WaitersWait' /\ JobInv'
    BY <2>1, QueueUntouched
  <2>3. TraceInv
    BY <2>1 DEF MarkGroup, Turn, RunInv
  <2>4. current_time' = current_time
    BY <2>1 DEF queueVars
  <2>5. TraceInv'
    BY <2>1, <2>3, <2>4, GroupPreserves
  <2> QED
    BY <2>2, <2>5 DEF RunInv
<1> QED
  BY <1>1, <1>2, <1>3 DEF Decide

LEMMA ReportPreserves ==
  ASSUME ClusterInv, Report
  PROVE  ClusterInv'
<1> USE DEF ClusterInv
<1>1. /\ sim_pc = "instants"
      /\ events = {}
      /\ UNCHANGED <<workload, events, trackers, instant>>
      /\ UNCHANGED outcomeVars
      /\ UNCHANGED queueVars
  BY DEF Report
<1>2. QueueInv' /\ SlotsBusy' /\ WaitersWait' /\ JobInv'
  BY <1>1, QueueUntouched DEF outcomeVars
<1>3. TraceInv
  BY <1>1 DEF RunInv
<1>4. CASE sim_pc' = "threw"
  BY <1>2, <1>4 DEF RunInv
<1>5. CASE RequestsOf(workload) \subseteq DOMAIN natural_completion_times
  <2>1. /\ metrics' = [r \in RequestsOf(workload) |-> RequestMetrics(r)]
        /\ sim_pc' = "done"
    BY <1>5 DEF Report
  <2>2. Processed' = Processed
    BY <1>1 DEF Processed
  <2>3. OrderInv' /\ TrackerInv'
    BY <1>1, <1>3, <2>2 DEF TraceInv, OrderInv, ValidWorkload, TrackerInv, RequestsOf
  <2>4. NaturalInv' /\ DecisionInv'
    BY <1>1, <1>3, <2>2
       DEF TraceInv, NaturalInv, CompletedAt, DecisionInv, DecidedOn, RequestsOf, outcomeVars,
           Complete
  <2>5. InstantInv'
    BY <2>1 DEF InstantInv
  <2>6. ReportInv'
    BY <1>1, <1>5, <2>1
       DEF ReportInv, RequestsOf, outcomeVars, RequestMetrics, Won, StartOf
  <2> QED
    BY <1>2, <2>3, <2>4, <2>5, <2>6 DEF RunInv, TraceInv
<1> QED
  BY <1>4, <1>5 DEF Report

LEMMA ClusterStutters ==
  ASSUME ClusterInv, UNCHANGED clusterVars
  PROVE  ClusterInv'
<1>1. UNCHANGED queueVars /\ UNCHANGED <<job_of, recovery_completion_times>>
  BY DEF clusterVars, runVars, outcomeVars
<1>2. /\ UNCHANGED <<sim_pc, workload, events, instant, trackers, metrics>>
      /\ UNCHANGED outcomeVars
      /\ current_time' = current_time
  BY DEF clusterVars, runVars, queueVars
<1>3. Processed' = Processed
  BY <1>2 DEF Processed
<1>4. TraceInv => OrderInv' /\ InstantInv' /\ TrackerInv'
  BY <1>2, <1>3
     DEF TraceInv, OrderInv, InstantInv, TrackerInv, ValidWorkload, RequestsOf
<1>5. TraceInv => NaturalInv' /\ DecisionInv'
  BY <1>2, <1>3
     DEF TraceInv, NaturalInv, CompletedAt, DecisionInv, DecidedOn, RequestsOf,
         outcomeVars, Complete
<1>6. TraceInv => ReportInv'
  <2>1. \A r : RequestMetrics(r)' = RequestMetrics(r)
    BY <1>2 DEF outcomeVars, RequestMetrics, Won, StartOf
  <2>2. RequestsOf(workload)' = RequestsOf(workload)
    BY <1>2 DEF RequestsOf
  <2> QED
    BY <1>2, <2>1, <2>2 DEF TraceInv, ReportInv, outcomeVars
<1>7. RunInv'
  BY <1>2, <1>4, <1>5, <1>6 DEF ClusterInv, RunInv, TraceInv
<1> QED
  BY <1>1, <1>7, QueueUntouched DEF ClusterInv

\* The cluster simulator keeps its invariant over any number of runs on one
\* queue (cluster_simulator.cpp:29-150).
THEOREM ClusterInvariance == ClusterSpec => []ClusterInv
<1>1. ClusterInit => ClusterInv
  <2> SUFFICES ASSUME ClusterInit
               PROVE  ClusterInv
    OBVIOUS
  <2>1. QueueInv
    BY QueueInvInit DEF ClusterInit
  <2>2. SlotsBusy /\ WaitersWait
    BY DEF ClusterInit, QueueInit, SlotsBusy, WaitersWait
  <2>3. JobInv
    BY DEF ClusterInit, JobInv, QuotesAreHonoured
  <2>4. RunInv
    BY DEF ClusterInit, RunInv
  <2> QED
    BY <2>1, <2>2, <2>3, <2>4 DEF ClusterInv
<1>2. ClusterInv /\ [ClusterNext]_clusterVars => ClusterInv'
  <2> SUFFICES ASSUME ClusterInv, [ClusterNext]_clusterVars
               PROVE  ClusterInv'
    OBVIOUS
  <2>1. CASE UNCHANGED clusterVars
    BY <2>1, ClusterStutters
  <2>2. ASSUME NEW w \in Workloads, Run(w)
        PROVE  ClusterInv'
    <3>1. UNCHANGED queueVars /\ Begin(w)
      BY <2>2 DEF Run
    <3>2. QueueInv' /\ SlotsBusy' /\ WaitersWait'
      BY <3>1 DEF queueVars, ClusterInv, QueueInv, QueueTypeOK, PendingInv, SlotInv,
                  SlotsBusy, WaitersWait, RunningAt, Slots
    <3>3. JobInv'
      BY <3>1 DEF Begin, JobInv, QuotesAreHonoured
    <3> QED
      BY <3>1, <3>2, <3>3, BeginEstablishes, WorkloadsTyped DEF ClusterInv
  <2>3. CASE NextInstant
    BY <2>3, NextInstantPreserves
  <2>4. ASSUME NEW r, ProcessGroup(r)
        PROVE  ClusterInv'
    BY <2>4, ProcessGroupPreserves
  <2>5. ASSUME NEW r, NEW service_time \in ServiceTimes, NEW wait_cost \in WaitCosts,
               Decide(r, service_time, wait_cost)
        PROVE  ClusterInv'
    BY <2>5, DecidePreserves, QueueAssumption, ClusterAssumption
  <2>6. CASE Report
    BY <2>6, ReportPreserves
  <2> QED
    BY <2>1, <2>2, <2>3, <2>4, <2>5, <2>6 DEF ClusterNext
<1> QED
  BY <1>1, <1>2, PTL DEF ClusterSpec

-----------------------------------------------------------------------------
\* The least arrival time is well defined.
LEMMA FirstArrivalExists ==
  ASSUME NEW r, NEW s, ArrivalTimes(r, s) \subseteq Nat, ArrivalTimes(r, s) # {}
  PROVE  /\ FirstArrival(r, s) \in ArrivalTimes(r, s)
         /\ \A y \in ArrivalTimes(r, s) : FirstArrival(r, s) <= y
<1>1. \E x \in ArrivalTimes(r, s) : \A y \in ArrivalTimes(r, s) : x <= y
  BY LeastNatural
<1> QED
  BY <1>1 DEF FirstArrival

LEMMA ReportAgrees ==
  ASSUME ClusterInv
  PROVE  ReportMatchesTrace
<1> USE DEF ClusterInv
<1> SUFFICES ASSUME sim_pc = "done", NEW r \in RequestsOf(workload),
                    NEW m, m = metrics[r],
                    NEW natural, natural = natural_completion_times[r]
             PROVE  /\ \A s \in Systematic(Graph) : FirstArrival(r, s) <= natural
                    /\ \E s \in Systematic(Graph) : FirstArrival(r, s) = natural
                    /\ m.latency <= natural - StartOf(r)
                    /\ \/ m.admitted \/ m.rejected \/ m.waited \/ m.unrecoverable
                       \/ \A e \in workload : e.request = r => e.time >= natural
  BY DEF ReportMatchesTrace
<1>1. TraceInv
  BY DEF RunInv
<1>2. /\ events = {}
      /\ r \in DOMAIN natural_completion_times
      /\ m = RequestMetrics(r)
  BY <1>1 DEF TraceInv, ReportInv
<1>3. Processed = workload
  BY <1>2 DEF Processed
<1>4. CompletedAt(r, natural)
  BY <1>1, <1>2 DEF TraceInv, NaturalInv
<1>5. natural \in Nat
  BY <1>4 DEF CompletedAt
<1>6. \A s : ArrivalTimes(r, s) \subseteq Nat
  BY <1>1, <1>3 DEF TraceInv, OrderInv, ArrivalTimes
<1>7. ASSUME NEW s \in Systematic(Graph)
      PROVE  FirstArrival(r, s) <= natural
  <2>1. PICK e \in workload : e.request = r /\ e.shard = s /\ e.time <= natural
    BY <1>3, <1>4 DEF CompletedAt
  <2>2. e.time \in ArrivalTimes(r, s)
    BY <2>1 DEF ArrivalTimes
  <2>3. FirstArrival(r, s) <= e.time /\ FirstArrival(r, s) \in Nat /\ e.time \in Nat
    BY <1>6, <2>2, FirstArrivalExists
  <2> QED
    BY <1>5, <2>1, <2>3
<1>8. \E s \in Systematic(Graph) : FirstArrival(r, s) = natural
  <2>1. PICK s \in Systematic(Graph) :
          /\ \E e \in workload : e.request = r /\ e.shard = s /\ e.time = natural
          /\ \A e \in workload : e.request = r /\ e.shard = s => natural <= e.time
    BY <1>3, <1>4 DEF CompletedAt
  <2>2. natural \in ArrivalTimes(r, s) /\ \A y \in ArrivalTimes(r, s) : natural <= y
    BY <2>1 DEF ArrivalTimes
  <2>3. /\ FirstArrival(r, s) \in ArrivalTimes(r, s)
        /\ FirstArrival(r, s) <= natural
        /\ FirstArrival(r, s) \in Nat
    BY <1>6, <2>2, FirstArrivalExists
  <2>4. FirstArrival(r, s) = natural
    BY <1>5, <2>2, <2>3
  <2> QED
    BY <2>4
<1>9. m.latency <= natural - StartOf(r)
  <2>1. StartOf(r) \in Int
    <3>1. \E e \in workload : e.request = r
      BY DEF RequestsOf
    <3>2. (CHOOSE e \in workload : e.request = r) \in workload
      BY <3>1
    <3> QED
      BY <1>1, <3>2, WorkloadTypes DEF StartOf, TraceInv, OrderInv
  <2>2. m.latency = (IF Won(r) THEN recovery_completion_times[r] ELSE natural) - StartOf(r)
    BY <1>2 DEF RequestMetrics
  <2>3. CASE Won(r)
    <3>1. r \in DOMAIN job_of /\ recovery_completion_times[r] < natural
      BY <2>3 DEF Won, JobInv, QuotesAreHonoured
    <3>2. recovery_completion_times[r] \in Nat
      BY <3>1, JobTypes DEF JobInv, QuotesAreHonoured
    <3> QED
      BY <1>5, <2>1, <2>2, <2>3, <3>1, <3>2
  <2>4. CASE ~Won(r)
    BY <1>5, <2>1, <2>2, <2>4
  <2> QED
    BY <2>3, <2>4
<1>10. \/ m.admitted \/ m.rejected \/ m.waited \/ m.unrecoverable
       \/ \A e \in workload : e.request = r => e.time >= natural
  <2>1. CASE DecidedOn(r)
    <3>1. /\ m.admitted = (r \in DOMAIN recovery_completion_times)
          /\ m.rejected = (r \in recovery_rejected)
          /\ m.waited = (r \in recovery_waited)
          /\ m.unrecoverable = (r \in recovery_unrecoverable)
      BY <1>2 DEF RequestMetrics
    <3> QED
      BY <2>1, <3>1 DEF DecidedOn
  <2>2. CASE ~DecidedOn(r)
    <3>1. ASSUME NEW e \in workload, e.request = r
          PROVE  e.time >= natural
      <4>1. natural <= e.time /\ e.time \in Nat
        BY <1>1, <1>3, <2>2, <3>1 DEF TraceInv, DecisionInv, OrderInv
      <4> QED
        BY <1>5, <4>1
    <3> QED
      BY <3>1
  <2> QED
    BY <2>1, <2>2
<1> QED
  BY <1>7, <1>8, <1>9, <1>10

\* Every recovery is credited with the completion time of a job of its own
\* (cluster_simulator.cpp:97-116, recovery_queue.cpp:38-75).
THEOREM QuotesHold == ClusterSpec => []QuotesAreHonoured
BY ClusterInvariance, PTL DEF ClusterInv, JobInv

\* No slot idles while an admitted job waits, over all runs that share the queue
\* (recovery_queue.cpp:66-70, cluster_simulator.cpp:66, 110).
THEOREM QueueConservesWork == ClusterSpec => []WorkConserving
<1>1. ClusterInv => WorkConserving
  BY BusySlotsAreFull DEF ClusterInv
<1> QED
  BY <1>1, ClusterInvariance, PTL

\* The simulator keeps the queue within its concurrency limit and its depth, and
\* the depth counter exact (recovery_queue.cpp:25-36, 50-75).
THEOREM SharedQueueIsSound == ClusterSpec => []QueueSound
<1>1. ClusterInv => QueueSound
  BY DepthIsPendingCount, SlotsBoundRunningJobs DEF ClusterInv, QueueSound
<1> QED
  BY <1>1, ClusterInvariance, PTL

\* The report of every run agrees with its trace
\* (cluster_simulator.cpp:81-121, 128-148).
THEOREM ReportsAreRight == ClusterSpec => []ReportMatchesTrace
BY ReportAgrees, ClusterInvariance, PTL

-----------------------------------------------------------------------------
(***************************************************************************)
(* Each request of a cluster run behaves as the request simulator would.   *)
(***************************************************************************)

\* What request r shows of the cluster run.
View(r) == <<RequestPc(r), Ahead(r), ArrivedBy(r), RecoveryStart(r), RecoveryEnd(r),
             NaturalEnd(r), Returned(r)>>

LEMMA ViewStutters ==
  ASSUME NEW r, UNCHANGED View(r)
  PROVE  UNCHANGED Alone(r)!requestSimVars
BY DEF View, Alone!requestSimVars

\* The program counter of a request, case by case.
LEMMA RequestPcCases ==
  ASSUME NEW r
  PROVE  /\ ~Simulated(r) => RequestPc(r) = "idle"
         /\ Simulated(r) /\ Completed(r) =>
              RequestPc(r) = IF sim_pc = "done" THEN "returned" ELSE "complete"
         /\ Simulated(r) /\ ~Completed(r) =>
              RequestPc(r) = IF sim_pc = "threw" THEN "threw" ELSE "instants"
<1>1. ASSUME ~Simulated(r)
      PROVE  RequestPc(r) = "idle"
  BY <1>1 DEF RequestPc
<1>2. ASSUME Simulated(r), Completed(r)
      PROVE  RequestPc(r) = IF sim_pc = "done" THEN "returned" ELSE "complete"
  BY <1>2 DEF RequestPc
<1>3. ASSUME Simulated(r), ~Completed(r)
      PROVE  RequestPc(r) = IF sim_pc = "threw" THEN "threw" ELSE "instants"
  BY <1>3 DEF RequestPc
<1> QED
  BY <1>1, <1>2, <1>3

LEMMA InitRefines ==
  ASSUME ClusterInit, NEW r
  PROVE  Alone(r)!Init
<1>1. ~Simulated(r) /\ ~Completed(r) /\ ~Admitted(r)
  BY DEF Simulated, Completed, Admitted, ClusterInit, RequestsOf
<1>2. RequestPc(r) = "idle"
  BY <1>1, RequestPcCases
<1>3. Ahead(r) = {} /\ ArrivedBy(r) = {}
  BY <1>1 DEF Ahead, ArrivedBy
<1>4. RecoveryStart(r) = NoTime /\ RecoveryEnd(r) = NoTime /\ NaturalEnd(r) = NoTime
  BY <1>1 DEF RecoveryStart, RecoveryEnd, NaturalEnd
<1>5. Returned(r) = [final_latency |-> NoTime, recovery_won |-> FALSE]
  BY <1>1 DEF Returned
<1> QED
  BY <1>2, <1>3, <1>4, <1>5 DEF Alone!Init, Alone!NoResult

LEMMA RunRefines ==
  ASSUME NEW w \in Workloads, Run(w), NEW r
  PROVE  Alone(r)!Next
<1>1. /\ workload' = w /\ events' = w
      /\ DOMAIN natural_completion_times' = {}
      /\ DOMAIN recovery_completion_times' = {}
      /\ sim_pc' = IF ValidWorkload(w) THEN "instants" ELSE "threw"
  BY DEF Run, Begin
<1>2. ~Completed(r)' /\ ~Admitted(r)'
  BY <1>1 DEF Completed, Admitted
<1>3. RecoveryStart(r)' = NoTime /\ RecoveryEnd(r)' = NoTime /\ NaturalEnd(r)' = NoTime
  BY <1>2 DEF RecoveryStart, RecoveryEnd, NaturalEnd
<1>4. Returned(r)' = [final_latency |-> NoTime, recovery_won |-> FALSE]
  BY <1>1 DEF Returned
<1>5. ArrivedBy(r)' = {}
  BY <1>1 DEF ArrivedBy
<1>6. Alone(r)!FreshLocals
  BY <1>3, <1>4, <1>5 DEF Alone!FreshLocals, Alone!NoResult
<1>7. CASE Simulated(r)'
  <2>1. ValidWorkload(w)
    BY <1>1, <1>7 DEF Simulated, ValidWorkload
  <2>2. RequestPc(r)' = "instants"
    <3>1. sim_pc' = "instants"
      BY <1>1, <2>1
    <3> QED
      BY <1>2, <1>7, <3>1 DEF RequestPc
  <2>3. \A e \in Ahead(r)' : e.time \in Int /\ e.shard \in Nat
    BY <1>1, WorkloadTypes, WorkloadsTyped DEF Ahead
  <2> QED
    BY <1>6, <2>2, <2>3 DEF Alone!Run, Alone!Next
<1>8. CASE ~Simulated(r)'
  <2>1. RequestPc(r)' = "idle"
    BY <1>8 DEF RequestPc
  <2>2. Ahead(r)' = {}
    BY <1>8 DEF Ahead
  <2> QED
    BY <1>6, <2>1, <2>2 DEF Alone!Drop, Alone!Next
<1> QED
  BY <1>7, <1>8

\* An exception ends the simulation of every request that is not complete.
LEMMA ThrowRefines ==
  ASSUME sim_pc \in {"instants", "groups"}, sim_pc' = "threw", NEW r,
         Simulated(r)' <=> Simulated(r),
         UNCHANGED outcomeVars, UNCHANGED schedule,
         Ahead(r)' \subseteq Ahead(r), ArrivedBy(r) \subseteq ArrivedBy(r)',
         \/ UNCHANGED <<Ahead(r), ArrivedBy(r)>>
         \/ Simulated(r) /\ ~Completed(r)
  PROVE  Alone(r)!Next \/ UNCHANGED Alone(r)!requestSimVars
<1>1. /\ Completed(r)' <=> Completed(r)
      /\ Admitted(r)' <=> Admitted(r)
  BY DEF Completed, Admitted, outcomeVars
<1>2. UNCHANGED <<RecoveryStart(r), RecoveryEnd(r), NaturalEnd(r), Returned(r)>>
  BY <1>1 DEF RecoveryStart, RecoveryEnd, NaturalEnd, Returned, outcomeVars
<1>3. CASE Simulated(r) /\ ~Completed(r)
  <2>1. RequestPc(r) = "instants"
    BY <1>3, RequestPcCases
  <2>2. RequestPc(r)' = "threw"
    BY <1>1, <1>3 DEF RequestPc
  <2> QED
    BY <1>2, <2>1, <2>2 DEF Alone!Throw, Alone!Next
<1>4. CASE ~(Simulated(r) /\ ~Completed(r))
  <2>1. RequestPc(r)' = RequestPc(r)
    BY <1>1, <1>4 DEF RequestPc
  <2> QED
    BY <1>2, <1>4, <2>1, ViewStutters DEF View
<1> QED
  BY <1>3, <1>4

\* The requests that a group does not belong to do not notice it.
LEMMA OthersUnchanged ==
  ASSUME QueueInv, TraceInv, NEW r, MarkGroup(r), workload' = workload, NEW q, q # r,
         Completed(q)' <=> Completed(q),
         Completed(q) => natural_completion_times'[q] = natural_completion_times[q]
  PROVE  /\ Simulated(q)' <=> Simulated(q)
         /\ Ahead(q)' = Ahead(q)
         /\ ArrivedBy(q)' = ArrivedBy(q)
<1>1. \A e \in workload : e.request = q => (e \in events' <=> e \in events)
  BY MarkGroupEffect DEF TraceInv
<1>2. Simulated(q)' <=> Simulated(q)
  BY DEF Simulated, RequestsOf, ValidWorkload
<1>3. Ahead(q)' = Ahead(q)
  BY <1>1, <1>2 DEF Ahead
<1>4. ArrivedBy(q)' = ArrivedBy(q)
  BY <1>1, <1>2 DEF ArrivedBy
<1> QED
  BY <1>2, <1>3, <1>4

\* Before its completion a request has processed what its tracker has marked.
LEMMA ViewBeforeCompletion ==
  ASSUME TraceInv, NEW r \in RequestsOf(workload), ~Completed(r)
  PROVE  /\ Simulated(r)
         /\ Ahead(r) = {[time |-> e.time, shard |-> e.shard] :
                          e \in {d \in events : d.request = r}}
         /\ ArrivedBy(r) = trackers[r]
<1>1. Simulated(r) /\ events \subseteq workload
  BY DEF Simulated, TraceInv, OrderInv
<1>2. Ahead(r) = {[time |-> e.time, shard |-> e.shard] :
                    e \in {d \in events : d.request = r}}
  BY <1>1 DEF Ahead
<1>3. ArrivedBy(r) = trackers[r]
  BY <1>1 DEF ArrivedBy, TraceInv, TrackerInv, Processed
<1> QED
  BY <1>1, <1>2, <1>3

\* A group of a request that is not complete is an instant of its simulation.
LEMMA MarkGroupRefines ==
  ASSUME QueueInv, TraceInv, TraceInv', NEW r, MarkGroup(r), workload' = workload,
         sim_pc' \in {"instants", "groups"}, ~Completed(r),
         Completed(r)' => natural_completion_times'[r] = instant
  PROVE  /\ Alone(r)!MarkInstant(instant)
         /\ instant \in {e.time : e \in Ahead(r)}
         /\ ArrivedBy(r)' = trackers'[r]
         /\ Simulated(r) /\ Simulated(r)'
<1> DEFINE Ev(E) == {[time |-> e.time, shard |-> e.shard] : e \in {d \in E : d.request = r}}
           group == {e \in Ahead(r) : e.time = instant}
<1>1. /\ r \in RequestsOf(workload)
      /\ instant \in Nat
      /\ Group(r) # {} /\ Group(r) \subseteq events
      /\ events' = events \ Group(r)
      /\ Processed' = Processed \cup Group(r)
      /\ \A e \in Group(r) : e.time = instant /\ e.request = r
      /\ \A e \in Processed : e.time <= instant
      /\ \A d \in events' : instant <= d.time /\ (d.request = r => instant < d.time)
      /\ \A d \in events : d.request = r /\ d.time = instant => d \in Group(r)
  <2>1. \A d \in events : d.request = r /\ d.time = instant => d \in Group(r)
    BY DEF Group
  <2> QED
    BY <2>1, MarkGroupEffect DEF TraceInv
<1>2. sim_pc = "groups" /\ \A e \in Group(r) : e.shard \in Shards(Graph)
  BY DEF MarkGroup, Turn
<1>3. /\ Simulated(r)
      /\ Ahead(r) = Ev(events)
      /\ ArrivedBy(r) = trackers[r]
  BY <1>1, ViewBeforeCompletion
<1>4. Simulated(r)'
  BY <1>3 DEF Simulated, RequestsOf, ValidWorkload
<1>5. workload \subseteq Processed' \cup events' /\ events' \subseteq workload
  BY <1>1 DEF Processed, TraceInv, OrderInv
<1>6. Ahead(r)' = Ev(events')
  <2>1. \A d \in Processed' : ~(d.time > instant)
    <3>1. \A d \in Processed : d.time \in Nat
      BY DEF TraceInv, OrderInv
    <3> QED
      BY <1>1, <3>1
  <2>2. \A d \in events' : d.request = r => d.time > instant
    <3>1. \A d \in events' : d.time \in Int
      BY <1>5, WorkloadTypes DEF TraceInv, OrderInv
    <3> QED
      BY <1>1, <3>1
  <2>3. \A d \in workload : d.request = r => (d.time > instant <=> d \in events')
    BY <1>5, <2>1, <2>2
  <2> QED
    BY <1>4, <1>5, <2>3 DEF Ahead
<1>7. ArrivedBy(r)' = trackers'[r]
  <2>1. \A d \in Processed' : d.time <= instant
    BY <1>1
  <2>2. trackers'[r] = {e.shard : e \in {d \in Processed' : d.request = r}}
    <3>1. r \in RequestsOf(workload')
      BY <1>1
    <3> QED
      BY <3>1 DEF TraceInv, TrackerInv, RequestsOf
  <2> QED
    BY <1>4, <2>1, <2>2 DEF ArrivedBy, Processed
<1>8. trackers'[r] = trackers[r] \cup {e.shard : e \in Group(r)}
  BY MarkGroupTrackers DEF TraceInv
<1>9. group = Ev(Group(r))
  BY <1>1, <1>3
<1>10. Ev(events') = Ev(events) \ group
  <2>1. \A e \in Ev(events') : e \in Ev(events) /\ e.time # instant
    BY <1>1
  <2>2. \A e \in Ev(events) : e.time # instant => e \in Ev(events')
    <3> SUFFICES ASSUME NEW e \in Ev(events), e.time # instant
                 PROVE  e \in Ev(events')
      OBVIOUS
    <3>1. PICK d \in events : d.request = r /\ e = [time |-> d.time, shard |-> d.shard]
      OBVIOUS
    <3>2. d \in events'
      BY <1>1, <3>1
    <3> QED
      BY <3>1, <3>2
  <2> QED
    BY <1>3, <2>1, <2>2
<1>11. group = {[time |-> e.time, shard |-> e.shard] : e \in Group(r)}
  <2>1. {d \in Group(r) : d.request = r} = Group(r)
    BY <1>1
  <2> QED
    BY <1>9, <2>1
<1>12. {e.shard : e \in group} = {e.shard : e \in Group(r)}
  <2> HIDE DEF group
  <2>1. \A e \in group : \E d \in Group(r) : d.shard = e.shard
    BY <1>11
  <2>2. ASSUME NEW d \in Group(r)
        PROVE  \E e \in group : d.shard = e.shard
    <3>1. [time |-> d.time, shard |-> d.shard] \in group
      BY <1>11
    <3> QED
      BY <3>1
  <2> QED
    BY <2>1, <2>2
<1>13. group # {} /\ \A e \in group : e.shard \in Shards(Graph)
  <2> HIDE DEF group
  <2>1. \A e \in group : \E d \in Group(r) : d.shard = e.shard
    BY <1>11
  <2>2. group # {}
    <3>1. PICK d \in Group(r) : TRUE
      BY <1>1
    <3>2. [time |-> d.time, shard |-> d.shard] \in group
      BY <1>11
    <3> QED
      BY <3>2
  <2> QED
    BY <1>2, <2>1, <2>2
<1>14. \A e \in Ahead(r) : instant <= e.time
  BY <1>1, <1>2, <1>3 DEF TraceInv, InstantInv
<1>15. RequestPc(r) = "instants"
  BY <1>2, <1>3, RequestPcCases
<1>16. UNCHANGED Returned(r)
  BY <1>2 DEF Returned
<1>17. instant \in {e.time : e \in Ahead(r)}
  BY <1>13
<1>18. /\ Ahead(r)' = Ahead(r) \ group
       /\ ArrivedBy(r)' = ArrivedBy(r) \cup {e.shard : e \in group}
  <2> HIDE DEF group, Ev
  <2> QED
    BY <1>3, <1>6, <1>7, <1>8, <1>10, <1>12
<1>19. Alone(r)!MarkInstant(instant)
  BY <1>1, <1>13, <1>14, <1>15, <1>16, <1>18 DEF Alone!MarkInstant, Alone!Shards, Shards
<1> QED
  BY <1>3, <1>4, <1>7, <1>17, <1>19

\* A group whose request has completed before concerns nothing any more.
LEMMA LateGroupUnchanged ==
  ASSUME QueueInv, TraceInv, NEW r, MarkGroup(r), workload' = workload, Completed(r),
         natural_completion_times' = natural_completion_times
  PROVE  Ahead(r)' = Ahead(r) /\ ArrivedBy(r)' = ArrivedBy(r)
<1>1. /\ Group(r) \subseteq events
      /\ Processed' = Processed \cup Group(r)
      /\ instant \in Nat
      /\ \A e \in Group(r) : e.time = instant
      /\ \A e \in Processed : e.request = r => e.time < instant
  BY MarkGroupEffect DEF TraceInv
<1>2. CompletedAt(r, natural_completion_times[r])
  BY DEF Completed, TraceInv, NaturalInv
<1>3. natural_completion_times[r] < instant /\ natural_completion_times[r] \in Nat
  BY <1>1, <1>2, SystematicShardExists DEF CompletedAt
<1>4. Completed(r)' /\ (Simulated(r)' <=> Simulated(r))
  BY DEF Completed, Simulated, RequestsOf, ValidWorkload
<1>5. Ahead(r)' = Ahead(r)
  BY <1>4 DEF Ahead
<1>6. \A d \in Group(r) : ~(d.time <= natural_completion_times[r])
  BY <1>1, <1>3
<1>7. ArrivedBy(r)' = ArrivedBy(r)
  BY <1>1, <1>4, <1>6 DEF ArrivedBy, Processed
<1> QED
  BY <1>5, <1>7

LEMMA OthersStutter ==
  ASSUME QueueInv, TraceInv, NEW r, MarkGroup(r), workload' = workload,
         sim_pc' \in {"instants", "groups"}, NEW q, q # r,
         Completed(q)' <=> Completed(q),
         Completed(q) => natural_completion_times'[q] = natural_completion_times[q],
         UNCHANGED <<RecoveryStart(q), RecoveryEnd(q)>>
  PROVE  UNCHANGED Alone(q)!requestSimVars
<1>1. sim_pc = "groups"
  BY DEF MarkGroup, Turn
<1>2. /\ Simulated(q)' <=> Simulated(q)
      /\ Ahead(q)' = Ahead(q)
      /\ ArrivedBy(q)' = ArrivedBy(q)
  BY OthersUnchanged
<1>3. RequestPc(q)' = RequestPc(q)
  BY <1>1, <1>2 DEF RequestPc
<1>4. UNCHANGED <<NaturalEnd(q), Returned(q)>>
  BY <1>1 DEF NaturalEnd, Returned
<1> QED
  BY <1>2, <1>3, <1>4, ViewStutters DEF View

\* A group that leaves its request incomplete and starts no recovery.
LEMMA WaitingRefines ==
  ASSUME QueueInv, TraceInv, TraceInv', NEW r, MarkGroup(r), ~Complete(trackers'[r]),
         sim_pc' \in {"instants", "groups"},
         UNCHANGED <<workload, natural_completion_times, recovery_completion_times, job_of,
                     schedule>>,
         NEW q
  PROVE  Alone(q)!Next \/ UNCHANGED Alone(q)!requestSimVars
<1>1. /\ Completed(q)' <=> Completed(q)
      /\ UNCHANGED <<RecoveryStart(q), RecoveryEnd(q), NaturalEnd(q)>>
  BY DEF Completed, Admitted, RecoveryStart, RecoveryEnd, NaturalEnd
<1>2. CASE q # r
  BY <1>1, <1>2, OthersStutter
<1>3. CASE q = r
  <2>1. ~Completed(r) /\ ~Completed(r)'
    BY DEF Completed, TraceInv, NaturalInv, Complete
  <2>2. /\ Alone(r)!MarkInstant(instant)
        /\ instant \in {e.time : e \in Ahead(r)}
        /\ ArrivedBy(r)' = trackers'[r]
        /\ Simulated(r) /\ Simulated(r)'
    BY <2>1, MarkGroupRefines
  <2>3. ~Alone(r)!Complete'
    BY <2>2 DEF Complete, Alone!Complete, Alone!Systematic, Systematic
  <2>4. RequestPc(r)' = RequestPc(r)
    <3>1. sim_pc = "groups"
      BY DEF MarkGroup, Turn
    <3> QED
      BY <2>1, <2>2, <3>1 DEF RequestPc
  <2>5. Alone(r)!KeepWaiting(instant)
    BY <1>1, <1>3, <2>2, <2>3, <2>4 DEF Alone!KeepWaiting
  <2>6. Alone(r)!Next
    BY <2>2, <2>5 DEF Alone!Next
  <2> QED
    BY <1>3, <2>6
<1> QED
  BY <1>2, <1>3

LEMMA NaturalCompletionRefines ==
  ASSUME QueueInv, TraceInv, TraceInv', NEW r, NaturalCompletion(r), NEW q
  PROVE  Alone(q)!Next \/ UNCHANGED Alone(q)!requestSimVars
<1>1. /\ MarkGroup(r)
      /\ Complete(trackers'[r])
      /\ natural_completion_times' =
           IF r \in DOMAIN natural_completion_times
             THEN natural_completion_times
             ELSE Put(natural_completion_times, r, instant)
      /\ workload' = workload
      /\ UNCHANGED <<recovery_completion_times, job_of, schedule>>
      /\ sim_pc = "groups"
      /\ sim_pc' \in {"instants", "groups"}
  BY DEF NaturalCompletion, MarkGroup, Turn, Continue, queueVars
<1>2. UNCHANGED <<RecoveryStart(q), RecoveryEnd(q)>>
  BY <1>1 DEF Admitted, RecoveryStart, RecoveryEnd
<1>3. CASE q # r
  <2>1. /\ Completed(q)' <=> Completed(q)
        /\ Completed(q) => natural_completion_times'[q] = natural_completion_times[q]
    BY <1>1, <1>3 DEF Completed, Put
  <2> QED
    BY <1>1, <1>2, <1>3, <2>1, OthersStutter
<1>4. CASE q = r /\ Completed(r)
  <2>1. natural_completion_times' = natural_completion_times
    BY <1>1, <1>4 DEF Completed
  <2>2. Ahead(r)' = Ahead(r) /\ ArrivedBy(r)' = ArrivedBy(r)
    BY <1>1, <1>4, <2>1, LateGroupUnchanged
  <2>3. (Completed(r)' <=> Completed(r)) /\ (Simulated(r)' <=> Simulated(r))
    BY <1>1, <2>1 DEF Completed, Simulated, RequestsOf, ValidWorkload
  <2>4. UNCHANGED <<RequestPc(r), NaturalEnd(r), Returned(r)>>
    BY <1>1, <2>1, <2>3 DEF RequestPc, NaturalEnd, Returned
  <2> QED
    BY <1>2, <1>4, <2>2, <2>4, ViewStutters DEF View
<1>5. CASE q = r /\ ~Completed(r)
  <2>1. Completed(r)' /\ natural_completion_times'[r] = instant
    BY <1>1, <1>5 DEF Completed, Put
  <2>2. /\ Alone(r)!MarkInstant(instant)
        /\ instant \in {e.time : e \in Ahead(r)}
        /\ ArrivedBy(r)' = trackers'[r]
        /\ Simulated(r)'
    BY <1>1, <1>5, <2>1, MarkGroupRefines
  <2>3. Alone(r)!Complete'
    BY <1>1, <2>2 DEF Complete, Alone!Complete, Alone!Systematic, Systematic
  <2>4. RequestPc(r)' = "complete"
    BY <1>1, <2>1, <2>2 DEF RequestPc
  <2>5. NaturalEnd(r)' = instant
    BY <2>1 DEF NaturalEnd
  <2>6. Alone(r)!CompleteNaturally(instant)
    BY <1>2, <1>5, <2>2, <2>3, <2>4, <2>5 DEF Alone!CompleteNaturally
  <2>7. Alone(r)!Next
    BY <2>2, <2>6 DEF Alone!Next
  <2> QED
    BY <1>5, <2>7
<1> QED
  BY <1>3, <1>4, <1>5

LEMMA AdmitRefines ==
  ASSUME ClusterInv, ClusterInv', NEW r, NEW service_time \in ServiceTimes,
         NEW wait_cost \in WaitCosts, Admit(r, service_time, wait_cost), NEW q
  PROVE  Alone(q)!Next \/ UNCHANGED Alone(q)!requestSimVars
<1> USE DEF ClusterInv
<1> DEFINE n == Len(schedule) + 1
<1>1. /\ MarkGroup(r)
      /\ ~Complete(trackers'[r])
      /\ r \notin DOMAIN recovery_completion_times
      /\ Recoverable(trackers'[r])
      /\ SubmitJob(instant, service_time)
      /\ recovery_completion_times' =
           Put(recovery_completion_times, r,
               instant + ExpectedRecoveryCost(instant, service_time))
      /\ job_of' = Put(job_of, r, Len(schedule'))
      /\ UNCHANGED <<workload, natural_completion_times>>
      /\ sim_pc = "groups"
      /\ sim_pc' \in {"instants", "groups"}
  BY DEF Admit, Undecided, Continue, MarkGroup, Turn
<1>2. TraceInv /\ TraceInv'
  BY <1>1 DEF RunInv
<1>3. instant \in Nat /\ service_time \in Int /\ service_time > 0
  BY <1>1, <1>2, QueueAssumption
     DEF TraceInv, InstantInv, QueueInv, QueueTypeOK, SubmitJob
<1>4. /\ Len(schedule') = n
      /\ \A i \in DOMAIN schedule : schedule'[i] = schedule[i]
      /\ schedule'[n].submitted = instant
  <2>1. /\ Len(schedule') = n
        /\ \A i \in DOMAIN schedule : schedule'[i] = schedule[i]
        /\ schedule'[n] = [submitted |-> instant, slot |-> EarliestSlot,
                           start |-> StartTime(instant),
                           stop |-> StartTime(instant) + service_time]
    BY <1>1, <1>3, SubmitJobEffect
  <2> QED
    BY <2>1
<1> HIDE DEF n
<1>5. Completed(q)' <=> Completed(q)
  BY <1>1 DEF Completed
<1>6. CASE q # r
  <2>1. Admitted(q)' <=> Admitted(q)
    BY <1>1, <1>6 DEF Admitted, Put
  <2>2. CASE Admitted(q)
    <3>1. q \in DOMAIN job_of /\ job_of[q] \in DOMAIN schedule
      BY <2>2 DEF Admitted, JobInv, QuotesAreHonoured
    <3>2. /\ job_of'[q] = job_of[q]
          /\ recovery_completion_times'[q] = recovery_completion_times[q]
      BY <1>1, <1>6, <2>2, <3>1 DEF Admitted, Put
    <3>3. UNCHANGED <<RecoveryStart(q), RecoveryEnd(q)>>
      BY <1>4, <2>1, <3>1, <3>2 DEF RecoveryStart, RecoveryEnd
    <3> QED
      BY <1>1, <1>2, <1>5, <1>6, <3>3, OthersStutter
  <2>3. CASE ~Admitted(q)
    <3>1. UNCHANGED <<RecoveryStart(q), RecoveryEnd(q)>>
      BY <2>1, <2>3 DEF RecoveryStart, RecoveryEnd
    <3> QED
      BY <1>1, <1>2, <1>5, <1>6, <3>1, OthersStutter
  <2> QED
    BY <2>2, <2>3
<1>7. CASE q = r
  <2>1. ~Completed(r) /\ ~Completed(r)'
    BY <1>1, <1>2 DEF Completed, TraceInv, NaturalInv, Complete
  <2>2. /\ Alone(r)!MarkInstant(instant)
        /\ instant \in {e.time : e \in Ahead(r)}
        /\ ArrivedBy(r)' = trackers'[r]
        /\ Simulated(r) /\ Simulated(r)'
    BY <1>1, <1>2, <2>1, MarkGroupRefines
  <2>3. ~Alone(r)!Complete'
    BY <1>1, <2>2 DEF Complete, Alone!Complete, Alone!Systematic, Systematic
  <2>4. Alone(r)!Recoverable'
    <3> DEFINE missing == Systematic(Graph) \ trackers'[r]
               available == trackers'[r] \cap Parity(Graph)
    <3>1. Peelable(Graph, missing, available)
      BY <1>1 DEF Recoverable
    <3>2. \A S : Alone(r)!StoppingSet(Graph, available, S) <=> StoppingSet(Graph, available, S)
      BY DEF Alone!StoppingSet, StoppingSet, Alone!TouchesOnce, TouchesOnce, Alone!Neighbors,
             Neighbors
    <3> HIDE DEF missing, available
    <3>3. Alone(r)!Peelable(Graph, missing, available)
      BY <3>1, <3>2 DEF Peelable, Alone!Peelable
    <3> QED
      BY <2>2, <3>3
         DEF Alone!Recoverable, Alone!Systematic, Systematic, Alone!Parity, Parity, missing,
             available
  <2>5. RequestPc(r)' = RequestPc(r)
    BY <1>1, <2>1, <2>2 DEF RequestPc
  <2>6. NaturalEnd(r)' = NaturalEnd(r)
    BY <2>1 DEF NaturalEnd
  <2>7. RecoveryStart(r) = NoTime
    BY <1>1 DEF RecoveryStart, Admitted
  <2>8. /\ Admitted(r)'
        /\ recovery_completion_times'[r] =
             instant + ExpectedRecoveryCost(instant, service_time)
        /\ job_of'[r] = n
    BY <1>1, <1>4 DEF Admitted, Put
  <2>9. RecoveryStart(r)' = instant
    BY <1>4, <2>8 DEF RecoveryStart
  <2>10. RecoveryEnd(r)' \in Int /\ RecoveryEnd(r)' >= instant
    <3>1. StartTime(instant) \in Nat /\ StartTime(instant) >= instant
      BY <1>3, StartTimeBounds DEF QueueInv, QueueTypeOK
    <3> QED
      BY <1>3, <2>8, <3>1 DEF RecoveryEnd, ExpectedRecoveryCost
  <2>11. Alone(r)!StartRecovery(instant)
    BY <2>2, <2>3, <2>4, <2>5, <2>6, <2>7, <2>9, <2>10 DEF Alone!StartRecovery
  <2>12. Alone(r)!Next
    BY <2>2, <2>11 DEF Alone!Next
  <2> QED
    BY <1>7, <2>12
<1> QED
  BY <1>6, <1>7

\* The report returns the result of every simulation.
LEMMA ReportRefines ==
  ASSUME ClusterInv, Report, sim_pc' = "done", NEW q
  PROVE  Alone(q)!Next \/ UNCHANGED Alone(q)!requestSimVars
<1> USE DEF ClusterInv
<1>1. /\ sim_pc = "instants"
      /\ RequestsOf(workload) \subseteq DOMAIN natural_completion_times
      /\ metrics' = [r \in RequestsOf(workload) |-> RequestMetrics(r)]
      /\ UNCHANGED <<workload, events, schedule>>
      /\ UNCHANGED outcomeVars
  BY DEF Report, queueVars
<1>2. TraceInv
  BY <1>1 DEF RunInv
<1>3. /\ Completed(q)' <=> Completed(q)
      /\ Admitted(q)' <=> Admitted(q)
      /\ Simulated(q)' <=> Simulated(q)
  BY <1>1 DEF Completed, Admitted, Simulated, RequestsOf, ValidWorkload, outcomeVars
<1>4. UNCHANGED <<Ahead(q), ArrivedBy(q), RecoveryStart(q), RecoveryEnd(q), NaturalEnd(q)>>
  BY <1>1, <1>3
     DEF Ahead, ArrivedBy, RecoveryStart, RecoveryEnd, NaturalEnd, outcomeVars
<1>5. CASE ~Simulated(q)
  <2>1. UNCHANGED <<RequestPc(q), Returned(q)>>
    BY <1>3, <1>5 DEF RequestPc, Returned
  <2> QED
    BY <1>4, <2>1, ViewStutters DEF View
<1>6. CASE Simulated(q)
  <2>1. q \in RequestsOf(workload) /\ Completed(q)
    BY <1>1, <1>6 DEF Simulated, Completed
  <2>2. RequestPc(q) = "complete" /\ RequestPc(q)' = "returned"
    BY <1>1, <1>3, <1>6, <2>1 DEF RequestPc
  <2>3. natural_completion_times[q] \in Nat /\ NaturalEnd(q) = natural_completion_times[q]
    BY <1>2, <2>1 DEF Completed, TraceInv, NaturalInv, CompletedAt, NaturalEnd
  <2>4. StartOf(q) \in Int /\ StartOf(q)' = StartOf(q)
    <3>1. \E e \in workload : e.request = q
      BY <2>1 DEF RequestsOf
    <3>2. (CHOOSE e \in workload : e.request = q) \in workload
      BY <3>1
    <3> QED
      BY <1>1, <1>2, <3>2, WorkloadTypes DEF StartOf, TraceInv, OrderInv
  <2>5. Admitted(q) => /\ recovery_completion_times[q] \in Nat
                       /\ RecoveryEnd(q) = recovery_completion_times[q]
    BY JobTypes DEF Admitted, JobInv, QuotesAreHonoured, RecoveryEnd
  <2>6. ~Admitted(q) => RecoveryEnd(q) = NoTime
    BY DEF RecoveryEnd
  <2>7. Alone(q)!RecoveryWon <=> Won(q)
    BY <2>3, <2>5, <2>6, ClusterAssumption DEF Alone!RecoveryWon, Won, Admitted
  <2>8. metrics'[q] = RequestMetrics(q)
    BY <1>1, <2>1
  <2>9. /\ RequestMetrics(q).won = Won(q)
        /\ RequestMetrics(q).latency =
             (IF Won(q) THEN RecoveryEnd(q) ELSE NaturalEnd(q)) - StartOf(q)
    BY <2>3, <2>5 DEF RequestMetrics, Won, Admitted
  <2>10. (IF Won(q) THEN RecoveryEnd(q) ELSE NaturalEnd(q)) \in Int
    BY <2>3, <2>5 DEF Won, Admitted
  <2>11. RequestMetrics(q).latency + StartOf(q) =
           IF Won(q) THEN RecoveryEnd(q) ELSE NaturalEnd(q)
    BY <2>4, <2>9, <2>10
  <2>12. Returned(q)' = [final_latency |-> RequestMetrics(q).latency + StartOf(q),
                         recovery_won |-> Won(q)]
    BY <1>3, <1>6, <2>4, <2>8, <2>9 DEF Returned
  <2>13. Returned(q)' =
           [final_latency |-> IF Alone(q)!RecoveryWon THEN RecoveryEnd(q) ELSE NaturalEnd(q),
            recovery_won |-> Alone(q)!RecoveryWon]
    <3>1. Alone(q)!RecoveryWon = Won(q)
      BY <2>7 DEF Alone!RecoveryWon, Won
    <3> QED
      BY <2>11, <2>12, <3>1
  <2>14. Alone(q)!Return
    BY <1>4, <2>2, <2>13 DEF Alone!Return
  <2> QED
    BY <2>14 DEF Alone!Next
<1> QED
  BY <1>5, <1>6

\* Every step of the cluster simulator is, for every request, a step of the
\* request simulator or none.
LEMMA StepRefines ==
  ASSUME ClusterInv, ClusterInv', [ClusterNext]_clusterVars, NEW q
  PROVE  Alone(q)!Next \/ UNCHANGED Alone(q)!requestSimVars
<1> USE DEF ClusterInv
<1>1. CASE UNCHANGED clusterVars
  <2>1. UNCHANGED <<sim_pc, workload, events, metrics, schedule>> /\ UNCHANGED outcomeVars
    BY <1>1 DEF clusterVars, runVars, queueVars
  <2>2. /\ Completed(q)' <=> Completed(q)
        /\ Admitted(q)' <=> Admitted(q)
        /\ Simulated(q)' <=> Simulated(q)
    BY <2>1 DEF Completed, Admitted, Simulated, RequestsOf, ValidWorkload, outcomeVars
  <2>3. UNCHANGED View(q)
    BY <2>1, <2>2 DEF View, RequestPc, Ahead, ArrivedBy, RecoveryStart, RecoveryEnd, NaturalEnd,
         Returned, StartOf, outcomeVars
  <2> QED
    BY <2>3, ViewStutters
<1>2. ASSUME NEW w \in Workloads, Run(w)
      PROVE  Alone(q)!Next
  BY <1>2, RunRefines
<1>3. CASE NextInstant \/ (\E r : GroupThrows(r)) \/ (Report /\ sim_pc' # "done")
  <2>1. /\ sim_pc \in {"instants", "groups"}
        /\ sim_pc' \in {"groups", "threw"}
        /\ UNCHANGED <<workload, events, schedule>>
        /\ UNCHANGED outcomeVars
        /\ sim_pc' = "groups" => sim_pc = "instants"
    BY <1>3 DEF NextInstant, GroupThrows, Turn, Report, AdvanceTime, queueVars
  <2>2. /\ Completed(q)' <=> Completed(q)
        /\ Admitted(q)' <=> Admitted(q)
        /\ Simulated(q)' <=> Simulated(q)
    BY <2>1 DEF Completed, Admitted, Simulated, RequestsOf, ValidWorkload, outcomeVars
  <2>3. UNCHANGED <<Ahead(q), ArrivedBy(q)>>
    BY <2>1, <2>2 DEF Ahead, ArrivedBy, outcomeVars
  <2>4. CASE sim_pc' = "threw"
    BY <2>1, <2>2, <2>3, <2>4, ThrowRefines
  <2>5. CASE sim_pc' = "groups"
    <3>1. UNCHANGED <<RequestPc(q), RecoveryStart(q), RecoveryEnd(q), NaturalEnd(q),
                      Returned(q)>>
      BY <2>1, <2>2, <2>5
         DEF RequestPc, RecoveryStart, RecoveryEnd, NaturalEnd, Returned, outcomeVars
    <3> QED
      BY <2>3, <3>1, ViewStutters DEF View
  <2> QED
    BY <2>1, <2>4, <2>5
<1>4. ASSUME NEW r, NaturalCompletion(r)
      PROVE  Alone(q)!Next \/ UNCHANGED Alone(q)!requestSimVars
  <2>1. TraceInv /\ TraceInv'
    BY <1>4 DEF NaturalCompletion, MarkGroup, Turn, Continue, RunInv
  <2> QED
    BY <1>4, <2>1, NaturalCompletionRefines
<1>5. ASSUME NEW r, NEW service_time, NEW wait_cost,
             \/ AlreadyRecovering(r)
             \/ CannotRecover(r)
             \/ Reject(r, service_time)
             \/ KeepWaiting(r, service_time, wait_cost)
      PROVE  Alone(q)!Next \/ UNCHANGED Alone(q)!requestSimVars
  <2>1. /\ MarkGroup(r)
        /\ ~Complete(trackers'[r])
        /\ Continue
        /\ UNCHANGED <<workload, natural_completion_times, recovery_completion_times, job_of>>
        /\ UNCHANGED queueVars
    BY <1>5 DEF AlreadyRecovering, CannotRecover, Reject, KeepWaiting, Undecided, outcomeVars
  <2>2. TraceInv /\ TraceInv'
    BY <2>1 DEF MarkGroup, Turn, Continue, RunInv
  <2>3. sim_pc' \in {"instants", "groups"} /\ schedule' = schedule
    BY <2>1 DEF Continue, queueVars
  <2> QED
    BY <2>1, <2>2, <2>3, WaitingRefines
<1>6. ASSUME NEW r, NEW service_time \in ServiceTimes, NEW wait_cost \in WaitCosts,
             DecisionThrows(r, service_time, wait_cost)
      PROVE  Alone(q)!Next \/ UNCHANGED Alone(q)!requestSimVars
  <2>1. /\ MarkGroup(r)
        /\ ~Complete(trackers'[r])
        /\ sim_pc = "groups" /\ sim_pc' = "threw"
        /\ UNCHANGED workload
        /\ UNCHANGED outcomeVars
        /\ UNCHANGED schedule
    BY <1>6 DEF DecisionThrows, Undecided, MarkGroup, Turn, queueVars
  <2>2. TraceInv
    BY <2>1 DEF RunInv
  <2>3. /\ r \in RequestsOf(workload)
        /\ events' \subseteq events
        /\ Completed(q)' <=> Completed(q)
        /\ Simulated(q)' <=> Simulated(q)
    BY <2>1, <2>2, MarkGroupEffect
       DEF TraceInv, Completed, Simulated, RequestsOf, ValidWorkload, outcomeVars
  <2>4. CASE q # r
    <3>1. UNCHANGED <<Ahead(q), ArrivedBy(q)>>
      BY <2>1, <2>2, <2>3, <2>4, OthersUnchanged DEF outcomeVars
    <3> QED
      BY <2>1, <2>3, <3>1, ThrowRefines
  <2>5. CASE q = r
    <3>1. ~Complete(trackers[r])
      BY <2>1, <2>2, MarkGroupTrackers DEF Complete, TraceInv
    <3>2. ~Completed(r) /\ Simulated(r)
      BY <2>2, <2>3, <3>1 DEF Completed, Simulated, TraceInv, NaturalInv, OrderInv
    <3>3. Ahead(r)' \subseteq Ahead(r) /\ ArrivedBy(r) \subseteq ArrivedBy(r)'
      BY <2>1, <2>3, <2>5, <3>2 DEF Ahead, ArrivedBy
    <3> QED
      BY <2>1, <2>3, <2>5, <3>2, <3>3, ThrowRefines
  <2> QED
    BY <2>4, <2>5
<1>7. ASSUME NEW r, NEW service_time \in ServiceTimes, NEW wait_cost \in WaitCosts,
             Admit(r, service_time, wait_cost)
      PROVE  Alone(q)!Next \/ UNCHANGED Alone(q)!requestSimVars
  BY <1>7, AdmitRefines
<1>8. CASE Report /\ sim_pc' = "done"
  BY <1>8, ReportRefines
<1>9. ASSUME NEW r, ProcessGroup(r)
      PROVE  Alone(q)!Next \/ UNCHANGED Alone(q)!requestSimVars
  BY <1>3, <1>4, <1>5, <1>9 DEF ProcessGroup
<1>10. ASSUME NEW r, NEW service_time \in ServiceTimes, NEW wait_cost \in WaitCosts,
              Decide(r, service_time, wait_cost)
       PROVE  Alone(q)!Next \/ UNCHANGED Alone(q)!requestSimVars
  BY <1>5, <1>6, <1>7, <1>10 DEF Decide
<1> QED
  BY <1>1, <1>2, <1>3, <1>8, <1>9, <1>10 DEF ClusterNext

\* Sharing a simulator and a queue changes nothing a request can observe except
\* its costs: for every request the cluster run is a run of the request
\* simulator (cluster_simulator.cpp:59-150, simulator.cpp:22-79).
THEOREM ClusterImplementsRequests == ClusterSpec => ImplementsRequestSimulation
<1>1. ClusterInit => \A r \in RequestIds : Alone(r)!Init
  BY InitRefines
<1>2. ClusterInv /\ ClusterInv' /\ [ClusterNext]_clusterVars =>
        [\A r \in RequestIds : [Alone(r)!Next]_(Alone(r)!requestSimVars)]_clusterVars
  BY StepRefines
<1> QED
  BY <1>1, <1>2, ClusterInvariance, PTL DEF ClusterSpec, ImplementsRequestSimulation
=============================================================================

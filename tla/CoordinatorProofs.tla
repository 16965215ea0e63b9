-------------------------- MODULE CoordinatorProofs --------------------------
(***************************************************************************)
(* The coordinator with its executor, for every graph, every number of     *)
(* requests, transport threads, transports and workers, every queue depth  *)
(* and every choice of the cost oracle, with and without failing CUDA      *)
(* calls: its safety properties, and that it implements the life cycle of  *)
(* module RequestLifecycle.                                                *)
(*                                                                         *)
(* The first part is about the executor alone, for every caller: no        *)
(* request is worked on twice at a time, the capacity holds, and contexts  *)
(* and cancellation marks belong to the task they were meant for.  Its     *)
(* lemmas are about the executor's methods and worker steps one by one, so *)
(* that the proofs about the coordinator can use them too.                 *)
(***************************************************************************)
EXTENDS Coordinator, ExecutorClients, TLAPS, FiniteSetTheorems, SequenceTheorems

(***************************************************************************)
(* The inductive invariant of the executor: a worker without a task has    *)
(* forgotten the last one, and the running requests, which are counted,    *)
(* are finitely many.                                                      *)
(***************************************************************************)
WorkersInv ==
    /\ IsFiniteSet(running_requests)
    /\ \A w \in Workers : ~HoldsTask(w) => worker_task[w] = NoTask

ExecutorInv == ExecutorTypeOK /\ ExecutorSound /\ WorkersInv

-----------------------------------------------------------------------------
LEMMA NoContextType ==
  /\ NoContext \in Context
  /\ \A n \in Nat : NewContext(n) \in Context /\ NewContext(n).slots = n
                    /\ NewContext(n).staged = {} /\ NewContext(n).device = {}
BY DEF NoContext, NewContext, Context

\* The task at a position, after the first tasks of the queue.
LEMMA QueueFacts ==
  ASSUME ExecutorTypeOK
  PROVE  /\ Len(queue) \in Nat
         /\ DOMAIN queue = 1 .. Len(queue)
         /\ \A i \in DOMAIN queue : queue[i] \in Task /\ queue[i].request \in Requests
<1>1. /\ Len(queue) \in Nat
      /\ DOMAIN queue = 1 .. Len(queue)
      /\ \A i \in DOMAIN queue : queue[i] \in Task
  BY LenProperties, ElementOfSeq DEF ExecutorTypeOK
<1> QED
  BY <1>1 DEF Task

\* Taking a task out of the queue keeps the others in their order.
LEMMA WithoutTaskFacts ==
  ASSUME ExecutorTypeOK, NEW i \in DOMAIN queue
  PROVE  /\ WithoutTask(i) \in Seq(Task)
         /\ Len(WithoutTask(i)) = Len(queue) - 1
         /\ DOMAIN WithoutTask(i) = 1 .. Len(queue) - 1
         /\ \A j \in 1 .. Len(queue) - 1 :
              WithoutTask(i)[j] = IF j < i THEN queue[j] ELSE queue[j + 1]
<1> DEFINE front == SubSeq(queue, 1, i - 1)
           back == SubSeq(queue, i + 1, Len(queue))
<1>1. Len(queue) \in Nat /\ DOMAIN queue = 1 .. Len(queue) /\ i \in 1 .. Len(queue)
  BY QueueFacts
<1>2. \A j \in 1 .. Len(queue) : queue[j] \in Task
  BY QueueFacts
<1>3. /\ front \in Seq(Task) /\ Len(front) = i - 1
      /\ \A j \in 1 .. i - 1 : front[j] = queue[j]
  BY <1>1, <1>2, SubSeqProperties
<1>4. /\ back \in Seq(Task) /\ Len(back) = Len(queue) - i
      /\ \A j \in 1 .. Len(queue) - i : back[j] = queue[i + j]
  BY <1>1, <1>2, SubSeqProperties
<1>5. /\ front \o back \in Seq(Task)
      /\ Len(front \o back) = Len(queue) - 1
      /\ \A j \in 1 .. Len(queue) - 1 :
           (front \o back)[j] = IF j <= i - 1 THEN front[j] ELSE back[j - (i - 1)]
  <2> HIDE DEF front, back
  <2>1. Len(front) + Len(back) = Len(queue) - 1
    BY <1>1, <1>3, <1>4
  <2>2. /\ front \o back \in Seq(Task)
        /\ Len(front \o back) = Len(front) + Len(back)
        /\ \A j \in 1 .. Len(front) + Len(back) :
             (front \o back)[j] = IF j <= Len(front) THEN front[j] ELSE back[j - Len(front)]
    BY <1>3, <1>4, ConcatProperties
  <2> QED
    BY <1>3, <2>1, <2>2
<1>6. \A j \in 1 .. Len(queue) - 1 : WithoutTask(i)[j] = IF j < i THEN queue[j] ELSE queue[j + 1]
  <2> HIDE DEF front, back
  <2>1. WithoutTask(i) = front \o back
    BY DEF WithoutTask, front, back
  <2> SUFFICES ASSUME NEW j \in 1 .. Len(queue) - 1
               PROVE  WithoutTask(i)[j] = IF j < i THEN queue[j] ELSE queue[j + 1]
    OBVIOUS
  <2>2. CASE j < i
    BY <1>1, <1>3, <1>5, <2>1, <2>2
  <2>3. CASE ~(j < i)
    <3>1. j - (i - 1) \in 1 .. Len(queue) - i /\ i + (j - (i - 1)) = j + 1
      BY <1>1, <2>3
    <3> QED
      BY <1>1, <1>4, <1>5, <2>1, <2>3, <3>1
  <2> QED
    BY <1>1, <2>2, <2>3
<1> QED
  BY <1>1, <1>5, <1>6, LenProperties DEF WithoutTask

-----------------------------------------------------------------------------
LEMMA ExecutorInvInitially == ExecutorInit => ExecutorInv
<1> SUFFICES ASSUME ExecutorInit PROVE ExecutorInv
  OBVIOUS
<1> USE DEF ExecutorInit
<1>1. ExecutorTypeOK
  <2>1. NoResult \in Result /\ NoTask \in Task \cup {NoTask}
    BY DEF NoResult, Result
  <2>2. queue \in Seq(Task)
    BY EmptySeq
  <2> QED
    BY <2>1, <2>2, NoContextType DEF ExecutorTypeOK, WorkerPc, NoContext
<1>2. OneTaskPerRequest /\ ContextsMoved
  BY DEF OneTaskPerRequest, ContextsMoved, HoldsTask, Busy, HasQueuedRequest, NoContext
<1>3. WithinCapacity
  BY FS_EmptySet, FS_CardinalityType, ExecutorAssumption
     DEF WithinCapacity, Outstanding, Capacity, Concurrency
<1>4. WorkersInv
  BY FS_EmptySet DEF WorkersInv
<1> QED
  BY <1>1, <1>2, <1>3, <1>4 DEF ExecutorInv, ExecutorSound

\* Staging, whether it returns or throws, touches the context of a request that
\* has no task.
LEMMA StageKeepsInv ==
  ASSUME ExecutorInv, NEW r \in Requests, NEW n \in Nat, NEW s \in ShardIds,
         StageShard(r, n, s) \/ StageShardThrows(r, n, s)
  PROVE  ExecutorInv'
<1> USE DEF ExecutorInv, ExecutorSound
<1> DEFINE c == ContextFor(r, n)
           InRange(d) == d \in Context /\ d.staged \cup d.device \subseteq 0 .. d.slots - 1
<1>1. UNCHANGED <<queue, running_requests, cancelled_requests, stopping, workerVars>>
  BY DEF StageShard, StageShardThrows
<1>2. \A d \in Requests : InRange(staged_contexts[d])
  BY DEF ExecutorTypeOK
<1>3. InRange(c)
  BY <1>2, NoContextType DEF ContextFor
<1>4. s \in Nat
  BY ExecutorAssumption
<1>5. ASSUME s < n, c.slots = n
      PROVE  /\ InRange([c EXCEPT !.staged = @ \cup {s}])
             /\ InRange([c EXCEPT !.staged = @ \cup {s}, !.device = @ \cup {s}])
             /\ InRange(StagedInto(c, s))
  <2> HIDE DEF c
  <2>1. /\ c = [open |-> c.open, slots |-> c.slots, staged |-> c.staged,
                device |-> c.device, uploaded |-> c.uploaded]
        /\ c.open \in BOOLEAN /\ c.slots \in Nat
        /\ c.staged \subseteq ShardIds /\ c.device \subseteq ShardIds
        /\ c.uploaded \subseteq ShardIds
        /\ s \in 0 .. c.slots - 1
    BY <1>3, <1>4, <1>5 DEF Context
  <2>2. InRange([c EXCEPT !.staged = @ \cup {s}])
    BY <1>3, <2>1 DEF Context
  <2>3. InRange([c EXCEPT !.staged = @ \cup {s}, !.device = @ \cup {s}])
    BY <1>3, <2>1 DEF Context
  <2>4. InRange(StagedInto(c, s))
    BY <1>3, <2>1 DEF Context, StagedInto
  <2> QED
    BY <2>2, <2>3, <2>4
<1>6. \/ UNCHANGED staged_contexts
      \/ /\ ~StageIgnored(r)
         /\ \E d : InRange(d) /\ staged_contexts' = [staged_contexts EXCEPT ![r] = d]
  <2>1. CASE StageShard(r, n, s)
    BY <1>5, <2>1 DEF StageShard
  <2>2. CASE StageShardThrows(r, n, s)
    <3>1. PICK d \in StageThrows(r, n, s) :
            staged_contexts' = [staged_contexts EXCEPT ![r] = d]
      BY <2>2 DEF StageShardThrows
    <3>2. ~(c.slots # n \/ s >= n) => s < n /\ c.slots = n
      BY <1>4
    <3>3. InRange(d)
      <4> HIDE DEF InRange
      <4> QED
        BY <1>2, <1>3, <1>5, <3>1, <3>2 DEF StageThrows
    <3> QED
      BY <2>2, <3>1, <3>3 DEF StageShardThrows
  <2> QED
    BY <2>1, <2>2
<1>7. ExecutorTypeOK'
  BY <1>1, <1>2, <1>6 DEF ExecutorTypeOK, workerVars
<1>8. OneTaskPerRequest' /\ WithinCapacity' /\ WorkersInv'
  BY <1>1 DEF OneTaskPerRequest, WithinCapacity, Outstanding, WorkersInv, HoldsTask, workerVars
<1>9. ContextsMoved'
  BY <1>1, <1>6 DEF ContextsMoved, StageIgnored, Busy, HasQueuedRequest, ExecutorTypeOK
<1> QED
  BY <1>7, <1>8, <1>9

\* Submit that returns false or throws only drops the context.
LEMMA RefusedSubmitKeepsInv ==
  ASSUME ExecutorInv, NEW r \in Requests, NEW n,
         SubmitRejected(r) \/ SubmitThrows(r, n)
  PROVE  ExecutorInv'
<1> USE DEF ExecutorInv, ExecutorSound
<1>1. /\ UNCHANGED <<queue, running_requests, cancelled_requests, stopping, workerVars>>
      /\ staged_contexts' = [staged_contexts EXCEPT ![r] = NoContext]
  BY DEF SubmitRejected, SubmitThrows
<1>2. ExecutorTypeOK'
  BY <1>1, NoContextType DEF ExecutorTypeOK, workerVars, NoContext
<1>3. OneTaskPerRequest' /\ WithinCapacity' /\ WorkersInv'
  BY <1>1 DEF OneTaskPerRequest, WithinCapacity, Outstanding, WorkersInv, HoldsTask, workerVars
<1>4. ContextsMoved'
  BY <1>1 DEF ContextsMoved, Busy, HasQueuedRequest, ExecutorTypeOK, NoContext
<1> QED
  BY <1>2, <1>3, <1>4

\* A notification moves workers from their wait to the test of its condition,
\* and no worker that holds a task.
LEMMA NotifyOneFacts ==
  ASSUME worker_pc \in [Workers -> WorkerPc], NotifyOne
  PROVE  /\ worker_pc' \in [Workers -> WorkerPc]
         /\ \A w \in Workers : \/ worker_pc'[w] = worker_pc[w]
                               \/ worker_pc[w] = "wait" /\ worker_pc'[w] = "ready"
BY DEF NotifyOne, Waiting, WorkerPc

LEMMA NotifyAllFacts ==
  ASSUME NEW pc \in [Workers -> WorkerPc]
  PROVE  /\ NotifyAll(pc) \in [Workers -> WorkerPc]
         /\ \A w \in Workers : \/ NotifyAll(pc)[w] = pc[w]
                               \/ pc[w] = "wait" /\ NotifyAll(pc)[w] = "ready"
BY DEF NotifyAll, WorkerPc

\* What an accepted Submit appends.
LEMMA SubmittedTaskFacts ==
  ASSUME ExecutorTypeOK, NEW r \in Requests, NEW n \in Nat,
         NEW outputs \in SUBSET ShardIds, NEW supplied \in SUBSET ShardIds
  PROVE  LET task == [request |-> r, outputs |-> outputs, shards |-> supplied,
                      context |-> SubmitContext(r, n, supplied)]
         IN /\ task \in Task
            /\ Append(queue, task) \in Seq(Task)
            /\ Len(Append(queue, task)) = Len(queue) + 1
            /\ DOMAIN Append(queue, task) = 1 .. Len(queue) + 1
            /\ \A i \in DOMAIN queue : Append(queue, task)[i] = queue[i]
            /\ Append(queue, task)[Len(queue) + 1] = task
<1> DEFINE task == [request |-> r, outputs |-> outputs, shards |-> supplied,
                    context |-> SubmitContext(r, n, supplied)]
<1>1. SubmitContext(r, n, supplied) \in Context
  BY NoContextType DEF SubmitContext, ExecutorTypeOK, Context, NewContext, NoContext
<1>2. task \in Task
  BY <1>1 DEF Task
<1> HIDE DEF task
<1>3. queue \in Seq(Task)
  BY DEF ExecutorTypeOK
<1>4. /\ Append(queue, task) \in Seq(Task)
      /\ Len(Append(queue, task)) = Len(queue) + 1
      /\ \A i \in 1 .. Len(queue) : Append(queue, task)[i] = queue[i]
      /\ Append(queue, task)[Len(queue) + 1] = task
  BY <1>2, <1>3, AppendProperties
<1>5. DOMAIN Append(queue, task) = 1 .. Len(queue) + 1
  BY <1>4, LenProperties
<1> QED
  BY <1>2, <1>4, <1>5, QueueFacts DEF task

LEMMA AcceptedSubmitKeepsInv ==
  ASSUME ExecutorInv, NEW r \in Requests, NEW n \in Nat,
         NEW outputs \in SUBSET ShardIds, NEW supplied \in SUBSET ShardIds,
         SubmitAccepted(r, n, outputs, supplied)
  PROVE  ExecutorInv'
<1> USE DEF ExecutorInv, ExecutorSound
<1> DEFINE task == [request |-> r, outputs |-> outputs, shards |-> supplied,
                    context |-> SubmitContext(r, n, supplied)]
<1>1. /\ queue' \in Seq(Task)
      /\ Len(queue') = Len(queue) + 1
      /\ DOMAIN queue' = 1 .. Len(queue) + 1
      /\ \A i \in DOMAIN queue : queue'[i] = queue[i]
      /\ queue'[Len(queue) + 1] = task
  BY SubmittedTaskFacts DEF SubmitAccepted
<1>2. queue'[Len(queue) + 1].request = r
  BY <1>1
<1>3. Len(queue) \in Nat /\ DOMAIN queue = 1 .. Len(queue)
  BY QueueFacts
<1>4. /\ UNCHANGED <<running_requests, cancelled_requests, stopping, worker_task, worker_result>>
      /\ staged_contexts' = [staged_contexts EXCEPT ![r] = NoContext]
      /\ r \notin running_requests
      /\ \A i \in DOMAIN queue : queue[i].request # r
      /\ ~(Outstanding >= Capacity)
  BY DEF SubmitAccepted, SubmitRejects, Busy, HasQueuedRequest
<1>5. /\ worker_pc' \in [Workers -> WorkerPc]
      /\ \A w \in Workers : HoldsTask(w)' = HoldsTask(w)
  BY NotifyOneFacts DEF SubmitAccepted, ExecutorTypeOK, HoldsTask
<1>6. ExecutorTypeOK'
  BY <1>1, <1>4, <1>5, NoContextType DEF ExecutorTypeOK, NoContext
<1>7. OneTaskPerRequest'
  <2>1. running_requests' = {worker_task[w].request : w \in {v \in Workers : HoldsTask(v)}}'
    BY <1>4, <1>5 DEF OneTaskPerRequest
  <2>2. (\A v, w \in Workers :
           HoldsTask(v) /\ HoldsTask(w) /\ worker_task[v].request = worker_task[w].request
             => v = w)'
    BY <1>4, <1>5 DEF OneTaskPerRequest
  <2>3. (\A i, j \in DOMAIN queue : queue[i].request = queue[j].request => i = j)'
    BY <1>1, <1>2, <1>3, <1>4 DEF OneTaskPerRequest
  <2>4. (\A i \in DOMAIN queue : queue[i].request \notin running_requests)'
    BY <1>1, <1>2, <1>3, <1>4 DEF OneTaskPerRequest
  <2>5. (cancelled_requests \subseteq running_requests)'
    BY <1>4 DEF OneTaskPerRequest
  <2> QED
    BY <2>1, <2>2, <2>3, <2>4, <2>5 DEF OneTaskPerRequest
<1>8. WithinCapacity'
  <2>1. Cardinality(running_requests) \in Nat /\ Cardinality(Workers) \in Nat
    BY FS_CardinalityType, ExecutorAssumption DEF WorkersInv
  <2> QED
    BY <1>1, <1>3, <1>4, <2>1, ExecutorAssumption
       DEF WithinCapacity, Outstanding, Capacity, Concurrency
<1>9. ContextsMoved'
  BY <1>1, <1>2, <1>3, <1>4
     DEF ContextsMoved, Busy, HasQueuedRequest, ExecutorTypeOK, NoContext
<1>10. WorkersInv'
  BY <1>4, <1>5 DEF WorkersInv
<1> QED
  BY <1>6, <1>7, <1>8, <1>9, <1>10

\* Cancel: what is left of the queue.
LEMMA CancelFacts ==
  ASSUME ExecutorInv, NEW r \in Requests, Cancel(r)
  PROVE  /\ queue' \in Seq(Task)
         /\ Len(queue') <= Len(queue)
         /\ \A i \in DOMAIN queue' : queue'[i].request # r
         /\ \A i \in DOMAIN queue : queue[i].request # r => \E j \in DOMAIN queue' : queue'[j] = queue[i]
         /\ \E f \in [DOMAIN queue' -> DOMAIN queue] :
              /\ \A i \in DOMAIN queue' : queue'[i] = queue[f[i]]
              /\ \A i, j \in DOMAIN queue' : f[i] = f[j] => i = j
<1>1. Len(queue) \in Nat /\ DOMAIN queue = 1 .. Len(queue) /\ queue \in Seq(Task)
  BY QueueFacts DEF ExecutorInv, ExecutorTypeOK
<1>2. CASE ~HasQueuedRequest(r)
  <2>1. queue' = queue
    BY <1>2 DEF Cancel
  <2> DEFINE f == [i \in DOMAIN queue |-> i]
  <2>2. /\ f \in [DOMAIN queue' -> DOMAIN queue]
        /\ \A i \in DOMAIN queue' : queue'[i] = queue[f[i]]
        /\ \A i, j \in DOMAIN queue' : f[i] = f[j] => i = j
    BY <2>1
  <2>3. \A i \in DOMAIN queue' : queue'[i].request # r
    BY <1>2, <2>1 DEF HasQueuedRequest
  <2> HIDE DEF f
  <2> QED
    BY <1>1, <2>1, <2>2, <2>3
<1>3. CASE HasQueuedRequest(r)
  <2>1. PICK k \in DOMAIN queue : queue[k].request = r /\ queue' = WithoutTask(k)
    BY <1>3 DEF Cancel
  <2>2. /\ queue' \in Seq(Task)
        /\ Len(queue') = Len(queue) - 1
        /\ DOMAIN queue' = 1 .. Len(queue) - 1
        /\ \A j \in 1 .. Len(queue) - 1 : queue'[j] = IF j < k THEN queue[j] ELSE queue[j + 1]
    BY <2>1, WithoutTaskFacts DEF ExecutorInv
  <2> DEFINE f == [j \in 1 .. Len(queue) - 1 |-> IF j < k THEN j ELSE j + 1]
  <2>3. f \in [DOMAIN queue' -> DOMAIN queue]
    BY <1>1, <2>1, <2>2
  <2>4. \A i \in DOMAIN queue' : queue'[i] = queue[f[i]]
    BY <2>2
  <2>5. \A i, j \in DOMAIN queue' : f[i] = f[j] => i = j
    BY <1>1, <2>1, <2>2
  <2>6. \A i \in DOMAIN queue' : f[i] # k
    BY <1>1, <2>1, <2>2
  <2> HIDE DEF f
  <2>7. \A i \in DOMAIN queue' : queue'[i].request # r
    BY <2>1, <2>3, <2>4, <2>6 DEF ExecutorInv, ExecutorSound, OneTaskPerRequest
  <2>8. ASSUME NEW i \in DOMAIN queue, queue[i].request # r
        PROVE  \E j \in DOMAIN queue' : queue'[j] = queue[i]
    <3>1. i # k /\ i \in 1 .. Len(queue) /\ k \in 1 .. Len(queue)
      BY <1>1, <2>1, <2>8
    <3>2. CASE i < k
      <4>1. i \in 1 .. Len(queue) - 1
        BY <1>1, <3>1, <3>2
      <4> QED
        BY <2>2, <3>2, <4>1
    <3>3. CASE i > k
      <4>1. i - 1 \in 1 .. Len(queue) - 1 /\ ~(i - 1 < k) /\ i - 1 + 1 = i
        BY <1>1, <3>1, <3>3
      <4> QED
        BY <2>2, <4>1
    <3> QED
      BY <1>1, <3>1, <3>2, <3>3
  <2>9. \E g \in [DOMAIN queue' -> DOMAIN queue] :
          /\ \A i \in DOMAIN queue' : queue'[i] = queue[g[i]]
          /\ \A i, j \in DOMAIN queue' : g[i] = g[j] => i = j
    BY <2>3, <2>4, <2>5
  <2>10. Len(queue') <= Len(queue)
    BY <1>1, <2>2
  <2> QED
    BY <2>2, <2>7, <2>8, <2>9, <2>10
<1> QED
  BY <1>2, <1>3

LEMMA CancelKeepsInv ==
  ASSUME ExecutorInv, NEW r \in Requests, Cancel(r)
  PROVE  ExecutorInv'
<1> USE DEF ExecutorInv, ExecutorSound
<1>1. /\ UNCHANGED <<running_requests, stopping, workerVars>>
      /\ staged_contexts' = [staged_contexts EXCEPT ![r] = NoContext]
      /\ \/ UNCHANGED cancelled_requests
         \/ r \in running_requests /\ cancelled_requests' = cancelled_requests \cup {r}
  BY DEF Cancel
<1>2. PICK f \in [DOMAIN queue' -> DOMAIN queue] :
        /\ \A i \in DOMAIN queue' : queue'[i] = queue[f[i]]
        /\ \A i, j \in DOMAIN queue' : f[i] = f[j] => i = j
  BY CancelFacts
<1>3. ExecutorTypeOK'
  BY <1>1, NoContextType, CancelFacts DEF ExecutorTypeOK, NoContext, workerVars
<1>4. OneTaskPerRequest'
  <2>1. /\ running_requests' = {worker_task[w].request : w \in {v \in Workers : HoldsTask(v)}}'
        /\ (\A v, w \in Workers :
              HoldsTask(v) /\ HoldsTask(w) /\ worker_task[v].request = worker_task[w].request
                => v = w)'
        /\ (cancelled_requests \subseteq running_requests)'
    BY <1>1 DEF OneTaskPerRequest, HoldsTask, workerVars
  <2>2. /\ (\A i, j \in DOMAIN queue : queue[i].request = queue[j].request => i = j)'
        /\ (\A i \in DOMAIN queue : queue[i].request \notin running_requests)'
    BY <1>1, <1>2 DEF OneTaskPerRequest
  <2> QED
    BY <2>1, <2>2 DEF OneTaskPerRequest
<1>5. WithinCapacity'
  <2>1. Cardinality(running_requests) \in Nat /\ Cardinality(Workers) \in Nat
    BY FS_CardinalityType, ExecutorAssumption DEF WorkersInv
  <2>2. Len(queue) \in Nat /\ Len(queue') \in Nat /\ Len(queue') <= Len(queue)
    BY CancelFacts, QueueFacts, LenProperties
  <2> QED
    BY <1>1, <2>1, <2>2, ExecutorAssumption
       DEF WithinCapacity, Outstanding, Capacity, Concurrency
<1>6. ContextsMoved'
  BY <1>1, <1>2 DEF ContextsMoved, Busy, HasQueuedRequest, ExecutorTypeOK, NoContext
<1>7. WorkersInv'
  BY <1>1 DEF WorkersInv, HoldsTask, workerVars
<1> QED
  BY <1>3, <1>4, <1>5, <1>6, <1>7

LEMMA StopKeepsInv ==
  ASSUME ExecutorInv, Stop
  PROVE  ExecutorInv'
<1> USE DEF ExecutorInv, ExecutorSound
<1>1. /\ UNCHANGED <<queue, staged_contexts, running_requests, cancelled_requests,
                     worker_task, worker_result>>
      /\ stopping' = TRUE
  BY DEF Stop
<1>2. /\ worker_pc' \in [Workers -> WorkerPc]
      /\ \A w \in Workers : HoldsTask(w)' = HoldsTask(w)
  BY NotifyAllFacts DEF Stop, ExecutorTypeOK, HoldsTask
<1>3. ExecutorTypeOK'
  BY <1>1, <1>2 DEF ExecutorTypeOK
<1>4. OneTaskPerRequest'
  BY <1>1, <1>2 DEF OneTaskPerRequest
<1>5. WithinCapacity' /\ ContextsMoved' /\ WorkersInv'
  BY <1>1, <1>2 DEF WithinCapacity, Outstanding, ContextsMoved, Busy, HasQueuedRequest,
                    WorkersInv
<1> QED
  BY <1>3, <1>4, <1>5

\* A worker that holds a task holds one of a request.
LEMMA HeldTaskType ==
  ASSUME ExecutorInv, NEW w \in Workers, HoldsTask(w)
  PROVE  worker_task[w] \in Task /\ worker_task[w].request \in running_requests
<1>1. worker_task[w].request \in running_requests
  BY DEF ExecutorInv, ExecutorSound, OneTaskPerRequest
<1>2. worker_task[w] # NoTask
  BY <1>1, ExecutorAssumption DEF NoTask, ExecutorInv, ExecutorTypeOK
<1> QED
  BY <1>1, <1>2 DEF ExecutorInv, ExecutorTypeOK

\* A worker's step that neither takes nor returns a task.
LEMMA WorkerMoveKeepsInv ==
  ASSUME ExecutorInv, NEW w \in Workers,
         \/ WorkerWait(w) \/ WorkerExit(w) \/ WorkerRun(w) \/ WorkerCheck(w)
         \/ WorkerDeliver(w)
  PROVE  ExecutorInv'
<1> USE DEF ExecutorInv, ExecutorSound
<1>1. UNCHANGED <<queue, staged_contexts, running_requests, cancelled_requests, stopping,
                  worker_task>>
  BY DEF WorkerWait, WorkerExit, WorkerRun, WorkerCheck, WorkerDeliver
<1>2. worker_pc \in [Workers -> WorkerPc]
  BY DEF ExecutorTypeOK
<1>3. /\ worker_pc' \in [Workers -> WorkerPc]
      /\ \A v \in Workers : HoldsTask(v)' = HoldsTask(v)
  BY <1>2 DEF WorkerWait, WorkerExit, WorkerRun, WorkerCheck, WorkerDeliver, HoldsTask, WorkerPc
<1>4. worker_result' \in [Workers -> Result]
  <2>1. CASE WorkerRun(w)
    <3>1. PICK result \in DecodeResults(worker_task[w]) :
            worker_result' = [worker_result EXCEPT ![w] = result]
      BY <2>1 DEF WorkerRun
    <3>2. worker_task[w] \in Task
      BY <2>1, HeldTaskType DEF WorkerRun, HoldsTask
    <3>3. result \in Result
      <4>1. \A a, b \in SUBSET ShardIds : [success |-> TRUE, shards |-> a \cup b] \in Result
        BY DEF Result
      <4>2. NoResult \in Result
        BY DEF NoResult, Result
      <4>3. worker_task[w].shards \in SUBSET ShardIds /\ worker_task[w].outputs \in SUBSET ShardIds
        BY <3>2 DEF Task
      <4> QED
        BY <3>1, <4>1, <4>2, <4>3 DEF DecodeResults
    <3> QED
      BY <3>1, <3>3 DEF ExecutorTypeOK
  <2>2. CASE ~WorkerRun(w)
    BY <2>2 DEF WorkerWait, WorkerExit, WorkerCheck, WorkerDeliver, ExecutorTypeOK
  <2> QED
    BY <2>1, <2>2
<1>5. ExecutorTypeOK'
  BY <1>1, <1>3, <1>4 DEF ExecutorTypeOK
<1>6. OneTaskPerRequest'
  BY <1>1, <1>3 DEF OneTaskPerRequest
<1>7. WithinCapacity' /\ ContextsMoved' /\ WorkersInv'
  BY <1>1, <1>3 DEF WithinCapacity, Outstanding, ContextsMoved, Busy, HasQueuedRequest,
                    WorkersInv
<1> QED
  BY <1>5, <1>6, <1>7

\* What is left of the queue when a worker takes its first task.
LEMMA TakeFacts ==
  ASSUME ExecutorInv, NEW w \in Workers, WorkerTake(w)
  PROVE  /\ 1 \in DOMAIN queue
         /\ worker_task' = [worker_task EXCEPT ![w] = queue[1]]
         /\ queue' \in Seq(Task)
         /\ Len(queue') = Len(queue) - 1
         /\ DOMAIN queue' = 1 .. Len(queue) - 1
         /\ \A i \in DOMAIN queue' : /\ i \in Nat \ {0}
                                      /\ i + 1 \in DOMAIN queue
                                      /\ queue'[i] = queue[i + 1]
         /\ running_requests' = running_requests \cup {queue[1].request}
         /\ worker_pc' = [worker_pc EXCEPT ![w] = "run"]
         /\ UNCHANGED <<staged_contexts, cancelled_requests, stopping, worker_result>>
<1>1. Len(queue) \in Nat /\ DOMAIN queue = 1 .. Len(queue) /\ queue \in Seq(Task)
  BY QueueFacts DEF ExecutorInv, ExecutorTypeOK
<1>2. queue # <<>>
  BY DEF WorkerTake
<1>3. Len(queue) \in Nat \ {0}
  BY <1>1, <1>2, EmptySeq
<1>4. /\ queue' \in Seq(Task)
      /\ Len(queue') = Len(queue) - 1
      /\ \A i \in 1 .. Len(queue') : queue'[i] = queue[i + 1]
  BY <1>1, <1>2, HeadTailProperties DEF WorkerTake
<1>5. DOMAIN queue' = 1 .. Len(queue) - 1
  BY <1>4, LenProperties
<1>6. Head(queue) = queue[1]
  BY <1>1, <1>2
<1> QED
  BY <1>1, <1>3, <1>4, <1>5, <1>6 DEF WorkerTake

LEMMA WorkerTakeKeepsInv ==
  ASSUME ExecutorInv, NEW w \in Workers, WorkerTake(w)
  PROVE  ExecutorInv'
<1> USE DEF ExecutorInv, ExecutorSound
<1> DEFINE r == queue[1].request
<1>1. /\ r \in Requests /\ queue[1] \in Task
      /\ Len(queue) \in Nat /\ DOMAIN queue = 1 .. Len(queue)
  BY TakeFacts, QueueFacts
<1>2. /\ r \notin running_requests
      /\ \A i \in DOMAIN queue' : queue'[i].request # r
  <2>1. 1 \in DOMAIN queue
    BY TakeFacts
  <2>2. \A i \in DOMAIN queue' : /\ i \in Nat \ {0}
                                 /\ i + 1 \in DOMAIN queue
                                 /\ queue'[i] = queue[i + 1]
    BY TakeFacts
  <2> QED
    BY <2>1, <2>2 DEF OneTaskPerRequest
<1>3. worker_pc[w] = "ready" /\ ~HoldsTask(w)
  BY DEF WorkerTake, HoldsTask
<1>4. \A v \in Workers : HoldsTask(v)' <=> (v = w \/ HoldsTask(v))
  BY TakeFacts DEF HoldsTask, ExecutorTypeOK
<1>5. \A v \in Workers : worker_task'[v] = IF v = w THEN queue[1] ELSE worker_task[v]
  BY TakeFacts DEF ExecutorTypeOK
<1>6. ExecutorTypeOK'
  BY <1>1, TakeFacts DEF ExecutorTypeOK, WorkerPc
<1>7. OneTaskPerRequest'
  <2>1. running_requests' = {worker_task[v].request : v \in {u \in Workers : HoldsTask(u)}}'
    <3>1. \A x \in running_requests : \E v \in Workers : HoldsTask(v) /\ worker_task[v].request = x
      BY DEF OneTaskPerRequest
    <3>2. \A v \in Workers : HoldsTask(v) => worker_task[v].request \in running_requests
      BY DEF OneTaskPerRequest
    <3> QED
      BY <1>3, <1>4, <1>5, <3>1, <3>2, TakeFacts
  <2>2. (\A u, v \in Workers :
           HoldsTask(u) /\ HoldsTask(v) /\ worker_task[u].request = worker_task[v].request
             => u = v)'
    <3>1. \A v \in Workers : HoldsTask(v) => worker_task[v].request # r
      BY <1>2 DEF OneTaskPerRequest
    <3> QED
      BY <1>3, <1>4, <1>5, <3>1 DEF OneTaskPerRequest
  <2>3. (\A i, j \in DOMAIN queue : queue[i].request = queue[j].request => i = j)'
    <3>1. \A i \in DOMAIN queue' : i \in Nat /\ i + 1 \in DOMAIN queue /\ queue'[i] = queue[i + 1]
      BY TakeFacts
    <3>2. \A i, j \in DOMAIN queue' : i + 1 = j + 1 => i = j
      BY <3>1
    <3> QED
      BY <3>1, <3>2 DEF OneTaskPerRequest
  <2>4. (\A i \in DOMAIN queue : queue[i].request \notin running_requests)'
    BY <1>2, TakeFacts DEF OneTaskPerRequest
  <2>5. (cancelled_requests \subseteq running_requests)'
    BY TakeFacts DEF OneTaskPerRequest
  <2> QED
    BY <2>1, <2>2, <2>3, <2>4, <2>5 DEF OneTaskPerRequest
<1>8. WithinCapacity' /\ IsFiniteSet(running_requests')
  <2>1. Cardinality(running_requests) \in Nat /\ Cardinality(Workers) \in Nat
    BY FS_CardinalityType, ExecutorAssumption DEF WorkersInv
  <2>2. /\ IsFiniteSet(running_requests')
        /\ Cardinality(running_requests') = Cardinality(running_requests) + 1
    <3>1. running_requests' = running_requests \cup {r} /\ IsFiniteSet(running_requests)
      BY TakeFacts DEF WorkersInv
    <3> QED
      BY <1>2, <3>1, FS_AddElement
  <2>3. Len(queue') = Len(queue) - 1
    BY TakeFacts
  <2> QED
    BY <1>1, <2>1, <2>2, <2>3, ExecutorAssumption
       DEF WithinCapacity, Outstanding, Capacity, Concurrency
<1>9. ContextsMoved'
  BY <1>1, TakeFacts DEF ContextsMoved, Busy, HasQueuedRequest
<1>10. WorkersInv'
  BY <1>4, <1>5, <1>8 DEF WorkersInv
<1> QED
  BY <1>6, <1>7, <1>8, <1>9, <1>10

LEMMA WorkerFinishKeepsInv ==
  ASSUME ExecutorInv, NEW w \in Workers, WorkerFinish(w)
  PROVE  ExecutorInv'
<1> USE DEF ExecutorInv, ExecutorSound
<1> DEFINE r == worker_task[w].request
<1>1. /\ UNCHANGED <<queue, staged_contexts, stopping>>
      /\ running_requests' = running_requests \ {r}
      /\ cancelled_requests' = cancelled_requests \ {r}
      /\ worker_task' = [worker_task EXCEPT ![w] = NoTask]
      /\ worker_result' = [worker_result EXCEPT ![w] = NoResult]
      /\ worker_pc[w] = "finish" /\ HoldsTask(w)
  BY DEF WorkerFinish, HoldsTask
<1>2. /\ worker_pc' \in [Workers -> WorkerPc]
      /\ \A v \in Workers : HoldsTask(v)' <=> (v # w /\ HoldsTask(v))
  <2> DEFINE pc == [worker_pc EXCEPT ![w] = "ready"]
  <2>1. pc \in [Workers -> WorkerPc] /\ \A v \in Workers : pc[v] = IF v = w THEN "ready" ELSE worker_pc[v]
    BY DEF ExecutorTypeOK, WorkerPc
  <2>2. worker_pc' = NotifyAll(pc)
    BY DEF WorkerFinish
  <2> HIDE DEF pc
  <2> QED
    BY <2>1, <2>2, NotifyAllFacts DEF HoldsTask
<1>3. \A v \in Workers : worker_task'[v] = IF v = w THEN NoTask ELSE worker_task[v]
  BY <1>1 DEF ExecutorTypeOK
<1>4. ExecutorTypeOK'
  BY <1>1, <1>2 DEF ExecutorTypeOK, NoResult, Result
<1>5. OneTaskPerRequest'
  <2>1. running_requests' = {worker_task[v].request : v \in {u \in Workers : HoldsTask(u)}}'
    <3>1. \A x \in running_requests : \E v \in Workers : HoldsTask(v) /\ worker_task[v].request = x
      BY DEF OneTaskPerRequest
    <3>2. \A v \in Workers : HoldsTask(v) => worker_task[v].request \in running_requests
      BY DEF OneTaskPerRequest
    <3>3. \A v \in Workers : HoldsTask(v) /\ v # w => worker_task[v].request # r
      BY <1>1 DEF OneTaskPerRequest
    <3> HIDE DEF r
    <3>4. \A x : x \in running_requests' => \E v \in Workers : HoldsTask(v)' /\ worker_task'[v].request = x
      BY <1>1, <1>2, <1>3, <3>1 DEF r
    <3>5. \A v \in Workers : HoldsTask(v)' => worker_task'[v].request \in running_requests'
      BY <1>1, <1>2, <1>3, <3>2, <3>3
    <3> QED
      BY <3>4, <3>5
  <2>2. (\A u, v \in Workers :
           HoldsTask(u) /\ HoldsTask(v) /\ worker_task[u].request = worker_task[v].request
             => u = v)'
    BY <1>2, <1>3 DEF OneTaskPerRequest
  <2>3. /\ (\A i, j \in DOMAIN queue : queue[i].request = queue[j].request => i = j)'
        /\ (\A i \in DOMAIN queue : queue[i].request \notin running_requests)'
        /\ (cancelled_requests \subseteq running_requests)'
    BY <1>1 DEF OneTaskPerRequest
  <2> QED
    BY <2>1, <2>2, <2>3 DEF OneTaskPerRequest
<1>6. WithinCapacity' /\ IsFiniteSet(running_requests')
  <2>1. Cardinality(running_requests) \in Nat /\ Cardinality(Workers) \in Nat
    BY FS_CardinalityType, ExecutorAssumption DEF WorkersInv
  <2>2. /\ IsFiniteSet(running_requests')
        /\ Cardinality(running_requests') \in Nat
        /\ Cardinality(running_requests') <= Cardinality(running_requests)
    <3>1. IsFiniteSet(running_requests) /\ running_requests' \in SUBSET running_requests
      BY <1>1 DEF WorkersInv
    <3> QED
      BY <3>1, FS_Subset, FS_CardinalityType
  <2>3. Len(queue) \in Nat /\ queue' = queue
    BY <1>1, QueueFacts
  <2> QED
    BY <2>1, <2>2, <2>3, ExecutorAssumption
       DEF WithinCapacity, Outstanding, Capacity, Concurrency
<1>7. ContextsMoved'
  BY <1>1 DEF ContextsMoved, Busy, HasQueuedRequest
<1>8. WorkersInv'
  BY <1>2, <1>3, <1>6 DEF WorkersInv
<1> QED
  BY <1>4, <1>5, <1>6, <1>7, <1>8

LEMMA WorkerStepKeepsInv ==
  ASSUME ExecutorInv, NEW w \in Workers, WorkerStep(w) \/ WorkerDeliver(w)
  PROVE  ExecutorInv'
BY WorkerMoveKeepsInv, WorkerTakeKeepsInv, WorkerFinishKeepsInv DEF WorkerStep

LEMMA ExecutorStutterKeepsInv ==
  ASSUME ExecutorInv, UNCHANGED executorVars
  PROVE  ExecutorInv'
<1> USE DEF ExecutorInv, ExecutorSound, executorVars
<1>1. ExecutorTypeOK'
  BY DEF ExecutorTypeOK
<1>2. OneTaskPerRequest' /\ WorkersInv'
  BY DEF OneTaskPerRequest, WorkersInv, HoldsTask
<1>3. WithinCapacity' /\ ContextsMoved'
  BY DEF WithinCapacity, Outstanding, ContextsMoved, Busy, HasQueuedRequest
<1> QED
  BY <1>1, <1>2, <1>3

-----------------------------------------------------------------------------
\* Under any caller of the interface, the executor's invariant holds.
THEOREM ExecutorInvariance == ExecutorSpec => []ExecutorInv
<1>1. ExecutorInv /\ [ExecutorNext]_executorVars => ExecutorInv'
  <2> SUFFICES ASSUME ExecutorInv, [ExecutorNext]_executorVars
               PROVE  ExecutorInv'
    OBVIOUS
  <2>1. CASE ClientCall
    <3>1. PICK r \in Requests :
            \/ \E n \in SlotCounts, s \in ShardIds : StageShard(r, n, s)
            \/ \E n \in SlotCounts, s \in ShardIds : StageShardThrows(r, n, s)
            \/ \E n \in SlotCounts, sub \in Submissions :
                 SubmitAccepted(r, n, sub.outputs, sub.shards)
            \/ \E n \in SlotCounts : SubmitThrows(r, n)
            \/ SubmitRejected(r)
            \/ Cancel(r)
      BY <2>1 DEF ClientCall
    <3>2. \A sub \in Submissions :
            sub.outputs \in SUBSET ShardIds /\ sub.shards \in SUBSET ShardIds
      BY ClientAssumption
    <3>3. ASSUME NEW n \in SlotCounts, NEW s \in ShardIds,
                 StageShard(r, n, s) \/ StageShardThrows(r, n, s)
          PROVE  ExecutorInv'
      BY <3>3, StageKeepsInv, ClientAssumption
    <3>4. ASSUME NEW n \in SlotCounts, NEW sub \in Submissions,
                 SubmitAccepted(r, n, sub.outputs, sub.shards)
          PROVE  ExecutorInv'
      BY <3>2, <3>4, AcceptedSubmitKeepsInv, ClientAssumption
    <3>5. ASSUME NEW n \in SlotCounts, SubmitThrows(r, n)
          PROVE  ExecutorInv'
      BY <3>5, RefusedSubmitKeepsInv
    <3>6. CASE SubmitRejected(r)
      BY <3>6, RefusedSubmitKeepsInv
    <3>7. CASE Cancel(r)
      BY <3>7, CancelKeepsInv
    <3> QED
      BY <3>1, <3>3, <3>4, <3>5, <3>6, <3>7
  <2>2. CASE Stop
    BY <2>2, StopKeepsInv
  <2>3. ASSUME NEW w \in Workers, WorkerStep(w) \/ WorkerDeliver(w)
        PROVE  ExecutorInv'
    BY <2>3, WorkerStepKeepsInv
  <2>4. CASE UNCHANGED executorVars
    BY <2>4, ExecutorStutterKeepsInv
  <2> QED
    BY <2>1, <2>2, <2>3, <2>4 DEF ExecutorNext
<1> QED
  BY <1>1, ExecutorInvInitially, PTL DEF ExecutorSpec

\* A request never has two tasks, the capacity holds, nobody stages into a
\* context a task owns, and a cancellation mark dies with its task: for every
\* number of workers, queue depth and order of calls
\* (cuda_recovery_executor.cpp:86-89, 113-118, 128-129, 147-163, 214-218).
THEOREM ExecutorIsSound == ExecutorSpec => []ExecutorSound
<1>1. ExecutorInv => ExecutorSound
  BY DEF ExecutorInv
<1> QED
  BY <1>1, ExecutorInvariance, PTL

-----------------------------------------------------------------------------
(***************************************************************************)
(* The inductive invariant of the coordinator.                             *)
(***************************************************************************)

\* The slots of a request are the shards its tracker has marked until a recovery
\* replaces them, and whatever completes a request leaves all systematic shards.
StatusInv ==
    \A r \in Requests :
        /\ status[r] # "Recovered" => shards[r] = arrivals[r]
        /\ status[r] \in {"NaturalComplete", "Recovered"} => K \subseteq shards[r]
        /\ recovery_submitted[r] => word_count[r] # 0 /\ status[r] # "none"

\* A staged shard that the tracker has marked has been uploaded; the others are
\* left over from a staging that failed.
ContextInv ==
    /\ ~stopping
    /\ \A r \in Requests :
         staged_contexts[r].open =>
            /\ staged_contexts[r].slots = SlotCount
            /\ staged_contexts[r].staged \cap arrivals[r] \subseteq staged_contexts[r].uploaded

\* A task is one of a submitted recovery, it yields all systematic shards, and
\* the shards that have arrived suffice for it.
SoundTask(task) ==
    /\ K \subseteq task.shards \cup task.outputs
    /\ Uploaded(task)
    /\ recovery_submitted[task.request]
    /\ Recoverable(arrivals[task.request])

TaskInv ==
    /\ \A i \in DOMAIN queue : SoundTask(queue[i])
    /\ \A w \in Workers : HoldsTask(w) =>
         /\ SoundTask(worker_task[w])
         /\ worker_pc[w] # "run" /\ worker_result[w].success => K \subseteq worker_result[w].shards

\* A thread on its way into or out of Submit is alone with its request, and a
\* cancellation is only ever meant for a request that has completed naturally.
Submitting(t) == thread_pc[t] \in {"submit", "rejected"}

ThreadInv ==
    /\ \A t \in Threads : Submitting(t) =>
         /\ recovery_submitted[thread_request[t]]
         /\ ~Busy(thread_request[t])
         /\ \A u \in Threads : Submitting(u) /\ thread_request[u] = thread_request[t] => u = t
    /\ \A t \in Threads : thread_pc[t] = "submit" =>
         /\ thread_shards[t] \subseteq arrivals[thread_request[t]]
         /\ Recoverable(arrivals[thread_request[t]])
    /\ \A t \in Threads : thread_pc[t] = "cancel" => status[thread_request[t]] = "NaturalComplete"
    /\ \A r \in cancelled_requests : status[r] = "NaturalComplete"

\* A submitted recovery of a pending request is still with somebody.
Pursued(r) ==
    \/ \E t \in Threads : thread_request[t] = r /\ Submitting(t)
    \/ HasQueuedRequest(r)
    \/ \E w \in Workers : worker_task[w].request = r /\ worker_pc[w] \in {"run", "check", "deliver"}

PursuitInv ==
    ~CudaFaults => \A r \in Requests : status[r] = "Pending" /\ recovery_submitted[r] => Pursued(r)

\* A completed request has left the executor, or a thread is still on its way to
\* cancel what it left there.
Released(r) ==
    /\ ~staged_contexts[r].open
    /\ ~HasQueuedRequest(r)
    /\ \A w \in Workers :
         worker_task[w].request = r =>
            r \in cancelled_requests \/ worker_pc[w] \in {"deliver", "finish"}

ReleaseInv ==
    \A r \in Requests :
        /\ status[r] = "NaturalComplete" =>
             \/ Released(r)
             \/ \E t \in Threads : /\ thread_request[t] = r
                                   /\ thread_pc[t] \in {"cancel", "submit", "accepted"}
        /\ status[r] \in {"Recovered", "Failed"} =>
             /\ Released(r)
             /\ \A t \in Threads : thread_request[t] = r => thread_pc[t] # "submit"

CoordinatorInv ==
    /\ TypeOK
    /\ ExecutorInv
    /\ StatusInv
    /\ ContextInv
    /\ TaskInv
    /\ ThreadInv
    /\ PursuitInv
    /\ ReleaseInv

-----------------------------------------------------------------------------
(***************************************************************************)
(* Facts the proof keeps needing.                                          *)
(***************************************************************************)

LEMMA GraphFacts ==
  /\ SlotCount \in Nat
  /\ K \subseteq ShardIds
  /\ \A s \in ShardIds : s \in Nat /\ s < SlotCount
BY CoordinatorAssumption DEF SlotCount, K, Systematic, Shards, IsBipartiteGraph

\* More arrivals never make a recoverable request unrecoverable.
LEMMA RecoverableGrows ==
  ASSUME NEW S, NEW T, S \subseteq T, Recoverable(S)
  PROVE  Recoverable(T)
<1>1. MissingSystematic(T) \subseteq MissingSystematic(S) /\ AvailableParity(S) \subseteq AvailableParity(T)
  BY DEF MissingSystematic, AvailableParity
<1>2. \A U : StoppingSet(Graph, AvailableParity(T), U) => StoppingSet(Graph, AvailableParity(S), U)
  BY <1>1 DEF StoppingSet
<1> QED
  BY <1>1, <1>2 DEF Recoverable, Peelable

\* Who works for a request.
LEMMA HolderFacts ==
  ASSUME ExecutorInv, NEW r \in Requests
  PROVE  /\ \A w \in Workers : worker_task[w].request = r => HoldsTask(w) /\ Busy(r)
         /\ Busy(r) => \/ HasQueuedRequest(r)
                       \/ \E w \in Workers : HoldsTask(w) /\ worker_task[w].request = r
<1>1. NoTask.request # r
  BY ExecutorAssumption DEF NoTask
<1> QED
  BY <1>1 DEF ExecutorInv, ExecutorSound, OneTaskPerRequest, WorkersInv, Busy

\* A request with a task has a submitted recovery and sufficient shards.
LEMMA BusyIsSubmitted ==
  ASSUME ExecutorInv, TaskInv, NEW r \in Requests, Busy(r)
  PROVE  recovery_submitted[r] /\ Recoverable(arrivals[r])
BY HolderFacts DEF TaskInv, SoundTask, HasQueuedRequest

\* A thread inside a callback works for a request.
LEMMA ThreadRequestType ==
  ASSUME TypeOK, NEW t \in Threads, thread_pc[t] # "idle"
  PROVE  thread_request[t] \in Requests
BY DEF TypeOK

LEMMA ThreadAtFacts ==
  ASSUME TypeOK, NEW t \in Threads, NEW pc, NEW r, NEW task_shards, ThreadAt(t, pc, r, task_shards)
  PROVE  \A u \in Threads :
           /\ thread_pc'[u] = IF u = t THEN pc ELSE thread_pc[u]
           /\ thread_request'[u] = IF u = t THEN r ELSE thread_request[u]
           /\ thread_shards'[u] = IF u = t THEN task_shards ELSE thread_shards[u]
BY DEF TypeOK, ThreadAt

LEMMA ThreadAtType ==
  ASSUME TypeOK, NEW t \in Threads, NEW pc \in ThreadPc, NEW r \in Requests \cup {NoRequest},
         NEW task_shards \in SUBSET ShardIds, ThreadAt(t, pc, r, task_shards),
         pc = "idle" <=> r = NoRequest
  PROVE  /\ thread_pc' \in [Threads -> ThreadPc]
         /\ thread_request' \in [Threads -> Requests \cup {NoRequest}]
         /\ thread_shards' \in [Threads -> SUBSET ShardIds]
         /\ \A u \in Threads : thread_pc'[u] = "idle" <=> thread_request'[u] = NoRequest
BY DEF TypeOK, ThreadAt

-----------------------------------------------------------------------------
LEMMA CoordinatorInvInitially == Init => CoordinatorInv
<1> SUFFICES ASSUME Init PROVE CoordinatorInv
  OBVIOUS
<1> USE DEF Init
<1>1. ExecutorInv
  BY ExecutorInvInitially
<1>2. TypeOK
  BY <1>1, CoordinatorAssumption DEF TypeOK, ExecutorInv, ThreadPc
<1>3. StatusInv
  BY DEF StatusInv
<1>4. ContextInv
  BY DEF ContextInv, ExecutorInit, NoContext
<1>5. TaskInv
  BY DEF TaskInv, ExecutorInit, HoldsTask
<1>6. ThreadInv
  BY DEF ThreadInv, Submitting, ExecutorInit
<1>7. PursuitInv /\ ReleaseInv
  BY DEF PursuitInv, ReleaseInv
<1> QED
  BY <1>1, <1>2, <1>3, <1>4, <1>5, <1>6, <1>7 DEF CoordinatorInv

-----------------------------------------------------------------------------
(***************************************************************************)
(* OnShardArrived.                                                         *)
(***************************************************************************)

\* What storing a shard does, whatever is decided then.
LEMMA StoreFacts ==
  ASSUME CoordinatorInv, NEW t \in Threads, NEW r \in Requests, NEW s \in ShardIds,
         NEW size \in PayloadSizes, StoreShard(t, r, s, size)
  PROVE  /\ thread_pc[t] = "idle" /\ thread_request[t] = NoRequest
         /\ status[r] = "Pending"
         /\ s \notin arrivals[r]
         /\ shards[r] = arrivals[r]
         /\ shards' = [shards EXCEPT ![r] = arrivals[r] \cup {s}]
         /\ arrivals' = [arrivals EXCEPT ![r] = arrivals[r] \cup {s}]
         /\ word_count' = [word_count EXCEPT ![r] = size] /\ size # 0
         /\ UNCHANGED <<queue, running_requests, cancelled_requests, stopping, workerVars,
                        late_arrivals, transportVars>>
         /\ \A q \in Requests : q # r => staged_contexts'[q] = staged_contexts[q]
         /\ \A q \in Requests : /\ arrivals[q] \subseteq arrivals'[q]
                                /\ Recoverable(arrivals[q]) => Recoverable(arrivals'[q])
         /\ ContextInv'
         /\ ExecutorInv'
<1> USE DEF CoordinatorInv
<1>1. /\ thread_pc[t] = "idle" /\ status[r] = "Pending" /\ s \notin shards[r]
      /\ shards' = [shards EXCEPT ![r] = @ \cup {s}]
      /\ arrivals' = [arrivals EXCEPT ![r] = @ \cup {s}]
      /\ word_count' = [word_count EXCEPT ![r] = size]
      /\ UNCHANGED <<late_arrivals, transportVars>>
      /\ StageShard(r, SlotCount, s)
  BY DEF StoreShard, NewShard, Callback
<1>2. shards[r] = arrivals[r]
  BY <1>1 DEF StatusInv
<1>3. size # 0
  BY CoordinatorAssumption
<1>4. UNCHANGED <<queue, running_requests, cancelled_requests, stopping, workerVars>>
  BY <1>1 DEF StageShard
<1>5. ExecutorInv'
  BY <1>1, StageKeepsInv, GraphFacts
<1>6. \A q \in Requests : arrivals'[q] = IF q = r THEN arrivals[r] \cup {s} ELSE arrivals[q]
  BY <1>1 DEF TypeOK
<1>7. \A q \in Requests : /\ arrivals[q] \subseteq arrivals'[q]
                          /\ Recoverable(arrivals[q]) => Recoverable(arrivals'[q])
  BY <1>6, RecoverableGrows
<1>8. \/ UNCHANGED staged_contexts /\ ~staged_contexts[r].open
      \/ staged_contexts' = [staged_contexts EXCEPT ![r] = StagedInto(ContextFor(r, SlotCount), s)]
         /\ ContextFor(r, SlotCount).slots = SlotCount
  BY <1>1 DEF StageShard, StageIgnored, ContextInv, ExecutorInv, ExecutorSound, ContextsMoved
<1>9. \A q \in Requests : q # r => staged_contexts'[q] = staged_contexts[q]
  BY <1>8 DEF ExecutorInv, ExecutorTypeOK
<1>10. ContextInv'
  <2>1. ~stopping'
    BY <1>4 DEF ContextInv
  <2>2. ASSUME NEW q \in Requests, staged_contexts'[q].open
        PROVE  /\ staged_contexts'[q].slots = SlotCount
               /\ staged_contexts'[q].staged \cap arrivals'[q] \subseteq staged_contexts'[q].uploaded
    <3>1. CASE q # r
      BY <1>6, <1>9, <2>2, <3>1 DEF ContextInv
    <3>2. CASE q = r
      <4> DEFINE c == ContextFor(r, SlotCount)
      <4>1. c \in Context /\ c.staged \cap arrivals[r] \subseteq c.uploaded
        BY NoContextType, GraphFacts DEF ContextFor, ContextInv, ExecutorInv, ExecutorTypeOK
      <4>2. staged_contexts'[r] = StagedInto(c, s) /\ c.slots = SlotCount
        BY <1>8, <2>2, <3>2 DEF ExecutorInv, ExecutorTypeOK
      <4> HIDE DEF c
      <4>3. /\ StagedInto(c, s).slots = c.slots
            /\ StagedInto(c, s).staged = c.staged \cup {s}
            /\ StagedInto(c, s).uploaded = c.uploaded \cup {s}
        BY <4>1 DEF StagedInto, Context
      <4> QED
        BY <1>6, <3>2, <4>1, <4>2, <4>3
    <3> QED
      BY <3>1, <3>2
  <2> QED
    BY <2>1, <2>2 DEF ContextInv
<1>11. thread_request[t] = NoRequest
  BY <1>1 DEF TypeOK
<1> QED
  BY <1>1, <1>2, <1>3, <1>4, <1>5, <1>7, <1>9, <1>10, <1>11

\* Storing a shard disturbs no task.
LEMMA StoreKeepsTasks ==
  ASSUME CoordinatorInv, NEW t \in Threads, NEW r \in Requests, NEW s \in ShardIds,
         NEW size \in PayloadSizes, StoreShard(t, r, s, size),
         \A q \in Requests : recovery_submitted[q] => recovery_submitted'[q]
  PROVE  /\ TaskInv'
         /\ \A q \in Requests : Busy(q)' = Busy(q)
         /\ \A q \in Requests : HasQueuedRequest(q)' = HasQueuedRequest(q)
         /\ \A w \in Workers : HoldsTask(w)' = HoldsTask(w)
<1>1. /\ UNCHANGED <<queue, running_requests, cancelled_requests, stopping, worker_pc,
                     worker_task, worker_result>>
      /\ \A q \in Requests : Recoverable(arrivals[q]) => Recoverable(arrivals'[q])
  BY StoreFacts DEF workerVars
<1>2. /\ \A q \in Requests : Busy(q)' = Busy(q)
      /\ \A q \in Requests : HasQueuedRequest(q)' = HasQueuedRequest(q)
      /\ \A w \in Workers : HoldsTask(w)' = HoldsTask(w)
  BY <1>1 DEF Busy, HasQueuedRequest, HoldsTask
<1>3. \A i \in DOMAIN queue : queue[i].request \in Requests
  BY QueueFacts DEF CoordinatorInv, TypeOK
<1>4. \A w \in Workers : HoldsTask(w) => worker_task[w].request \in Requests
  BY HeldTaskType DEF CoordinatorInv, Task
<1>5. \A task : task.request \in Requests /\ SoundTask(task) => SoundTask(task)'
  BY <1>1 DEF SoundTask, Uploaded
<1>6. TaskInv'
  BY <1>1, <1>2, <1>3, <1>4, <1>5 DEF TaskInv, CoordinatorInv
<1> QED
  BY <1>2, <1>6

\* The parts of the type invariant that storing a shard touches.
LEMMA StoreKeepsType ==
  ASSUME CoordinatorInv, NEW t \in Threads, NEW r \in Requests, NEW s \in ShardIds,
         NEW size \in PayloadSizes, StoreShard(t, r, s, size)
  PROVE  /\ ExecutorTypeOK'
         /\ late_arrivals' \in [Requests -> 0 .. MaxLate]
         /\ shards' \in [Requests -> SUBSET ShardIds]
         /\ arrivals' \in [Requests -> SUBSET ShardIds]
         /\ word_count' \in [Requests -> PayloadSizes \cup {0}]
         /\ transport' \in Transports \cup {NoTransport}
         /\ handled' \in SUBSET Transports
         /\ active_transport' \in [Requests -> Transports \cup {NoTransport}]
         /\ transferring' \in SUBSET Requests
         /\ \A q \in Requests : shards'[q] # {} => word_count'[q] # 0
<1>1. TypeOK
  BY DEF CoordinatorInv
<1>2. /\ ExecutorTypeOK'
      /\ shards' = [shards EXCEPT ![r] = arrivals[r] \cup {s}]
      /\ arrivals' = [arrivals EXCEPT ![r] = arrivals[r] \cup {s}]
      /\ word_count' = [word_count EXCEPT ![r] = size] /\ size # 0
      /\ UNCHANGED <<late_arrivals, transport, handled, active_transport, transferring>>
  BY StoreFacts DEF ExecutorInv, transportVars
<1> QED
  BY <1>1, <1>2 DEF TypeOK

LEMMA CompletesNaturallyKeepsInv ==
  ASSUME CoordinatorInv, NEW t \in Threads, NEW r \in Requests, NEW s \in ShardIds,
         NEW size \in PayloadSizes, CompletesNaturally(t, r, s, size)
  PROVE  CoordinatorInv'
<1> USE DEF CoordinatorInv
<1>1. /\ StoreShard(t, r, s, size)
      /\ K \subseteq arrivals[r] \cup {s}
      /\ status' = [status EXCEPT ![r] = "NaturalComplete"]
      /\ ThreadAt(t, "cancel", r, {})
      /\ UNCHANGED <<recovery_submitted, recovery_rejected, recovery_closed>>
  BY DEF CompletesNaturally, SystematicComplete
<1>2. /\ thread_pc[t] = "idle" /\ status[r] = "Pending"
      /\ shards' = [shards EXCEPT ![r] = arrivals[r] \cup {s}]
      /\ arrivals' = [arrivals EXCEPT ![r] = arrivals[r] \cup {s}]
      /\ word_count' = [word_count EXCEPT ![r] = size] /\ size # 0
      /\ \A q \in Requests : q # r => staged_contexts'[q] = staged_contexts[q]
      /\ \A q \in Requests : /\ arrivals[q] \subseteq arrivals'[q]
                             /\ Recoverable(arrivals[q]) => Recoverable(arrivals'[q])
      /\ UNCHANGED <<queue, cancelled_requests, worker_pc, worker_task>>
  BY <1>1, StoreFacts DEF workerVars
<1>3. /\ TaskInv'
      /\ \A q \in Requests : Busy(q)' = Busy(q) /\ HasQueuedRequest(q)' = HasQueuedRequest(q)
  BY <1>1, StoreKeepsTasks
<1>4. \A u \in Threads :
        /\ thread_pc'[u] = IF u = t THEN "cancel" ELSE thread_pc[u]
        /\ thread_request'[u] = IF u = t THEN r ELSE thread_request[u]
        /\ thread_shards'[u] = IF u = t THEN {} ELSE thread_shards[u]
  BY <1>1, ThreadAtFacts
<1>5. \A q \in Requests : status'[q] = IF q = r THEN "NaturalComplete" ELSE status[q]
  BY <1>1 DEF TypeOK
<1>6. TypeOK'
  <2>1. r # NoRequest
    BY ExecutorAssumption
  <2>2. /\ thread_pc' \in [Threads -> ThreadPc]
        /\ thread_request' \in [Threads -> Requests \cup {NoRequest}]
        /\ thread_shards' \in [Threads -> SUBSET ShardIds]
        /\ \A u \in Threads : thread_pc'[u] = "idle" <=> thread_request'[u] = NoRequest
    BY <1>1, <2>1, ThreadAtType DEF ThreadPc
  <2>3. /\ status' \in [Requests -> {"none", "Pending", "NaturalComplete", "Recovered", "Failed"}]
        /\ recovery_submitted' \in [Requests -> BOOLEAN]
        /\ recovery_rejected' \in [Requests -> BOOLEAN]
        /\ recovery_closed' \in [Requests -> BOOLEAN]
    BY <1>1 DEF TypeOK
  <2> QED
    BY <1>1, <2>2, <2>3, StoreKeepsType DEF TypeOK
<1>7. StatusInv'
  BY <1>1, <1>2, <1>5 DEF StatusInv, TypeOK
<1>8. ThreadInv'
  <2>1. \A u \in Threads : Submitting(u)' => u # t /\ Submitting(u)
    BY <1>4 DEF Submitting
  <2>2. \A u \in Threads : thread_pc[u] # "idle" => thread_request[u] \in Requests
    BY ThreadRequestType
  <2>3. \A u \in Threads : Submitting(u)' =>
          /\ recovery_submitted'[thread_request'[u]]
          /\ ~Busy(thread_request[u])'
          /\ \A v \in Threads : Submitting(v)' /\ thread_request'[v] = thread_request'[u] => v = u
    BY <1>1, <1>3, <1>4, <2>1, <2>2 DEF ThreadInv, Submitting
  <2>4. \A u \in Threads : thread_pc'[u] = "submit" =>
          /\ thread_shards'[u] \subseteq arrivals'[thread_request'[u]]
          /\ Recoverable(arrivals'[thread_request'[u]])
    BY <1>2, <1>4, <2>2 DEF ThreadInv
  <2>5. \A u \in Threads : thread_pc'[u] = "cancel" => status'[thread_request'[u]] = "NaturalComplete"
    BY <1>4, <1>5, <2>2 DEF ThreadInv
  <2>6. \A q \in cancelled_requests' : status'[q] = "NaturalComplete"
    BY <1>2, <1>5 DEF ThreadInv, TypeOK, ExecutorTypeOK
  <2> QED
    BY <2>3, <2>4, <2>5, <2>6 DEF ThreadInv
<1>9. PursuitInv'
  BY <1>1, <1>2, <1>3, <1>4, <1>5 DEF PursuitInv, Pursued, Submitting
<1>10. ReleaseInv'
  BY <1>2, <1>3, <1>4, <1>5 DEF ReleaseInv, Released
<1> QED
  BY <1>1, <1>3, <1>6, <1>7, <1>8, <1>9, <1>10, StoreFacts

\* A shard that completes nothing and submits nothing: KeepsWaiting and
\* ClosesRecovery.
LEMMA StoreAloneKeepsInv ==
  ASSUME CoordinatorInv, NEW t \in Threads, NEW r \in Requests, NEW s \in ShardIds,
         NEW size \in PayloadSizes, StoreShard(t, r, s, size),
         recovery_rejected' \in [Requests -> BOOLEAN],
         recovery_closed' \in [Requests -> BOOLEAN],
         UNCHANGED <<status, recovery_submitted, threadVars>>
  PROVE  CoordinatorInv'
<1> USE DEF CoordinatorInv
<1>1. UNCHANGED <<status, recovery_submitted, thread_pc, thread_request, thread_shards>>
  BY DEF threadVars
<1>2. /\ thread_pc[t] = "idle" /\ status[r] = "Pending"
      /\ shards' = [shards EXCEPT ![r] = arrivals[r] \cup {s}]
      /\ arrivals' = [arrivals EXCEPT ![r] = arrivals[r] \cup {s}]
      /\ word_count' = [word_count EXCEPT ![r] = size] /\ size # 0
      /\ \A q \in Requests : q # r => staged_contexts'[q] = staged_contexts[q]
      /\ \A q \in Requests : /\ arrivals[q] \subseteq arrivals'[q]
                             /\ Recoverable(arrivals[q]) => Recoverable(arrivals'[q])
      /\ UNCHANGED <<queue, cancelled_requests, worker_pc, worker_task>>
  BY StoreFacts DEF workerVars
<1>3. /\ TaskInv'
      /\ \A q \in Requests : Busy(q)' = Busy(q) /\ HasQueuedRequest(q)' = HasQueuedRequest(q)
  BY <1>1, StoreKeepsTasks
<1>4. \A u \in Threads : thread_pc[u] # "idle" => thread_request[u] \in Requests
  BY ThreadRequestType
<1>5. TypeOK'
  BY <1>1, StoreKeepsType DEF TypeOK
<1>6. StatusInv'
  BY <1>1, <1>2 DEF StatusInv, TypeOK
<1>7. ThreadInv'
  <2>1. \A u \in Threads : Submitting(u)' = Submitting(u)
    BY <1>1 DEF Submitting
  <2>2. \A u \in Threads : Submitting(u)' =>
          /\ recovery_submitted'[thread_request'[u]]
          /\ ~Busy(thread_request[u])'
          /\ \A v \in Threads : Submitting(v)' /\ thread_request'[v] = thread_request'[u] => v = u
    BY <1>1, <1>3, <1>4, <2>1 DEF ThreadInv, Submitting
  <2>3. \A u \in Threads : thread_pc'[u] = "submit" =>
          /\ thread_shards'[u] \subseteq arrivals'[thread_request'[u]]
          /\ Recoverable(arrivals'[thread_request'[u]])
    BY <1>1, <1>2, <1>4 DEF ThreadInv
  <2>4. /\ \A u \in Threads : thread_pc'[u] = "cancel" => status'[thread_request'[u]] = "NaturalComplete"
        /\ \A q \in cancelled_requests' : status'[q] = "NaturalComplete"
    BY <1>1, <1>2 DEF ThreadInv
  <2> QED
    BY <2>2, <2>3, <2>4 DEF ThreadInv
<1>8. PursuitInv'
  BY <1>1, <1>2, <1>3 DEF PursuitInv, Pursued, Submitting
<1>9. ReleaseInv'
  BY <1>1, <1>2, <1>3 DEF ReleaseInv, Released
<1> QED
  BY <1>3, <1>5, <1>6, <1>7, <1>8, <1>9, StoreFacts

LEMMA KeepsWaitingKeepsInv ==
  ASSUME CoordinatorInv, NEW t \in Threads, NEW r \in Requests, NEW s \in ShardIds,
         NEW size \in PayloadSizes,
         KeepsWaiting(t, r, s, size) \/ ClosesRecovery(t, r, s, size)
  PROVE  CoordinatorInv'
<1>1. CASE KeepsWaiting(t, r, s, size)
  <2>1. /\ StoreShard(t, r, s, size)
        /\ UNCHANGED <<status, recovery_submitted, threadVars>>
        /\ UNCHANGED <<recovery_rejected, recovery_closed>>
    BY <1>1 DEF KeepsWaiting
  <2> QED
    BY <2>1, StoreAloneKeepsInv DEF CoordinatorInv, TypeOK
<1>2. CASE ClosesRecovery(t, r, s, size)
  <2>1. /\ StoreShard(t, r, s, size)
        /\ UNCHANGED <<status, recovery_submitted, threadVars>>
        /\ recovery_rejected' = [recovery_rejected EXCEPT ![r] = TRUE]
        /\ recovery_closed' = [recovery_closed EXCEPT ![r] = TRUE]
    BY <1>2 DEF ClosesRecovery
  <2> QED
    BY <2>1, StoreAloneKeepsInv DEF CoordinatorInv, TypeOK
<1> QED
  BY <1>1, <1>2

LEMMA DecidesToRecoverKeepsInv ==
  ASSUME CoordinatorInv, NEW t \in Threads, NEW r \in Requests, NEW s \in ShardIds,
         NEW size \in PayloadSizes, DecidesToRecover(t, r, s, size)
  PROVE  CoordinatorInv'
<1> USE DEF CoordinatorInv
<1>1. /\ StoreShard(t, r, s, size)
      /\ ~recovery_submitted[r]
      /\ Recoverable(arrivals[r] \cup {s})
      /\ recovery_submitted' = [recovery_submitted EXCEPT ![r] = TRUE]
      /\ ThreadAt(t, "submit", r, shards[r] \cup {s})
      /\ UNCHANGED <<status, recovery_rejected, recovery_closed>>
  BY DEF DecidesToRecover, MayRecover
<1>2. /\ thread_pc[t] = "idle" /\ status[r] = "Pending"
      /\ shards[r] = arrivals[r]
      /\ shards' = [shards EXCEPT ![r] = arrivals[r] \cup {s}]
      /\ arrivals' = [arrivals EXCEPT ![r] = arrivals[r] \cup {s}]
      /\ word_count' = [word_count EXCEPT ![r] = size] /\ size # 0
      /\ \A q \in Requests : q # r => staged_contexts'[q] = staged_contexts[q]
      /\ \A q \in Requests : /\ arrivals[q] \subseteq arrivals'[q]
                             /\ Recoverable(arrivals[q]) => Recoverable(arrivals'[q])
      /\ UNCHANGED <<queue, cancelled_requests, worker_pc, worker_task>>
  BY <1>1, StoreFacts DEF workerVars
<1>3. \A q \in Requests : recovery_submitted'[q] = IF q = r THEN TRUE ELSE recovery_submitted[q]
  BY <1>1 DEF TypeOK
<1>4. /\ TaskInv'
      /\ \A q \in Requests : Busy(q)' = Busy(q) /\ HasQueuedRequest(q)' = HasQueuedRequest(q)
  BY <1>1, <1>3, StoreKeepsTasks
<1>5. \A u \in Threads :
        /\ thread_pc'[u] = IF u = t THEN "submit" ELSE thread_pc[u]
        /\ thread_request'[u] = IF u = t THEN r ELSE thread_request[u]
        /\ thread_shards'[u] = IF u = t THEN shards[r] \cup {s} ELSE thread_shards[u]
  BY <1>1, ThreadAtFacts
<1>6. \A u \in Threads : thread_pc[u] # "idle" => thread_request[u] \in Requests
  BY ThreadRequestType
<1>7. TypeOK'
  <2>1. r # NoRequest
    BY ExecutorAssumption
  <2>2. shards[r] \cup {s} \in SUBSET ShardIds
    BY DEF TypeOK
  <2>3. /\ thread_pc' \in [Threads -> ThreadPc]
        /\ thread_request' \in [Threads -> Requests \cup {NoRequest}]
        /\ thread_shards' \in [Threads -> SUBSET ShardIds]
        /\ \A u \in Threads : thread_pc'[u] = "idle" <=> thread_request'[u] = NoRequest
    BY <1>1, <2>1, <2>2, ThreadAtType DEF ThreadPc
  <2>4. /\ status' \in [Requests -> {"none", "Pending", "NaturalComplete", "Recovered", "Failed"}]
        /\ recovery_submitted' \in [Requests -> BOOLEAN]
        /\ recovery_rejected' \in [Requests -> BOOLEAN]
        /\ recovery_closed' \in [Requests -> BOOLEAN]
    BY <1>1 DEF TypeOK
  <2> QED
    BY <1>1, <2>3, <2>4, StoreKeepsType DEF TypeOK
<1>8. StatusInv'
  BY <1>1, <1>2, <1>3 DEF StatusInv, TypeOK
<1>9. ThreadInv'
  <2>1. \A u \in Threads : Submitting(u)' <=> u = t \/ Submitting(u)
    BY <1>5 DEF Submitting
  <2>2. ~Busy(r)
    BY <1>1, BusyIsSubmitted
  <2>3. \A u \in Threads : Submitting(u) => thread_request[u] \in Requests /\ thread_request[u] # r
    BY <1>1, <1>6 DEF ThreadInv, Submitting
  <2>4. \A u \in Threads : Submitting(u)' =>
          /\ recovery_submitted'[thread_request'[u]]
          /\ ~Busy(thread_request[u])'
          /\ \A v \in Threads : Submitting(v)' /\ thread_request'[v] = thread_request'[u] => v = u
    <3> SUFFICES ASSUME NEW u \in Threads, Submitting(u)'
                 PROVE  /\ recovery_submitted'[thread_request'[u]]
                        /\ ~Busy(thread_request[u])'
                        /\ \A v \in Threads :
                             Submitting(v)' /\ thread_request'[v] = thread_request'[u] => v = u
      OBVIOUS
    <3>1. CASE u = t
      <4>1. thread_request'[u] = r
        BY <1>5, <3>1
      <4>2. ~Busy(thread_request[u])'
        BY <1>4, <2>2, <4>1
      <4>3. \A v \in Threads : Submitting(v)' /\ thread_request'[v] = r => v = u
        BY <1>5, <2>1, <2>3, <3>1
      <4> QED
        BY <1>3, <4>1, <4>2, <4>3
    <3>2. CASE u # t
      <4>1. Submitting(u) /\ thread_request'[u] = thread_request[u] /\ thread_request[u] # r
            /\ thread_request[u] \in Requests
        BY <1>5, <2>1, <2>3, <3>2
      <4>2. ~Busy(thread_request[u])'
        BY <1>4, <4>1 DEF ThreadInv
      <4>3. \A v \in Threads : Submitting(v)' /\ thread_request'[v] = thread_request'[u] => v = u
        BY <1>5, <2>1, <4>1 DEF ThreadInv
      <4> QED
        BY <1>3, <4>1, <4>2, <4>3 DEF ThreadInv
    <3> QED
      BY <3>1, <3>2
  <2>5. \A u \in Threads : thread_pc'[u] = "submit" =>
          /\ thread_shards'[u] \subseteq arrivals'[thread_request'[u]]
          /\ Recoverable(arrivals'[thread_request'[u]])
    <3>1. arrivals'[r] = arrivals[r] \cup {s}
      BY <1>2 DEF TypeOK
    <3> QED
      BY <1>1, <1>2, <1>5, <1>6, <3>1 DEF ThreadInv
  <2>6. /\ \A u \in Threads : thread_pc'[u] = "cancel" => status'[thread_request'[u]] = "NaturalComplete"
        /\ \A q \in cancelled_requests' : status'[q] = "NaturalComplete"
    BY <1>1, <1>2, <1>5 DEF ThreadInv
  <2> QED
    BY <2>4, <2>5, <2>6 DEF ThreadInv
<1>10. PursuitInv'
  BY <1>1, <1>2, <1>3, <1>4, <1>5 DEF PursuitInv, Pursued, Submitting
<1>11. ReleaseInv'
  BY <1>1, <1>2, <1>4, <1>5 DEF ReleaseInv, Released
<1> QED
  BY <1>1, <1>4, <1>7, <1>8, <1>9, <1>10, <1>11, StoreFacts

-----------------------------------------------------------------------------
(***************************************************************************)
(* Steps that no task, no thread and no tracker notices: the client's      *)
(* calls, a late shard, a shard whose staging fails.                       *)
(***************************************************************************)
LEMMA QuietKeepsInv ==
  ASSUME CoordinatorInv, TypeOK', ExecutorInv', ContextInv',
         UNCHANGED <<recovery_submitted, shards, arrivals, threadVars, queue, running_requests,
                     cancelled_requests, workerVars>>,
         \A q \in Requests :
           /\ status'[q] # status[q] => status[q] = "none" /\ status'[q] = "Pending"
           /\ word_count[q] # 0 => word_count'[q] # 0
           /\ staged_contexts'[q] # staged_contexts[q] => status[q] = "Pending"
  PROVE  CoordinatorInv'
<1> USE DEF CoordinatorInv
<1>1. UNCHANGED <<recovery_submitted, shards, arrivals, thread_pc, thread_request, thread_shards,
                  queue, running_requests, cancelled_requests, worker_pc, worker_task, worker_result>>
  BY DEF threadVars, workerVars
<1>2. \A u \in Threads : thread_pc[u] # "idle" => thread_request[u] \in Requests
  BY ThreadRequestType
<1>3. StatusInv'
  BY <1>1 DEF StatusInv
<1>4. TaskInv'
  BY <1>1 DEF TaskInv, SoundTask, Uploaded, HoldsTask
<1>5. ThreadInv'
  <2>1. /\ \A u \in Threads : thread_pc'[u] = "cancel" => status'[thread_request'[u]] = "NaturalComplete"
        /\ \A q \in cancelled_requests' : status'[q] = "NaturalComplete"
    BY <1>1, <1>2 DEF ThreadInv, TypeOK, ExecutorTypeOK
  <2> QED
    BY <1>1, <2>1 DEF ThreadInv, Submitting, Busy, HasQueuedRequest
<1>6. PursuitInv'
  BY <1>1 DEF PursuitInv, Pursued, Submitting, HasQueuedRequest, StatusInv
<1>7. ReleaseInv'
  BY <1>1 DEF ReleaseInv, Released, HasQueuedRequest
<1> QED
  BY <1>3, <1>4, <1>5, <1>6, <1>7

LEMMA ClientKeepsInv ==
  ASSUME CoordinatorInv,
         \/ ClientStep
         \/ \E t \in Threads, r \in Requests : LateArrival(t, r)
         \/ UNCHANGED vars
  PROVE  CoordinatorInv'
<1> USE DEF CoordinatorInv
<1>1. /\ UNCHANGED <<recovery_submitted, recovery_rejected, recovery_closed, shards, arrivals,
                     word_count, threadVars, executorVars>>
      /\ status' \in [Requests -> {"none", "Pending", "NaturalComplete", "Recovered", "Failed"}]
      /\ \A q \in Requests :
           status'[q] # status[q] => status[q] = "none" /\ status'[q] = "Pending"
  <2>1. CASE \E r \in Requests : StartRequest(r)
    BY <2>1 DEF StartRequest, TypeOK
  <2>2. CASE \/ \E tr \in Transports : AttachTransport(tr)
             \/ \E r \in Requests : StartTransfer(r)
    BY <2>2 DEF AttachTransport, StartTransfer, requestVars, TypeOK
  <2>3. CASE \E t \in Threads, r \in Requests : LateArrival(t, r)
    BY <2>3 DEF LateArrival, TypeOK
  <2>4. CASE UNCHANGED vars
    BY <2>4 DEF vars, requestVars, TypeOK
  <2> QED
    BY <2>1, <2>2, <2>3, <2>4 DEF ClientStep
<1>2. UNCHANGED <<queue, staged_contexts, running_requests, cancelled_requests, stopping, workerVars>>
  BY <1>1 DEF executorVars, workerVars
<1>3. ExecutorInv'
  BY <1>1, ExecutorStutterKeepsInv
<1>4. ContextInv'
  BY <1>1, <1>2 DEF ContextInv
<1>5. /\ late_arrivals' \in [Requests -> 0 .. MaxLate]
      /\ transport' \in Transports \cup {NoTransport}
      /\ handled' \in SUBSET Transports
      /\ active_transport' \in [Requests -> Transports \cup {NoTransport}]
      /\ transferring' \in SUBSET Requests
  <2>1. CASE \E r \in Requests : StartRequest(r)
    BY <2>1 DEF StartRequest, TypeOK
  <2>2. CASE \/ \E tr \in Transports : AttachTransport(tr)
             \/ \E r \in Requests : StartTransfer(r)
    BY <2>2 DEF AttachTransport, StartTransfer, requestVars, TypeOK
  <2>3. CASE \E t \in Threads, r \in Requests : LateArrival(t, r)
    <3>1. PICK t \in Threads, r \in Requests : LateArrival(t, r)
      BY <2>3
    <3>2. late_arrivals[r] + 1 \in 0 .. MaxLate
      BY <3>1, CoordinatorAssumption DEF LateArrival, TypeOK
    <3> QED
      BY <3>1, <3>2 DEF LateArrival, transportVars, TypeOK
  <2>4. CASE UNCHANGED vars
    BY <2>4 DEF vars, requestVars, transportVars, TypeOK
  <2> QED
    BY <2>1, <2>2, <2>3, <2>4 DEF ClientStep
<1>6. TypeOK'
  BY <1>1, <1>3, <1>5 DEF TypeOK, ExecutorInv, threadVars
<1> QED
  BY <1>1, <1>2, <1>3, <1>4, <1>6, QuietKeepsInv

\* A shard whose staging fails may be left in the context, but the tracker has
\* not marked it.
LEMMA StagingFailsKeepsInv ==
  ASSUME CoordinatorInv, NEW t \in Threads, NEW r \in Requests, NEW s \in ShardIds,
         NEW size \in PayloadSizes, StagingFails(t, r, s, size)
  PROVE  CoordinatorInv'
<1> USE DEF CoordinatorInv
<1>1. /\ status[r] = "Pending" /\ s \notin shards[r]
      /\ StageShardThrows(r, SlotCount, s)
      /\ word_count' = [word_count EXCEPT ![r] = size]
      /\ UNCHANGED <<status, recovery_submitted, recovery_rejected, recovery_closed,
                     late_arrivals, shards, arrivals, transportVars, threadVars>>
  BY DEF StagingFails, NewShard
<1>2. s \notin arrivals[r]
  BY <1>1 DEF StatusInv
<1>3. UNCHANGED <<queue, running_requests, cancelled_requests, stopping, workerVars>>
  BY <1>1 DEF StageShardThrows
<1>4. ExecutorInv'
  BY <1>1, StageKeepsInv, GraphFacts
<1>5. PICK d \in StageThrows(r, SlotCount, s) :
        staged_contexts' = [staged_contexts EXCEPT ![r] = d]
  BY <1>1 DEF StageShardThrows
<1>6. \A q \in Requests : staged_contexts'[q] = IF q = r THEN d ELSE staged_contexts[q]
  BY <1>5 DEF ExecutorInv, ExecutorTypeOK
<1>7. d.open => d.slots = SlotCount /\ d.staged \cap arrivals[r] \subseteq d.uploaded
  <2> DEFINE c == ContextFor(r, SlotCount)
  <2>1. /\ c \in Context /\ c.slots = SlotCount
        /\ c.staged \cap arrivals[r] \subseteq c.uploaded
    BY NoContextType, GraphFacts DEF ContextFor, ContextInv, ExecutorInv, ExecutorTypeOK
  <2>2. /\ d = staged_contexts[r] \/ d = c \/ d = [c EXCEPT !.staged = @ \cup {s}]
           \/ d = [c EXCEPT !.staged = @ \cup {s}, !.device = @ \cup {s}]
           \/ d = StagedInto(c, s)
    BY <1>5 DEF StageThrows
  <2> HIDE DEF c
  <2>3. CASE d = staged_contexts[r]
    BY <2>3 DEF ContextInv
  <2>4. CASE d = c
    BY <2>1, <2>4
  <2>5. CASE d = [c EXCEPT !.staged = @ \cup {s}]
    BY <1>2, <2>1, <2>5 DEF Context
  <2>6. CASE d = [c EXCEPT !.staged = @ \cup {s}, !.device = @ \cup {s}]
    BY <1>2, <2>1, <2>6 DEF Context
  <2>7. CASE d = StagedInto(c, s)
    BY <1>2, <2>1, <2>7 DEF Context, StagedInto
  <2> QED
    BY <2>2, <2>3, <2>4, <2>5, <2>6, <2>7
<1>8. ContextInv'
  BY <1>1, <1>3, <1>6, <1>7 DEF ContextInv
<1>9. \A q \in Requests : word_count'[q] = IF q = r THEN size ELSE word_count[q]
  BY <1>1 DEF TypeOK
<1>10. size # 0
  BY CoordinatorAssumption
<1>11. TypeOK'
  BY <1>1, <1>4, <1>9, <1>10 DEF TypeOK, ExecutorInv, threadVars, transportVars
<1> QED
  BY <1>1, <1>3, <1>4, <1>6, <1>8, <1>9, <1>10, <1>11, QuietKeepsInv

-----------------------------------------------------------------------------
(***************************************************************************)
(* OnShardArrived after the unlock.                                        *)
(***************************************************************************)

LEMMA CancelRecoveryKeepsInv ==
  ASSUME CoordinatorInv, NEW t \in Threads, CancelRecovery(t)
  PROVE  CoordinatorInv'
<1> USE DEF CoordinatorInv
<1> SUFFICES ASSUME NEW r, r = thread_request[t] PROVE CoordinatorInv'
  OBVIOUS
<1>1. /\ thread_pc[t] = "cancel" /\ Cancel(r)
      /\ ThreadAt(t, "idle", NoRequest, {})
      /\ UNCHANGED <<status, recovery_submitted, recovery_rejected, recovery_closed,
                     late_arrivals, shards, arrivals, word_count, transport, handled,
                     active_transport, transferring>>
  BY DEF CancelRecovery, ThreadReturns, requestVars, transportVars
<1>2. r \in Requests /\ status[r] = "NaturalComplete"
  BY <1>1, ThreadRequestType DEF ThreadInv
<1>3. /\ staged_contexts' = [staged_contexts EXCEPT ![r] = NoContext]
      /\ cancelled_requests \subseteq cancelled_requests'
      /\ cancelled_requests' \subseteq cancelled_requests \cup {r}
      /\ ~HasQueuedRequest(r) /\ r \in running_requests => r \in cancelled_requests'
      /\ UNCHANGED <<running_requests, stopping, worker_pc, worker_task, worker_result>>
  BY <1>1 DEF Cancel, workerVars
<1>4. \A q \in Requests : staged_contexts'[q] = IF q = r THEN NoContext ELSE staged_contexts[q]
  BY <1>2, <1>3 DEF ExecutorInv, ExecutorTypeOK
<1>5. /\ \A i \in DOMAIN queue' : \E j \in DOMAIN queue : queue'[i] = queue[j]
      /\ ~HasQueuedRequest(r)'
      /\ \A q \in Requests : q # r => (HasQueuedRequest(q)' <=> HasQueuedRequest(q))
      /\ \A q \in Requests : Busy(q)' => Busy(q)
  <2>1. PICK f \in [DOMAIN queue' -> DOMAIN queue] : \A i \in DOMAIN queue' : queue'[i] = queue[f[i]]
    BY <1>1, <1>2, CancelFacts
  <2>2. \A i \in DOMAIN queue' : \E j \in DOMAIN queue : queue'[i] = queue[j]
    BY <2>1
  <2>3. /\ \A i \in DOMAIN queue' : queue'[i].request # r
        /\ \A i \in DOMAIN queue : queue[i].request # r => \E j \in DOMAIN queue' : queue'[j] = queue[i]
    BY <1>1, <1>2, CancelFacts
  <2>4. /\ ~HasQueuedRequest(r)'
        /\ \A q \in Requests : q # r => (HasQueuedRequest(q)' <=> HasQueuedRequest(q))
    BY <2>2, <2>3 DEF HasQueuedRequest
  <2> QED
    BY <1>3, <2>2, <2>4 DEF Busy
<1>6. ExecutorInv'
  BY <1>1, <1>2, CancelKeepsInv
<1>7. \A u \in Threads :
        /\ thread_pc'[u] = IF u = t THEN "idle" ELSE thread_pc[u]
        /\ thread_request'[u] = IF u = t THEN NoRequest ELSE thread_request[u]
        /\ thread_shards'[u] = IF u = t THEN {} ELSE thread_shards[u]
  BY <1>1, ThreadAtFacts
<1>8. \A u \in Threads : thread_pc[u] # "idle" => thread_request[u] \in Requests
  BY ThreadRequestType
<1>9. TypeOK'
  <2>1. /\ thread_pc' \in [Threads -> ThreadPc]
        /\ thread_request' \in [Threads -> Requests \cup {NoRequest}]
        /\ thread_shards' \in [Threads -> SUBSET ShardIds]
        /\ \A u \in Threads : thread_pc'[u] = "idle" <=> thread_request'[u] = NoRequest
    BY <1>1, ThreadAtType DEF ThreadPc
  <2> QED
    BY <1>1, <1>6, <2>1 DEF TypeOK, ExecutorInv
<1>10. StatusInv'
  BY <1>1 DEF StatusInv
<1>11. ContextInv'
  BY <1>1, <1>3, <1>4 DEF ContextInv, NoContext
<1>12. TaskInv'
  <2>1. \A task : SoundTask(task)' = SoundTask(task)
    BY <1>1 DEF SoundTask, Uploaded
  <2> QED
    BY <1>3, <1>5, <2>1 DEF TaskInv, HoldsTask
<1>13. ThreadInv'
  <2>1. \A u \in Threads : Submitting(u)' => u # t /\ Submitting(u)
    BY <1>7 DEF Submitting
  <2>2. \A u \in Threads : Submitting(u)' =>
          /\ recovery_submitted'[thread_request'[u]]
          /\ ~Busy(thread_request[u])'
          /\ \A v \in Threads : Submitting(v)' /\ thread_request'[v] = thread_request'[u] => v = u
    BY <1>1, <1>5, <1>7, <1>8, <2>1 DEF ThreadInv, Submitting
  <2>3. \A u \in Threads : thread_pc'[u] = "submit" =>
          /\ thread_shards'[u] \subseteq arrivals'[thread_request'[u]]
          /\ Recoverable(arrivals'[thread_request'[u]])
    BY <1>1, <1>7 DEF ThreadInv
  <2>4. /\ \A u \in Threads : thread_pc'[u] = "cancel" => status'[thread_request'[u]] = "NaturalComplete"
        /\ \A q \in cancelled_requests' : status'[q] = "NaturalComplete"
    BY <1>1, <1>2, <1>3, <1>7 DEF ThreadInv
  <2> QED
    BY <2>2, <2>3, <2>4 DEF ThreadInv
<1>14. PursuitInv'
  BY <1>1, <1>2, <1>3, <1>5, <1>7 DEF PursuitInv, Pursued, Submitting
<1>15. ReleaseInv'
  <2>1. Released(r)'
    <3>1. \A w \in Workers : worker_task[w].request = r => r \in running_requests /\ ~HasQueuedRequest(r)
      <4>1. \A w \in Workers : worker_task[w].request = r => HoldsTask(w)
        BY <1>2, HolderFacts
      <4> QED
        BY <4>1 DEF ExecutorInv, ExecutorSound, OneTaskPerRequest, HasQueuedRequest
    <3> QED
      BY <1>2, <1>3, <1>4, <1>5, <3>1 DEF Released, NoContext
  <2>2. \A q \in Requests : q # r /\ Released(q) => Released(q)'
    BY <1>3, <1>4, <1>5 DEF Released
  <2> QED
    BY <1>1, <1>2, <1>7, <2>1, <2>2 DEF ReleaseInv
<1> QED
  BY <1>6, <1>9, <1>10, <1>11, <1>12, <1>13, <1>14, <1>15

LEMMA RecheckCompletionKeepsInv ==
  ASSUME CoordinatorInv, NEW t \in Threads, RecheckCompletion(t)
  PROVE  CoordinatorInv'
<1> USE DEF CoordinatorInv
<1> SUFFICES ASSUME NEW r, r = thread_request[t] PROVE CoordinatorInv'
  OBVIOUS
<1>1. /\ thread_pc[t] = "accepted"
      /\ UNCHANGED <<requestVars, transportVars, executorVars>>
      /\ UNCHANGED <<status, recovery_submitted, recovery_rejected, recovery_closed,
                     late_arrivals, shards, arrivals, word_count, transport, handled,
                     active_transport, transferring, queue, staged_contexts, running_requests,
                     cancelled_requests, stopping, worker_pc, worker_task, worker_result>>
  BY DEF RecheckCompletion, requestVars, transportVars, executorVars
<1>2. r \in Requests /\ r # NoRequest
  BY <1>1, ThreadRequestType, ExecutorAssumption
<1>3. PICK pc \in {"cancel", "idle"}, q \in Requests \cup {NoRequest} :
        /\ ThreadAt(t, pc, q, {})
        /\ pc = "cancel" <=> status[r] = "NaturalComplete"
        /\ q = IF pc = "cancel" THEN r ELSE NoRequest
  BY <1>2 DEF RecheckCompletion, ThreadReturns
<1>4. \A u \in Threads :
        /\ thread_pc'[u] = IF u = t THEN pc ELSE thread_pc[u]
        /\ thread_request'[u] = IF u = t THEN q ELSE thread_request[u]
        /\ thread_shards'[u] = IF u = t THEN {} ELSE thread_shards[u]
  BY <1>3, ThreadAtFacts
<1>5. ExecutorInv'
  BY <1>1, ExecutorStutterKeepsInv
<1>6. /\ \A x : Busy(x)' = Busy(x)
      /\ \A x : HasQueuedRequest(x)' = HasQueuedRequest(x)
  BY <1>1 DEF Busy, HasQueuedRequest
<1>7. TypeOK'
  <2>1. pc \in ThreadPc /\ (pc = "idle" <=> q = NoRequest)
    BY <1>2, <1>3 DEF ThreadPc
  <2>2. /\ thread_pc' \in [Threads -> ThreadPc]
        /\ thread_request' \in [Threads -> Requests \cup {NoRequest}]
        /\ thread_shards' \in [Threads -> SUBSET ShardIds]
        /\ \A u \in Threads : thread_pc'[u] = "idle" <=> thread_request'[u] = NoRequest
    BY <1>3, <2>1, ThreadAtType
  <2> QED
    BY <1>1, <1>5, <2>2 DEF TypeOK, ExecutorInv
<1>8. StatusInv' /\ ContextInv' /\ TaskInv'
  BY <1>1 DEF StatusInv, ContextInv, TaskInv, SoundTask, Uploaded, HoldsTask
<1>9. ThreadInv'
  <2>1. \A u \in Threads : Submitting(u)' <=> u # t /\ Submitting(u)
    BY <1>1, <1>4 DEF Submitting
  <2>2. \A u \in Threads : Submitting(u)' =>
          /\ recovery_submitted'[thread_request'[u]]
          /\ ~Busy(thread_request[u])'
          /\ \A v \in Threads : Submitting(v)' /\ thread_request'[v] = thread_request'[u] => v = u
    BY <1>1, <1>4, <1>6, <2>1 DEF ThreadInv
  <2>3. \A u \in Threads : thread_pc'[u] = "submit" =>
          /\ thread_shards'[u] \subseteq arrivals'[thread_request'[u]]
          /\ Recoverable(arrivals'[thread_request'[u]])
    BY <1>1, <1>4 DEF ThreadInv
  <2>4. /\ \A u \in Threads : thread_pc'[u] = "cancel" => status'[thread_request'[u]] = "NaturalComplete"
        /\ \A x \in cancelled_requests' : status'[x] = "NaturalComplete"
    BY <1>1, <1>3, <1>4 DEF ThreadInv
  <2> QED
    BY <2>2, <2>3, <2>4 DEF ThreadInv
<1>10. PursuitInv'
  BY <1>1, <1>4, <1>6 DEF PursuitInv, Pursued, Submitting
<1>11. ReleaseInv'
  BY <1>1, <1>3, <1>4, <1>6 DEF ReleaseInv, Released
<1> QED
  BY <1>5, <1>7, <1>8, <1>9, <1>10, <1>11

LEMMA RecordRejectionKeepsInv ==
  ASSUME CoordinatorInv, NEW t \in Threads, RecordRejection(t)
  PROVE  CoordinatorInv'
<1> USE DEF CoordinatorInv
<1> SUFFICES ASSUME NEW r, r = thread_request[t] PROVE CoordinatorInv'
  OBVIOUS
<1>1. /\ thread_pc[t] = "rejected"
      /\ ThreadAt(t, "idle", NoRequest, {})
      /\ UNCHANGED executorVars
      /\ UNCHANGED <<status, late_arrivals, shards, arrivals, word_count, transport, handled,
                     active_transport, transferring, queue, staged_contexts, running_requests,
                     cancelled_requests, stopping, worker_pc, worker_task, worker_result>>
  BY DEF RecordRejection, ThreadReturns, transportVars, executorVars
<1>2. r \in Requests /\ Submitting(t) /\ ~Busy(r)
  BY <1>1, ThreadRequestType DEF ThreadInv, Submitting
<1>3. /\ recovery_submitted' \in [Requests -> BOOLEAN]
      /\ recovery_rejected' \in [Requests -> BOOLEAN]
      /\ recovery_closed' \in [Requests -> BOOLEAN]
      /\ \A q \in Requests : q # r => recovery_submitted'[q] = recovery_submitted[q]
      /\ recovery_submitted'[r] => recovery_submitted[r] /\ Terminal(r)
  <2>1. CASE Terminal(r)
    <3>1. UNCHANGED <<recovery_submitted, recovery_rejected, recovery_closed>>
      BY <2>1 DEF RecordRejection
    <3> QED
      BY <2>1, <3>1 DEF TypeOK
  <2>2. CASE ~Terminal(r)
    <3>1. /\ recovery_submitted' = [recovery_submitted EXCEPT ![r] = FALSE]
          /\ recovery_rejected' = [recovery_rejected EXCEPT ![r] = TRUE]
          /\ recovery_closed' = [recovery_closed EXCEPT ![r] = TRUE]
      BY <2>2 DEF RecordRejection
    <3> QED
      BY <1>2, <3>1 DEF TypeOK
  <2> QED
    BY <2>1, <2>2
<1>4. \A u \in Threads :
        /\ thread_pc'[u] = IF u = t THEN "idle" ELSE thread_pc[u]
        /\ thread_request'[u] = IF u = t THEN NoRequest ELSE thread_request[u]
        /\ thread_shards'[u] = IF u = t THEN {} ELSE thread_shards[u]
  BY <1>1, ThreadAtFacts
<1>5. ExecutorInv'
  BY <1>1, ExecutorStutterKeepsInv
<1>6. /\ \A x : Busy(x)' = Busy(x)
      /\ \A x : HasQueuedRequest(x)' = HasQueuedRequest(x)
  BY <1>1 DEF Busy, HasQueuedRequest
<1>7. TypeOK'
  <2>1. /\ thread_pc' \in [Threads -> ThreadPc]
        /\ thread_request' \in [Threads -> Requests \cup {NoRequest}]
        /\ thread_shards' \in [Threads -> SUBSET ShardIds]
        /\ \A u \in Threads : thread_pc'[u] = "idle" <=> thread_request'[u] = NoRequest
    BY <1>1, ThreadAtType DEF ThreadPc
  <2> QED
    BY <1>1, <1>3, <1>5, <2>1 DEF TypeOK, ExecutorInv
<1>8. StatusInv' /\ ContextInv'
  BY <1>1, <1>3 DEF StatusInv, ContextInv
<1>9. TaskInv'
  <2>1. \A i \in DOMAIN queue : queue[i].request \in Requests /\ queue[i].request # r
    BY <1>2, QueueFacts DEF TypeOK, Busy, HasQueuedRequest
  <2>2. \A w \in Workers : HoldsTask(w) =>
          worker_task[w].request \in Requests /\ worker_task[w].request # r
    BY <1>2, HeldTaskType DEF TypeOK, ExecutorTypeOK, Busy
  <2>3. \A task : task.request \in Requests /\ task.request # r /\ SoundTask(task) => SoundTask(task)'
    BY <1>1, <1>3 DEF SoundTask, Uploaded
  <2> QED
    BY <1>1, <2>1, <2>2, <2>3 DEF TaskInv, HoldsTask
<1>10. ThreadInv'
  <2>1. \A u \in Threads : Submitting(u)' <=> u # t /\ Submitting(u)
    BY <1>1, <1>4 DEF Submitting
  <2>2. \A u \in Threads : Submitting(u)' => thread_request[u] \in Requests /\ thread_request[u] # r
    BY <1>2, <2>1, ThreadRequestType DEF ThreadInv, Submitting
  <2>3. \A u \in Threads : Submitting(u)' =>
          /\ recovery_submitted'[thread_request'[u]]
          /\ ~Busy(thread_request[u])'
          /\ \A v \in Threads : Submitting(v)' /\ thread_request'[v] = thread_request'[u] => v = u
    BY <1>3, <1>4, <1>6, <2>1, <2>2 DEF ThreadInv
  <2>4. \A u \in Threads : thread_pc'[u] = "submit" =>
          /\ thread_shards'[u] \subseteq arrivals'[thread_request'[u]]
          /\ Recoverable(arrivals'[thread_request'[u]])
    BY <1>1, <1>4 DEF ThreadInv
  <2>5. /\ \A u \in Threads : thread_pc'[u] = "cancel" => status'[thread_request'[u]] = "NaturalComplete"
        /\ \A x \in cancelled_requests' : status'[x] = "NaturalComplete"
    BY <1>1, <1>4 DEF ThreadInv
  <2> QED
    BY <2>3, <2>4, <2>5 DEF ThreadInv
<1>11. PursuitInv'
  BY <1>1, <1>3, <1>4, <1>6 DEF PursuitInv, Pursued, Submitting, Terminal
<1>12. ReleaseInv'
  BY <1>1, <1>4, <1>6 DEF ReleaseInv, Released
<1> QED
  BY <1>5, <1>7, <1>8, <1>9, <1>10, <1>11, <1>12

\* Submit takes the task: the context moves with it, and what the task is to
\* decode from it has been uploaded.
LEMMA SubmitAcceptedKeepsInv ==
  ASSUME CoordinatorInv, NEW t \in Threads, NEW r, r = thread_request[t],
         thread_pc[t] = "submit",
         SubmitAccepted(r, SlotCount, MissingSystematic(thread_shards[t]), thread_shards[t]),
         ThreadAt(t, "accepted", r, {}),
         UNCHANGED <<requestVars, transportVars>>
  PROVE  CoordinatorInv'
<1> USE DEF CoordinatorInv
<1> SUFFICES ASSUME NEW supplied, supplied = thread_shards[t] PROVE CoordinatorInv'
  OBVIOUS
<1>1. UNCHANGED <<status, recovery_submitted, recovery_rejected, recovery_closed,
                  late_arrivals, shards, arrivals, word_count, transport, handled,
                  active_transport, transferring>>
  BY DEF requestVars, transportVars
<1>2. /\ r \in Requests /\ r # NoRequest /\ Submitting(t) /\ ~Busy(r)
      /\ recovery_submitted[r]
      /\ supplied \subseteq arrivals[r] /\ Recoverable(arrivals[r])
  BY ThreadRequestType, ExecutorAssumption DEF ThreadInv, Submitting
<1>3. /\ supplied \in SUBSET ShardIds /\ MissingSystematic(supplied) \in SUBSET ShardIds
      /\ SlotCount \in Nat
  BY GraphFacts DEF TypeOK, MissingSystematic
<1>4. PICK c \in {SubmitContext(r, SlotCount, supplied)} : TRUE
  OBVIOUS
<1>5. PICK task \in {[request |-> r, outputs |-> MissingSystematic(supplied), shards |-> supplied,
                      context |-> c]} : TRUE
  OBVIOUS
<1>6. /\ queue' = Append(queue, task)
      /\ staged_contexts' = [staged_contexts EXCEPT ![r] = NoContext]
      /\ NotifyOne
      /\ UNCHANGED <<running_requests, cancelled_requests, stopping, worker_task, worker_result>>
  BY <1>4, <1>5 DEF SubmitAccepted
<1>7. /\ Len(queue) \in Nat
      /\ DOMAIN queue = 1 .. Len(queue)
      /\ DOMAIN queue' = 1 .. Len(queue) + 1
      /\ \A i \in DOMAIN queue : queue'[i] = queue[i]
      /\ queue'[Len(queue) + 1] = task
  BY <1>2, <1>3, <1>4, <1>5, <1>6, SubmittedTaskFacts, QueueFacts DEF TypeOK
<1>8. SoundTask(task)'
  <2>1. Uploaded(task)
    <3>1. CASE staged_contexts[r].open
      BY <1>2, <1>4, <1>5, <3>1 DEF SubmitContext, ContextInv, Uploaded
    <3>2. CASE ~staged_contexts[r].open
      <4>1. c.uploaded = supplied
        BY <1>4, <3>2 DEF SubmitContext, NewContext, NoContext
      <4> QED
        BY <1>5, <4>1 DEF Uploaded
    <3> QED
      BY <3>1, <3>2
  <2>2. K \subseteq task.shards \cup task.outputs
    BY <1>5 DEF MissingSystematic
  <2> QED
    BY <1>1, <1>2, <1>5, <2>1, <2>2 DEF SoundTask, Uploaded
<1>9. /\ \A q : HasQueuedRequest(q)' <=> q = r \/ HasQueuedRequest(q)
      /\ \A q : Busy(q)' <=> q = r \/ Busy(q)
  <2>1. \A q : HasQueuedRequest(q)' <=> q = r \/ HasQueuedRequest(q)
    <3>1. task.request = r
      BY <1>5
    <3>2. \A i \in DOMAIN queue' : i \in DOMAIN queue \/ i = Len(queue) + 1
      BY <1>7
    <3>3. \A i \in DOMAIN queue : i \in DOMAIN queue'
      BY <1>7
    <3>4. Len(queue) + 1 \in DOMAIN queue'
      BY <1>7
    <3> QED
      BY <1>7, <3>1, <3>2, <3>3, <3>4 DEF HasQueuedRequest
  <2> QED
    BY <1>6, <2>1 DEF Busy
<1>10. /\ \A w \in Workers : HoldsTask(w)' <=> HoldsTask(w)
       /\ \A w \in Workers : HoldsTask(w) => worker_pc'[w] = worker_pc[w]
  BY <1>6, NotifyOneFacts DEF HoldsTask, TypeOK, ExecutorTypeOK
<1>11. ExecutorInv'
  BY <1>2, <1>3, AcceptedSubmitKeepsInv
<1>12. \A q \in Requests : staged_contexts'[q] = IF q = r THEN NoContext ELSE staged_contexts[q]
  BY <1>2, <1>6 DEF ExecutorInv, ExecutorTypeOK
<1>13. \A u \in Threads :
         /\ thread_pc'[u] = IF u = t THEN "accepted" ELSE thread_pc[u]
         /\ thread_request'[u] = IF u = t THEN r ELSE thread_request[u]
         /\ thread_shards'[u] = IF u = t THEN {} ELSE thread_shards[u]
  BY ThreadAtFacts
<1>14. TypeOK'
  <2>1. /\ thread_pc' \in [Threads -> ThreadPc]
        /\ thread_request' \in [Threads -> Requests \cup {NoRequest}]
        /\ thread_shards' \in [Threads -> SUBSET ShardIds]
        /\ \A u \in Threads : thread_pc'[u] = "idle" <=> thread_request'[u] = NoRequest
    BY <1>2, ThreadAtType DEF ThreadPc
  <2> QED
    BY <1>1, <1>11, <2>1 DEF TypeOK, ExecutorInv
<1>15. StatusInv' /\ ContextInv'
  BY <1>1, <1>6, <1>12 DEF StatusInv, ContextInv, NoContext
<1>16. TaskInv'
  <2>1. \A x : SoundTask(x)' = SoundTask(x)
    BY <1>1 DEF SoundTask, Uploaded
  <2>2. \A i \in DOMAIN queue' : SoundTask(queue[i])'
    <3>1. \A i \in DOMAIN queue' : i \in DOMAIN queue \/ i = Len(queue) + 1
      BY <1>7
    <3>2. \A i \in DOMAIN queue : SoundTask(queue[i])
      BY DEF TaskInv
    <3> QED
      BY <1>7, <1>8, <2>1, <3>1, <3>2
  <2>3. \A w \in Workers : HoldsTask(w)' =>
          /\ SoundTask(worker_task[w])'
          /\ worker_pc'[w] # "run" /\ worker_result'[w].success => K \subseteq worker_result'[w].shards
    BY <1>6, <1>10, <2>1 DEF TaskInv
  <2> QED
    BY <2>2, <2>3 DEF TaskInv
<1>17. ThreadInv'
  <2>1. \A u \in Threads : Submitting(u)' <=> u # t /\ Submitting(u)
    BY <1>13 DEF Submitting
  <2>2. \A u \in Threads : Submitting(u)' => thread_request[u] # r
    BY <1>2, <2>1 DEF ThreadInv
  <2>3. \A u \in Threads : Submitting(u)' =>
          /\ recovery_submitted'[thread_request'[u]]
          /\ ~Busy(thread_request[u])'
          /\ \A v \in Threads : Submitting(v)' /\ thread_request'[v] = thread_request'[u] => v = u
    BY <1>1, <1>9, <1>13, <2>1, <2>2 DEF ThreadInv
  <2>4. \A u \in Threads : thread_pc'[u] = "submit" =>
          /\ thread_shards'[u] \subseteq arrivals'[thread_request'[u]]
          /\ Recoverable(arrivals'[thread_request'[u]])
    BY <1>1, <1>13 DEF ThreadInv
  <2>5. /\ \A u \in Threads : thread_pc'[u] = "cancel" => status'[thread_request'[u]] = "NaturalComplete"
        /\ \A x \in cancelled_requests' : status'[x] = "NaturalComplete"
    BY <1>1, <1>6, <1>13 DEF ThreadInv
  <2> QED
    BY <2>3, <2>4, <2>5 DEF ThreadInv
<1>18. PursuitInv'
  BY <1>1, <1>6, <1>9, <1>10, <1>13 DEF PursuitInv, Pursued, Submitting, HoldsTask
<1>19. ReleaseInv'
  <2>1. \A q \in Requests : q # r /\ Released(q) => Released(q)'
    <3>1. \A w \in Workers : worker_pc[w] \in {"deliver", "finish"} => worker_pc'[w] = worker_pc[w]
      BY <1>10 DEF HoldsTask
    <3> QED
      BY <1>6, <1>9, <1>12, <3>1 DEF Released
  <2>2. status[r] \notin {"Recovered", "Failed"}
    BY <1>2 DEF ReleaseInv
  <2> QED
    BY <1>1, <1>2, <1>13, <2>1, <2>2 DEF ReleaseInv
<1> QED
  BY <1>11, <1>14, <1>15, <1>16, <1>17, <1>18, <1>19

\* Submit returns false or throws: the context is gone and nothing is queued.
LEMMA SubmitRefusedKeepsInv ==
  ASSUME CoordinatorInv, NEW t \in Threads, NEW r, r = thread_request[t],
         thread_pc[t] = "submit",
         \/ SubmitRejected(r) /\ ThreadAt(t, "rejected", r, {})
         \/ SubmitThrows(r, SlotCount) /\ ThreadAt(t, "idle", NoRequest, {}),
         UNCHANGED <<requestVars, transportVars>>
  PROVE  CoordinatorInv'
<1> USE DEF CoordinatorInv
<1>1. UNCHANGED <<status, recovery_submitted, recovery_rejected, recovery_closed,
                  late_arrivals, shards, arrivals, word_count, transport, handled,
                  active_transport, transferring>>
  BY DEF requestVars, transportVars
<1>2. r \in Requests /\ r # NoRequest /\ Submitting(t) /\ ~Busy(r)
  BY ThreadRequestType, ExecutorAssumption DEF ThreadInv, Submitting
<1>3. PICK pc \in {"rejected", "idle"}, p \in {r, NoRequest} :
        /\ ThreadAt(t, pc, p, {})
        /\ p = IF pc = "rejected" THEN r ELSE NoRequest
        /\ pc = "idle" => SubmitThrows(r, SlotCount)
  BY <1>2
<1>4. /\ staged_contexts' = [staged_contexts EXCEPT ![r] = NoContext]
      /\ UNCHANGED <<queue, running_requests, cancelled_requests, stopping, worker_pc,
                     worker_task, worker_result>>
  BY DEF SubmitRejected, SubmitThrows, workerVars
<1>5. \A q \in Requests : staged_contexts'[q] = IF q = r THEN NoContext ELSE staged_contexts[q]
  BY <1>2, <1>4 DEF ExecutorInv, ExecutorTypeOK
<1>6. ExecutorInv'
  BY <1>2, RefusedSubmitKeepsInv
<1>7. \A u \in Threads :
        /\ thread_pc'[u] = IF u = t THEN pc ELSE thread_pc[u]
        /\ thread_request'[u] = IF u = t THEN p ELSE thread_request[u]
        /\ thread_shards'[u] = IF u = t THEN {} ELSE thread_shards[u]
  BY <1>3, ThreadAtFacts
<1>8. /\ \A x : Busy(x)' = Busy(x)
      /\ \A x : HasQueuedRequest(x)' = HasQueuedRequest(x)
  BY <1>4 DEF Busy, HasQueuedRequest
<1>9. pc = "idle" => CudaFaults
  BY <1>2, <1>3 DEF SubmitThrows, ContextInv
<1>10. TypeOK'
  <2>1. pc \in ThreadPc /\ p \in Requests \cup {NoRequest} /\ (pc = "idle" <=> p = NoRequest)
    BY <1>2, <1>3 DEF ThreadPc
  <2>2. /\ thread_pc' \in [Threads -> ThreadPc]
        /\ thread_request' \in [Threads -> Requests \cup {NoRequest}]
        /\ thread_shards' \in [Threads -> SUBSET ShardIds]
        /\ \A u \in Threads : thread_pc'[u] = "idle" <=> thread_request'[u] = NoRequest
    BY <1>3, <2>1, ThreadAtType
  <2> QED
    BY <1>1, <1>6, <2>2 DEF TypeOK, ExecutorInv
<1>11. StatusInv' /\ ContextInv'
  BY <1>1, <1>4, <1>5 DEF StatusInv, ContextInv, NoContext
<1>12. TaskInv'
  BY <1>1, <1>4 DEF TaskInv, SoundTask, Uploaded, HoldsTask
<1>13. ThreadInv'
  <2>1. \A u \in Threads : Submitting(u)' => Submitting(u) /\ thread_request'[u] = thread_request[u]
    BY <1>2, <1>3, <1>7 DEF Submitting
  <2>2. \A u \in Threads : Submitting(u)' =>
          /\ recovery_submitted'[thread_request'[u]]
          /\ ~Busy(thread_request[u])'
          /\ \A v \in Threads : Submitting(v)' /\ thread_request'[v] = thread_request'[u] => v = u
    BY <1>1, <1>8, <2>1 DEF ThreadInv
  <2>3. \A u \in Threads : thread_pc'[u] = "submit" =>
          /\ thread_shards'[u] \subseteq arrivals'[thread_request'[u]]
          /\ Recoverable(arrivals'[thread_request'[u]])
    BY <1>1, <1>3, <1>7 DEF ThreadInv
  <2>4. /\ \A u \in Threads : thread_pc'[u] = "cancel" => status'[thread_request'[u]] = "NaturalComplete"
        /\ \A x \in cancelled_requests' : status'[x] = "NaturalComplete"
    BY <1>1, <1>3, <1>4, <1>7 DEF ThreadInv
  <2> QED
    BY <2>2, <2>3, <2>4 DEF ThreadInv
<1>14. PursuitInv'
  BY <1>1, <1>3, <1>4, <1>7, <1>8, <1>9 DEF PursuitInv, Pursued, Submitting
<1>15. ReleaseInv'
  <2>1. Released(r)'
    <3>1. ~HasQueuedRequest(r) /\ \A w \in Workers : worker_task[w].request # r
      BY <1>2, HolderFacts DEF Busy
    <3> QED
      BY <1>2, <1>4, <1>5, <1>8, <3>1 DEF Released, NoContext
  <2>2. \A q \in Requests : q # r /\ Released(q) => Released(q)'
    BY <1>4, <1>5, <1>8 DEF Released
  <2> QED
    BY <1>1, <1>2, <1>3, <1>7, <2>1, <2>2 DEF ReleaseInv
<1> QED
  BY <1>6, <1>10, <1>11, <1>12, <1>13, <1>14, <1>15

LEMMA ThreadStepKeepsInv ==
  ASSUME CoordinatorInv, NEW t \in Threads, ThreadStep(t)
  PROVE  CoordinatorInv'
<1>1. CASE SubmitTask(t)
  BY <1>1, SubmitAcceptedKeepsInv, SubmitRefusedKeepsInv DEF SubmitTask, ThreadReturns
<1> QED
  BY <1>1, CancelRecoveryKeepsInv, RecheckCompletionKeepsInv, RecordRejectionKeepsInv DEF ThreadStep

-----------------------------------------------------------------------------
(***************************************************************************)
(* The workers.                                                            *)
(***************************************************************************)

\* A worker's own steps leave the coordinator alone.
LEMMA WorkerFrame ==
  ASSUME CoordinatorInv, ExecutorInv',
         UNCHANGED <<requestVars, transportVars, threadVars, staged_contexts, stopping>>,
         cancelled_requests' \subseteq cancelled_requests,
         \A q \in Requests : Busy(q)' => Busy(q)
  PROVE  /\ TypeOK' /\ StatusInv' /\ ContextInv' /\ ThreadInv'
         /\ \A task : SoundTask(task)' = SoundTask(task)
         /\ UNCHANGED <<status, recovery_submitted, thread_pc, thread_request>>
<1> USE DEF CoordinatorInv
<1>1. UNCHANGED <<status, recovery_submitted, recovery_rejected, recovery_closed,
                  late_arrivals, shards, arrivals, word_count, transport, handled,
                  active_transport, transferring, thread_pc, thread_request, thread_shards,
                  staged_contexts, stopping>>
  BY DEF requestVars, transportVars, threadVars
<1>2. TypeOK'
  BY <1>1 DEF TypeOK, ExecutorInv
<1>3. StatusInv' /\ ContextInv'
  BY <1>1 DEF StatusInv, ContextInv
<1>4. \A task : SoundTask(task)' = SoundTask(task)
  BY <1>1 DEF SoundTask, Uploaded
<1>5. ThreadInv'
  <2>1. \A u \in Threads : Submitting(u) => thread_request[u] \in Requests
    BY ThreadRequestType DEF Submitting
  <2>2. \A u \in Threads : Submitting(u)' = Submitting(u)
    BY <1>1 DEF Submitting
  <2>3. \A u \in Threads : Submitting(u)' =>
          /\ recovery_submitted'[thread_request'[u]]
          /\ ~Busy(thread_request[u])'
          /\ \A v \in Threads : Submitting(v)' /\ thread_request'[v] = thread_request'[u] => v = u
    BY <1>1, <2>1, <2>2 DEF ThreadInv
  <2> QED
    BY <1>1, <2>3 DEF ThreadInv
<1> QED
  BY <1>1, <1>2, <1>3, <1>4, <1>5

\* Waiting, leaving the loop, decoding and testing for a cancellation.
LEMMA WorkerMoveKeepsCoordinator ==
  ASSUME CoordinatorInv, NEW w \in Workers,
         WorkerWait(w) \/ WorkerExit(w) \/ WorkerRun(w) \/ WorkerCheck(w),
         UNCHANGED <<requestVars, transportVars, threadVars>>
  PROVE  CoordinatorInv'
<1> USE DEF CoordinatorInv
<1>1. UNCHANGED <<queue, staged_contexts, running_requests, cancelled_requests, stopping, worker_task>>
  BY DEF WorkerWait, WorkerExit, WorkerRun, WorkerCheck
<1>2. ExecutorInv'
  BY WorkerStepKeepsInv DEF WorkerStep
<1>3. /\ \A q : HasQueuedRequest(q)' = HasQueuedRequest(q)
      /\ \A q : Busy(q)' = Busy(q)
  BY <1>1 DEF HasQueuedRequest, Busy
<1>4. /\ TypeOK' /\ StatusInv' /\ ContextInv' /\ ThreadInv'
      /\ \A task : SoundTask(task)' = SoundTask(task)
      /\ UNCHANGED <<status, recovery_submitted, thread_pc, thread_request>>
  BY <1>1, <1>2, <1>3, WorkerFrame
<1>5. worker_pc \in [Workers -> WorkerPc] /\ worker_result \in [Workers -> Result]
  BY DEF TypeOK, ExecutorTypeOK
<1>6. \A v \in Workers : v # w => worker_pc'[v] = worker_pc[v] /\ worker_result'[v] = worker_result[v]
  BY <1>5 DEF WorkerWait, WorkerExit, WorkerRun, WorkerCheck
<1>7. /\ worker_pc[w] \in {"ready", "run", "check"}
      /\ worker_pc[w] = "ready" => worker_pc'[w] \in {"wait", "exited"}
      /\ worker_pc[w] = "run" =>
           /\ worker_pc'[w] = "check"
           /\ worker_result'[w] \in DecodeResults(worker_task[w])
      /\ worker_pc[w] = "check" =>
           /\ worker_result'[w] = worker_result[w]
           /\ worker_pc'[w] = IF worker_task[w].request \in cancelled_requests
                                THEN "finish" ELSE "deliver"
  BY <1>5 DEF WorkerWait, WorkerExit, WorkerRun, WorkerCheck
<1>8. TaskInv'
  <2>1. \A v \in Workers : HoldsTask(v)' <=> HoldsTask(v)
    BY <1>6, <1>7 DEF HoldsTask
  <2>2. \A result \in DecodeResults(worker_task[w]) :
          HoldsTask(w) /\ result.success => K \subseteq result.shards
    BY DEF DecodeResults, NoResult, TaskInv, SoundTask
  <2>3. ASSUME NEW v \in Workers, HoldsTask(v)'
        PROVE  /\ SoundTask(worker_task[v])'
               /\ worker_pc'[v] # "run" /\ worker_result'[v].success => K \subseteq worker_result'[v].shards
    <3>1. SoundTask(worker_task[v])'
      BY <1>1, <1>4, <2>1, <2>3 DEF TaskInv
    <3>2. CASE v # w
      BY <1>6, <2>1, <2>3, <3>1, <3>2 DEF TaskInv
    <3>3. CASE v = w
      BY <1>7, <2>1, <2>2, <2>3, <3>1, <3>3 DEF TaskInv, HoldsTask
    <3> QED
      BY <3>2, <3>3
  <2>4. \A i \in DOMAIN queue' : SoundTask(queue[i])'
    BY <1>1, <1>4 DEF TaskInv
  <2> QED
    BY <2>3, <2>4 DEF TaskInv
<1>9. PursuitInv'
  <2> SUFFICES ASSUME ~CudaFaults, NEW q \in Requests, status[q] = "Pending", recovery_submitted[q]
               PROVE  Pursued(q)'
    BY <1>4 DEF PursuitInv
  <2>1. Pursued(q) /\ q \notin cancelled_requests
    BY DEF PursuitInv, ThreadInv
  <2>2. ASSUME NEW v \in Workers, worker_task[v].request = q, worker_pc[v] \in {"run", "check", "deliver"}
        PROVE  worker_pc'[v] \in {"run", "check", "deliver"}
    BY <1>6, <1>7, <2>1, <2>2
  <2> QED
    BY <1>1, <1>3, <1>4, <2>1, <2>2 DEF Pursued, Submitting
<1>10. ReleaseInv'
  <2>1. \A q \in Requests : Released(q) => Released(q)'
    <3>1. \A v \in Workers : worker_pc[v] \in {"deliver", "finish"} => worker_pc'[v] \in {"deliver", "finish"}
      BY <1>6, <1>7
    <3> QED
      BY <1>1, <1>3, <3>1 DEF Released
  <2> QED
    BY <1>4, <2>1 DEF ReleaseInv
<1> QED
  BY <1>2, <1>4, <1>8, <1>9, <1>10

LEMMA WorkerTakeKeepsCoordinator ==
  ASSUME CoordinatorInv, NEW w \in Workers, WorkerTake(w),
         UNCHANGED <<requestVars, transportVars, threadVars>>
  PROVE  CoordinatorInv'
<1> USE DEF CoordinatorInv
<1> SUFFICES ASSUME NEW r, r = queue[1].request PROVE CoordinatorInv'
  OBVIOUS
<1>1. /\ 1 \in DOMAIN queue
      /\ worker_task' = [worker_task EXCEPT ![w] = queue[1]]
      /\ DOMAIN queue' = 1 .. Len(queue) - 1
      /\ \A i \in DOMAIN queue' : i + 1 \in DOMAIN queue /\ queue'[i] = queue[i + 1]
      /\ running_requests' = running_requests \cup {r}
      /\ worker_pc' = [worker_pc EXCEPT ![w] = "run"]
      /\ UNCHANGED <<staged_contexts, cancelled_requests, stopping, worker_result>>
  BY TakeFacts
<1>2. worker_pc[w] = "ready"
  BY DEF WorkerTake
<1>3. ExecutorInv'
  BY WorkerStepKeepsInv DEF WorkerStep
<1>4. /\ \A q : q # r => (HasQueuedRequest(q)' <=> HasQueuedRequest(q))
      /\ HasQueuedRequest(r)
      /\ \A q : HasQueuedRequest(q)' => HasQueuedRequest(q)
  <2>1. Len(queue) \in Nat /\ DOMAIN queue = 1 .. Len(queue)
    BY QueueFacts DEF TypeOK
  <2>2. ASSUME NEW i \in DOMAIN queue, i # 1
        PROVE  i - 1 \in DOMAIN queue' /\ queue'[i - 1] = queue[i]
    <3>1. i - 1 \in DOMAIN queue' /\ (i - 1) + 1 = i
      BY <1>1, <2>1, <2>2
    <3> QED
      BY <1>1, <3>1
  <2>3. HasQueuedRequest(r)
    BY <1>1 DEF HasQueuedRequest
  <2>4. \A q : HasQueuedRequest(q)' => HasQueuedRequest(q)
    BY <1>1 DEF HasQueuedRequest
  <2>5. ASSUME NEW q, q # r, HasQueuedRequest(q)
        PROVE  HasQueuedRequest(q)'
    <3>1. PICK i \in DOMAIN queue : queue[i].request = q
      BY <2>5 DEF HasQueuedRequest
    <3>2. i # 1
      BY <2>5, <3>1
    <3> QED
      BY <2>2, <3>1, <3>2 DEF HasQueuedRequest
  <2> QED
    BY <2>3, <2>4, <2>5
<1>5. \A q \in Requests : Busy(q)' => Busy(q)
  BY <1>1, <1>4 DEF Busy
<1>6. /\ TypeOK' /\ StatusInv' /\ ContextInv' /\ ThreadInv'
      /\ \A task : SoundTask(task)' = SoundTask(task)
      /\ UNCHANGED <<status, recovery_submitted, thread_pc, thread_request>>
  BY <1>1, <1>3, <1>5, WorkerFrame
<1>7. \A v \in Workers : /\ worker_pc'[v] = IF v = w THEN "run" ELSE worker_pc[v]
                         /\ worker_task'[v] = IF v = w THEN queue[1] ELSE worker_task[v]
  BY <1>1 DEF TypeOK, ExecutorTypeOK
<1>8. TaskInv'
  <2>1. \A i \in DOMAIN queue' : SoundTask(queue[i])'
    BY <1>1, <1>6 DEF TaskInv
  <2>2. \A v \in Workers : HoldsTask(v)' =>
          /\ SoundTask(worker_task[v])'
          /\ worker_pc'[v] # "run" /\ worker_result'[v].success => K \subseteq worker_result'[v].shards
    BY <1>1, <1>6, <1>7 DEF TaskInv, HoldsTask
  <2> QED
    BY <2>1, <2>2 DEF TaskInv
<1>9. PursuitInv'
  BY <1>2, <1>4, <1>6, <1>7 DEF PursuitInv, Pursued, Submitting
<1>10. ReleaseInv'
  <2>1. \A q \in Requests : Released(q) => Released(q)'
    BY <1>1, <1>4, <1>7 DEF Released
  <2> QED
    BY <1>6, <2>1 DEF ReleaseInv
<1> QED
  BY <1>3, <1>6, <1>8, <1>9, <1>10

LEMMA WorkerFinishKeepsCoordinator ==
  ASSUME CoordinatorInv, NEW w \in Workers, WorkerFinish(w),
         UNCHANGED <<requestVars, transportVars, threadVars>>
  PROVE  CoordinatorInv'
<1> USE DEF CoordinatorInv
<1> SUFFICES ASSUME NEW r, r = worker_task[w].request PROVE CoordinatorInv'
  OBVIOUS
<1>1. /\ worker_pc[w] = "finish" /\ HoldsTask(w)
      /\ running_requests' = running_requests \ {r}
      /\ cancelled_requests' = cancelled_requests \ {r}
      /\ worker_pc' = NotifyAll([worker_pc EXCEPT ![w] = "ready"])
      /\ worker_task' = [worker_task EXCEPT ![w] = NoTask]
      /\ worker_result' = [worker_result EXCEPT ![w] = NoResult]
      /\ UNCHANGED <<queue, staged_contexts, stopping>>
  BY DEF WorkerFinish, HoldsTask
<1>2. ExecutorInv'
  BY WorkerStepKeepsInv DEF WorkerStep
<1>3. /\ \A q : HasQueuedRequest(q)' = HasQueuedRequest(q)
      /\ \A q \in Requests : Busy(q)' => Busy(q)
  BY <1>1 DEF HasQueuedRequest, Busy
<1>4. /\ TypeOK' /\ StatusInv' /\ ContextInv' /\ ThreadInv'
      /\ \A task : SoundTask(task)' = SoundTask(task)
      /\ UNCHANGED <<status, recovery_submitted, thread_pc, thread_request>>
  BY <1>1, <1>2, <1>3, WorkerFrame
<1>5. \A v \in Workers :
        /\ worker_task'[v] = IF v = w THEN NoTask ELSE worker_task[v]
        /\ worker_result'[v] = IF v = w THEN NoResult ELSE worker_result[v]
  BY <1>1 DEF TypeOK, ExecutorTypeOK
<1>6. /\ worker_pc'[w] = "ready"
      /\ \A v \in Workers : v # w => \/ worker_pc'[v] = worker_pc[v]
                                     \/ worker_pc[v] = "wait" /\ worker_pc'[v] = "ready"
  <2>1. worker_pc \in [Workers -> WorkerPc]
    BY DEF TypeOK, ExecutorTypeOK
  <2>2. PICK pc \in [Workers -> WorkerPc] :
          pc = [worker_pc EXCEPT ![w] = "ready"]
    BY <2>1 DEF WorkerPc
  <2>3. \A v \in Workers : \/ worker_pc'[v] = pc[v]
                           \/ pc[v] = "wait" /\ worker_pc'[v] = "ready"
    BY <1>1, <2>2, NotifyAllFacts
  <2> QED
    BY <2>1, <2>2, <2>3
<1>7. TaskInv'
  BY <1>1, <1>4, <1>5, <1>6 DEF TaskInv, HoldsTask
<1>8. \A v \in Workers : v # w /\ HoldsTask(v) => worker_task[v].request # r
  BY <1>1 DEF ExecutorInv, ExecutorSound, OneTaskPerRequest
<1>9. PursuitInv'
  <2>1. ASSUME NEW v \in Workers, worker_pc[v] \in {"run", "check", "deliver"}
        PROVE  worker_pc'[v] = worker_pc[v] /\ worker_task'[v] = worker_task[v]
    BY <1>1, <1>5, <1>6, <2>1
  <2>2. \A q \in Requests : Pursued(q) => Pursued(q)'
    BY <1>3, <1>4, <2>1 DEF Pursued, Submitting
  <2> QED
    BY <1>4, <2>2 DEF PursuitInv
<1>10. ReleaseInv'
  <2>1. ASSUME NEW q \in Requests, Released(q)
        PROVE  Released(q)'
    <3>1. ASSUME NEW v \in Workers, worker_task'[v].request = q
          PROVE  q \in cancelled_requests' \/ worker_pc'[v] \in {"deliver", "finish"}
      <4>1. v # w
        BY <1>5, <3>1, ExecutorAssumption DEF NoTask
      <4>2. worker_task[v].request = q /\ q # r
        BY <1>5, <1>8, <3>1, <4>1, HolderFacts
      <4> QED
        BY <1>1, <1>6, <2>1, <4>1, <4>2 DEF Released
    <3> QED
      BY <1>1, <1>3, <2>1, <3>1 DEF Released
  <2> QED
    BY <1>4, <2>1 DEF ReleaseInv
<1> QED
  BY <1>2, <1>4, <1>7, <1>9, <1>10

\* The completion handler: whoever still waits for the request is told nothing
\* twice, and the worker that calls it is the last one to work for the request.
LEMMA OnRecoveryCompleteKeepsInv ==
  ASSUME CoordinatorInv, NEW w \in Workers, OnRecoveryComplete(w)
  PROVE  CoordinatorInv'
<1> USE DEF CoordinatorInv
<1> SUFFICES ASSUME NEW r, r = worker_task[w].request PROVE CoordinatorInv'
  OBVIOUS
<1>1. /\ WorkerDeliver(w) /\ worker_pc[w] = "deliver" /\ HoldsTask(w)
      /\ worker_pc' = [worker_pc EXCEPT ![w] = "finish"]
      /\ UNCHANGED <<queue, staged_contexts, running_requests, cancelled_requests, stopping,
                     worker_task, worker_result, recovery_submitted, recovery_rejected,
                     recovery_closed, late_arrivals, arrivals, word_count, transport, handled,
                     active_transport, transferring, thread_pc, thread_request, thread_shards>>
  BY DEF OnRecoveryComplete, WorkerDeliver, HoldsTask, transportVars, threadVars
<1>2. /\ r \in Requests /\ r \in running_requests /\ Busy(r)
      /\ worker_result[w] \in Result
  BY <1>1, HeldTaskType DEF TypeOK, ExecutorTypeOK, Busy
<1>3. /\ recovery_submitted[r] /\ word_count[r] # 0 /\ status[r] # "none"
      /\ worker_result[w].success => K \subseteq worker_result[w].shards
  BY <1>1, <1>2 DEF TaskInv, SoundTask, StatusInv
<1>4. \/ Terminal(r) /\ UNCHANGED <<status, shards>>
      \/ /\ ~Terminal(r) /\ worker_result[w].success
         /\ status' = [status EXCEPT ![r] = "Recovered"]
         /\ shards' = [shards EXCEPT ![r] = worker_result[w].shards]
      \/ /\ ~Terminal(r) /\ ~worker_result[w].success
         /\ status' = [status EXCEPT ![r] = "Failed"] /\ UNCHANGED shards
  BY DEF OnRecoveryComplete
<1>5. /\ \A q \in Requests : q # r => status'[q] = status[q] /\ shards'[q] = shards[q]
      /\ status'[r] = status[r] \/ status'[r] \in {"Recovered", "Failed"}
      /\ Terminal(r) => UNCHANGED <<status, shards>>
      /\ ~Terminal(r) => status[r] = "Pending" /\ status'[r] \in {"Recovered", "Failed"}
      /\ status'[r] # "Recovered" => shards'[r] = shards[r]
      /\ ~Terminal(r) /\ status'[r] = "Recovered" => K \subseteq shards'[r]
  <2>1. status[r] \in {"none", "Pending", "NaturalComplete", "Recovered", "Failed"}
    BY <1>2 DEF TypeOK
  <2> QED
    BY <1>2, <1>3, <1>4, <2>1 DEF Terminal, TypeOK
<1>6. ExecutorInv'
  BY <1>1, WorkerStepKeepsInv
<1>7. /\ \A q : HasQueuedRequest(q)' = HasQueuedRequest(q)
      /\ \A q : Busy(q)' = Busy(q)
  BY <1>1 DEF HasQueuedRequest, Busy
<1>8. \A v \in Workers : worker_pc'[v] = IF v = w THEN "finish" ELSE worker_pc[v]
  BY <1>1 DEF TypeOK, ExecutorTypeOK
<1>9. TypeOK'
  <2>1. /\ status' \in [Requests -> {"none", "Pending", "NaturalComplete", "Recovered", "Failed"}]
        /\ shards' \in [Requests -> SUBSET ShardIds]
    BY <1>2, <1>4 DEF TypeOK, Result
  <2>2. \A q \in Requests : shards'[q] # {} => word_count'[q] # 0
    BY <1>1, <1>3, <1>5 DEF TypeOK
  <2> QED
    BY <1>1, <1>6, <2>1, <2>2 DEF TypeOK, ExecutorInv
<1>10. StatusInv'
  BY <1>1, <1>3, <1>5 DEF StatusInv, Terminal
<1>11. ContextInv'
  BY <1>1 DEF ContextInv
<1>12. TaskInv'
  <2>1. \A task : SoundTask(task)' = SoundTask(task)
    BY <1>1 DEF SoundTask, Uploaded
  <2> QED
    BY <1>1, <1>8, <2>1 DEF TaskInv, HoldsTask
<1>13. \A u \in Threads : thread_pc[u] # "idle" => thread_request[u] \in Requests
  BY ThreadRequestType
<1>14. ThreadInv'
  <2>1. \A u \in Threads : Submitting(u)' = Submitting(u)
    BY <1>1 DEF Submitting
  <2>2. \A u \in Threads : Submitting(u)' =>
          /\ recovery_submitted'[thread_request'[u]]
          /\ ~Busy(thread_request[u])'
          /\ \A v \in Threads : Submitting(v)' /\ thread_request'[v] = thread_request'[u] => v = u
    BY <1>1, <1>7, <2>1 DEF ThreadInv
  <2>3. \A u \in Threads : thread_pc'[u] = "submit" =>
          /\ thread_shards'[u] \subseteq arrivals'[thread_request'[u]]
          /\ Recoverable(arrivals'[thread_request'[u]])
    BY <1>1 DEF ThreadInv
  <2>4. \A q \in Requests : status[q] = "NaturalComplete" => status'[q] = "NaturalComplete"
    BY <1>5 DEF Terminal
  <2>5. /\ \A u \in Threads : thread_pc'[u] = "cancel" => status'[thread_request'[u]] = "NaturalComplete"
        /\ \A q \in cancelled_requests' : status'[q] = "NaturalComplete"
    BY <1>1, <1>13, <2>4 DEF ThreadInv, TypeOK, ExecutorTypeOK
  <2> QED
    BY <2>2, <2>3, <2>5 DEF ThreadInv
<1>15. PursuitInv'
  <2> SUFFICES ASSUME ~CudaFaults, NEW q \in Requests, status'[q] = "Pending", recovery_submitted'[q]
               PROVE  Pursued(q)'
    BY DEF PursuitInv
  <2>1. q # r /\ Pursued(q)
    BY <1>1, <1>5 DEF PursuitInv, Terminal
  <2> QED
    BY <1>1, <1>7, <1>8, <2>1 DEF Pursued, Submitting
<1>16. ReleaseInv'
  <2>1. \A q \in Requests : Released(q) => Released(q)'
    BY <1>1, <1>7, <1>8 DEF Released
  <2>2. Released(r)'
    <3>1. ~staged_contexts[r].open /\ ~HasQueuedRequest(r)
      BY <1>2 DEF ExecutorInv, ExecutorSound, ContextsMoved, OneTaskPerRequest, HasQueuedRequest
    <3>2. \A v \in Workers : worker_task[v].request = r => v = w
      BY <1>1, <1>2, HolderFacts DEF ExecutorInv, ExecutorSound, OneTaskPerRequest
    <3> QED
      BY <1>1, <1>7, <1>8, <3>1, <3>2 DEF Released
  <2>3. \A u \in Threads : thread_request[u] = r => thread_pc[u] # "submit"
    BY <1>2 DEF ThreadInv, Submitting
  <2> QED
    BY <1>1, <1>5, <2>1, <2>2, <2>3 DEF ReleaseInv
<1> QED
  BY <1>6, <1>9, <1>10, <1>11, <1>12, <1>14, <1>15, <1>16

LEMMA ExecutorStepKeepsInv ==
  ASSUME CoordinatorInv, NEW w \in Workers, ExecutorStep(w)
  PROVE  CoordinatorInv'
BY OnRecoveryCompleteKeepsInv, WorkerMoveKeepsCoordinator, WorkerTakeKeepsCoordinator,
   WorkerFinishKeepsCoordinator DEF ExecutorStep, WorkerStep

LEMMA OnShardArrivedKeepsInv ==
  ASSUME CoordinatorInv, NEW t \in Threads, NEW r \in Requests, OnShardArrived(t, r)
  PROVE  CoordinatorInv'
BY ClientKeepsInv, StagingFailsKeepsInv, CompletesNaturallyKeepsInv, KeepsWaitingKeepsInv,
   DecidesToRecoverKeepsInv DEF OnShardArrived

-----------------------------------------------------------------------------
LEMMA CoordinatorStepKeepsInv ==
  ASSUME CoordinatorInv, [Next]_vars
  PROVE  CoordinatorInv'
<1>1. CASE ClientStep \/ UNCHANGED vars
  BY <1>1, ClientKeepsInv
<1>2. CASE \E t \in Threads : ThreadStep(t) \/ \E r \in Requests : OnShardArrived(t, r)
  BY <1>2, ThreadStepKeepsInv, OnShardArrivedKeepsInv
<1>3. CASE \E w \in Workers : ExecutorStep(w)
  BY <1>3, ExecutorStepKeepsInv
<1> QED
  BY <1>1, <1>2, <1>3 DEF Next

\* The inductive invariant holds under every interleaving of client, transport
\* threads and workers: coordinator.cpp:90-226 with
\* cuda_recovery_executor.cpp:72-225.
THEOREM CoordinatorInvariance == Spec => []CoordinatorInv
<1>1. CoordinatorInv /\ [Next]_vars => CoordinatorInv'
  BY CoordinatorStepKeepsInv
<1> QED
  BY <1>1, CoordinatorInvInitially, PTL DEF Spec

\* The request table and the workers' locals keep their types (coordinator.hpp,
\* struct RequestState), and a request that holds a shard has a word count.
THEOREM CoordinatorTypes == Spec => []TypeOK
<1>1. CoordinatorInv => TypeOK
  BY DEF CoordinatorInv
<1> QED
  BY <1>1, CoordinatorInvariance, PTL

\* A request that GetSnapshot reports as complete holds every systematic shard,
\* whichever of natural completion and recovery came first.
THEOREM CompletedRequestsAreWhole == Spec => []CompletedHasAllShards
<1>1. CoordinatorInv => CompletedHasAllShards
  BY DEF CoordinatorInv, StatusInv, CompletedHasAllShards
<1> QED
  BY <1>1, CoordinatorInvariance, PTL

\* When the last callback for a completed request has returned, the executor
\* holds no context and no queued task of it, and a running one is silenced or
\* past the point where it could be (coordinator.cpp:171-198).
THEOREM CompletedRequestsAreReleased == Spec => []CompletedReleasesExecutor
<1>1. CoordinatorInv => CompletedReleasesExecutor
  <2> SUFFICES ASSUME CoordinatorInv, NEW r \in Requests, Terminal(r), CallbacksFor(r) = {}
               PROVE  Released(r)
    BY DEF CompletedReleasesExecutor, Released
  <2>1. ~\E t \in Threads : thread_request[t] = r
    BY DEF CallbacksFor
  <2> QED
    BY <2>1 DEF CoordinatorInv, ReleaseInv, Terminal
<1> QED
  BY <1>1, CoordinatorInvariance, PTL

\* A decode that passes the check of its staged shards reads no device buffer
\* that no upload has filled, also after stagings that failed half-way.
THEOREM DecodesReadUploads == Spec => []DecodesOnlyUploaded
<1>1. CoordinatorInv => DecodesOnlyUploaded
  BY DEF CoordinatorInv, TaskInv, SoundTask, DecodesOnlyUploaded
<1> QED
  BY <1>1, CoordinatorInvariance, PTL

\* At most one of the transport threads, the queue and the workers pursues the
\* recovery of a request, and without failing CUDA calls recovery_submitted tells
\* of every pending request whether somebody does (coordinator.cpp:136, 162-207).
THEOREM RecoveriesAreUnique == Spec => []OneRecoveryPerRequest
<1>1. ASSUME CoordinatorInv, NEW r \in Requests
      PROVE  /\ Cardinality(Pursuers(r)) <= 1
             /\ Pursuers(r) # {} => recovery_submitted[r]
             /\ status[r] = "Pending" /\ recovery_submitted[r] /\ ~CudaFaults => Pursuers(r) # {}
  <2> USE DEF CoordinatorInv
  <2> DEFINE Submitters == {t \in Threads : thread_request[t] = r /\ thread_pc[t] \in {"submit", "rejected"}}
             Queued == {i \in DOMAIN queue : queue[i].request = r}
             Holders == {w \in Workers : /\ worker_task[w].request = r
                                         /\ worker_pc[w] \in {"run", "check", "deliver"}}
  <2>1. Pursuers(r) = Submitters \cup Queued \cup Holders
    BY DEF Pursuers
  <2>2. /\ \A t, u \in Submitters : t = u
        /\ Submitters # {} => ~Busy(r) /\ recovery_submitted[r]
    BY <1>1 DEF ThreadInv, Submitting
  <2>3. /\ \A i, j \in Queued : i = j
        /\ Queued # {} => Busy(r) /\ r \notin running_requests
    BY <1>1 DEF ExecutorInv, ExecutorSound, OneTaskPerRequest, Busy, HasQueuedRequest
  <2>4. /\ \A v, w \in Holders : v = w
        /\ Holders # {} => Busy(r) /\ r \in running_requests
    BY <1>1 DEF ExecutorInv, ExecutorSound, OneTaskPerRequest, HoldsTask, Busy
  <2> HIDE DEF Submitters, Queued, Holders
  <2>5. \A x, y \in Pursuers(r) : x = y
    BY <2>1, <2>2, <2>3, <2>4
  <2>6. Cardinality(Pursuers(r)) <= 1
    <3>1. CASE Pursuers(r) = {}
      BY <3>1, FS_EmptySet
    <3>2. CASE Pursuers(r) # {}
      <4>1. PICK x : Pursuers(r) = {x}
        BY <2>5, <3>2
      <4> QED
        BY <4>1, FS_Singleton
    <3> QED
      BY <3>1, <3>2
  <2>7. Pursuers(r) # {} => recovery_submitted[r]
    BY <1>1, <2>1, <2>2, <2>3, <2>4, BusyIsSubmitted
  <2>8. Pursued(r) => Pursuers(r) # {}
    BY <2>1 DEF Pursued, Submitting, HasQueuedRequest, Submitters, Queued, Holders
  <2> QED
    BY <1>1, <2>6, <2>7, <2>8 DEF PursuitInv
<1>2. CoordinatorInv => OneRecoveryPerRequest
  BY <1>1 DEF OneRecoveryPerRequest
<1> QED
  BY <1>2, CoordinatorInvariance, PTL

-----------------------------------------------------------------------------
(***************************************************************************)
(* What a step may do to the status, the tracker and the slots of a        *)
(* request.                                                                *)
(***************************************************************************)
Starts(r) ==
    /\ status[r] = "none"
    /\ status' = [status EXCEPT ![r] = "Pending"]
    /\ UNCHANGED <<arrivals, shards>>

Received(r) ==
    /\ status[r] = "Pending"
    /\ shards[r] = arrivals[r]
    /\ \E s \in ShardIds \ arrivals[r] :
         /\ arrivals' = [arrivals EXCEPT ![r] = arrivals[r] \cup {s}]
         /\ shards' = [shards EXCEPT ![r] = arrivals[r] \cup {s}]
         /\ status' = [status EXCEPT ![r] = IF K \subseteq arrivals[r] \cup {s}
                                              THEN "NaturalComplete" ELSE "Pending"]

Ended(r) ==
    /\ status[r] = "Pending"
    /\ Recoverable(arrivals[r])
    /\ UNCHANGED arrivals
    /\ \/ status' = [status EXCEPT ![r] = "Failed"] /\ UNCHANGED shards
       \/ /\ status' = [status EXCEPT ![r] = "Recovered"]
          /\ \E slots : shards' = [shards EXCEPT ![r] = slots] /\ K \subseteq slots

LEMMA StoreReceives ==
  ASSUME CoordinatorInv, NEW t \in Threads, NEW r \in Requests, NEW s \in ShardIds,
         NEW size \in PayloadSizes,
         \/ CompletesNaturally(t, r, s, size)
         \/ KeepsWaiting(t, r, s, size)
         \/ ClosesRecovery(t, r, s, size)
         \/ DecidesToRecover(t, r, s, size)
  PROVE  Received(r)
<1>1. /\ StoreShard(t, r, s, size)
      /\ \/ K \subseteq arrivals[r] \cup {s} /\ status' = [status EXCEPT ![r] = "NaturalComplete"]
         \/ ~(K \subseteq arrivals[r] \cup {s}) /\ status' = status
  BY DEF CompletesNaturally, KeepsWaiting, ClosesRecovery, DecidesToRecover, MayRecover,
         SystematicComplete
<1>2. /\ status[r] = "Pending" /\ s \notin arrivals[r] /\ shards[r] = arrivals[r]
      /\ shards' = [shards EXCEPT ![r] = arrivals[r] \cup {s}]
      /\ arrivals' = [arrivals EXCEPT ![r] = arrivals[r] \cup {s}]
  BY <1>1, StoreFacts
<1>3. status = [status EXCEPT ![r] = "Pending"]
  BY <1>2 DEF CoordinatorInv, TypeOK
<1> QED
  BY <1>1, <1>2, <1>3 DEF Received

LEMMA CompletionEnds ==
  ASSUME CoordinatorInv, NEW w \in Workers, OnRecoveryComplete(w), NEW r,
         r = worker_task[w].request
  PROVE  r \in Requests /\ (Ended(r) \/ UNCHANGED <<status, arrivals, shards>>)
<1> USE DEF CoordinatorInv
<1>1. HoldsTask(w) /\ worker_pc[w] = "deliver" /\ UNCHANGED arrivals
  BY DEF OnRecoveryComplete, WorkerDeliver, HoldsTask
<1>2. r \in Requests
  BY <1>1, HeldTaskType DEF Task
<1>3. /\ recovery_submitted[r] /\ status[r] # "none" /\ Recoverable(arrivals[r])
      /\ worker_result[w].success => K \subseteq worker_result[w].shards
  BY <1>1, <1>2 DEF TaskInv, SoundTask, StatusInv
<1>4. status[r] \in {"none", "Pending", "NaturalComplete", "Recovered", "Failed"}
  BY <1>2 DEF TypeOK
<1>5. CASE Terminal(r)
  BY <1>1, <1>2, <1>5 DEF OnRecoveryComplete
<1>6. CASE ~Terminal(r)
  <2>1. status[r] = "Pending"
    BY <1>3, <1>4, <1>6 DEF Terminal
  <2> QED
    BY <1>1, <1>2, <1>3, <1>6, <2>1 DEF OnRecoveryComplete, Ended
<1> QED
  BY <1>5, <1>6

LEMMA StepEffects ==
  ASSUME CoordinatorInv, [Next]_vars
  PROVE  \/ UNCHANGED <<status, arrivals, shards>>
         \/ \E r \in Requests : Starts(r) \/ Received(r) \/ Ended(r)
<1>1. CASE \/ \E tr \in Transports : AttachTransport(tr)
           \/ \E r \in Requests : StartTransfer(r)
           \/ UNCHANGED vars
  BY <1>1 DEF AttachTransport, StartTransfer, vars, requestVars
<1>2. ASSUME NEW r \in Requests, StartRequest(r)
      PROVE  Starts(r)
  BY <1>2 DEF StartRequest, Starts
<1>3. ASSUME NEW t \in Threads, ThreadStep(t)
      PROVE  UNCHANGED <<status, arrivals, shards>>
  BY <1>3 DEF ThreadStep, CancelRecovery, SubmitTask, RecheckCompletion, RecordRejection, requestVars
<1>4. ASSUME NEW t \in Threads, NEW r \in Requests, OnShardArrived(t, r)
      PROVE  Received(r) \/ UNCHANGED <<status, arrivals, shards>>
  <2>1. CASE LateArrival(t, r)
    BY <2>1 DEF LateArrival
  <2>2. ASSUME NEW s \in ShardIds, NEW size \in PayloadSizes, StagingFails(t, r, s, size)
        PROVE  UNCHANGED <<status, arrivals, shards>>
    BY <2>2 DEF StagingFails
  <2> QED
    BY <1>4, <2>1, <2>2, StoreReceives DEF OnShardArrived
<1>5. ASSUME NEW w \in Workers, ExecutorStep(w)
      PROVE  \/ UNCHANGED <<status, arrivals, shards>>
             \/ \E r \in Requests : Ended(r)
  <2>1. CASE OnRecoveryComplete(w)
    BY <2>1, CompletionEnds
  <2>2. CASE UNCHANGED requestVars
    BY <2>2 DEF requestVars
  <2> QED
    BY <1>5, <2>1, <2>2 DEF ExecutorStep
<1> QED
  BY <1>1, <1>2, <1>3, <1>4, <1>5 DEF Next, ClientStep

\* The final status of a request never changes and no step takes a systematic
\* shard away from it (coordinator.cpp:211-226).
THEOREM RequestsCompleteOnce == Spec => CompletesOnce
<1> DEFINE Kept == \A r \in Requests : /\ Terminal(r) => status'[r] = status[r]
                                       /\ shards[r] \cap K \subseteq shards'[r]
<1>1. CoordinatorInv /\ [Next]_vars => [Kept]_<<status, shards>>
  <2> SUFFICES ASSUME CoordinatorInv, [Next]_vars, ~UNCHANGED <<status, shards>> PROVE Kept
    OBVIOUS
  <2>1. TypeOK
    BY DEF CoordinatorInv
  <2>2. PICK r \in Requests : Starts(r) \/ Received(r) \/ Ended(r)
    BY StepEffects
  <2>3. CASE Starts(r)
    BY <2>1, <2>3 DEF Starts, Terminal, TypeOK
  <2>4. CASE Received(r)
    BY <2>1, <2>4 DEF Received, Terminal, TypeOK
  <2>5. CASE Ended(r)
    BY <2>1, <2>5 DEF Ended, Terminal, TypeOK
  <2> QED
    BY <2>2, <2>3, <2>4, <2>5
<1> QED
  BY <1>1, CoordinatorInvariance, PTL DEF Spec, CompletesOnce

-----------------------------------------------------------------------------
(***************************************************************************)
(* The refinement.                                                         *)
(***************************************************************************)
LEMMA SameCode ==
  /\ \A g : Lifecycle!Systematic(g) = Systematic(g) /\ Lifecycle!Parity(g) = Parity(g)
            /\ Lifecycle!Shards(g) = Shards(g)
  /\ \A r : Lifecycle!Sufficient(r) <=> Recoverable(arrivals[r])
<1>1. \A g : Lifecycle!Systematic(g) = Systematic(g) /\ Lifecycle!Parity(g) = Parity(g)
             /\ Lifecycle!Shards(g) = Shards(g)
  BY DEF Lifecycle!Systematic, Systematic, Lifecycle!Parity, Parity, Lifecycle!Shards, Shards
<1>2. \A g, a, S : Lifecycle!StoppingSet(g, a, S) <=> StoppingSet(g, a, S)
  BY DEF Lifecycle!StoppingSet, StoppingSet, Lifecycle!TouchesOnce, TouchesOnce,
         Lifecycle!Neighbors, Neighbors
<1>3. \A g, m, a : Lifecycle!Peelable(g, m, a) <=> Peelable(g, m, a)
  BY <1>2 DEF Lifecycle!Peelable, Peelable
<1> QED
  BY <1>1, <1>3 DEF Lifecycle!Sufficient, Recoverable, MissingSystematic, AvailableParity, K

\* The coordinator with its executor implements the request life cycle: started
\* once, ended once, by the arrival that completes the systematic shards or by a
\* recovery for which the collected shards sufficed.
THEOREM CoordinatorImplementsLifecycle == Spec => ImplementsLifecycle
<1>1. Init => Lifecycle!Init
  BY DEF Init, Lifecycle!Init
<1>2. CoordinatorInv /\ [Next]_vars => [Lifecycle!Next]_<<status, arrivals>>
  <2> SUFFICES ASSUME CoordinatorInv, [Next]_vars, ~UNCHANGED <<status, arrivals>>
               PROVE  Lifecycle!Next
    OBVIOUS
  <2>1. TypeOK /\ ShardIds = Lifecycle!Shards(Graph) /\ K = Lifecycle!Systematic(Graph)
    BY SameCode, CoordinatorAssumption DEF CoordinatorInv, K
  <2>2. PICK r \in Requests : Starts(r) \/ Received(r) \/ Ended(r)
    BY StepEffects
  <2>3. CASE Starts(r)
    BY <2>3 DEF Starts, Lifecycle!Start, Lifecycle!Next
  <2>4. CASE Received(r)
    <3>1. PICK s \in ShardIds \ arrivals[r] :
            /\ arrivals' = [arrivals EXCEPT ![r] = arrivals[r] \cup {s}]
            /\ status' = [status EXCEPT ![r] = IF K \subseteq arrivals[r] \cup {s}
                                                 THEN "NaturalComplete" ELSE "Pending"]
      BY <2>4 DEF Received
    <3>2. arrivals'[r] = arrivals[r] \cup {s}
      BY <2>1, <3>1 DEF TypeOK
    <3>3. Lifecycle!Receive(r)
      BY <2>1, <2>4, <3>1, <3>2 DEF Received, Lifecycle!Receive
    <3> QED
      BY <3>3 DEF Lifecycle!Next
  <2>5. CASE Ended(r)
    BY <2>5, SameCode DEF Ended, Lifecycle!EndRecovery, Lifecycle!Next
  <2> QED
    BY <2>2, <2>3, <2>4, <2>5
<1> QED
  BY <1>1, <1>2, CoordinatorInvariance, PTL DEF Spec, ImplementsLifecycle, Lifecycle!Spec

-----------------------------------------------------------------------------
(***************************************************************************)
(* One transport thread and no failing CUDA call: the staged shards are    *)
(* the supplied ones.  The open context of a request mirrors its tracker   *)
(* until its only recovery has been submitted or refused, and nothing can  *)
(* arrive while the thread is on its way into Submit.                      *)
(***************************************************************************)
Mirrors(r) ==
    IF staged_contexts[r].open THEN staged_contexts[r].staged = arrivals[r] ELSE arrivals[r] = {}

Undecided(r) ==
    status[r] \in {"none", "Pending"} /\ ~recovery_submitted[r] /\ ~recovery_closed[r]

Matched(task) == status[task.request] = "Pending" => task.context.staged = task.shards

StagingInv ==
    /\ \A r \in Requests : Undecided(r) => Mirrors(r)
    /\ \A t \in Threads : thread_pc[t] = "submit" =>
         /\ staged_contexts[thread_request[t]].open
         /\ staged_contexts[thread_request[t]].staged = thread_shards[t]
    /\ \A i \in DOMAIN queue : Matched(queue[i])
    /\ \A w \in Workers : HoldsTask(w) => Matched(worker_task[w])

\* Tasks stay matched as long as none is added.
LEMMA TasksStayMatched ==
  ASSUME CoordinatorInv, StagingInv,
         \A q \in Requests : status'[q] = "Pending" => status[q] \in {"none", "Pending"},
         \A i \in DOMAIN queue' : \E j \in DOMAIN queue : queue'[i] = queue[j],
         \A w \in Workers : HoldsTask(w)' =>
           \/ \E j \in DOMAIN queue : worker_task'[w] = queue[j]
           \/ HoldsTask(w) /\ worker_task'[w] = worker_task[w]
  PROVE  /\ \A i \in DOMAIN queue' : Matched(queue[i])'
         /\ \A w \in Workers : HoldsTask(w)' => Matched(worker_task[w])'
<1> USE DEF CoordinatorInv
<1>1. ASSUME NEW task, task.request \in Requests, SoundTask(task), Matched(task)
      PROVE  Matched(task)'
  BY <1>1 DEF Matched, SoundTask, StatusInv
<1>2. \A i \in DOMAIN queue : queue[i].request \in Requests /\ SoundTask(queue[i]) /\ Matched(queue[i])
  BY QueueFacts DEF TypeOK, TaskInv, StagingInv
<1>3. \A w \in Workers : HoldsTask(w) =>
        /\ worker_task[w].request \in Requests
        /\ SoundTask(worker_task[w]) /\ Matched(worker_task[w])
  BY HeldTaskType DEF Task, TaskInv, StagingInv
<1>4. ASSUME NEW i \in DOMAIN queue'
      PROVE  Matched(queue[i])'
  <2>1. PICK j \in DOMAIN queue : queue'[i] = queue[j]
    OBVIOUS
  <2> QED
    BY <1>1, <1>2, <2>1 DEF Matched
<1>5. ASSUME NEW w \in Workers, HoldsTask(w)'
      PROVE  Matched(worker_task[w])'
  BY <1>1, <1>2, <1>3, <1>5 DEF Matched
<1> QED
  BY <1>4, <1>5

\* A stored shard of an undecided request is staged.
LEMMA StoreStages ==
  ASSUME CoordinatorInv, StagingInv, NEW t \in Threads, NEW r \in Requests, NEW s \in ShardIds,
         NEW size \in PayloadSizes, StoreShard(t, r, s, size), Undecided(r)
  PROVE  staged_contexts'[r].open /\ staged_contexts'[r].staged = arrivals[r] \cup {s}
<1> USE DEF CoordinatorInv
<1> DEFINE c == ContextFor(r, SlotCount)
<1>1. ~StageIgnored(r)
  BY BusyIsSubmitted DEF StageIgnored, ContextInv, Undecided
<1>2. staged_contexts' = [staged_contexts EXCEPT ![r] = StagedInto(c, s)]
  BY <1>1 DEF StoreShard, StageShard
<1>3. staged_contexts'[r] = StagedInto(c, s)
  BY <1>2 DEF TypeOK, ExecutorTypeOK
<1>4. c \in Context /\ c.open /\ c.staged = arrivals[r]
  <2>1. CASE staged_contexts[r].open
    BY <2>1 DEF ContextFor, StagingInv, Mirrors, TypeOK, ExecutorTypeOK
  <2>2. CASE ~staged_contexts[r].open
    <3>1. arrivals[r] = {} /\ c = NewContext(SlotCount)
      BY <2>2 DEF ContextFor, StagingInv, Mirrors
    <3>2. NewContext(SlotCount) \in Context /\ NewContext(SlotCount).open /\ NewContext(SlotCount).staged = {}
      BY GraphFacts, NoContextType DEF NewContext, NoContext
    <3> QED
      BY <3>1, <3>2
  <2> QED
    BY <2>1, <2>2
<1> HIDE DEF c
<1> QED
  BY <1>3, <1>4 DEF StagedInto, Context

LEMMA StoreKeepsStaging ==
  ASSUME CoordinatorInv, StagingInv, \A t, u \in Threads : t = u,
         NEW t \in Threads, NEW r \in Requests, NEW s \in ShardIds, NEW size \in PayloadSizes,
         \/ CompletesNaturally(t, r, s, size)
         \/ KeepsWaiting(t, r, s, size)
         \/ ClosesRecovery(t, r, s, size)
         \/ DecidesToRecover(t, r, s, size)
  PROVE  StagingInv'
<1> USE DEF CoordinatorInv
<1>1. StoreShard(t, r, s, size)
  BY DEF CompletesNaturally, KeepsWaiting, ClosesRecovery, DecidesToRecover
<1>2. /\ thread_pc[t] = "idle" /\ status[r] = "Pending" /\ shards[r] = arrivals[r]
      /\ arrivals' = [arrivals EXCEPT ![r] = arrivals[r] \cup {s}]
      /\ UNCHANGED <<queue, worker_pc, worker_task>>
      /\ \A q \in Requests : q # r => staged_contexts'[q] = staged_contexts[q]
  BY <1>1, StoreFacts DEF workerVars
<1>3. /\ \A q \in Requests : q # r =>
           /\ status'[q] = status[q]
           /\ recovery_submitted'[q] = recovery_submitted[q]
           /\ recovery_closed'[q] = recovery_closed[q]
           /\ arrivals'[q] = arrivals[q]
      /\ arrivals'[r] = arrivals[r] \cup {s}
      /\ Undecided(r)' => Undecided(r)
      /\ \/ UNCHANGED threadVars
         \/ ThreadAt(t, "cancel", r, {})
         \/ ThreadAt(t, "submit", r, arrivals[r] \cup {s}) /\ Undecided(r)
  <2>1. /\ status' = [status EXCEPT ![r] = "NaturalComplete"] \/ UNCHANGED status
        /\ recovery_submitted' = [recovery_submitted EXCEPT ![r] = TRUE] \/ UNCHANGED recovery_submitted
        /\ recovery_closed' = [recovery_closed EXCEPT ![r] = TRUE] \/ UNCHANGED recovery_closed
        /\ \/ UNCHANGED threadVars
           \/ ThreadAt(t, "cancel", r, {})
           \/ ThreadAt(t, "submit", r, arrivals[r] \cup {s}) /\ Undecided(r)
    BY <1>2 DEF CompletesNaturally, KeepsWaiting, ClosesRecovery, DecidesToRecover, MayRecover, Undecided
  <2> QED
    BY <1>2, <2>1 DEF TypeOK, Undecided
<1>4. \A q \in Requests : Undecided(q)' => Mirrors(q)'
  <2>1. Undecided(r)' => Mirrors(r)'
    BY <1>1, <1>3, StoreStages DEF Mirrors
  <2>2. \A q \in Requests : q # r /\ Undecided(q)' => Mirrors(q)'
    BY <1>2, <1>3 DEF StagingInv, Undecided, Mirrors
  <2> QED
    BY <2>1, <2>2
<1>5. \A u \in Threads : thread_pc'[u] = "submit" =>
        /\ staged_contexts'[thread_request'[u]].open
        /\ staged_contexts'[thread_request'[u]].staged = thread_shards'[u]
  <2>1. CASE UNCHANGED threadVars
    BY <1>2, <2>1 DEF threadVars
  <2>2. CASE ThreadAt(t, "cancel", r, {})
    BY <2>2, ThreadAtFacts
  <2>3. CASE ThreadAt(t, "submit", r, arrivals[r] \cup {s}) /\ Undecided(r)
    BY <1>1, <2>3, ThreadAtFacts, StoreStages
  <2> QED
    BY <1>3, <2>1, <2>2, <2>3
<1>6. /\ \A i \in DOMAIN queue' : Matched(queue[i])'
      /\ \A w \in Workers : HoldsTask(w)' => Matched(worker_task[w])'
  <2>1. \A q \in Requests : status'[q] = "Pending" => status[q] \in {"none", "Pending"}
    BY <1>2, <1>3
  <2> QED
    BY <1>2, <2>1, TasksStayMatched DEF HoldsTask
<1> QED
  BY <1>4, <1>5, <1>6 DEF StagingInv

LEMMA StagingFailsKeepsStaging ==
  ASSUME CoordinatorInv, StagingInv, ~CudaFaults, \A t, u \in Threads : t = u,
         NEW t \in Threads, NEW r \in Requests, NEW s \in ShardIds, NEW size \in PayloadSizes,
         StagingFails(t, r, s, size)
  PROVE  StagingInv'
<1> USE DEF CoordinatorInv
<1>1. /\ thread_pc[t] = "idle"
      /\ StageShardThrows(r, SlotCount, s)
      /\ UNCHANGED <<status, recovery_submitted, recovery_closed, arrivals, thread_pc,
                     thread_request, thread_shards, queue, worker_pc, worker_task>>
  BY DEF StagingFails, NewShard, Callback, StageShardThrows, workerVars, threadVars
<1>2. staged_contexts' = [staged_contexts EXCEPT ![r] = ContextFor(r, SlotCount)]
  BY <1>1 DEF StageShardThrows, StageThrows
<1>3. \A q \in Requests :
        staged_contexts'[q] = IF q = r THEN ContextFor(r, SlotCount) ELSE staged_contexts[q]
  BY <1>2 DEF TypeOK, ExecutorTypeOK
<1>4. \A q \in Requests : Mirrors(q) => Mirrors(q)'
  <2>1. NewContext(SlotCount).staged = {}
    BY NoContextType, GraphFacts
  <2> QED
    BY <1>1, <1>3, <2>1 DEF Mirrors, ContextFor
<1>5. \A q \in Requests : Undecided(q)' => Mirrors(q)'
  BY <1>1, <1>4 DEF Undecided, StagingInv
<1>6. /\ \A i \in DOMAIN queue' : Matched(queue[i])'
      /\ \A w \in Workers : HoldsTask(w)' => Matched(worker_task[w])'
  BY <1>1, TasksStayMatched DEF HoldsTask
<1>7. \A u \in Threads : thread_pc'[u] # "submit"
  BY <1>1
<1> QED
  BY <1>5, <1>6, <1>7 DEF StagingInv

\* The one thread leaves Submit or its callback: nobody is at Submit then.
LEMMA ThreadLeavesStaging ==
  ASSUME CoordinatorInv, StagingInv, \A t, u \in Threads : t = u,
         NEW t \in Threads, NEW r \in Requests, thread_pc'[t] # "submit",
         UNCHANGED <<status, arrivals>>,
         \A q \in Requests : q # r => staged_contexts'[q] = staged_contexts[q],
         \A q \in Requests : Undecided(q)' => Undecided(q) /\ q # r,
         \A i \in DOMAIN queue' : \/ \E j \in DOMAIN queue : queue'[i] = queue[j]
                                  \/ Matched(queue[i])',
         \A w \in Workers : HoldsTask(w)' => HoldsTask(w) /\ worker_task'[w] = worker_task[w]
  PROVE  StagingInv'
<1>1. \A q \in Requests : Undecided(q)' => Mirrors(q)'
  BY DEF StagingInv, Mirrors
<1>2. \A u \in Threads : thread_pc'[u] # "submit"
  OBVIOUS
<1>3. \A task : Matched(task)' = Matched(task)
  BY DEF Matched
<1>4. \A i \in DOMAIN queue' : Matched(queue[i])'
  BY <1>3 DEF StagingInv
<1>5. \A w \in Workers : HoldsTask(w)' => Matched(worker_task[w])'
  BY <1>3 DEF StagingInv
<1> QED
  BY <1>1, <1>2, <1>4, <1>5 DEF StagingInv

LEMMA ThreadStepKeepsStaging ==
  ASSUME CoordinatorInv, StagingInv, \A t, u \in Threads : t = u,
         NEW t \in Threads, ThreadStep(t)
  PROVE  StagingInv'
<1> USE DEF CoordinatorInv
<1> SUFFICES ASSUME NEW r, r = thread_request[t] PROVE StagingInv'
  OBVIOUS
<1>1. r \in Requests
  BY ThreadRequestType DEF ThreadStep, CancelRecovery, SubmitTask, RecheckCompletion, RecordRejection
<1>2. staged_contexts \in [Requests -> Context]
  BY DEF TypeOK, ExecutorTypeOK
<1>3. CASE CancelRecovery(t)
  <2>1. /\ thread_pc[t] = "cancel" /\ Cancel(r) /\ ThreadAt(t, "idle", NoRequest, {})
        /\ UNCHANGED <<status, recovery_submitted, recovery_closed, arrivals>>
    BY <1>3 DEF CancelRecovery, ThreadReturns, requestVars
  <2>2. /\ thread_pc'[t] # "submit"
        /\ status[r] = "NaturalComplete"
    BY <2>1, ThreadAtFacts DEF ThreadInv
  <2>3. \A i \in DOMAIN queue' : \E j \in DOMAIN queue : queue'[i] = queue[j]
    <3>1. PICK f \in [DOMAIN queue' -> DOMAIN queue] : \A i \in DOMAIN queue' : queue'[i] = queue[f[i]]
      BY <1>1, <2>1, CancelFacts
    <3> QED
      BY <3>1
  <2>4. \A q \in Requests : q # r => staged_contexts'[q] = staged_contexts[q]
    BY <1>2, <2>1 DEF Cancel
  <2>5. \A q \in Requests : Undecided(q)' => Undecided(q) /\ q # r
    BY <2>1, <2>2 DEF Undecided
  <2>6. \A w \in Workers : HoldsTask(w)' => HoldsTask(w) /\ worker_task'[w] = worker_task[w]
    BY <2>1 DEF Cancel, workerVars, HoldsTask
  <2> QED
    BY <1>1, <2>1, <2>2, <2>3, <2>4, <2>5, <2>6, ThreadLeavesStaging
<1>4. CASE SubmitTask(t)
  <2>1. /\ thread_pc[t] = "submit"
        /\ UNCHANGED <<status, recovery_submitted, recovery_closed, arrivals>>
    BY <1>4 DEF SubmitTask, requestVars
  <2>2. /\ recovery_submitted[r]
        /\ staged_contexts[r].open /\ staged_contexts[r].staged = thread_shards[t]
    BY <2>1 DEF ThreadInv, Submitting, StagingInv
  <2>3. thread_pc'[t] # "submit"
    BY <1>4, ThreadAtFacts DEF SubmitTask, ThreadReturns
  <2>4. /\ staged_contexts' = [staged_contexts EXCEPT ![r] = NoContext]
        /\ UNCHANGED worker_task
        /\ UNCHANGED worker_pc \/ NotifyOne
    BY <1>4 DEF SubmitTask, SubmitAccepted, SubmitRejected, SubmitThrows, workerVars
  <2>5. \A w \in Workers : HoldsTask(w)' => HoldsTask(w) /\ worker_task'[w] = worker_task[w]
    BY <2>4, NotifyOneFacts DEF HoldsTask, TypeOK, ExecutorTypeOK
  <2>6. ASSUME NEW i \in DOMAIN queue'
        PROVE  \/ \E j \in DOMAIN queue : queue'[i] = queue[j]
               \/ Matched(queue[i])'
    <3>1. CASE UNCHANGED queue
      BY <3>1
    <3>2. CASE SubmitAccepted(r, SlotCount, MissingSystematic(thread_shards[t]), thread_shards[t])
      <4>1. PICK task : task = [request |-> r, outputs |-> MissingSystematic(thread_shards[t]),
                                shards |-> thread_shards[t],
                                context |-> SubmitContext(r, SlotCount, thread_shards[t])]
        OBVIOUS
      <4>2. queue' = Append(queue, task)
        BY <3>2, <4>1 DEF SubmitAccepted
      <4>3. /\ thread_shards[t] \in SUBSET ShardIds /\ SlotCount \in Nat
            /\ MissingSystematic(thread_shards[t]) \in SUBSET ShardIds
        BY GraphFacts DEF TypeOK, MissingSystematic
      <4>4. /\ Len(queue) \in Nat
            /\ DOMAIN queue = 1 .. Len(queue)
            /\ DOMAIN queue' = 1 .. Len(queue) + 1
            /\ \A j \in DOMAIN queue : queue'[j] = queue[j]
            /\ queue'[Len(queue) + 1] = task
        BY <1>1, <4>1, <4>2, <4>3, SubmittedTaskFacts, QueueFacts DEF TypeOK
      <4>5. i \in DOMAIN queue \/ i = Len(queue) + 1
        BY <4>4
      <4>6. task.context.staged = task.shards
        BY <2>2, <4>1 DEF SubmitContext
      <4> QED
        BY <4>4, <4>5, <4>6 DEF Matched
    <3> QED
      BY <1>4, <3>1, <3>2 DEF SubmitTask, SubmitRejected, SubmitThrows
  <2>7. \A q \in Requests : q # r => staged_contexts'[q] = staged_contexts[q]
    BY <1>2, <2>4
  <2>8. \A q \in Requests : Undecided(q)' => Undecided(q) /\ q # r
    BY <2>1, <2>2 DEF Undecided
  <2> QED
    BY <1>1, <2>1, <2>3, <2>5, <2>6, <2>7, <2>8, ThreadLeavesStaging
<1>5. CASE RecheckCompletion(t)
  <2>1. /\ thread_pc[t] = "accepted"
        /\ UNCHANGED <<status, recovery_submitted, recovery_closed, arrivals, queue,
                       staged_contexts, worker_pc, worker_task>>
    BY <1>5 DEF RecheckCompletion, requestVars, executorVars
  <2>2. thread_pc'[t] # "submit"
    BY <1>5, ThreadAtFacts DEF RecheckCompletion, ThreadReturns
  <2>3. \A q \in Requests : Undecided(q)' => Mirrors(q)'
    BY <2>1 DEF Undecided, Mirrors, StagingInv
  <2>4. \A u \in Threads : thread_pc'[u] # "submit"
    BY <2>2
  <2>5. /\ \A i \in DOMAIN queue' : Matched(queue[i])'
        /\ \A w \in Workers : HoldsTask(w)' => Matched(worker_task[w])'
    BY <2>1, TasksStayMatched DEF HoldsTask
  <2> QED
    BY <2>3, <2>4, <2>5 DEF StagingInv
<1>6. CASE RecordRejection(t)
  <2>1. /\ thread_pc[t] = "rejected" /\ ThreadAt(t, "idle", NoRequest, {})
        /\ UNCHANGED <<status, arrivals, queue, staged_contexts, worker_pc, worker_task>>
    BY <1>6 DEF RecordRejection, ThreadReturns, executorVars
  <2>2. thread_pc'[t] # "submit"
    BY <2>1, ThreadAtFacts
  <2>3. \A q \in Requests : Undecided(q)' => Undecided(q) /\ q # r
    <3>1. CASE Terminal(r)
      BY <1>6, <2>1, <3>1 DEF RecordRejection, Undecided, Terminal
    <3>2. CASE ~Terminal(r)
      BY <1>1, <1>6, <2>1, <3>2 DEF RecordRejection, Undecided, TypeOK
    <3> QED
      BY <3>1, <3>2
  <2> QED
    BY <1>1, <2>1, <2>2, <2>3, ThreadLeavesStaging DEF HoldsTask
<1> QED
  BY <1>3, <1>4, <1>5, <1>6 DEF ThreadStep

\* The other steps leave contexts, trackers, flags and threads alone.
LEMMA OthersKeepStaging ==
  ASSUME CoordinatorInv, StagingInv,
         \/ ClientStep
         \/ \E t \in Threads, r \in Requests : LateArrival(t, r)
         \/ \E w \in Workers : ExecutorStep(w)
         \/ UNCHANGED vars
  PROVE  StagingInv'
<1> USE DEF CoordinatorInv
<1> DEFINE TableKept ==
             /\ UNCHANGED <<staged_contexts, arrivals, recovery_submitted, recovery_closed,
                            thread_pc, thread_request, thread_shards>>
             /\ \A q \in Requests :
                  status'[q] \in {"none", "Pending"} => status[q] \in {"none", "Pending"}
           NoNewTask ==
             /\ \A i \in DOMAIN queue' : \E j \in DOMAIN queue : queue'[i] = queue[j]
             /\ \A w \in Workers : HoldsTask(w)' =>
                  \/ \E j \in DOMAIN queue : worker_task'[w] = queue[j]
                  \/ HoldsTask(w) /\ worker_task'[w] = worker_task[w]
<1>1. TableKept
  <2>1. CASE \E r \in Requests : StartRequest(r)
    BY <2>1 DEF StartRequest, TypeOK, threadVars, executorVars
  <2>2. CASE \/ \E tr \in Transports : AttachTransport(tr)
             \/ \E r \in Requests : StartTransfer(r)
    BY <2>2 DEF AttachTransport, StartTransfer, requestVars, threadVars, executorVars
  <2>3. CASE \E t \in Threads, r \in Requests : LateArrival(t, r)
    BY <2>3 DEF LateArrival, threadVars, executorVars
  <2>4. ASSUME NEW w \in Workers, OnRecoveryComplete(w)
        PROVE  TableKept
    BY <2>4 DEF OnRecoveryComplete, WorkerDeliver, TypeOK, threadVars
  <2>5. ASSUME NEW w \in Workers, WorkerStep(w), UNCHANGED <<requestVars, transportVars, threadVars>>
        PROVE  TableKept
    BY <2>5 DEF requestVars, threadVars, WorkerStep, WorkerWait, WorkerExit, WorkerTake,
                WorkerRun, WorkerCheck, WorkerFinish
  <2>6. CASE UNCHANGED vars
    BY <2>6 DEF vars, requestVars, threadVars, executorVars
  <2> QED
    BY <2>1, <2>2, <2>3, <2>4, <2>5, <2>6 DEF ClientStep, ExecutorStep
<1>2. NoNewTask
  <2>1. CASE UNCHANGED <<queue, worker_pc, worker_task>>
    BY <2>1 DEF HoldsTask
  <2>2. ASSUME NEW w \in Workers, WorkerTake(w)
        PROVE  NoNewTask
    <3>1. /\ 1 \in DOMAIN queue
          /\ worker_task' = [worker_task EXCEPT ![w] = queue[1]]
          /\ \A i \in DOMAIN queue' : i + 1 \in DOMAIN queue /\ queue'[i] = queue[i + 1]
          /\ worker_pc' = [worker_pc EXCEPT ![w] = "run"]
      BY <2>2, TakeFacts
    <3> QED
      BY <3>1 DEF TypeOK, ExecutorTypeOK, HoldsTask
  <2>3. ASSUME NEW w \in Workers,
               WorkerWait(w) \/ WorkerExit(w) \/ WorkerRun(w) \/ WorkerCheck(w) \/ WorkerDeliver(w)
        PROVE  NoNewTask
    BY <2>3 DEF WorkerWait, WorkerExit, WorkerRun, WorkerCheck, WorkerDeliver, HoldsTask,
                TypeOK, ExecutorTypeOK
  <2>4. ASSUME NEW w \in Workers, WorkerFinish(w)
        PROVE  NoNewTask
    <3>1. PICK pc \in [Workers -> WorkerPc] :
            pc = [worker_pc EXCEPT ![w] = "ready"] /\ worker_pc' = NotifyAll(pc)
      BY <2>4 DEF WorkerFinish, TypeOK, ExecutorTypeOK, WorkerPc
    <3>2. \A v \in Workers : HoldsTask(v)' => HoldsTask(v) /\ v # w
      <4>1. \A v \in Workers : pc[v] = IF v = w THEN "ready" ELSE worker_pc[v]
        BY <3>1 DEF TypeOK, ExecutorTypeOK
      <4>2. \A v \in Workers : worker_pc'[v] = pc[v] \/ worker_pc'[v] = "ready"
        BY <3>1, NotifyAllFacts
      <4> QED
        BY <4>1, <4>2 DEF HoldsTask
    <3> QED
      BY <2>4, <3>2 DEF WorkerFinish, TypeOK, ExecutorTypeOK
  <2>5. CASE ClientStep \/ UNCHANGED vars \/ \E t \in Threads, r \in Requests : LateArrival(t, r)
    BY <2>1, <2>5 DEF ClientStep, AttachTransport, StartRequest, StartTransfer, LateArrival,
                      executorVars, vars
  <2> QED
    BY <2>2, <2>3, <2>4, <2>5 DEF ExecutorStep, OnRecoveryComplete, WorkerStep
<1>3. \A q \in Requests : Undecided(q)' => Mirrors(q)'
  BY <1>1 DEF StagingInv, Undecided, Mirrors
<1>4. /\ \A i \in DOMAIN queue' : Matched(queue[i])'
      /\ \A w \in Workers : HoldsTask(w)' => Matched(worker_task[w])'
  BY <1>1, <1>2, TasksStayMatched
<1> QED
  BY <1>1, <1>3, <1>4 DEF StagingInv

\* If the transport calls back on one thread and no CUDA call fails, a recovery
\* never fails the check that its staged shards are the supplied ones
\* (sparse_decoder.cu:575-577).  Both conditions are needed: with two threads the
\* check does fail.
THEOREM StagedShardsMatch ==
  ASSUME \A t, u \in Threads : t = u, ~CudaFaults
  PROVE  Spec => []StagedMatchesSupplied
<1>1. Init => StagingInv
  BY DEF Init, ExecutorInit, StagingInv, Mirrors, NoContext, HoldsTask
<1>2. CoordinatorInv /\ StagingInv /\ [Next]_vars => StagingInv'
  <2> SUFFICES ASSUME CoordinatorInv, StagingInv, [Next]_vars PROVE StagingInv'
    OBVIOUS
  <2>1. ASSUME NEW t \in Threads, NEW r \in Requests, OnShardArrived(t, r)
        PROVE  StagingInv'
    BY <2>1, OthersKeepStaging, StagingFailsKeepsStaging, StoreKeepsStaging DEF OnShardArrived
  <2> QED
    BY <2>1, ThreadStepKeepsStaging, OthersKeepStaging DEF Next
<1>3. StagingInv => StagedMatchesSupplied
  BY DEF StagingInv, StagedMatchesSupplied, Matched
<1> QED
  BY <1>1, <1>2, <1>3, CoordinatorInvariance, PTL DEF Spec
=============================================================================

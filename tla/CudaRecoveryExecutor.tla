------------------------ MODULE CudaRecoveryExecutor -------------------------
(***************************************************************************)
(* CudaRecoveryExecutor (src/runtime/cuda_recovery_executor.cpp): the      *)
(* bounded asynchronous executor of recovery tasks, with the staging       *)
(* contexts of kernels/sparse_decoder.cu it owns.                          *)
(*                                                                         *)
(* Every method takes the executor's mutex for its whole body, so a method *)
(* is one step; a worker thread takes it three times per task, so a worker *)
(* has one step per critical section and one for each of the two stretches *)
(* between them (the decode and the completion call).                      *)
(*                                                                         *)
(* Shards are their IDs: a payload is what the transport delivered for     *)
(* that ID.  What a plan computes is the subject of CodedRecovery; here a  *)
(* plan is the set of shards it outputs.                                   *)
(***************************************************************************)
EXTENDS Integers, Sequences, FiniteSets

CONSTANTS
    Requests,       \* request IDs
    NoRequest,      \* a worker that holds no task
    ShardIds,       \* shard IDs a caller may use
    Workers,        \* the worker threads; concurrency = Cardinality(Workers)
    MaxQueueDepth,
    CudaFaults      \* TRUE iff CUDA calls may fail

ASSUME ExecutorAssumption ==
    /\ NoRequest \notin Requests
    /\ IsFiniteSet(Workers) /\ Workers # {}
    /\ MaxQueueDepth \in Nat
    /\ ShardIds \subseteq Nat
    /\ CudaFaults \in BOOLEAN

VARIABLES
    queue,              \* deque of tasks
    staged_contexts,    \* per request, its open staging context
    running_requests,
    cancelled_requests,
    stopping,
    worker_pc,          \* where each worker is in WorkerLoop
    worker_task,        \* the local `task' of each worker
    worker_result       \* the local `result' of each worker

executorVars == <<queue, staged_contexts, running_requests, cancelled_requests,
                  stopping, worker_pc, worker_task, worker_result>>
workerVars == <<worker_pc, worker_task, worker_result>>

Concurrency == Cardinality(Workers)
Capacity == Concurrency + MaxQueueDepth

\* A staging context: its slot count, the shards whose host copy it holds, the
\* shards that have a device buffer, and those whose upload has been issued.
Context == [open : BOOLEAN, slots : Nat, staged : SUBSET ShardIds,
            device : SUBSET ShardIds, uploaded : SUBSET ShardIds]
NoContext == [open |-> FALSE, slots |-> 0, staged |-> {}, device |-> {}, uploaded |-> {}]
NewContext(n) == [NoContext EXCEPT !.open = TRUE, !.slots = n]

\* A task: the request, the shards its plan outputs, the shards submitted with
\* it, and the context that moved into it.
Task == [request : Requests, outputs : SUBSET ShardIds,
         shards : SUBSET ShardIds, context : Context]

NoTask == [request |-> NoRequest, outputs |-> {}, shards |-> {}, context |-> NoContext]

Result == [success : BOOLEAN, shards : SUBSET ShardIds]
NoResult == [success |-> FALSE, shards |-> {}]

Outstanding == Len(queue) + Cardinality(running_requests)
HasQueuedRequest(r) == \E i \in DOMAIN queue : queue[i].request = r
Busy(r) == r \in running_requests \/ HasQueuedRequest(r)

Waiting == {w \in Workers : worker_pc[w] = "wait"}

\* work_available.notify_one() and notify_all(), given the workers' next places.
NotifyOne == IF Waiting = {} THEN worker_pc' = worker_pc
             ELSE \E w \in Waiting : worker_pc' = [worker_pc EXCEPT ![w] = "ready"]
NotifyAll(pc) == [w \in Workers |-> IF pc[w] = "wait" THEN "ready" ELSE pc[w]]

ExecutorInit ==
    /\ queue = <<>>
    /\ staged_contexts = [r \in Requests |-> NoContext]
    /\ running_requests = {}
    /\ cancelled_requests = {}
    /\ stopping = FALSE
    /\ worker_pc = [w \in Workers |-> "ready"]
    /\ worker_task = [w \in Workers |-> NoTask]
    /\ worker_result = [w \in Workers |-> NoResult]

-----------------------------------------------------------------------------
(***************************************************************************)
(* The methods.                                                            *)
(***************************************************************************)

\* EstimateRecoveryCost returns nullopt.
EstimateRejects == stopping \/ Outstanding >= Capacity

\* EstimateRecoveryCost in units of estimated_service_cost.
EstimatedWaves == Outstanding \div Concurrency + 1

StageIgnored(r) == stopping \/ Busy(r)

\* The context StageShard stages into: the open one, or a new one.
ContextFor(r, n) ==
    IF staged_contexts[r].open THEN staged_contexts[r] ELSE NewContext(n)

StagedInto(c, s) == [c EXCEPT !.staged = @ \cup {s}, !.device = @ \cup {s},
                              !.uploaded = @ \cup {s}]

\* The contexts a throwing StageShard may leave behind.  A slot-count mismatch,
\* an ID out of range and a shard that has a device buffer always throw; a CUDA
\* call may fail before the context exists, after it exists, after the host copy
\* is recorded, after the device buffer is, or after the upload has been issued.
StageThrows(r, n, s) ==
    LET c == ContextFor(r, n)
    IN IF c.slots # n \/ s >= n \/ s \in c.device THEN {c}
       ELSE IF CudaFaults
              THEN {staged_contexts[r], c, [c EXCEPT !.staged = @ \cup {s}],
                    [c EXCEPT !.staged = @ \cup {s}, !.device = @ \cup {s}],
                    StagedInto(c, s)}
              ELSE {}

\* StageShard returns.
StageShard(r, n, s) ==
    /\ \/ /\ StageIgnored(r)
          /\ UNCHANGED staged_contexts
       \/ /\ ~StageIgnored(r)
          /\ LET c == ContextFor(r, n)
             IN /\ c.slots = n
                /\ s < n
                /\ s \notin c.device
                /\ staged_contexts' = [staged_contexts EXCEPT ![r] = StagedInto(c, s)]
    /\ UNCHANGED <<queue, running_requests, cancelled_requests, stopping, workerVars>>

\* StageShard throws.
StageShardThrows(r, n, s) ==
    /\ ~StageIgnored(r)
    /\ \E c \in StageThrows(r, n, s) :
         staged_contexts' = [staged_contexts EXCEPT ![r] = c]
    /\ UNCHANGED <<queue, running_requests, cancelled_requests, stopping, workerVars>>

SubmitRejects(r) == stopping \/ Outstanding >= Capacity \/ Busy(r)

\* Submit returns false.
SubmitRejected(r) ==
    /\ SubmitRejects(r)
    /\ staged_contexts' = [staged_contexts EXCEPT ![r] = NoContext]
    /\ UNCHANGED <<queue, running_requests, cancelled_requests, stopping, workerVars>>

\* The context of an accepted task: the staged one, or one staged from the
\* submitted shards.
SubmitContext(r, n, shards) ==
    IF staged_contexts[r].open THEN staged_contexts[r]
    ELSE [NewContext(n) EXCEPT !.staged = shards, !.device = shards, !.uploaded = shards]

\* A mutant of SubmitAccepted: nobody is notified.
SubmitAcceptedSilently(r, n, outputs, shards) ==
    /\ ~SubmitRejects(r)
    /\ staged_contexts[r].open => staged_contexts[r].slots = n
    /\ queue' = Append(queue, [request |-> r, outputs |-> outputs, shards |-> shards,
                               context |-> SubmitContext(r, n, shards)])
    /\ staged_contexts' = [staged_contexts EXCEPT ![r] = NoContext]
    /\ UNCHANGED <<running_requests, cancelled_requests, stopping, workerVars>>

\* Submit returns true.
SubmitAccepted(r, n, outputs, shards) ==
    /\ ~SubmitRejects(r)
    /\ staged_contexts[r].open => staged_contexts[r].slots = n
    /\ queue' = Append(queue, [request |-> r, outputs |-> outputs, shards |-> shards,
                               context |-> SubmitContext(r, n, shards)])
    /\ staged_contexts' = [staged_contexts EXCEPT ![r] = NoContext]
    /\ NotifyOne
    /\ UNCHANGED <<running_requests, cancelled_requests, stopping, worker_task,
                   worker_result>>

\* Submit throws: the slot counts differ, or staging a fresh context fails.
SubmitThrows(r, n) ==
    /\ ~SubmitRejects(r)
    /\ IF staged_contexts[r].open THEN staged_contexts[r].slots # n ELSE CudaFaults
    /\ staged_contexts' = [staged_contexts EXCEPT ![r] = NoContext]
    /\ UNCHANGED <<queue, running_requests, cancelled_requests, stopping, workerVars>>

\* The queue without the task at position i.
WithoutTask(i) == SubSeq(queue, 1, i - 1) \o SubSeq(queue, i + 1, Len(queue))

\* Cancel drops the staged context and the first queued task of the request, or
\* marks the running one.
Cancel(r) ==
    /\ staged_contexts' = [staged_contexts EXCEPT ![r] = NoContext]
    /\ IF HasQueuedRequest(r)
         THEN /\ \E i \in DOMAIN queue :
                   /\ queue[i].request = r
                   /\ \A j \in 1 .. i - 1 : queue[j].request # r
                   /\ queue' = WithoutTask(i)
              /\ UNCHANGED cancelled_requests
         ELSE /\ UNCHANGED queue
              /\ cancelled_requests' = IF r \in running_requests
                                         THEN cancelled_requests \cup {r}
                                         ELSE cancelled_requests
    /\ UNCHANGED <<running_requests, stopping, workerVars>>

\* A mutant of Stop: sleeping workers are not notified.
StopSilently ==
    /\ ~stopping
    /\ stopping' = TRUE
    /\ UNCHANGED <<queue, staged_contexts, running_requests, cancelled_requests,
                   workerVars>>

\* The destructor up to its joins.
Stop ==
    /\ ~stopping
    /\ stopping' = TRUE
    /\ worker_pc' = NotifyAll(worker_pc)
    /\ UNCHANGED <<queue, staged_contexts, running_requests, cancelled_requests,
                   worker_task, worker_result>>

-----------------------------------------------------------------------------
(***************************************************************************)
(* The worker loop.  "ready" is a worker that holds the lock and evaluates *)
(* its wait condition, "wait" one that sleeps on work_available.           *)
(***************************************************************************)
WorkerWait(w) ==
    /\ worker_pc[w] = "ready"
    /\ queue = <<>> /\ ~stopping
    /\ worker_pc' = [worker_pc EXCEPT ![w] = "wait"]
    /\ UNCHANGED <<queue, staged_contexts, running_requests, cancelled_requests,
                   stopping, worker_task, worker_result>>

\* A mutant of WorkerExit: a stopping executor abandons its queue.
WorkerExitAtOnce(w) ==
    /\ worker_pc[w] = "ready"
    /\ stopping
    /\ worker_pc' = [worker_pc EXCEPT ![w] = "exited"]
    /\ UNCHANGED <<queue, staged_contexts, running_requests, cancelled_requests,
                   stopping, worker_task, worker_result>>

WorkerExit(w) ==
    /\ worker_pc[w] = "ready"
    /\ stopping /\ queue = <<>>
    /\ worker_pc' = [worker_pc EXCEPT ![w] = "exited"]
    /\ UNCHANGED <<queue, staged_contexts, running_requests, cancelled_requests,
                   stopping, worker_task, worker_result>>

WorkerTake(w) ==
    /\ worker_pc[w] = "ready"
    /\ queue # <<>>
    /\ worker_task' = [worker_task EXCEPT ![w] = Head(queue)]
    /\ queue' = Tail(queue)
    /\ running_requests' = running_requests \cup {Head(queue).request}
    /\ worker_pc' = [worker_pc EXCEPT ![w] = "run"]
    /\ UNCHANGED <<staged_contexts, cancelled_requests, stopping, worker_result>>

\* run_staged_decode_plan_cuda succeeds only if the staged shards are the
\* supplied ones; a CUDA call may fail at any time.
DecodeResults(task) ==
    (IF task.context.staged = task.shards
       THEN {[success |-> TRUE, shards |-> task.shards \cup task.outputs]}
       ELSE {NoResult})
    \cup (IF CudaFaults THEN {NoResult} ELSE {})

WorkerRun(w) ==
    /\ worker_pc[w] = "run"
    /\ \E result \in DecodeResults(worker_task[w]) :
         worker_result' = [worker_result EXCEPT ![w] = result]
    /\ worker_pc' = [worker_pc EXCEPT ![w] = "check"]
    /\ UNCHANGED <<queue, staged_contexts, running_requests, cancelled_requests,
                   stopping, worker_task>>

WorkerCheck(w) ==
    /\ worker_pc[w] = "check"
    /\ worker_pc' = [worker_pc EXCEPT ![w] =
                       IF worker_task[w].request \in cancelled_requests
                         THEN "finish" ELSE "deliver"]
    /\ UNCHANGED <<queue, staged_contexts, running_requests, cancelled_requests,
                   stopping, worker_task, worker_result>>

\* The worker's part of the completion call; the handler's effect is that of
\* the module that submitted the task.
WorkerDeliver(w) ==
    /\ worker_pc[w] = "deliver"
    /\ worker_pc' = [worker_pc EXCEPT ![w] = "finish"]
    /\ UNCHANGED <<queue, staged_contexts, running_requests, cancelled_requests,
                   stopping, worker_task, worker_result>>

\* A mutant of WorkerFinish: the cancellation mark outlives its task.
WorkerFinishKeepsMark(w) ==
    /\ worker_pc[w] = "finish"
    /\ running_requests' = running_requests \ {worker_task[w].request}
    /\ worker_pc' = NotifyAll([worker_pc EXCEPT ![w] = "ready"])
    /\ worker_task' = [worker_task EXCEPT ![w] = NoTask]
    /\ worker_result' = [worker_result EXCEPT ![w] = NoResult]
    /\ UNCHANGED <<queue, staged_contexts, cancelled_requests, stopping>>

WorkerFinish(w) ==
    /\ worker_pc[w] = "finish"
    /\ running_requests' = running_requests \ {worker_task[w].request}
    /\ cancelled_requests' = cancelled_requests \ {worker_task[w].request}
    /\ worker_pc' = NotifyAll([worker_pc EXCEPT ![w] = "ready"])
    /\ worker_task' = [worker_task EXCEPT ![w] = NoTask]
    /\ worker_result' = [worker_result EXCEPT ![w] = NoResult]
    /\ UNCHANGED <<queue, staged_contexts, stopping>>

\* A worker's steps apart from the completion call.
WorkerStep(w) ==
    \/ WorkerWait(w)
    \/ WorkerExit(w)
    \/ WorkerTake(w)
    \/ WorkerRun(w)
    \/ WorkerCheck(w)
    \/ WorkerFinish(w)

-----------------------------------------------------------------------------
WorkerPc == {"ready", "wait", "run", "check", "deliver", "finish", "exited"}

\* The executor's members and the workers' locals have their types, and no
\* context holds a shard beyond its slots.
ExecutorTypeOK ==
    /\ queue \in Seq(Task)
    /\ staged_contexts \in [Requests -> Context]
    /\ running_requests \in SUBSET Requests
    /\ cancelled_requests \in SUBSET Requests
    /\ stopping \in BOOLEAN
    /\ worker_pc \in [Workers -> WorkerPc]
    /\ worker_task \in [Workers -> Task \cup {NoTask}]
    /\ worker_result \in [Workers -> Result]
    /\ \A r \in Requests : staged_contexts[r].staged \cup staged_contexts[r].device
                              \subseteq 0 .. staged_contexts[r].slots - 1

HoldsTask(w) == worker_pc[w] \in {"run", "check", "deliver", "finish"}

\* A request is in the queue at most once, held by at most one worker, never
\* both, and the running set is exactly what the workers hold; a cancellation
\* mark belongs to a running request, so it cannot silence a later task.
OneTaskPerRequest ==
    /\ running_requests = {worker_task[w].request : w \in {v \in Workers : HoldsTask(v)}}
    /\ \A v, w \in Workers :
         HoldsTask(v) /\ HoldsTask(w) /\ worker_task[v].request = worker_task[w].request
           => v = w
    /\ \A i, j \in DOMAIN queue : queue[i].request = queue[j].request => i = j
    /\ \A i \in DOMAIN queue : queue[i].request \notin running_requests
    /\ cancelled_requests \subseteq running_requests

\* Queued and running tasks together never exceed concurrency plus queue depth.
WithinCapacity == Outstanding <= Capacity

\* A request with a task has no open staging context: the task took it over.
ContextsMoved ==
    \A r \in Requests : Busy(r) => ~staged_contexts[r].open

(***************************************************************************)
(* A request is never worked on twice at the same time, whatever the order *)
(* of staging, submitting, cancelling and submitting again: the executor's *)
(* capacity holds, nobody stages into a context that a task owns, and a    *)
(* cancellation silences the task it was meant for and no later one        *)
(* (cuda_recovery_executor.cpp:86-89, 113-118, 128-129, 147-163, 214-218). *)
(***************************************************************************)
ExecutorSound == OneTaskPerRequest /\ WithinCapacity /\ ContextsMoved

\* Every queued task leaves the queue: no wake-up is lost between Submit's
\* notify_one, the workers' waits and WorkerLoop's notify_all.
QueueDrains ==
    \A r \in Requests : HasQueuedRequest(r) ~> ~HasQueuedRequest(r)

\* The destructor's joins return, and only after the queue has been drained
\* (cuda_recovery_executor.cpp:61-70, 177-179).
ShutdownDrains ==
    stopping ~> (queue = <<>> /\ \A w \in Workers : worker_pc[w] = "exited")
=============================================================================

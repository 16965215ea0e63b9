----------------------------- MODULE Coordinator -----------------------------
(***************************************************************************)
(* RecoveryCoordinator (src/runtime/coordinator.cpp) with the arrival      *)
(* tracker and the recovery policy (src/runtime/policy.cpp), composed with *)
(* the CUDA executor: a transport's threads deliver shards, each arrival   *)
(* may complete the request, or decide to recover and submit a task, and   *)
(* the executor's workers call back with the result.                       *)
(*                                                                         *)
(* The coordinator's mutex is held from the start of OnShardArrived to the *)
(* decision, which therefore is one step; Submit, Cancel and the re-checks *)
(* happen after the unlock and are steps of their own.  The executor's     *)
(* mutex nests inside: StageShard and EstimateRecoveryCost of that step    *)
(* concern a request no other thread can submit or cancel meanwhile, so    *)
(* executor steps between them commute with it.                            *)
(*                                                                         *)
(* The transport is external: it may lose, delay, reorder and duplicate    *)
(* shards, so any shard of a started request may arrive at any time, any   *)
(* number of times, on any of its threads.  Arrivals that throw before     *)
(* they change anything (unknown request, ID out of range, empty payload,  *)
(* unequal size) leave every variable unchanged and are not steps.         *)
(***************************************************************************)
EXTENDS ErasureCode, CudaRecoveryExecutor

CONSTANTS
    Graph,          \* the coordinator's BipartiteGraph
    Threads,        \* threads on which the transports call back
    Transports,     \* transports that may be attached, one after the other
    NoTransport,
    PayloadSizes,   \* word counts of delivered payloads
    WaitCosts,      \* values of the wait-cost oracle, in service-cost units
    MaxLate         \* bound on the counter of late arrivals

ASSUME CoordinatorAssumption ==
    /\ IsBipartiteGraph(Graph) /\ ValidateGraph(Graph)
    /\ ShardIds = Shards(Graph)
    /\ NoTransport \notin Transports
    /\ PayloadSizes \subseteq Nat \ {0}
    /\ WaitCosts \subseteq Nat
    /\ MaxLate \in Nat

VARIABLES
    status,             \* snapshot.status, "none" before StartRequest
    recovery_submitted, recovery_rejected, recovery_closed,
    late_arrivals,
    shards,             \* the slots of a request that hold a payload
    arrivals,           \* the shards its tracker has marked as arrived
    word_count,
    transport,          \* the attached transport
    handled,            \* the transports whose arrival handler is set
    active_transport,   \* the transport StartRequest has picked for a request
    transferring,       \* requests whose transport has been told to start
    thread_pc,          \* where a transport thread is in OnShardArrived
    thread_request,
    thread_shards       \* its task_shards

requestVars == <<status, recovery_submitted, recovery_rejected, recovery_closed,
                 late_arrivals, shards, arrivals, word_count>>
transportVars == <<transport, handled, active_transport, transferring>>
threadVars == <<thread_pc, thread_request, thread_shards>>
vars == <<requestVars, transportVars, threadVars, executorVars>>

K == Systematic(Graph)
SlotCount == Graph.k + Graph.m

Terminal(r) == status[r] \in {"NaturalComplete", "Recovered", "Failed"}

\* IsSystematicComplete and the planner's verdict, for a set of arrived shards.
\* CreatePlan finds a plan exactly when the missing shards are peelable
\* (theorem PeelingIsComplete), and the plan outputs all of them.
SystematicComplete(arrived) == K \subseteq arrived
MissingSystematic(arrived) == K \ arrived
AvailableParity(arrived) == arrived \cap Parity(Graph)
Recoverable(arrived) ==
    Peelable(Graph, MissingSystematic(arrived), AvailableParity(arrived))

Init ==
    /\ ExecutorInit
    /\ status = [r \in Requests |-> "none"]
    /\ recovery_submitted = [r \in Requests |-> FALSE]
    /\ recovery_rejected = [r \in Requests |-> FALSE]
    /\ recovery_closed = [r \in Requests |-> FALSE]
    /\ late_arrivals = [r \in Requests |-> 0]
    /\ shards = [r \in Requests |-> {}]
    /\ arrivals = [r \in Requests |-> {}]
    /\ word_count = [r \in Requests |-> 0]
    /\ transport = NoTransport
    /\ handled = {}
    /\ active_transport = [r \in Requests |-> NoTransport]
    /\ transferring = {}
    /\ thread_pc = [t \in Threads |-> "idle"]
    /\ thread_request = [t \in Threads |-> NoRequest]
    /\ thread_shards = [t \in Threads |-> {}]

-----------------------------------------------------------------------------
(***************************************************************************)
(* The client's calls.                                                     *)
(***************************************************************************)

\* The old transport loses its handler, the new one gets it.
AttachTransport(tr) ==
    /\ tr # transport
    /\ transport' = tr
    /\ handled' = (handled \ {transport}) \cup {tr}
    /\ UNCHANGED <<active_transport, transferring, requestVars, threadVars, executorVars>>

\* StartRequest under the lock: register the request, pick the transport.
StartRequest(r) ==
    /\ transport # NoTransport
    /\ status[r] = "none"
    /\ status' = [status EXCEPT ![r] = "Pending"]
    /\ active_transport' = [active_transport EXCEPT ![r] = transport]
    /\ UNCHANGED <<recovery_submitted, recovery_rejected, recovery_closed,
                   late_arrivals, shards, arrivals, word_count, transport, handled,
                   transferring, threadVars, executorVars>>

\* StartRequest after the unlock: active_transport->StartRequest.
StartTransfer(r) ==
    /\ active_transport[r] # NoTransport
    /\ r \notin transferring
    /\ transferring' = transferring \cup {r}
    /\ UNCHANGED <<transport, handled, active_transport, requestVars, threadVars,
                   executorVars>>

-----------------------------------------------------------------------------
(***************************************************************************)
(* OnShardArrived.                                                         *)
(***************************************************************************)

\* The handler of request r's transport is called on the idle thread t.
Callback(t, r) ==
    /\ thread_pc[t] = "idle"
    /\ r \in transferring
    /\ active_transport[r] \in handled

\* A mutant of LateArrival: the tracker of a finished request goes on.
LateArrivalTracked(t, r) ==
    /\ Callback(t, r)
    /\ Terminal(r)
    /\ late_arrivals[r] < MaxLate
    /\ late_arrivals' = [late_arrivals EXCEPT ![r] = @ + 1]
    /\ \E s \in ShardIds : arrivals' = [arrivals EXCEPT ![r] = @ \cup {s}]
    /\ UNCHANGED <<status, recovery_submitted, recovery_rejected, recovery_closed,
                   shards, word_count, transportVars, threadVars, executorVars>>

LateArrival(t, r) ==
    /\ Callback(t, r)
    /\ Terminal(r)
    /\ late_arrivals[r] < MaxLate
    /\ late_arrivals' = [late_arrivals EXCEPT ![r] = @ + 1]
    /\ UNCHANGED <<status, recovery_submitted, recovery_rejected, recovery_closed,
                   shards, arrivals, word_count, transportVars, threadVars, executorVars>>

\* A shard that passes the checks and is new to a pending request.
NewShard(t, r, s, size) ==
    /\ Callback(t, r)
    /\ status[r] = "Pending"
    /\ word_count[r] \in {0, size}
    /\ s \notin shards[r]

\* A mutant of StagingFails: the shard is stored before it is staged.
StagingFailsStored(t, r, s, size) ==
    /\ NewShard(t, r, s, size)
    /\ StageShardThrows(r, SlotCount, s)
    /\ word_count' = [word_count EXCEPT ![r] = size]
    /\ shards' = [shards EXCEPT ![r] = @ \cup {s}]
    /\ UNCHANGED <<status, recovery_submitted, recovery_rejected, recovery_closed,
                   late_arrivals, arrivals, transportVars, threadVars>>

\* StageShard throws: the word count is recorded, the shard is not.
StagingFails(t, r, s, size) ==
    /\ NewShard(t, r, s, size)
    /\ StageShardThrows(r, SlotCount, s)
    /\ word_count' = [word_count EXCEPT ![r] = size]
    /\ UNCHANGED <<status, recovery_submitted, recovery_rejected, recovery_closed,
                   late_arrivals, shards, arrivals, transportVars, threadVars>>

\* A mutant of StoreShard: the word count is not recorded.
StoreShardUnsized(t, r, s, size) ==
    /\ NewShard(t, r, s, size)
    /\ StageShard(r, SlotCount, s)
    /\ shards' = [shards EXCEPT ![r] = @ \cup {s}]
    /\ arrivals' = [arrivals EXCEPT ![r] = @ \cup {s}]
    /\ UNCHANGED <<word_count, late_arrivals, transportVars>>

StoreShard(t, r, s, size) ==
    /\ NewShard(t, r, s, size)
    /\ StageShard(r, SlotCount, s)
    /\ word_count' = [word_count EXCEPT ![r] = size]
    /\ shards' = [shards EXCEPT ![r] = @ \cup {s}]
    /\ arrivals' = [arrivals EXCEPT ![r] = @ \cup {s}]
    /\ UNCHANGED <<late_arrivals, transportVars>>

\* Leave thread t at pc, with the request it works for and its task shards.
ThreadAt(t, pc, r, task_shards) ==
    /\ thread_pc' = [thread_pc EXCEPT ![t] = pc]
    /\ thread_request' = [thread_request EXCEPT ![t] = r]
    /\ thread_shards' = [thread_shards EXCEPT ![t] = task_shards]

ThreadReturns(t) == ThreadAt(t, "idle", NoRequest, {})

CompletesNaturally(t, r, s, size) ==
    /\ StoreShard(t, r, s, size)
    /\ SystematicComplete(arrivals[r] \cup {s})
    /\ status' = [status EXCEPT ![r] = "NaturalComplete"]
    /\ ThreadAt(t, "cancel", r, {})
    /\ UNCHANGED <<recovery_submitted, recovery_rejected, recovery_closed>>

\* A mutant of MayRecover: a submitted recovery does not stop a second one.
MayRecoverAgain(r, s) ==
    /\ ~SystematicComplete(arrivals[r] \cup {s})
    /\ ~recovery_closed[r]
    /\ Recoverable(arrivals[r] \cup {s})

\* The branch of OnShardArrived that plans a recovery, and finds a plan.
MayRecover(r, s) ==
    /\ ~SystematicComplete(arrivals[r] \cup {s})
    /\ ~recovery_closed[r]
    /\ ~recovery_submitted[r]
    /\ Recoverable(arrivals[r] \cup {s})

\* RecoveryPolicy::Evaluate on a recoverable plan: strictly cheaper than waiting.
PolicyRecovers(wait) == EstimatedWaves < wait

\* Nothing to decide, or the policy prefers to wait.
KeepsWaiting(t, r, s, size) ==
    /\ StoreShard(t, r, s, size)
    /\ ~SystematicComplete(arrivals[r] \cup {s})
    /\ MayRecover(r, s) => /\ ~EstimateRejects
                           /\ \E wait \in WaitCosts : ~PolicyRecovers(wait)
    /\ UNCHANGED <<status, recovery_submitted, recovery_rejected, recovery_closed,
                   threadVars>>

\* The executor is full: the request never tries again.
ClosesRecovery(t, r, s, size) ==
    /\ StoreShard(t, r, s, size)
    /\ MayRecover(r, s)
    /\ EstimateRejects
    /\ recovery_rejected' = [recovery_rejected EXCEPT ![r] = TRUE]
    /\ recovery_closed' = [recovery_closed EXCEPT ![r] = TRUE]
    /\ UNCHANGED <<status, recovery_submitted, threadVars>>

\* A mutant of DecidesToRecover: the shards are copied before the last arrival.
DecidesWithStaleShards(t, r, s, size) ==
    /\ StoreShard(t, r, s, size)
    /\ MayRecover(r, s)
    /\ ~EstimateRejects
    /\ \E wait \in WaitCosts : PolicyRecovers(wait)
    /\ recovery_submitted' = [recovery_submitted EXCEPT ![r] = TRUE]
    /\ ThreadAt(t, "submit", r, shards[r])
    /\ UNCHANGED <<status, recovery_rejected, recovery_closed>>

DecidesToRecover(t, r, s, size) ==
    /\ StoreShard(t, r, s, size)
    /\ MayRecover(r, s)
    /\ ~EstimateRejects
    /\ \E wait \in WaitCosts : PolicyRecovers(wait)
    /\ recovery_submitted' = [recovery_submitted EXCEPT ![r] = TRUE]
    /\ ThreadAt(t, "submit", r, shards[r] \cup {s})
    /\ UNCHANGED <<status, recovery_rejected, recovery_closed>>

OnShardArrived(t, r) ==
    \/ LateArrival(t, r)
    \/ \E s \in ShardIds, size \in PayloadSizes :
         \/ StagingFails(t, r, s, size)
         \/ CompletesNaturally(t, r, s, size)
         \/ KeepsWaiting(t, r, s, size)
         \/ ClosesRecovery(t, r, s, size)
         \/ DecidesToRecover(t, r, s, size)

-----------------------------------------------------------------------------
(***************************************************************************)
(* OnShardArrived after the unlock, with r = thread_request[t].            *)
(***************************************************************************)

\* Cancel, after natural completion or after the re-check below.
CancelRecovery(t) ==
    /\ thread_pc[t] = "cancel"
    /\ Cancel(thread_request[t])
    /\ ThreadReturns(t)
    /\ UNCHANGED <<requestVars, transportVars>>

SubmitTask(t) ==
    /\ thread_pc[t] = "submit"
    /\ LET r == thread_request[t]
       IN \/ /\ SubmitAccepted(r, SlotCount, MissingSystematic(thread_shards[t]),
                               thread_shards[t])
             /\ ThreadAt(t, "accepted", r, {})
          \/ /\ SubmitRejected(r)
             /\ ThreadAt(t, "rejected", r, {})
          \/ /\ SubmitThrows(r, SlotCount)
             /\ ThreadReturns(t)
    /\ UNCHANGED <<requestVars, transportVars>>

\* A mutant of RecheckCompletion: nobody looks at the request again.
RecheckOmitted(t) ==
    /\ thread_pc[t] = "accepted"
    /\ ThreadReturns(t)
    /\ UNCHANGED <<requestVars, transportVars, executorVars>>

\* The task was accepted: has the request completed naturally meanwhile?
RecheckCompletion(t) ==
    /\ thread_pc[t] = "accepted"
    /\ IF status[thread_request[t]] = "NaturalComplete"
         THEN ThreadAt(t, "cancel", thread_request[t], {})
         ELSE ThreadReturns(t)
    /\ UNCHANGED <<requestVars, transportVars, executorVars>>

\* A mutant of RecordRejection: the rejected recovery stays submitted.
RecordRejectionSubmitted(t) ==
    /\ thread_pc[t] = "rejected"
    /\ LET r == thread_request[t]
       IN IF Terminal(r)
            THEN UNCHANGED <<recovery_rejected, recovery_closed>>
            ELSE /\ recovery_rejected' = [recovery_rejected EXCEPT ![r] = TRUE]
                 /\ recovery_closed' = [recovery_closed EXCEPT ![r] = TRUE]
    /\ ThreadReturns(t)
    /\ UNCHANGED <<status, recovery_submitted, late_arrivals, shards, arrivals, word_count,
                   transportVars, executorVars>>

RecordRejection(t) ==
    /\ thread_pc[t] = "rejected"
    /\ LET r == thread_request[t]
       IN IF Terminal(r)
            THEN UNCHANGED <<recovery_submitted, recovery_rejected, recovery_closed>>
            ELSE /\ recovery_submitted' = [recovery_submitted EXCEPT ![r] = FALSE]
                 /\ recovery_rejected' = [recovery_rejected EXCEPT ![r] = TRUE]
                 /\ recovery_closed' = [recovery_closed EXCEPT ![r] = TRUE]
    /\ ThreadReturns(t)
    /\ UNCHANGED <<status, late_arrivals, shards, arrivals, word_count, transportVars,
                   executorVars>>

ThreadStep(t) ==
    \/ CancelRecovery(t)
    \/ SubmitTask(t)
    \/ RecheckCompletion(t)
    \/ RecordRejection(t)

-----------------------------------------------------------------------------
(***************************************************************************)
(* The completion handler, called by worker w.                             *)
(***************************************************************************)

\* A mutant of OnRecoveryComplete: a request that is done is completed again.
OnRecoveryCompleteAgain(w) ==
    /\ WorkerDeliver(w)
    /\ LET r == worker_task[w].request
           result == worker_result[w]
       IN /\ status' = [status EXCEPT ![r] = IF result.success THEN "Recovered" ELSE "Failed"]
          /\ shards' = [shards EXCEPT ![r] = IF result.success THEN result.shards ELSE @]
    /\ UNCHANGED <<recovery_submitted, recovery_rejected, recovery_closed,
                   late_arrivals, arrivals, word_count, transportVars, threadVars>>

\* A mutant of OnRecoveryComplete: the rebuilt shards are not taken over.
OnRecoveryCompleteWithoutShards(w) ==
    /\ WorkerDeliver(w)
    /\ LET r == worker_task[w].request
       IN status' = [status EXCEPT ![r] =
                       CASE Terminal(r) -> @
                         [] ~Terminal(r) /\ worker_result[w].success -> "Recovered"
                         [] OTHER -> "Failed"]
    /\ UNCHANGED <<recovery_submitted, recovery_rejected, recovery_closed, shards,
                   late_arrivals, arrivals, word_count, transportVars, threadVars>>

\* The result replaces the request's slots; a request that is done is left alone.
OnRecoveryComplete(w) ==
    /\ WorkerDeliver(w)
    /\ LET r == worker_task[w].request
           result == worker_result[w]
       IN CASE Terminal(r) -> UNCHANGED <<status, shards>>
            [] ~Terminal(r) /\ result.success ->
                 /\ status' = [status EXCEPT ![r] = "Recovered"]
                 /\ shards' = [shards EXCEPT ![r] = result.shards]
            [] ~Terminal(r) /\ ~result.success ->
                 /\ status' = [status EXCEPT ![r] = "Failed"]
                 /\ UNCHANGED shards
    /\ UNCHANGED <<recovery_submitted, recovery_rejected, recovery_closed,
                   late_arrivals, arrivals, word_count, transportVars, threadVars>>

ExecutorStep(w) ==
    \/ WorkerStep(w) /\ UNCHANGED <<requestVars, transportVars, threadVars>>
    \/ OnRecoveryComplete(w)

ClientStep ==
    \/ \E tr \in Transports : AttachTransport(tr)
    \/ \E r \in Requests : StartRequest(r) \/ StartTransfer(r)

Next ==
    \/ ClientStep
    \/ \E t \in Threads : ThreadStep(t) \/ \E r \in Requests : OnShardArrived(t, r)
    \/ \E w \in Workers : ExecutorStep(w)

Spec == Init /\ [][Next]_vars

\* Threads are scheduled: a callback that has begun and a worker that has
\* something to do go on.  Nobody has to deliver anything.
FairSpec ==
    /\ Spec
    /\ \A t \in Threads : WF_vars(ThreadStep(t))
    /\ \A w \in Workers : WF_vars(ExecutorStep(w))

-----------------------------------------------------------------------------
ThreadPc == {"idle", "cancel", "submit", "accepted", "rejected"}

\* The coordinator's request table and its threads' locals have their types, a
\* request that holds a shard has a word count, and a thread outside its
\* callback works for no request.
TypeOK ==
    /\ ExecutorTypeOK
    /\ status \in [Requests -> {"none", "Pending", "NaturalComplete", "Recovered", "Failed"}]
    /\ recovery_submitted \in [Requests -> BOOLEAN]
    /\ recovery_rejected \in [Requests -> BOOLEAN]
    /\ recovery_closed \in [Requests -> BOOLEAN]
    /\ late_arrivals \in [Requests -> 0 .. MaxLate]
    /\ shards \in [Requests -> SUBSET ShardIds]
    /\ arrivals \in [Requests -> SUBSET ShardIds]
    /\ word_count \in [Requests -> PayloadSizes \cup {0}]
    /\ transport \in Transports \cup {NoTransport}
    /\ handled \in SUBSET Transports
    /\ active_transport \in [Requests -> Transports \cup {NoTransport}]
    /\ transferring \in SUBSET Requests
    /\ thread_pc \in [Threads -> ThreadPc]
    /\ thread_request \in [Threads -> Requests \cup {NoRequest}]
    /\ thread_shards \in [Threads -> SUBSET ShardIds]
    /\ \A r \in Requests : shards[r] # {} => word_count[r] # 0
    /\ \A t \in Threads : thread_pc[t] = "idle" <=> thread_request[t] = NoRequest

(***************************************************************************)
(* "Reconstruct the exact missing bytes" at the serving boundary: a        *)
(* request that is reported complete has every systematic shard in its     *)
(* slots, also after a recovery result has replaced the slots and late     *)
(* arrivals and cancellations have raced with it                           *)
(* (coordinator.cpp:131-135, 218-226).                                     *)
(***************************************************************************)
CompletedHasAllShards ==
    \A r \in Requests : status[r] \in {"NaturalComplete", "Recovered"} => K \subseteq shards[r]

(***************************************************************************)
(* A request completes once: its final status never changes, and no step   *)
(* takes a systematic shard away from it, although the recovery result     *)
(* overwrites all slots with an older copy (coordinator.cpp:211, 223).     *)
(***************************************************************************)
CompletesOnce ==
    [][\A r \in Requests : /\ Terminal(r) => status'[r] = status[r]
                           /\ shards[r] \cap K \subseteq shards'[r]]_<<status, shards>>

CallbacksFor(r) == {t \in Threads : thread_request[t] = r}

(***************************************************************************)
(* A completed request leaves no work behind: once no transport thread is  *)
(* in a callback for it, it has no staged context and no queued task, and  *)
(* a task that is still running is marked as cancelled or past the check   *)
(* of the mark.  The natural completion races with Submit here, which is   *)
(* what the re-check after Submit is for (coordinator.cpp:171-198).        *)
(***************************************************************************)
CompletedReleasesExecutor ==
    \A r \in Requests :
        Terminal(r) /\ CallbacksFor(r) = {} =>
            /\ ~staged_contexts[r].open
            /\ ~HasQueuedRequest(r)
            /\ \A w \in Workers :
                 worker_task[w].request = r =>
                    r \in cancelled_requests \/ worker_pc[w] \in {"deliver", "finish"}

\* Who will give a request's recovery an outcome: a thread on its way into or
\* out of Submit, the queued task, or the worker that has taken it.
Pursuers(r) ==
    {t \in Threads : thread_request[t] = r /\ thread_pc[t] \in {"submit", "rejected"}}
    \cup {i \in DOMAIN queue : queue[i].request = r}
    \cup {w \in Workers : /\ worker_task[w].request = r
                          /\ worker_pc[w] \in {"run", "check", "deliver"}}

(***************************************************************************)
(* A request has at most one recovery under way, and recovery_submitted    *)
(* tells whether a pending request has one: the flag is set under the lock *)
(* but Submit is called, and a rejection recorded, after the unlock, when  *)
(* other threads have delivered more shards.  A flag without a recovery    *)
(* would mean that the request is never recovered; a CUDA fault in Submit  *)
(* does that (coordinator.cpp:136, 162-166, 200-207,                       *)
(* cuda_recovery_executor.cpp:131).                                        *)
(***************************************************************************)
OneRecoveryPerRequest ==
    \A r \in Requests :
        /\ Cardinality(Pursuers(r)) <= 1
        /\ Pursuers(r) # {} => recovery_submitted[r]
        /\ status[r] = "Pending" /\ recovery_submitted[r] /\ ~CudaFaults => Pursuers(r) # {}

(***************************************************************************)
(* "Staged shards must match the supplied host shard slots"                *)
(* (sparse_decoder.cu:575-577), the check that fails a recovery: the       *)
(* context that a pending request's task took over holds exactly the       *)
(* shards that were copied for the task under the coordinator's lock.      *)
(* It holds if the transport delivers on one thread.                       *)
(***************************************************************************)
StagedMatchesSupplied ==
    /\ \A i \in DOMAIN queue :
         status[queue[i].request] = "Pending" => queue[i].context.staged = queue[i].shards
    /\ \A w \in Workers :
         HoldsTask(w) /\ status[worker_task[w].request] = "Pending" =>
            worker_task[w].context.staged = worker_task[w].shards

Uploaded(task) ==
    task.context.staged = task.shards => task.shards \subseteq task.context.uploaded

(***************************************************************************)
(* A decode never reads a device buffer that no upload has filled: a task  *)
(* that passes the check of its staged shards has uploaded each of them.   *)
(* stage_decode_shard_cuda records the host copy before it allocates and   *)
(* uploads, and run_staged_decode_plan_cuda allocates whatever is missing, *)
(* so after a failed staging only the order in OnShardArrived, stage first *)
(* and store then, keeps the two apart                                     *)
(* (coordinator.cpp:129-130, sparse_decoder.cu:534-547, 635-638).          *)
(***************************************************************************)
DecodesOnlyUploaded ==
    /\ \A i \in DOMAIN queue : Uploaded(queue[i])
    /\ \A w \in Workers : HoldsTask(w) => Uploaded(worker_task[w])

\* A submitted recovery has an outcome: the request becomes terminal, or the
\* rejection is recorded, even if no further shard ever arrives.
SubmissionResolves ==
    \A r \in Requests :
        (recovery_submitted[r] /\ ~Terminal(r)) ~> (Terminal(r) \/ recovery_rejected[r])

(***************************************************************************)
(* The coordinator with its executor implements the request life cycle of  *)
(* module RequestLifecycle: a stale completion, a duplicate or late shard, *)
(* a rejected or cancelled task are all invisible to it.                   *)
(***************************************************************************)
Lifecycle == INSTANCE RequestLifecycle WITH outcome <- status, received <- arrivals

ImplementsLifecycle == Lifecycle!Spec
=============================================================================

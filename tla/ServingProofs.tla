---------------------------- MODULE ServingProofs ----------------------------
(***************************************************************************)
(* The lifetimes of coordinator and executor, for every number of requests,*)
(* transport threads and workers: a coordinator that is being destroyed is *)
(* not used, and it leaves no work behind.                                 *)
(*                                                                         *)
(* The coordinator's own invariant holds as long as somebody has a strong  *)
(* reference to it.  From then on the executor's invariant remains, and    *)
(* the requests are quiet one by one as ~Impl cancels them.                *)
(***************************************************************************)
EXTENDS ServingClient, CoordinatorProofs

(***************************************************************************)
(* The inductive invariant.                                                *)
(***************************************************************************)

\* Whoever is inside the coordinator has a strong reference.
LifetimeInv ==
    /\ client_pc \in {"calls", "check", "asleep"} => Client \in impl_refs
    /\ entered \subseteq impl_refs \cap Threads
    /\ \A t \in Threads : thread_pc[t] # "idle" => t \in impl_refs
    /\ destroyer # NoActor \/ ImplGone => impl_refs = {}
    /\ to_cancel \subseteq Requests
    /\ ImplGone => to_cancel = {}

\* A request that was not started has no context.
UnstartedInv == \A r \in Requests : status[r] = "none" => ~staged_contexts[r].open

AliveInv == impl_refs # {} => CoordinatorInv /\ UnstartedInv

\* The executor does nothing more for the request.
Quiet(r) ==
    /\ ~staged_contexts[r].open
    /\ ~HasQueuedRequest(r)
    /\ \A w \in Workers :
         worker_task[w].request = r /\ worker_pc[w] \in {"run", "check"} =>
            r \in cancelled_requests

QuietInv == impl_refs = {} => \A r \in Requests \ to_cancel : Quiet(r)

ServingInv == ExecutorInv /\ LifetimeInv /\ AliveInv /\ QuietInv

-----------------------------------------------------------------------------
(***************************************************************************)
(* The steps of the coordinator and of the executor.                       *)
(***************************************************************************)

\* Nobody stages for a request that was not started.
LEMMA UnstartedStays ==
  ASSUME CoordinatorInv, UnstartedInv, [Next]_vars
  PROVE  UnstartedInv'
<1> SUFFICES ASSUME NEW q \in Requests, status'[q] = "none"
             PROVE  ~staged_contexts'[q].open
  BY DEF UnstartedInv
<1>1. TypeOK /\ ExecutorInv /\ ExecutorTypeOK
  BY DEF CoordinatorInv, ExecutorInv
<1>2. status \in [Requests -> {"none", "Pending", "NaturalComplete", "Recovered", "Failed"}]
  BY <1>1 DEF TypeOK
<1>3. staged_contexts \in [Requests -> Context]
  BY <1>1 DEF ExecutorTypeOK
<1>4. status[q] = "none" => ~staged_contexts[q].open
  BY DEF UnstartedInv
<1>5. CASE ClientStep \/ UNCHANGED vars
  BY <1>2, <1>4, <1>5
     DEF ClientStep, AttachTransport, StartRequest, StartTransfer, vars, requestVars, executorVars
<1>6. ASSUME NEW t \in Threads, NEW r \in Requests, OnShardArrived(t, r)
      PROVE  ~staged_contexts'[q].open
  <2>1. status[r] # "none"
    BY <1>2, <1>6 DEF OnShardArrived, LateArrival, Terminal, StagingFails, CompletesNaturally,
         KeepsWaiting, ClosesRecovery, DecidesToRecover, StoreShard, NewShard
  <2>2. status'[r] # "none" /\ \A p \in Requests : p # r => status'[p] = status[p]
    BY <1>2, <1>6, <2>1 DEF OnShardArrived, LateArrival, StagingFails, CompletesNaturally,
         KeepsWaiting, ClosesRecovery, DecidesToRecover
  <2>3. \A p \in Requests : p # r => staged_contexts'[p] = staged_contexts[p]
    BY <1>3, <1>6 DEF OnShardArrived, LateArrival, StagingFails, CompletesNaturally,
         KeepsWaiting, ClosesRecovery, DecidesToRecover, StoreShard, StageShard,
         StageShardThrows, executorVars
  <2> QED
    BY <1>4, <2>2, <2>3
<1>7. ASSUME NEW t \in Threads, ThreadStep(t)
      PROVE  ~staged_contexts'[q].open
  <2>1. status' = status
    BY <1>7 DEF ThreadStep, CancelRecovery, SubmitTask, RecheckCompletion, RecordRejection,
         requestVars
  <2>2. \/ staged_contexts' = staged_contexts
        \/ \E r : staged_contexts' = [staged_contexts EXCEPT ![r] = NoContext]
    BY <1>7 DEF ThreadStep, CancelRecovery, SubmitTask, RecheckCompletion, RecordRejection,
         Cancel, SubmitAccepted, SubmitRejected, SubmitThrows, executorVars
  <2> QED
    BY <1>3, <1>4, <2>1, <2>2 DEF NoContext
<1>8. ASSUME NEW w \in Workers, ExecutorStep(w)
      PROVE  ~staged_contexts'[q].open
  <2>1. staged_contexts' = staged_contexts
    BY <1>8 DEF ExecutorStep, WorkerStep, WorkerWait, WorkerExit, WorkerTake, WorkerRun,
         WorkerCheck, WorkerFinish, OnRecoveryComplete, WorkerDeliver
  <2>2. CASE status' = status
    BY <1>4, <2>1, <2>2
  <2>3. CASE status' # status
    <3>1. PICK r : \/ status' = [status EXCEPT ![r] = "Recovered"]
                   \/ status' = [status EXCEPT ![r] = "Failed"]
      BY <1>8, <2>3 DEF ExecutorStep, OnRecoveryComplete, requestVars
    <3>2. status[q] = "none"
      BY <1>2, <3>1
    <3> QED
      BY <1>4, <2>1, <3>2
  <2> QED
    BY <2>2, <2>3
<1> QED
  BY <1>5, <1>6, <1>7, <1>8 DEF Next

\* A worker gives a quiet request no new life.
LEMMA WorkerKeepsQuiet ==
  ASSUME ExecutorInv, NEW w \in Workers, WorkerStep(w) \/ WorkerDeliver(w),
         NEW q \in Requests, Quiet(q)
  PROVE  Quiet(q)'
<1>1. /\ worker_pc \in [Workers -> WorkerPc]
      /\ worker_task \in [Workers -> Task \cup {NoTask}]
  BY DEF ExecutorInv, ExecutorTypeOK
<1>2. staged_contexts' = staged_contexts
  BY DEF WorkerStep, WorkerWait, WorkerExit, WorkerTake, WorkerRun, WorkerCheck, WorkerFinish,
         WorkerDeliver
<1>3. CASE WorkerTake(w)
  <2>1. /\ 1 \in DOMAIN queue
        /\ worker_task' = [worker_task EXCEPT ![w] = queue[1]]
        /\ \A i \in DOMAIN queue' : i + 1 \in DOMAIN queue /\ queue'[i] = queue[i + 1]
        /\ worker_pc' = [worker_pc EXCEPT ![w] = "run"]
        /\ cancelled_requests' = cancelled_requests
    BY <1>3, TakeFacts
  <2>2. queue[1].request # q
    BY <2>1 DEF Quiet, HasQueuedRequest
  <2> QED
    BY <1>1, <1>2, <2>1, <2>2 DEF Quiet, HasQueuedRequest
<1>4. CASE WorkerFinish(w)
  <2>1. /\ queue' = queue
        /\ cancelled_requests' = cancelled_requests \ {worker_task[w].request}
        /\ worker_task' = [worker_task EXCEPT ![w] = NoTask]
        /\ worker_pc' = NotifyAll([worker_pc EXCEPT ![w] = "ready"])
        /\ worker_pc[w] = "finish"
    BY <1>4 DEF WorkerFinish
  <2>2. \A v \in Workers : worker_pc'[v] \in {"run", "check"} =>
          v # w /\ worker_pc[v] = worker_pc'[v] /\ worker_task'[v] = worker_task[v]
    BY <1>1, <2>1 DEF NotifyAll
  <2>3. \A v \in Workers : worker_pc[v] \in {"run", "check"} =>
          worker_task[v].request # worker_task[w].request
    BY <2>1 DEF ExecutorInv, ExecutorSound, OneTaskPerRequest, HoldsTask
  <2> QED
    BY <1>2, <2>1, <2>2, <2>3 DEF Quiet, HasQueuedRequest
<1>5. CASE \/ WorkerWait(w) \/ WorkerExit(w) \/ WorkerRun(w) \/ WorkerCheck(w)
           \/ WorkerDeliver(w)
  <2>1. /\ queue' = queue
        /\ cancelled_requests' = cancelled_requests
        /\ worker_task' = worker_task
        /\ \A v \in Workers : worker_pc'[v] \in {"run", "check"} =>
             worker_pc[v] \in {"run", "check"}
    BY <1>1, <1>5 DEF WorkerWait, WorkerExit, WorkerRun, WorkerCheck, WorkerDeliver
  <2> QED
    BY <1>2, <2>1 DEF Quiet, HasQueuedRequest
<1> QED
  BY <1>3, <1>4, <1>5 DEF WorkerStep

\* Cancel quiets its request and disturbs no other.
LEMMA CancelQuiets ==
  ASSUME ExecutorInv, NEW r \in Requests, Cancel(r)
  PROVE  /\ Quiet(r)'
         /\ \A q \in Requests : Quiet(q) => Quiet(q)'
<1>1. /\ staged_contexts' = [staged_contexts EXCEPT ![r] = NoContext]
      /\ UNCHANGED <<worker_pc, worker_task>>
      /\ HasQueuedRequest(r) \/ r \notin running_requests \/ r \in cancelled_requests'
      /\ cancelled_requests \subseteq cancelled_requests'
  BY DEF Cancel, workerVars
<1>2. /\ \A i \in DOMAIN queue' : queue'[i].request # r
      /\ \A i \in DOMAIN queue' : \E j \in DOMAIN queue : queue'[i] = queue[j]
  BY CancelFacts
<1>3. staged_contexts \in [Requests -> Context]
  BY DEF ExecutorInv, ExecutorTypeOK
<1>4. \A w \in Workers : worker_task[w].request = r /\ worker_pc[w] \in {"run", "check"} =>
        r \in running_requests
  BY HeldTaskType DEF HoldsTask
<1>5. HasQueuedRequest(r) => r \notin running_requests
  BY DEF HasQueuedRequest, ExecutorInv, ExecutorSound, OneTaskPerRequest
<1>6. Quiet(r)'
  BY <1>1, <1>2, <1>3, <1>4, <1>5 DEF Quiet, HasQueuedRequest, NoContext
<1>7. ASSUME NEW q \in Requests, Quiet(q)
      PROVE  Quiet(q)'
  BY <1>1, <1>2, <1>3, <1>7 DEF Quiet, HasQueuedRequest, NoContext
<1> QED
  BY <1>6, <1>7

\* Neither does the executor's destructor.
LEMMA StopKeepsQuiet ==
  ASSUME ExecutorInv, Stop, NEW q \in Requests, Quiet(q)
  PROVE  Quiet(q)'
<1>1. /\ UNCHANGED <<queue, staged_contexts, cancelled_requests, worker_task>>
      /\ worker_pc' = NotifyAll(worker_pc)
  BY DEF Stop
<1>2. \A w \in Workers : worker_pc'[w] \in {"run", "check"} => worker_pc[w] \in {"run", "check"}
  BY <1>1 DEF NotifyAll
<1> QED
  BY <1>1, <1>2 DEF Quiet, HasQueuedRequest

LEMMA ExecutorStutterKeepsQuiet ==
  ASSUME UNCHANGED executorVars, NEW q \in Requests, Quiet(q)
  PROVE  Quiet(q)'
BY DEF Quiet, HasQueuedRequest, executorVars

-----------------------------------------------------------------------------
(***************************************************************************)
(* The steps of the composition.                                           *)
(***************************************************************************)

LEMMA ServingInvInitially == ServingInit => ServingInv
<1> SUFFICES ASSUME ServingInit PROVE ServingInv
  OBVIOUS
<1>1. CoordinatorInv
  BY CoordinatorInvInitially DEF ServingInit
<1>2. ExecutorInv
  BY <1>1 DEF CoordinatorInv
<1>3. UnstartedInv
  BY DEF UnstartedInv, ServingInit, Init, ExecutorInit, NoContext
<1>4. LifetimeInv
  BY DEF LifetimeInv, ServingInit, Init, ImplGone
<1>5. QuietInv
  BY DEF QuietInv, ServingInit
<1> QED
  BY <1>1, <1>2, <1>3, <1>4, <1>5 DEF ServingInv, AliveInv

\* As long as somebody has a strong reference, nobody is destroying.
LEMMA ReferencesKeepAlive ==
  ASSUME ServingInv, impl_refs # {}
  PROVE  destroyer = NoActor /\ ~ImplGone /\ CoordinatorInv /\ UnstartedInv
BY DEF ServingInv, LifetimeInv, AliveInv

\* A step of the coordinator that is taken under a strong reference.
LEMMA CoordinatorKeepsServing ==
  ASSUME ServingInv, impl_refs # {}, [Next]_vars, UNCHANGED lifetimeVars,
         entered' \subseteq entered,
         client_pc' \in {"calls", "check", "asleep"} => client_pc \in {"calls", "check", "asleep"},
         \A t \in Threads : thread_pc'[t] # "idle" => thread_pc[t] # "idle" \/ t \in impl_refs
  PROVE  ServingInv'
<1>1. CoordinatorInv' /\ UnstartedInv'
  BY ReferencesKeepAlive, CoordinatorStepKeepsInv, UnstartedStays
<1>2. ExecutorInv'
  BY <1>1 DEF CoordinatorInv
<1>3. LifetimeInv'
  BY DEF ServingInv, LifetimeInv, lifetimeVars, ImplGone
<1>4. QuietInv' /\ AliveInv'
  BY <1>1 DEF ServingInv, QuietInv, AliveInv, lifetimeVars
<1> QED
  BY <1>2, <1>3, <1>4 DEF ServingInv

\* A request that was not started has nothing in the executor.
LEMMA UnstartedIsQuiet ==
  ASSUME CoordinatorInv, UnstartedInv, NEW q \in Requests \ Started
  PROVE  Quiet(q)
<1>1. status[q] = "none"
  BY DEF Started
<1>2. ExecutorInv /\ TaskInv /\ StatusInv
  BY DEF CoordinatorInv
<1>3. ~Busy(q)
  BY <1>1, <1>2, BusyIsSubmitted DEF StatusInv
<1>4. \A w \in Workers : worker_task[w].request # q
  BY <1>2, <1>3, HolderFacts
<1> QED
  BY <1>1, <1>3, <1>4 DEF Quiet, UnstartedInv, Busy

\* The predicates that the coordinator and the executor give meaning to.
LEMMA StutterKeepsParts ==
  ASSUME UNCHANGED vars
  PROVE  /\ ExecutorInv => ExecutorInv'
         /\ CoordinatorInv /\ UnstartedInv => CoordinatorInv' /\ UnstartedInv'
         /\ \A q \in Requests : Quiet(q) => Quiet(q)'
<1>1. UNCHANGED executorVars
  BY DEF vars
<1> QED
  BY <1>1, ExecutorStutterKeepsInv, CoordinatorStepKeepsInv, UnstartedStays,
     ExecutorStutterKeepsQuiet

\* An actor lets its reference go; the last one becomes the destroyer.
LEMMA DropKeepsServing ==
  ASSUME ServingInv, NEW a \in impl_refs, DropImpl(a), UNCHANGED vars,
         entered' \subseteq entered \ {a}, a # NoActor,
         a \in Threads => thread_pc[a] = "idle",
         client_pc' \in {"calls", "check", "asleep"} =>
            client_pc \in {"calls", "check", "asleep"} /\ a # Client
  PROVE  ServingInv'
<1>1. destroyer = NoActor /\ ~ImplGone /\ CoordinatorInv /\ UnstartedInv
  BY ReferencesKeepAlive
<1>2. /\ impl_refs' = impl_refs \ {a}
      /\ UNCHANGED <<executor_refs, joiner>>
      /\ impl_refs' = {} => to_cancel' = Started
      /\ impl_refs' # {} => UNCHANGED <<destroyer, to_cancel>>
  BY DEF DropImpl
<1>3. thread_pc' = thread_pc
  BY DEF vars, threadVars
<1>4. LifetimeInv'
  BY <1>1, <1>2, <1>3 DEF ServingInv, LifetimeInv, ImplGone, Started
<1>5. ExecutorInv' /\ AliveInv'
  BY <1>1, StutterKeepsParts DEF ServingInv, AliveInv
<1>6. QuietInv'
  <2> SUFFICES ASSUME impl_refs' = {}, NEW q \in Requests \ to_cancel'
               PROVE  Quiet(q)'
    BY DEF QuietInv
  <2>1. q \in Requests \ Started
    BY <1>2
  <2> QED
    BY <1>1, <2>1, UnstartedIsQuiet, StutterKeepsParts
<1> QED
  BY <1>4, <1>5, <1>6 DEF ServingInv

\* An actor takes a reference, or the client moves.
LEMMA ReferenceStepKeepsServing ==
  ASSUME ServingInv, UNCHANGED <<vars, destroyer, to_cancel, executor_refs>>,
         joiner' \in {joiner, NoActor},
         impl_refs' = impl_refs \/ (impl_refs # {} /\ impl_refs \subseteq impl_refs'),
         entered' \subseteq impl_refs' \cap Threads,
         client_pc' \in {"calls", "check", "asleep"} => client_pc \in {"calls", "check", "asleep"}
  PROVE  ServingInv'
<1>1. thread_pc' = thread_pc
  BY DEF vars, threadVars
<1>2. LifetimeInv'
  BY <1>1 DEF ServingInv, LifetimeInv, ImplGone
<1>3. ExecutorInv' /\ AliveInv'
  BY StutterKeepsParts DEF ServingInv, AliveInv
<1>4. QuietInv'
  BY StutterKeepsParts DEF ServingInv, QuietInv
<1> QED
  BY <1>2, <1>3, <1>4 DEF ServingInv

\* A worker goes on while or after the coordinator is destroyed.
LEMMA OrphanKeepsServing ==
  ASSUME ServingInv, impl_refs = {}, NEW w \in Workers, WorkerStep(w) \/ WorkerDeliver(w),
         UNCHANGED <<servingVars, coordinatorVars>>
  PROVE  ServingInv'
<1>1. thread_pc' = thread_pc /\ UNCHANGED lifetimeVars
  BY DEF coordinatorVars, threadVars, servingVars
<1>2. ExecutorInv'
  BY WorkerStepKeepsInv DEF ServingInv
<1>3. LifetimeInv' /\ AliveInv'
  BY <1>1 DEF ServingInv, LifetimeInv, AliveInv, ImplGone, servingVars,
     lifetimeVars, clientVars
<1>4. QuietInv'
  BY <1>1, WorkerKeepsQuiet DEF ServingInv, QuietInv, lifetimeVars
<1> QED
  BY <1>2, <1>3, <1>4 DEF ServingInv

\* ~Impl cancels a request.
LEMMA DestroyCancelKeepsServing ==
  ASSUME ServingInv, DestroyCancel
  PROVE  ServingInv'
<1>1. PICK r \in to_cancel : Cancel(r) /\ to_cancel' = to_cancel \ {r}
  BY DEF DestroyCancel
<1>2. impl_refs = {}
  BY DEF DestroyCancel, ServingInv, LifetimeInv
<1>3. r \in Requests
  BY <1>1 DEF ServingInv, LifetimeInv
<1>4. /\ UNCHANGED <<impl_refs, destroyer, executor_refs, joiner, entered, client_pc>>
      /\ thread_pc' = thread_pc
  BY DEF DestroyCancel, coordinatorVars, threadVars, clientVars
<1>5. ExecutorInv'
  BY <1>1, <1>3, CancelKeepsInv DEF ServingInv
<1>6. LifetimeInv' /\ AliveInv'
  BY <1>1, <1>2, <1>4 DEF ServingInv, LifetimeInv, AliveInv, ImplGone
<1>7. QuietInv'
  <2> SUFFICES ASSUME NEW q \in Requests \ to_cancel'
               PROVE  Quiet(q)'
    BY DEF QuietInv
  <2>1. q = r \/ Quiet(q)
    BY <1>1, <1>2 DEF ServingInv, QuietInv
  <2> QED
    BY <1>1, <1>3, <2>1, CancelQuiets DEF ServingInv
<1> QED
  BY <1>5, <1>6, <1>7 DEF ServingInv

\* A reference to the executor goes, and perhaps the executor.
LEMMA DropExecutorFacts ==
  ASSUME ServingInv, NEW a, NEW holder, DropExecutor(a, holder)
  PROVE  /\ ExecutorInv'
         /\ \A q \in Requests : Quiet(q) => Quiet(q)'
         /\ executor_refs' = executor_refs \ {holder}
         /\ executor_refs # {holder} => UNCHANGED executorVars
<1>1. Stop \/ UNCHANGED executorVars
  BY DEF DropExecutor
<1>2. ExecutorInv' /\ \A q \in Requests : Quiet(q) => Quiet(q)'
  BY <1>1, StopKeepsInv, ExecutorStutterKeepsInv, StopKeepsQuiet, ExecutorStutterKeepsQuiet
     DEF ServingInv
<1> QED
  BY <1>2 DEF DropExecutor

\* ~Impl drops the executor.
LEMMA DestroyImplKeepsServing ==
  ASSUME ServingInv, DestroyImpl
  PROVE  ServingInv'
<1>1. impl_refs = {} /\ to_cancel = {}
  BY DEF DestroyImpl, ServingInv, LifetimeInv
<1>2. /\ UNCHANGED <<impl_refs, to_cancel, entered, client_pc>>
      /\ thread_pc' = thread_pc
  BY DEF DestroyImpl, coordinatorVars, threadVars, clientVars
<1>3. /\ ExecutorInv'
      /\ \A q \in Requests : Quiet(q) => Quiet(q)'
      /\ executor_refs' = executor_refs \ {"impl"}
  BY DropExecutorFacts DEF DestroyImpl
<1>4. LifetimeInv' /\ AliveInv' /\ QuietInv'
  BY <1>1, <1>2, <1>3 DEF ServingInv, LifetimeInv, AliveInv, QuietInv
<1> QED
  BY <1>3, <1>4 DEF ServingInv

\* The client drops the executor, which the coordinator may still hold.
LEMMA ClientDropKeepsServing ==
  ASSUME ServingInv, ClientDropsExecutor
  PROVE  ServingInv'
<1>1. /\ UNCHANGED <<impl_refs, destroyer, to_cancel, entered>>
      /\ UNCHANGED coordinatorVars
      /\ client_pc' = "done"
  BY DEF ClientDropsExecutor
<1>2. thread_pc' = thread_pc
  BY <1>1 DEF coordinatorVars, threadVars
<1>3. /\ ExecutorInv'
      /\ \A q \in Requests : Quiet(q) => Quiet(q)'
      /\ executor_refs' = executor_refs \ {Client}
      /\ executor_refs # {Client} => UNCHANGED executorVars
  BY DropExecutorFacts DEF ClientDropsExecutor
<1>4. ImplGone' <=> ImplGone
  BY <1>3, ServingAssumption DEF ImplGone
<1>5. LifetimeInv' /\ QuietInv'
  BY <1>1, <1>2, <1>3, <1>4 DEF ServingInv, LifetimeInv, QuietInv
<1>6. AliveInv'
  <2> SUFFICES ASSUME impl_refs # {}
               PROVE  CoordinatorInv' /\ UnstartedInv'
    BY <1>1 DEF AliveInv
  <2>1. "impl" \in executor_refs
    BY ReferencesKeepAlive DEF ImplGone
  <2>2. UNCHANGED vars
    BY <1>1, <1>3, <2>1, ServingAssumption DEF vars, coordinatorVars
  <2> QED
    BY <2>2, ReferencesKeepAlive, StutterKeepsParts
<1> QED
  BY <1>3, <1>5, <1>6 DEF ServingInv

\* What the handlers leave of the other threads.
LEMMA OtherThreadsStay ==
  ASSUME TypeOK, NEW t \in Threads,
         ThreadStep(t) \/ \E r \in Requests : OnShardArrived(t, r)
  PROVE  \A u \in Threads : u # t => thread_pc'[u] = thread_pc[u]
<1>1. thread_pc \in [Threads -> ThreadPc]
  BY DEF TypeOK
<1>2. \/ thread_pc' = thread_pc
      \/ \E pc : thread_pc' = [thread_pc EXCEPT ![t] = pc]
  <2>1. CASE ThreadStep(t)
    BY <2>1 DEF ThreadStep, CancelRecovery, SubmitTask, RecheckCompletion, RecordRejection,
       ThreadReturns, ThreadAt
  <2>2. CASE \E r \in Requests : OnShardArrived(t, r)
    BY <2>2 DEF OnShardArrived, LateArrival, StagingFails, CompletesNaturally, KeepsWaiting,
       ClosesRecovery, DecidesToRecover, ThreadAt, threadVars
  <2> QED
    BY <2>1, <2>2
<1> QED
  BY <1>1, <1>2

LEMMA ClientActsKeepServing ==
  ASSUME ServingInv, ClientActs \/ WaitChecks
  PROVE  ServingInv'
<1>1. CASE ClientCalls
  <2>1. impl_refs # {}
    BY <1>1 DEF ClientCalls, ServingInv, LifetimeInv
  <2>2. Next /\ thread_pc' = thread_pc
    BY <1>1 DEF ClientCalls, ClientStep, Next, AttachTransport, StartRequest, StartTransfer,
       threadVars
  <2> QED
    BY <1>1, <2>1, <2>2, CoordinatorKeepsServing DEF ClientCalls, servingVars, clientVars
<1>2. CASE WaitTimesOut \/ WaitChecks \/ \E r \in Requests : WaitForCompletion(r)
  <2>1. /\ UNCHANGED <<lifetimeVars, entered, vars>>
        /\ client_pc \in {"calls", "check", "asleep"}
    BY <1>2 DEF WaitTimesOut, WaitChecks, WaitForCompletion
  <2> QED
    BY <2>1, ReferenceStepKeepsServing DEF lifetimeVars, ServingInv, LifetimeInv
<1>3. CASE DestroyCoordinator
  <2>1. Client \in impl_refs /\ Client \notin entered
    BY <1>3, ServingAssumption DEF DestroyCoordinator, ServingInv, LifetimeInv
  <2> QED
    BY <1>3, <2>1, DropKeepsServing, ServingAssumption DEF DestroyCoordinator
<1>4. CASE ClientDropsExecutor
  BY <1>4, ClientDropKeepsServing
<1> QED
  BY <1>1, <1>2, <1>3, <1>4 DEF ClientActs

LEMMA CallbackKeepsServing ==
  ASSUME ServingInv, NEW t \in Threads, EnterCallback(t) \/ InCallback(t)
  PROVE  ServingInv'
<1>1. CASE EnterCallback(t)
  BY <1>1, ReferenceStepKeepsServing
     DEF EnterCallback, LockImpl, clientVars, ServingInv, LifetimeInv
<1>2. CASE LeaveCallback(t)
  BY <1>2, DropKeepsServing, ServingAssumption
     DEF LeaveCallback, clientVars
<1>3. CASE Arrive(t) \/ AfterUnlock(t)
  <2>1. t \in impl_refs
    BY <1>3 DEF Arrive, AfterUnlock, ThreadStep, CancelRecovery, SubmitTask, RecheckCompletion,
       RecordRejection, ServingInv, LifetimeInv
  <2>2. TypeOK
    BY <2>1, ReferencesKeepAlive DEF CoordinatorInv
  <2>3. ThreadStep(t) \/ \E r \in Requests : OnShardArrived(t, r)
    BY <1>3 DEF Arrive, AfterUnlock
  <2>4. Next /\ \A u \in Threads : u # t => thread_pc'[u] = thread_pc[u]
    BY <2>2, <2>3, OtherThreadsStay DEF Next
  <2>5. /\ UNCHANGED lifetimeVars
        /\ entered' \subseteq entered
        /\ client_pc' \in {"calls", "check", "asleep"} =>
             client_pc \in {"calls", "check", "asleep"}
    BY <1>3 DEF Arrive, AfterUnlock, NotifyWaiter, servingVars, clientVars
  <2> QED
    BY <2>1, <2>4, <2>5, CoordinatorKeepsServing
<1> QED
  BY <1>1, <1>2, <1>3 DEF InCallback

LEMMA WorkerActsKeepServing ==
  ASSUME ServingInv, NEW w \in Workers, WorkerActs(w)
  PROVE  ServingInv'
<1>1. CASE WorkerWorks(w) \/ CompletionIgnored(w)
  <2>1. CASE impl_refs = {}
    BY <1>1, <2>1, OrphanKeepsServing DEF WorkerWorks, CompletionIgnored
  <2>2. CASE impl_refs # {}
    <3>1. ExecutorStep(w) /\ UNCHANGED servingVars /\ thread_pc' = thread_pc
      BY <1>1, <2>2 DEF WorkerWorks, CompletionIgnored, ExecutorStep, coordinatorVars, threadVars
    <3> QED
      BY <2>2, <3>1, CoordinatorKeepsServing DEF Next, servingVars, clientVars
  <2> QED
    BY <2>1, <2>2
<1>2. CASE EnterCompletion(w)
  BY <1>2, ReferenceStepKeepsServing
     DEF EnterCompletion, LockImpl, clientVars, ServingInv, LifetimeInv
<1>3. CASE Completion(w)
  <2>1. /\ w \in impl_refs /\ Next /\ thread_pc' = thread_pc
        /\ UNCHANGED <<lifetimeVars, entered>>
        /\ client_pc' \in {"calls", "check", "asleep"} =>
             client_pc \in {"calls", "check", "asleep"}
    BY <1>3 DEF Completion, Next, ExecutorStep, OnRecoveryComplete, NotifyWaiter, threadVars
  <2> QED
    BY <2>1, CoordinatorKeepsServing
<1>4. CASE LeaveCompletion(w)
  <2>1. w \notin Threads /\ w \notin {Client, NoActor} /\ w \notin entered
    BY ServingAssumption DEF ServingInv, LifetimeInv
  <2> QED
    BY <1>4, <2>1, DropKeepsServing DEF LeaveCompletion, clientVars
<1> QED
  BY <1>1, <1>2, <1>3, <1>4 DEF WorkerActs

LEMMA ServingStepKeepsInv ==
  ASSUME ServingInv, [ServingNext]_allVars
  PROVE  ServingInv'
<1>1. CASE UNCHANGED allVars
  BY <1>1, ReferenceStepKeepsServing
     DEF allVars, servingVars, lifetimeVars, clientVars, ServingInv, LifetimeInv
<1>2. CASE JoinReturns
  BY <1>2, ReferenceStepKeepsServing DEF JoinReturns, clientVars, ServingInv, LifetimeInv
<1> QED
  BY <1>1, <1>2, ClientActsKeepServing, CallbackKeepsServing, WorkerActsKeepServing,
     DestroyCancelKeepsServing, DestroyImplKeepsServing DEF ServingNext, Destruction

-----------------------------------------------------------------------------
(***************************************************************************)
(* The results.                                                            *)
(***************************************************************************)

\* The lifetimes, the executor's tables and, while it is referenced, the
\* coordinator's tables agree, whoever drops which reference when
\* (coordinator.cpp:47-66, 179-186).
THEOREM ServingInvariance == ServingSpec => []ServingInv
<1>1. ServingInv /\ [ServingNext]_allVars => ServingInv'
  BY ServingStepKeepsInv
<1> QED
  BY <1>1, ServingInvInitially, PTL DEF ServingSpec

\* ~Impl leaves no context, no queued task and no unmarked running task in the
\* executor, whichever thread dropped the last reference (coordinator.cpp:47-52).
THEOREM DestructionReleases == ServingSpec => []DestructionReleasesExecutor
<1>1. ServingInv => DestructionReleasesExecutor
  <2> SUFFICES ASSUME ServingInv, ImplGone
               PROVE  /\ \A r \in Requests : ~staged_contexts[r].open
                      /\ queue = <<>>
                      /\ \A w \in Workers :
                           worker_pc[w] \in {"run", "check"} =>
                              worker_task[w].request \in cancelled_requests
    BY DEF DestructionReleasesExecutor
  <2>1. \A r \in Requests : Quiet(r)
    BY DEF ServingInv, LifetimeInv, QuietInv
  <2>2. ExecutorInv /\ ExecutorTypeOK /\ queue \in Seq(Task)
    BY DEF ServingInv, ExecutorInv, ExecutorTypeOK
  <2>3. \A i \in DOMAIN queue : FALSE
    BY <2>1, <2>2, QueueFacts DEF Quiet, HasQueuedRequest
  <2>4. queue = <<>>
    <3>1. Len(queue) \in Nat /\ DOMAIN queue = 1 .. Len(queue)
      BY <2>2, QueueFacts
    <3>2. Len(queue) = 0
      BY <2>3, <3>1
    <3> QED
      BY <2>2, <3>2, EmptySeq
  <2>5. \A w \in Workers : worker_pc[w] \in {"run", "check"} =>
          worker_task[w].request \in Requests
    BY <2>2, HeldTaskType DEF HoldsTask, Task
  <2> QED
    BY <2>1, <2>4, <2>5 DEF Quiet
<1> QED
  BY <1>1, ServingInvariance, PTL

\* From the start of ~Impl on no callback changes the request table: every
\* handler has locked its weak reference, or finds it expired
\* (coordinator.cpp:60-66, 179-186).
THEOREM DestroyedIsUnused == ServingSpec => NoUseAfterDestruction
<1>1. ServingInv /\ [ServingNext]_allVars
        => [destroyer # NoActor \/ ImplGone => UNCHANGED requestVars]_allVars
  <2> SUFFICES ASSUME ServingInv, ServingNext, destroyer # NoActor \/ ImplGone
               PROVE  UNCHANGED requestVars
    OBVIOUS
  <2>1. impl_refs = {}
    BY DEF ServingInv, LifetimeInv
  <2>2. CASE ClientActs \/ WaitChecks
    BY <2>1, <2>2 DEF ClientActs, WaitChecks, ClientCalls, WaitForCompletion, WaitTimesOut,
       DestroyCoordinator, ClientDropsExecutor, ServingInv, LifetimeInv, vars, coordinatorVars
  <2>3. ASSUME NEW t \in Threads, EnterCallback(t) \/ InCallback(t)
        PROVE  UNCHANGED requestVars
    BY <2>1, <2>3 DEF InCallback, EnterCallback, LockImpl, LeaveCallback, Arrive, AfterUnlock,
       ThreadStep, CancelRecovery, SubmitTask, RecheckCompletion, RecordRejection, ServingInv,
       LifetimeInv
  <2>4. ASSUME NEW w \in Workers, WorkerActs(w)
        PROVE  UNCHANGED requestVars
    BY <2>1, <2>4 DEF WorkerActs, WorkerWorks, EnterCompletion, LockImpl, Completion,
       CompletionIgnored, LeaveCompletion, coordinatorVars
  <2>5. CASE Destruction
    BY <2>5 DEF Destruction, DestroyCancel, DestroyImpl, JoinReturns, vars, coordinatorVars
  <2> QED
    BY <2>2, <2>3, <2>4, <2>5 DEF ServingNext
<1> QED
  BY <1>1, ServingInvariance, PTL DEF ServingSpec, NoUseAfterDestruction
=============================================================================

---------------------------- MODULE ServingClient ----------------------------
(***************************************************************************)
(* The lifetimes of RecoveryCoordinator and CudaRecoveryExecutor, and the  *)
(* blocking call WaitForCompletion, composed with the coordinator and the  *)
(* executor: a client thread starts requests, waits for them, destroys the *)
(* coordinator and drops its executor reference, as                        *)
(* tests/integration/test_cuda_recovery_coordinator.cpp does, while        *)
(* transport threads and workers are calling back.                         *)
(*                                                                         *)
(* RecoveryCoordinator::Impl is reference counted.  The callbacks keep a   *)
(* weak reference and lock it for the duration of a call; impl_refs is the *)
(* set of the actors that hold a strong one.  Whoever drops the last one   *)
(* runs ~Impl, which cancels every request and then drops the executor;    *)
(* whoever drops the last reference to the executor runs its destructor,   *)
(* which joins the workers.                                                *)
(***************************************************************************)
EXTENDS Coordinator

CONSTANTS
    Client,         \* the client's thread
    NoActor,
    WaitsFirst      \* TRUE iff the client destroys the coordinator only when
                    \* its requests have completed and its transport is quiet

ASSUME ServingAssumption ==
    /\ Client \notin Threads \cup Workers
    /\ NoActor \notin Threads \cup Workers \cup {Client}
    /\ Client # "impl"
    /\ Threads \cap Workers = {}
    /\ WaitsFirst \in BOOLEAN

VARIABLES
    impl_refs,      \* the actors with a strong reference to Impl
    entered,        \* threads that hold one and wait for the mutex in OnShardArrived
    destroyer,      \* the actor that runs ~Impl
    to_cancel,      \* the requests ~Impl still has to cancel
    executor_refs,  \* who holds the executor: the client, and "impl"
    joiner,         \* the actor that runs the executor's destructor
    client_pc,      \* "calls", "check" and "asleep" in WaitForCompletion,
                    \* "left" after ~RecoveryCoordinator, "done"
    waits_for       \* the argument of WaitForCompletion

lifetimeVars == <<impl_refs, destroyer, to_cancel, executor_refs, joiner>>
clientVars == <<client_pc, waits_for>>
servingVars == <<lifetimeVars, entered, clientVars>>
coordinatorVars == <<requestVars, transportVars, threadVars>>
allVars == <<servingVars, vars>>

Started == {r \in Requests : status[r] # "none"}
ImplGone == "impl" \notin executor_refs
InDestructor(a) == a \in {destroyer, joiner}

ServingInit ==
    /\ Init
    /\ impl_refs = {Client}
    /\ entered = {}
    /\ destroyer = NoActor
    /\ to_cancel = {}
    /\ executor_refs = {Client, "impl"}
    /\ joiner = NoActor
    /\ client_pc = "calls"
    /\ waits_for = NoRequest

-----------------------------------------------------------------------------
(***************************************************************************)
(* References and destructors.                                             *)
(***************************************************************************)

LockImpl(a) ==
    /\ impl_refs # {}
    /\ impl_refs' = impl_refs \cup {a}
    /\ UNCHANGED <<destroyer, to_cancel, executor_refs, joiner>>

DropImpl(a) ==
    /\ impl_refs' = impl_refs \ {a}
    /\ IF impl_refs = {a}
         THEN destroyer' = a /\ to_cancel' = Started
         ELSE UNCHANGED <<destroyer, to_cancel>>
    /\ UNCHANGED <<executor_refs, joiner>>

\* Actor a drops the executor reference of `holder'; the last one stops it.
DropExecutor(a, holder) ==
    /\ executor_refs' = executor_refs \ {holder}
    /\ IF executor_refs = {holder}
         THEN joiner' = a /\ Stop
         ELSE UNCHANGED <<joiner, executorVars>>

\* One round of the loop in ~Impl.
DestroyCancel ==
    /\ destroyer # NoActor
    /\ \E r \in to_cancel : Cancel(r) /\ to_cancel' = to_cancel \ {r}
    /\ UNCHANGED <<impl_refs, destroyer, executor_refs, joiner, entered, clientVars,
                   coordinatorVars>>

\* A mutant of DestroyImpl: the requests are not cancelled.
DestroyImplAtOnce ==
    /\ destroyer # NoActor
    /\ DropExecutor(destroyer, "impl")
    /\ destroyer' = NoActor
    /\ to_cancel' = {}
    /\ UNCHANGED <<impl_refs, entered, clientVars, coordinatorVars>>

\* The members of Impl are destroyed, the executor reference among them.
DestroyImpl ==
    /\ destroyer # NoActor
    /\ to_cancel = {}
    /\ DropExecutor(destroyer, "impl")
    /\ destroyer' = NoActor
    /\ UNCHANGED <<impl_refs, to_cancel, entered, clientVars, coordinatorVars>>

\* The joins return; a thread that joins itself is terminated instead.
JoinReturns ==
    /\ joiner \notin Workers \cup {NoActor}
    /\ \A w \in Workers : worker_pc[w] = "exited"
    /\ joiner' = NoActor
    /\ UNCHANGED <<impl_refs, destroyer, to_cancel, executor_refs, entered, clientVars,
                   vars>>

-----------------------------------------------------------------------------
(***************************************************************************)
(* The client.                                                             *)
(***************************************************************************)
ClientCalls ==
    /\ client_pc = "calls"
    /\ ClientStep
    /\ UNCHANGED servingVars

WaitForCompletion(r) ==
    /\ client_pc = "calls"
    /\ r \in Started
    /\ client_pc' = "check"
    /\ waits_for' = r
    /\ UNCHANGED <<lifetimeVars, entered, vars>>

\* wait_for evaluates its predicate under the mutex, and returns or sleeps.
WaitChecks ==
    /\ client_pc = "check"
    /\ IF Terminal(waits_for)
         THEN client_pc' = "calls" /\ waits_for' = NoRequest
         ELSE client_pc' = "asleep" /\ UNCHANGED waits_for
    /\ UNCHANGED <<lifetimeVars, entered, vars>>

WaitTimesOut ==
    /\ client_pc = "asleep"
    /\ client_pc' = "calls"
    /\ waits_for' = NoRequest
    /\ UNCHANGED <<lifetimeVars, entered, vars>>

\* A mutant of NotifyWaiter: only a recovery notifies.
NotifyWaiterOfRecovery ==
    client_pc' = IF client_pc = "asleep" /\ \E r \in Requests : status'[r] = "Recovered"
                   THEN "check" ELSE client_pc

\* condition.notify_all(), which follows every change of a status.
NotifyWaiter ==
    client_pc' = IF client_pc = "asleep" /\ status' # status THEN "check" ELSE client_pc

\* ~RecoveryCoordinator, when no call is in progress.
DestroyCoordinator ==
    /\ client_pc = "calls"
    /\ Started \subseteq transferring
    /\ WaitsFirst => impl_refs \cap Threads = {} /\ \A r \in Started : Terminal(r)
    /\ client_pc' = "left"
    /\ DropImpl(Client)
    /\ UNCHANGED <<waits_for, entered, vars>>

\* The client's own reference goes when ~RecoveryCoordinator has returned, also
\* if a callback still keeps Impl, and with it the executor, alive.
ClientDropsExecutor ==
    /\ client_pc = "left"
    /\ ~InDestructor(Client)
    /\ client_pc' = "done"
    /\ DropExecutor(Client, Client)
    /\ UNCHANGED <<impl_refs, destroyer, to_cancel, waits_for, entered, coordinatorVars>>

-----------------------------------------------------------------------------
(***************************************************************************)
(* The callbacks.                                                          *)
(***************************************************************************)

\* A mutant of EnterCallback: the handler captures a plain pointer.
EnterCallbackUncounted(t) ==
    /\ t \notin impl_refs \cup entered /\ ~InDestructor(t)
    /\ \E r \in Requests : Callback(t, r)
    /\ impl_refs # {}
    /\ entered' = entered \cup {t}
    /\ UNCHANGED <<lifetimeVars, clientVars, vars>>

\* The transport calls the arrival handler, which locks its weak reference.
EnterCallback(t) ==
    /\ t \notin impl_refs /\ ~InDestructor(t)
    /\ \E r \in Requests : Callback(t, r)
    /\ LockImpl(t)
    /\ entered' = entered \cup {t}
    /\ UNCHANGED <<clientVars, vars>>

Arrive(t) ==
    /\ t \in entered
    /\ \E r \in Requests : OnShardArrived(t, r)
    /\ entered' = entered \ {t}
    /\ NotifyWaiter
    /\ UNCHANGED <<lifetimeVars, waits_for>>

AfterUnlock(t) ==
    /\ ThreadStep(t)
    /\ UNCHANGED servingVars

\* The handler returns, or throws, and the strong reference goes.
LeaveCallback(t) ==
    /\ t \in impl_refs
    /\ thread_pc[t] = "idle"
    /\ DropImpl(t)
    /\ entered' = entered \ {t}
    /\ UNCHANGED <<clientVars, vars>>

\* The completion handler locks its weak reference ...
EnterCompletion(w) ==
    /\ worker_pc[w] = "deliver"
    /\ w \notin impl_refs
    /\ LockImpl(w)
    /\ UNCHANGED <<entered, clientVars, vars>>

Completion(w) ==
    /\ w \in impl_refs
    /\ OnRecoveryComplete(w)
    /\ NotifyWaiter
    /\ UNCHANGED <<lifetimeVars, waits_for, entered>>

\* ... and does nothing if the coordinator is gone.
CompletionIgnored(w) ==
    /\ impl_refs = {}
    /\ WorkerDeliver(w)
    /\ UNCHANGED <<servingVars, coordinatorVars>>

LeaveCompletion(w) ==
    /\ w \in impl_refs
    /\ worker_pc[w] = "finish"
    /\ DropImpl(w)
    /\ UNCHANGED <<entered, clientVars, vars>>

WorkerWorks(w) ==
    /\ w \notin impl_refs /\ ~InDestructor(w)
    /\ WorkerStep(w)
    /\ UNCHANGED <<servingVars, coordinatorVars>>

-----------------------------------------------------------------------------
Destruction == DestroyCancel \/ DestroyImpl \/ JoinReturns

ClientActs ==
    \/ ClientCalls
    \/ \E r \in Requests : WaitForCompletion(r)
    \/ WaitTimesOut
    \/ DestroyCoordinator
    \/ ClientDropsExecutor

InCallback(t) == Arrive(t) \/ AfterUnlock(t) \/ LeaveCallback(t)

WorkerActs(w) ==
    \/ WorkerWorks(w)
    \/ EnterCompletion(w) \/ Completion(w) \/ CompletionIgnored(w) \/ LeaveCompletion(w)

ServingNext ==
    \/ ClientActs
    \/ WaitChecks
    \/ \E t \in Threads : EnterCallback(t) \/ InCallback(t)
    \/ \E w \in Workers : WorkerActs(w)
    \/ Destruction

ServingSpec == ServingInit /\ [][ServingNext]_allVars

\* Threads are scheduled.  The client owes no call, a timeout may be long, and
\* no shard has to arrive.
FairServingSpec ==
    /\ ServingSpec
    /\ WF_allVars(WaitChecks)
    /\ \A t \in Threads : WF_allVars(InCallback(t))
    /\ \A w \in Workers : WF_allVars(WorkerActs(w))
    /\ WF_allVars(Destruction)

-----------------------------------------------------------------------------
(***************************************************************************)
(* Nobody touches a coordinator that is being destroyed: from the moment   *)
(* ~Impl begins no callback changes the request table, although transport  *)
(* and executor keep their handlers (coordinator.cpp:60-66, 179-186).      *)
(***************************************************************************)
NoUseAfterDestruction ==
    [][destroyer # NoActor \/ ImplGone => UNCHANGED requestVars]_allVars

(***************************************************************************)
(* A destroyed coordinator leaves no work behind in an executor that       *)
(* outlives it: no staged context, no queued task, and no running task     *)
(* whose result is still to be delivered, also if the last reference was   *)
(* dropped by a callback that has just submitted a recovery                *)
(* (coordinator.cpp:47-52).                                                *)
(***************************************************************************)
DestructionReleasesExecutor ==
    ImplGone =>
        /\ \A r \in Requests : ~staged_contexts[r].open
        /\ queue = <<>>
        /\ \A w \in Workers :
             worker_pc[w] \in {"run", "check"} =>
                worker_task[w].request \in cancelled_requests

(***************************************************************************)
(* The executor's destructor, which joins the workers, never runs on one   *)
(* of them: std::thread::join on the calling thread throws, and a          *)
(* destructor that throws terminates the program                           *)
(* (cuda_recovery_executor.cpp:61-70).                                     *)
(***************************************************************************)
NoSelfJoin == joiner \notin Workers

InWait(r) == client_pc \in {"check", "asleep"} /\ waits_for = r

(***************************************************************************)
(* No wake-up is lost on the way from an arrival or a worker to the        *)
(* condition variable: a client that waits for a request that is complete, *)
(* or whose recovery was submitted, gets its answer without a timeout and  *)
(* without further shards, unless the executor turns the recovery down     *)
(* (coordinator.cpp:135, 162, 181, 229, 258).                              *)
(***************************************************************************)
WaitReturns ==
    \A r \in Requests :
        (InWait(r) /\ (Terminal(r) \/ recovery_submitted[r]))
          ~> (~InWait(r) \/ (recovery_rejected[r] /\ ~Terminal(r)))

(***************************************************************************)
(* Destroying the coordinator and dropping the executor ends every worker, *)
(* whatever was queued or running and whichever thread drops the last      *)
(* reference (coordinator.cpp:47-52, cuda_recovery_executor.cpp:61-70).    *)
(* The one other outcome is a worker that has come to run the destructor   *)
(* itself, which terminates the program.                                   *)
(***************************************************************************)
TeardownCompletes ==
    client_pc = "done" ~> (joiner \in Workers \/ \A w \in Workers : worker_pc[w] = "exited")
=============================================================================

--------------------------- MODULE ExecutorClients ---------------------------
(***************************************************************************)
(* The executor on its own, called in any order the RecoveryExecutor       *)
(* interface allows: any request may be staged, submitted, cancelled and   *)
(* submitted again until the destructor runs.                              *)
(***************************************************************************)
EXTENDS CudaRecoveryExecutor

CONSTANTS
    SlotCounts,     \* shard-slot counts callers pass
    Submissions     \* what they submit: [outputs, shards]

ASSUME ClientAssumption ==
    /\ SlotCounts \subseteq Nat
    /\ Submissions \subseteq [outputs : SUBSET ShardIds, shards : SUBSET ShardIds]

ClientCall ==
    /\ ~stopping
    /\ \E r \in Requests :
         \/ \E n \in SlotCounts, s \in ShardIds : StageShard(r, n, s)
         \/ \E n \in SlotCounts, s \in ShardIds : StageShardThrows(r, n, s)
         \/ \E n \in SlotCounts, sub \in Submissions :
              SubmitAccepted(r, n, sub.outputs, sub.shards)
         \/ \E n \in SlotCounts : SubmitThrows(r, n)
         \/ SubmitRejected(r)
         \/ Cancel(r)

ExecutorNext ==
    \/ ClientCall
    \/ Stop
    \/ \E w \in Workers : WorkerStep(w) \/ WorkerDeliver(w)

ExecutorSpec == ExecutorInit /\ [][ExecutorNext]_executorVars

\* The operating system schedules every worker thread; callers owe nothing.
FairExecutorSpec ==
    /\ ExecutorSpec
    /\ \A w \in Workers : WF_executorVars(WorkerStep(w) \/ WorkerDeliver(w))
=============================================================================

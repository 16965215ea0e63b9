---------------------------- MODULE CodedRecovery ----------------------------
(***************************************************************************)
(* Planner and decoder composed: the shards of an encoded request that     *)
(* have arrived are planned for and the plan is executed on them.  This is *)
(* the path of a recovery from the arrival tracker to the rebuilt shards.  *)
(* The decoder is the CPU reference; run_staged_decode_plan_cuda makes the *)
(* same checks in the same order and applies the same XOR operations.      *)
(***************************************************************************)
EXTENDS Planner, Codec

CONSTANT Words      \* the word count all shards of the request share

ASSUME WordsAssumption == Words \in Nat \ {0}

vars == <<plannerVars, codecVars>>

Init ==
    /\ PlannerInit
    /\ decode_plan = [operations |-> <<>>, dependencies |-> <<>>,
                      is_recoverable |-> TRUE]
    /\ slots = <<>>
    /\ next_op = 1
    /\ codec_pc = "idle"

Plan == PlannerNext /\ UNCHANGED codecVars

\* The shards the transport has delivered.
Arrived == (Systematic(graph) \ input.missing) \cup input.available

ArrivedSlots ==
    [s \in Shards(graph) |->
        IF s \in Arrived THEN Shard(Words, Encoded(graph, s)) ELSE NoShard]

\* The finished plan and a copy of the arrived shards go to the decoder.
Submit ==
    /\ planner_pc \in {"recoverable", "unrecoverable"}
    /\ codec_pc = "idle"
    /\ decode_plan' = [operations |-> operations, dependencies |-> dependencies,
                       is_recoverable |-> planner_pc = "recoverable"]
    /\ slots' = ArrivedSlots
    /\ codec_pc' = "start"
    /\ UNCHANGED <<plannerVars, next_op>>

Decode == CodecNext /\ UNCHANGED plannerVars

Next == Plan \/ Submit \/ Decode

Spec == Init /\ [][Next]_vars

\* Planning and decoding run on live threads.
FairSpec == Spec /\ WF_vars(Next)

-----------------------------------------------------------------------------
(***************************************************************************)
(* "Reconstruct the exact missing bytes" (README.md): when the decoder     *)
(* returns, every systematic shard, arrived or rebuilt, holds exactly the  *)
(* words it was encoded from, for every graph, every pattern of missing    *)
(* shards and every set of arrived parity shards.                          *)
(***************************************************************************)
BitExactRecovery ==
    codec_pc = "done" =>
        \A s \in Systematic(graph) : slots[s] = Shard(Words, {s})

(***************************************************************************)
(* The decoder accepts whatever the planner calls recoverable: none of its *)
(* checks throws on it (codec.cpp:24-102), so a request is never failed by *)
(* a plan that its own planner made.                                       *)
(***************************************************************************)
RecoverablePlansExecute ==
    planner_pc = "recoverable" => codec_pc # "throw"

\* A recovery attempt ends, since each of the planner's passes but the last one
\* releases a shard (the while loop at planner.cpp:90): with the shards rebuilt when the missing set can
\* be peeled, with an exception when it cannot or the input is malformed.
RecoveryEnds ==
    <>(\/ codec_pc = "done" /\ Peelable(graph, input.missing, input.available)
       \/ codec_pc = "throw" /\ ~Peelable(graph, input.missing, input.available)
       \/ planner_pc = "throw")
=============================================================================

-------------------------------- MODULE Codec --------------------------------
(***************************************************************************)
(* execute_decode_plan_cpu (src/coding/codec.cpp): the CPU reference       *)
(* decoder.  It checks the shape of the plan, then runs the operations in  *)
(* order on the caller's shard slots, one per step.  A check that fails    *)
(* throws; the outputs of the operations before it stay in the slots,      *)
(* which are passed by reference.                                          *)
(*                                                                         *)
(* A slot is a std::optional<WordShard>: NoShard, or the number of words   *)
(* of the shard and its payload (module ErasureCode).                      *)
(***************************************************************************)
EXTENDS ErasureCode

VARIABLES
    decode_plan,    \* [operations, dependencies, is_recoverable]
    slots,          \* slots[s] for s \in 0 .. shard count - 1
    next_op,        \* the operation the loop runs next
    codec_pc

codecVars == <<decode_plan, slots, next_op, codec_pc>>

NoShard == [has_value |-> FALSE, words |-> 0, payload |-> {}]
Shard(words, payload) == [has_value |-> TRUE, words |-> words, payload |-> payload]
Slot == [has_value : BOOLEAN, words : Nat, payload : SUBSET Nat]
DecodePlan == [operations : Seq([output : Nat, sources : Seq(Nat)]),
               dependencies : Seq(SUBSET Nat), is_recoverable : BOOLEAN]

Present(s) == s \in DOMAIN slots /\ slots[s].has_value

ValidatePlanShape(plan) ==
    /\ plan.is_recoverable
    /\ Len(plan.dependencies) = Len(plan.operations)
    /\ \A i \in DOMAIN plan.dependencies : \A d \in plan.dependencies[i] : d < i

\* The call execute_decode_plan_cpu(plan, shards).
CodecInit(plan, shards) ==
    /\ decode_plan = plan
    /\ slots = shards
    /\ next_op = 1
    /\ codec_pc = "start"

StartDecode ==
    /\ codec_pc = "start"
    /\ codec_pc' = IF ValidatePlanShape(decode_plan) THEN "run" ELSE "throw"
    /\ next_op' = 1
    /\ UNCHANGED <<decode_plan, slots>>

\* A mutant of CanExecute: an output that is already present is overwritten.
CanExecuteOverwriting(op) ==
    /\ op.output \in DOMAIN slots
    /\ op.sources # <<>>
    /\ \A n \in DOMAIN op.sources : Present(op.sources[n])
    /\ slots[op.sources[1]].words # 0
    /\ \A n \in DOMAIN op.sources :
         slots[op.sources[n]].words = slots[op.sources[1]].words

\* A mutant of CanExecute: an operation needs two sources.
CanExecuteTwoSources(op) ==
    /\ op.output \in DOMAIN slots
    /\ Len(op.sources) > 1
    /\ ~slots[op.output].has_value
    /\ \A n \in DOMAIN op.sources : Present(op.sources[n])
    /\ slots[op.sources[1]].words # 0
    /\ \A n \in DOMAIN op.sources :
         slots[op.sources[n]].words = slots[op.sources[1]].words

\* None of the checks of the loop body throws.
CanExecute(op) ==
    /\ op.output \in DOMAIN slots
    /\ op.sources # <<>>
    /\ ~slots[op.output].has_value
    /\ \A n \in DOMAIN op.sources : Present(op.sources[n])
    /\ slots[op.sources[1]].words # 0
    /\ \A n \in DOMAIN op.sources :
         slots[op.sources[n]].words = slots[op.sources[1]].words

\* A mutant of Decoded: the first source is not XORed in.
DecodedWithoutFirst(op) ==
    Shard(slots[op.sources[1]].words,
          XorAll([n \in 2 .. Len(op.sources) |-> slots[op.sources[n]].payload]))

\* The shard the operation computes.
Decoded(op) ==
    Shard(slots[op.sources[1]].words,
          XorAll([n \in DOMAIN op.sources |-> slots[op.sources[n]].payload]))

ExecuteOperation ==
    /\ codec_pc = "run"
    /\ next_op <= Len(decode_plan.operations)
    /\ LET op == decode_plan.operations[next_op]
       IN \/ /\ CanExecute(op)
             /\ slots' = [slots EXCEPT ![op.output] = Decoded(op)]
             /\ next_op' = next_op + 1
             /\ UNCHANGED codec_pc
          \/ /\ ~CanExecute(op)
             /\ codec_pc' = "throw"
             /\ UNCHANGED <<slots, next_op>>
    /\ UNCHANGED decode_plan

ReturnDecoded ==
    /\ codec_pc = "run"
    /\ next_op > Len(decode_plan.operations)
    /\ codec_pc' = "done"
    /\ UNCHANGED <<decode_plan, slots, next_op>>

CodecNext == StartDecode \/ ExecuteOperation \/ ReturnDecoded

-----------------------------------------------------------------------------
(***************************************************************************)
(* Whatever plan the decoder is given, and even when it throws half way,   *)
(* every operation it has run left an output that still is the XOR of its  *)
(* sources: no later operation writes a shard an earlier one read or wrote *)
(* (the checks at codec.cpp:84 and codec.cpp:99).                          *)
(***************************************************************************)
ExecutedEquationsHold ==
    \A i \in 1 .. next_op - 1 :
        LET op == decode_plan.operations[i] IN slots[op.output] = Decoded(op)
=============================================================================

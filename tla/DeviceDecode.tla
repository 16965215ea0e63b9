----------------------------- MODULE DeviceDecode ----------------------------
(***************************************************************************)
(* The three ways to decode on the device (kernels/sparse_decoder.cu),     *)
(* next to the CPU reference decoder of module Codec, which has run on a   *)
(* copy of the same slots before: the one-shot RunDecodePlanCuda; the      *)
(* prepared context, whose kernels are launched any number of times and    *)
(* whose results are downloaded later; and the staging context, to which   *)
(* shards are uploaded one by one before the plan is known.                *)
(*                                                                         *)
(* A context has a private stream: a FIFO queue of commands that the       *)
(* device executes in its own time, while the host goes on until a call    *)
(* synchronises.  A fresh device buffer holds an unknown payload, modelled *)
(* by a symbol of its own, so that nothing computed from it can be right   *)
(* by accident.                                                            *)
(***************************************************************************)
EXTENDS Codec

CONSTANTS
    Calls,          \* [plan, shards]: what the decoders are called with
    CudaFaults,     \* TRUE iff CUDA calls may fail
    MaxLaunches     \* bound on the launches of a prepared context

ASSUME DeviceAssumption ==
    /\ CudaFaults \in BOOLEAN
    /\ MaxLaunches \in Nat
    /\ \A call \in Calls :
         /\ call.plan \in DecodePlan
         /\ IsFiniteSet(DOMAIN call.shards)
         /\ DOMAIN call.shards = 0 .. Cardinality(DOMAIN call.shards) - 1
         /\ call.shards \in [DOMAIN call.shards -> Slot]
         /\ \A s \in DOMAIN call.shards :
              ~call.shards[s].has_value => call.shards[s] = NoShard

VARIABLES
    input,          \* the slots the caller has at the beginning
    shards,         \* the caller's slots
    context,        \* the DeviceDecodeContext or DeviceShardStagingContext
    stream,         \* the commands of its stream that have not been executed
    host_pc,        \* "idle", or the blocking call the host is in
    outputs,        \* the local of that call: what has been downloaded
    launches,       \* complete launches of the prepared context
    verdict,        \* history: what the validation said of the plan
    received        \* history: decoded shards have been handed over

deviceVars == <<input, shards, context, stream, host_pc, outputs, launches, verdict, received>>

Ops == decode_plan.operations
Slots == DOMAIN input

NoBuffer == [allocated |-> FALSE, payload |-> {}]
\* cudaMalloc: the content is whatever the memory held.
FreshBuffer(s) == [allocated |-> TRUE, payload |-> {-1 - s}]

\* `staged' and `finalized' are a staging context's; `returned' is a history of
\* the shards whose staging has returned.
NoDecodeContext ==
    [kind |-> "none", words |-> [s \in Slots |-> 0], device |-> [s \in Slots |-> NoBuffer],
     sources |-> <<>>, offsets |-> <<>>, staged |-> [s \in Slots |-> NoShard],
     returned |-> {}, finalized |-> FALSE]

\* The caller decodes on the device after the CPU decoder has ended.
DeviceInit ==
    /\ \E call \in Calls : CodecInit(call.plan, call.shards) /\ input = call.shards
    /\ shards = input
    /\ context = NoDecodeContext
    /\ stream = <<>>
    /\ host_pc = "idle"
    /\ outputs = <<>>
    /\ launches = 0
    /\ verdict = "none"
    /\ received = FALSE

Idle == host_pc = "idle" /\ codec_pc \in {"done", "throw"}

-----------------------------------------------------------------------------
(***************************************************************************)
(* The validation of a plan, the same loop in all three.  words[s] is the  *)
(* number of words of shard s, 0 if it is not available yet.               *)
(***************************************************************************)

\* A mutant of OperationValid: only the first source's size counts.
OperationValidAnySize(op, words) ==
    /\ op.output \in DOMAIN words
    /\ op.sources # <<>>
    /\ words[op.output] = 0
    /\ \A n \in DOMAIN op.sources :
         op.sources[n] \in DOMAIN words /\ words[op.sources[n]] # 0

OperationValid(op, words) ==
    /\ op.output \in DOMAIN words
    /\ op.sources # <<>>
    /\ words[op.output] = 0
    /\ \A n \in DOMAIN op.sources :
         /\ op.sources[n] \in DOMAIN words
         /\ words[op.sources[n]] # 0
         /\ words[op.sources[n]] = words[op.sources[1]]

\* A mutant of ScanOperation: all operations share the first offset.
ScanOperationAtZero(p, op) ==
    [p EXCEPT !.words[op.output] = p.words[op.sources[1]],
              !.offsets = Append(@, 0),
              !.sources = @ \o op.sources]

\* What a valid operation adds to the words, the flattened sources of all
\* operations, and the offset at which its own sources begin.
ScanOperation(p, op) ==
    [p EXCEPT !.words[op.output] = p.words[op.sources[1]],
              !.offsets = Append(@, Len(p.sources)),
              !.sources = @ \o op.sources]

ScanPlan(words) ==
    LET scan[i \in 0 .. Len(Ops)] ==
            IF i = 0
              THEN [valid |-> TRUE, words |-> words, sources |-> <<>>, offsets |-> <<>>]
              ELSE LET p == scan[i - 1]
                   IN IF p.valid /\ OperationValid(Ops[i], p.words)
                        THEN ScanOperation(p, Ops[i])
                        ELSE [p EXCEPT !.valid = FALSE]
    IN scan[Len(Ops)]

WordsOf(held) == [s \in Slots |-> held[s].words]
NoEmptyShard == \A s \in Slots : shards[s].has_value => shards[s].words # 0

\* The checks of RunDecodePlanCuda and prepare_decode_plan_cuda.
PlanAccepted ==
    /\ ValidatePlanShape(decode_plan)
    /\ NoEmptyShard
    /\ ScanPlan(WordsOf(shards)).valid

Required ==
    UNION {{Ops[i].output} \cup {Ops[i].sources[n] : n \in DOMAIN Ops[i].sources} :
           i \in DOMAIN Ops}

\* The shard operation i computes on buffers d.
KernelResult(d, c, i) ==
    XorAll([n \in DOMAIN Ops[i].sources |-> d[c.sources[c.offsets[i] + n]].payload])

Upload(s) == [kind |-> "upload", shard |-> s, op |-> 0]
Kernel(i) == [kind |-> "kernel", shard |-> 0, op |-> i]
Download(i) == [kind |-> "download", shard |-> 0, op |-> i]
Kernels == [i \in DOMAIN Ops |-> Kernel(i)]
Downloads == [i \in DOMAIN Ops |-> Download(i)]

\* The device executes the next command of the stream.
DeviceStep ==
    /\ stream # <<>>
    /\ stream' = Tail(stream)
    /\ LET command == Head(stream)
           out == Ops[command.op].output
       IN \/ /\ command.kind = "upload"
             /\ context' = [context EXCEPT !.device[command.shard].payload =
                                                 input[command.shard].payload]
             /\ UNCHANGED outputs
          \/ /\ command.kind = "kernel"
             /\ context' = [context EXCEPT !.device[out].payload =
                                 KernelResult(context.device, context, command.op)]
             /\ UNCHANGED outputs
          \/ /\ command.kind = "download"
             /\ outputs' = Append(outputs, context.device[out].payload)
             /\ UNCHANGED context
    /\ UNCHANGED <<input, shards, host_pc, launches, verdict, received, codecVars>>

\* The buffers once all kernels have run on them.
RunKernels(plan, buffers) ==
    LET run[i \in 0 .. Len(Ops)] ==
            IF i = 0
              THEN buffers
              ELSE [run[i - 1] EXCEPT ![Ops[i].output].payload =
                        KernelResult(run[i - 1], plan, i)]
    IN run[Len(Ops)]

\* The caller's slots once the first n outputs have been moved there.
WithOutputs(n, words, results) ==
    [s \in Slots |->
        IF \E i \in 1 .. n : Ops[i].output = s
          THEN LET i == CHOOSE j \in 1 .. n : Ops[j].output = s
               IN Shard(words[s], results[i])
          ELSE shards[s]]

-----------------------------------------------------------------------------
(***************************************************************************)
(* RunDecodePlanCuda.  It uses the default stream and waits for it, so it  *)
(* is one step; a failing CUDA call leaves the outputs moved before it.    *)
(***************************************************************************)
RunDecodePlan ==
    /\ Idle
    /\ context.kind = "none"
    /\ IF ~ValidatePlanShape(decode_plan) \/ (Ops # <<>> /\ ~PlanAccepted)
         THEN verdict' = "refused" /\ UNCHANGED <<shards, received>>
         ELSE LET plan == ScanPlan(WordsOf(shards))
                  buffers == [s \in Slots |-> IF shards[s].has_value
                                THEN [allocated |-> TRUE, payload |-> shards[s].payload]
                                ELSE FreshBuffer(s)]
                  computed == RunKernels(plan, buffers)
                  results == [i \in DOMAIN Ops |-> computed[Ops[i].output].payload]
              IN /\ verdict' = "accepted"
                 /\ \E n \in IF CudaFaults THEN 0 .. Len(Ops) ELSE {Len(Ops)} :
                      /\ shards' = WithOutputs(n, plan.words, results)
                      /\ received' = (n = Len(Ops))
    /\ host_pc' = "ended"
    /\ UNCHANGED <<input, context, stream, outputs, launches, codecVars>>

-----------------------------------------------------------------------------
(***************************************************************************)
(* The prepared context.                                                   *)
(***************************************************************************)
\* The required shards the caller has, in the order of their IDs.
ToUpload == {s \in Required : shards[s].has_value}
InUploadOrder(q) ==
    /\ ToUpload = {q[i] : i \in DOMAIN q}
    /\ \A i, j \in DOMAIN q : i < j => q[i] < q[j]

\* A failing CUDA call destroys the context that was being prepared.
Prepare ==
    /\ Idle
    /\ context.kind = "none"
    /\ \/ /\ ~PlanAccepted
          /\ verdict' = "refused"
          /\ host_pc' = "ended"
          /\ UNCHANGED <<context, stream>>
       \/ /\ PlanAccepted
          /\ verdict' = "accepted"
          /\ LET plan == ScanPlan(WordsOf(shards))
             IN context' = [NoDecodeContext EXCEPT
                              !.kind = "prepared", !.words = plan.words,
                              !.sources = plan.sources, !.offsets = plan.offsets,
                              !.device = [s \in Slots |-> IF s \in Required
                                            THEN FreshBuffer(s) ELSE NoBuffer]]
          /\ \E q \in [1 .. Cardinality(ToUpload) -> ToUpload] :
               InUploadOrder(q) /\ stream' = [i \in DOMAIN q |-> Upload(q[i])]
          /\ host_pc' = "synchronizing"
       \/ /\ CudaFaults
          /\ ValidatePlanShape(decode_plan)
          /\ host_pc' = "ended"
          /\ UNCHANGED <<context, stream, verdict>>
    /\ UNCHANGED <<input, shards, outputs, launches, received, codecVars>>

\* launch_decode_plan_cuda returns at once, the timed variant when the kernels
\* have run.
Launch(after) ==
    /\ Idle
    /\ context.kind = "prepared"
    /\ launches < MaxLaunches
    /\ stream' = stream \o Kernels
    /\ launches' = launches + 1
    /\ host_pc' = after
    /\ UNCHANGED <<input, shards, context, outputs, verdict, received, codecVars>>

\* Bound: failing launches are repeated until the stream is this long.
StreamBound == Len(stream) <= Len(Ops)

\* A launch fails after some of the kernels have been enqueued.
LaunchFails ==
    /\ Idle
    /\ context.kind = "prepared"
    /\ CudaFaults
    /\ StreamBound
    /\ \E n \in 0 .. Len(Ops) - 1 : stream' = stream \o SubSeq(Kernels, 1, n)
    /\ UNCHANGED <<input, shards, context, host_pc, outputs, launches, verdict, received,
                   codecVars>>

Synchronize ==
    /\ Idle
    /\ context.kind # "none"
    /\ host_pc' = "synchronizing"
    /\ UNCHANGED <<input, shards, context, stream, outputs, launches, verdict, received,
                   codecVars>>

\* cudaStreamSynchronize returns.
SynchronizeReturns ==
    /\ host_pc = "synchronizing"
    /\ stream = <<>>
    /\ host_pc' = "idle"
    /\ UNCHANGED <<input, shards, context, stream, outputs, launches, verdict, received,
                   codecVars>>

\* download_decode_results_cuda, called once the plan has been launched, as all
\* callers do.
DownloadResults ==
    /\ Idle
    /\ context.kind = "prepared"
    /\ launches > 0
    /\ stream' = stream \o Downloads
    /\ host_pc' = "downloading"
    /\ outputs' = <<>>
    /\ UNCHANGED <<input, shards, context, launches, verdict, received, codecVars>>

\* The download of a prepared context, or the decode of a staged one, returns.
ResultsArrive ==
    /\ host_pc = "downloading"
    /\ stream = <<>>
    /\ shards' = WithOutputs(Len(Ops), context.words, outputs)
    /\ context' = [context EXCEPT !.staged = [s \in Slots |-> NoShard]]
    /\ host_pc' = IF context.finalized THEN "ended" ELSE "idle"
    /\ received' = TRUE
    /\ UNCHANGED <<input, stream, outputs, launches, verdict, codecVars>>

\* The copies of the call, which are the last commands of the stream, are lost.
DropDownloads ==
    \E n \in 0 .. Len(stream) :
        /\ \A i \in DOMAIN stream : i <= n <=> stream[i].kind # "download"
        /\ stream' = SubSeq(stream, 1, n)

\* A mutant of ResultsFail: the outputs are moved before they have arrived.
ResultsFailMoved ==
    /\ CudaFaults
    /\ host_pc = "downloading"
    /\ shards' = WithOutputs(Len(Ops), context.words,
                             [i \in DOMAIN Ops |-> context.device[Ops[i].output].payload])
    /\ DropDownloads
    /\ host_pc' = IF context.finalized THEN "ended" ELSE "idle"
    /\ UNCHANGED <<input, context, outputs, launches, verdict, received, codecVars>>

\* A copy fails, or the synchronisation: nothing is moved to the caller.
ResultsFail ==
    /\ CudaFaults
    /\ host_pc = "downloading"
    /\ DropDownloads
    /\ host_pc' = IF context.finalized THEN "ended" ELSE "idle"
    /\ UNCHANGED <<input, shards, context, outputs, launches, verdict, received, codecVars>>

-----------------------------------------------------------------------------
(***************************************************************************)
(* The staging context.                                                    *)
(***************************************************************************)
CreateStagingContext ==
    /\ Idle
    /\ context.kind = "none"
    /\ Slots # {}
    /\ context' = [NoDecodeContext EXCEPT !.kind = "staging"]
    /\ UNCHANGED <<input, shards, stream, host_pc, outputs, launches, verdict, received,
                   codecVars>>

CanStage(s) ==
    /\ Idle
    /\ context.kind = "staging"
    /\ ~context.finalized
    /\ shards[s].has_value
    /\ shards[s].words # 0
    /\ ~context.device[s].allocated

StageShard(s) ==
    /\ CanStage(s)
    /\ context' = [context EXCEPT !.staged[s] = shards[s], !.words[s] = shards[s].words,
                                  !.device[s] = FreshBuffer(s), !.returned = @ \cup {s}]
    /\ stream' = Append(stream, Upload(s))
    /\ UNCHANGED <<input, shards, host_pc, outputs, launches, verdict, received, codecVars>>

\* A CUDA call fails when the host copy has been recorded already: without a
\* buffer, and the caller may stage the shard again; with a buffer that is not
\* filled; or when the upload has been issued.
StageShardFails(s) ==
    /\ CudaFaults
    /\ CanStage(s)
    /\ \E allocated, issued \in BOOLEAN :
         /\ issued => allocated
         /\ context' = [context EXCEPT !.staged[s] = shards[s], !.words[s] = shards[s].words,
                            !.device[s] = IF allocated THEN FreshBuffer(s) ELSE NoBuffer]
         /\ stream' = IF issued THEN Append(stream, Upload(s)) ELSE stream
    /\ UNCHANGED <<input, shards, host_pc, outputs, launches, verdict, received, codecVars>>

\* A call of run_staged_decode_plan_cuda.  The caller supplies only shards whose
\* staging has returned, or empty ones, which cannot be staged; the coordinator
\* keeps to this (Coordinator!DecodesOnlyUploaded).
MayRunStaged ==
    /\ Idle
    /\ context.kind = "staging"
    /\ ~context.finalized
    /\ \A s \in Slots : shards[s].has_value /\ shards[s].words # 0
                            => s \in context.returned

StagedPlanAccepted ==
    /\ ValidatePlanShape(decode_plan)
    /\ context.staged = shards
    /\ ScanPlan(context.words).valid

RunStagedRefused ==
    /\ MayRunStaged
    /\ ~StagedPlanAccepted
    /\ verdict' = "refused"
    /\ host_pc' = "ended"
    /\ UNCHANGED <<input, shards, context, stream, outputs, launches, received, codecVars>>

\* Buffers for the required shards below upto that have none.
WithRequiredBuffers(c, upto) ==
    [c EXCEPT !.device = [s \in Slots |->
                            IF s \in Required /\ s < upto /\ ~c.device[s].allocated
                              THEN FreshBuffer(s) ELSE c.device[s]]]

\* The allocation of a buffer, or behind the last one that of the table or the
\* source IDs or a copy to them, fails before the context is finalized: the
\* caller may try again.
RunStagedFails ==
    /\ CudaFaults
    /\ MayRunStaged
    /\ StagedPlanAccepted
    /\ verdict' = "accepted"
    /\ \E upto \in 0 .. Cardinality(Slots) : context' = WithRequiredBuffers(context, upto)
    /\ UNCHANGED <<input, shards, stream, host_pc, outputs, launches, received, codecVars>>

RunStaged ==
    /\ MayRunStaged
    /\ StagedPlanAccepted
    /\ verdict' = "accepted"
    /\ LET plan == ScanPlan(context.words)
       IN context' = [WithRequiredBuffers(context, Cardinality(Slots)) EXCEPT
                        !.words = plan.words, !.sources = plan.sources,
                        !.offsets = plan.offsets, !.finalized = TRUE]
    /\ stream' = stream \o Kernels \o Downloads
    /\ host_pc' = "downloading"
    /\ outputs' = <<>>
    /\ UNCHANGED <<input, shards, launches, received, codecVars>>

-----------------------------------------------------------------------------
HostStep ==
    \/ RunDecodePlan
    \/ Prepare \/ Launch("idle") \/ Launch("synchronizing") \/ LaunchFails
    \/ Synchronize \/ SynchronizeReturns
    \/ DownloadResults \/ ResultsArrive \/ ResultsFail
    \/ CreateStagingContext
    \/ \E s \in Slots : StageShard(s) \/ StageShardFails(s)
    \/ RunStagedRefused \/ RunStagedFails \/ RunStaged

DeviceNext ==
    \/ CodecNext /\ UNCHANGED deviceVars
    \/ HostStep
    \/ DeviceStep

DeviceSpec == DeviceInit /\ [][DeviceNext]_<<codecVars, deviceVars>>

-----------------------------------------------------------------------------
(***************************************************************************)
(* The three device decoders and the CPU decoder refuse the same plans on  *)
(* the same slots: the validation that runs ahead of the kernels foresees  *)
(* every check the CPU makes as it goes.  Only an empty shard in a slot    *)
(* the plan does not use makes them differ (sparse_decoder.cu:320-364,     *)
(* 581-626, 778-823 against codec.cpp:77-103).                             *)
(***************************************************************************)
RefusalsAgree ==
    /\ verdict = "accepted" => codec_pc = "done"
    /\ verdict = "refused" =>
         codec_pc = "throw" \/ \E s \in Slots : input[s].has_value /\ input[s].words = 0

(***************************************************************************)
(* Whenever a device decode hands over its results they are the CPU's, bit *)
(* for bit, however often the plan was launched, whatever failed and was   *)
(* repeated before, and however far the device lags behind the host        *)
(* (sparse_decoder.cu:403-463, 671-717, 869-967).                          *)
(***************************************************************************)
ResultsMatchCpu == received => shards = slots

(***************************************************************************)
(* Failures are clean: whatever a failing decode leaves in the caller's    *)
(* slots is what was there or what the CPU computes, and never the content *)
(* of a device buffer that no upload or kernel has filled                  *)
(* (sparse_decoder.cu:446-461, 684-716, 960-967).                          *)
(***************************************************************************)
HostShardsGenuine ==
    \A s \in Slots :
        \/ shards[s] = input[s]
        \/ codec_pc = "done" /\ shards[s] = slots[s]
=============================================================================

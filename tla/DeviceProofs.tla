---------------------------- MODULE DeviceProofs -----------------------------
(***************************************************************************)
(* The CPU decoder and the three device decoders for every plan, well      *)
(* formed or not, every number of slots and every shard, with and without  *)
(* failing CUDA calls, however often the plan is launched: they refuse the *)
(* same plans, hand over the same shards, and leave nothing in the         *)
(* caller's slots that no upload or kernel has computed.                   *)
(*                                                                         *)
(* What the recursive functions of the model compute is proved by the      *)
(* least number at which they would go wrong.                              *)
(***************************************************************************)
EXTENDS DeviceDecode, TLAPS, FiniteSetTheorems, SequenceTheorems, NaturalsInduction,
        WellFoundedInduction

(***************************************************************************)
(* The inductive invariant: the CPU decoder.                               *)
(***************************************************************************)

\* The shards that are present once i operations have run.
AvailableAt(i) == {s \in Slots : input[s].has_value} \cup {Ops[j].output : j \in 1 .. i}

CodecTypeInv ==
    /\ decode_plan \in DecodePlan
    /\ IsFiniteSet(Slots)
    /\ Slots = 0 .. Cardinality(Slots) - 1
    /\ input \in [Slots -> Slot]
    /\ \A s \in Slots : ~input[s].has_value => input[s] = NoShard
    /\ slots \in [Slots -> Slot]
    /\ next_op \in 1 .. Len(Ops) + 1
    /\ codec_pc \in {"start", "run", "done", "throw"}

\* Operation i has run, on shards that were there before, and nobody has written
\* its sources or its output since.
RanSoundly(i) ==
    LET op == Ops[i]
    IN /\ op.output \in Slots
       /\ ~input[op.output].has_value
       /\ \A j \in 1 .. i - 1 : Ops[j].output # op.output
       /\ op.sources # <<>>
       /\ slots[op.sources[1]].words # 0
       /\ \A n \in DOMAIN op.sources :
            /\ op.sources[n] \in AvailableAt(i - 1)
            /\ slots[op.sources[n]].words = slots[op.sources[1]].words
       /\ slots[op.output] = Decoded(op)

CodecInv ==
    /\ codec_pc = "start" => next_op = 1
    /\ codec_pc \in {"run", "done"} => ValidatePlanShape(decode_plan)
    /\ codec_pc = "done" => next_op = Len(Ops) + 1
    /\ codec_pc = "throw" =>
         ~ValidatePlanShape(decode_plan) \/ (next_op <= Len(Ops) /\ ~CanExecute(Ops[next_op]))
    /\ \A i \in 1 .. next_op - 1 : RanSoundly(i)
    /\ \A s \in Slots : (\A i \in 1 .. next_op - 1 : Ops[i].output # s) => slots[s] = input[s]

(***************************************************************************)
(* The inductive invariant: host and device.                               *)
(***************************************************************************)
Buffer == [allocated : BOOLEAN, payload : SUBSET Int]
Command == [kind : {"upload", "kernel", "download"}, shard : Nat, op : Nat]

DecodeContext ==
    [kind : {"none", "prepared", "staging"}, words : [Slots -> Nat], device : [Slots -> Buffer],
     sources : Seq(Nat), offsets : Seq(Nat), staged : [Slots -> Slot],
     returned : SUBSET Slots, finalized : BOOLEAN]

ContextTypeInv ==
    /\ context \in DecodeContext
    /\ stream \in Seq(Command)
    /\ outputs \in Seq(SUBSET Nat)
    /\ launches \in Nat
    /\ shards \in [Slots -> Slot]

\* A context that has a plan.
Decoding == context.kind = "prepared" \/ (context.kind = "staging" /\ context.finalized)

\* The device has the shard the CPU has.
Good(s) == context.device[s].payload = slots[s].payload

Writes(c, s) ==
    \/ c.kind = "upload" /\ c.shard = s
    \/ c.kind = "kernel" /\ Ops[c.op].output = s

\* The device will have the shard when it comes to command p.
Filled(p, s) == Good(s) \/ \E q \in 1 .. p - 1 : Writes(stream[q], s)

\* A command finds what it reads.
Founded(p) ==
    LET c == stream[p]
    IN \/ /\ c.kind = "upload"
          /\ c.shard \in Slots
          /\ input[c.shard].has_value
       \/ /\ c.kind = "kernel"
          /\ Decoding
          /\ c.op \in DOMAIN Ops
          /\ \A n \in DOMAIN Ops[c.op].sources : Filled(p, Ops[c.op].sources[n])
       \/ /\ c.kind = "download"
          /\ Decoding
          /\ c.op \in DOMAIN Ops
          /\ Filled(p, Ops[c.op].output)

StreamInv == \A p \in DOMAIN stream : Founded(p)

\* The flattened plan is the plan, and it has the CPU's word counts.
FlattenedRight(plan) ==
    \A i \in DOMAIN Ops :
        /\ plan.words[Ops[i].output] = slots[Ops[i].output].words
        /\ \A n \in DOMAIN Ops[i].sources : plan.sources[plan.offsets[i] + n] = Ops[i].sources[n]

PlanInv == Decoding => codec_pc = "done" /\ FlattenedRight(context)

FilledAtEnd(s) == Filled(Len(stream) + 1, s)

\* What the kernels will need is on its way, and what has been launched will yield
\* all outputs.
ReadyInv ==
    /\ context.kind = "prepared" =>
         /\ \A s \in Required : input[s].has_value => FilledAtEnd(s)
         /\ launches > 0 => \A i \in DOMAIN Ops : FilledAtEnd(Ops[i].output)
    /\ context.kind = "staging" =>
         \A s \in context.returned : context.device[s].allocated /\ FilledAtEnd(s)

\* A staging context holds shards of the caller, none of them empty.
StagingInv ==
    context.kind = "staging" /\ ~context.finalized =>
        /\ shards = input
        /\ context.words = WordsOf(context.staged)
        /\ \A s \in Slots :
             \/ s \notin context.returned /\ context.staged[s] = NoShard
             \/ /\ context.staged[s] = input[s]
                /\ input[s].has_value
                /\ input[s].words # 0

\* The downloads of a call are the last commands of the stream, and those that have
\* been executed have brought what the CPU computed.
DownloadInv ==
    IF host_pc = "downloading"
      THEN LET left == Len(Ops) - Len(outputs)
               before == Len(stream) - left
           IN /\ Decoding
              /\ left \in Nat /\ before \in Nat
              /\ \A p \in DOMAIN stream :
                   IF p <= before THEN stream[p].kind # "download"
                                  ELSE stream[p] = Download(Len(outputs) + p - before)
              /\ \A i \in DOMAIN outputs : outputs[i] = slots[Ops[i].output].payload
      ELSE \A p \in DOMAIN stream : stream[p].kind # "download"

\* Nothing happens on the device before the CPU decoder has ended.
EarlyInv ==
    /\ codec_pc \in {"start", "run"} =>
         verdict = "none" /\ ~received /\ context = NoDecodeContext /\ host_pc = "idle"
    /\ context.kind = "none" => stream = <<>> /\ (host_pc # "ended" => shards = input)
    /\ context.kind # "prepared" => launches = 0

DeviceInv ==
    /\ CodecTypeInv /\ CodecInv
    /\ ContextTypeInv
    /\ StreamInv /\ PlanInv /\ ReadyInv /\ StagingInv /\ DownloadInv /\ EarlyInv
    /\ RefusalsAgree /\ ResultsMatchCpu /\ HostShardsGenuine

-----------------------------------------------------------------------------
(***************************************************************************)
(* Induction, and recursive functions.                                     *)
(***************************************************************************)
LEMMA LeastOf ==
  ASSUME NEW S \in SUBSET Nat, S # {}
  PROVE  \E n \in S : \A m \in S : n <= m
<1>1. PICK n \in S : \A m \in S : ~ (<<m, n>> \in OpToRel(<, Nat))
  BY NatLessThanWellFounded, WFMin, Zenon
<1>2. \A m \in S : ~ (m < n)
  BY <1>1 DEF OpToRel
<1> QED
  BY <1>2

\* A set that has 0 and with a number the next one has all numbers.
LEMMA UpTo ==
  ASSUME NEW N \in Nat, NEW S, 0 \in S,
         \A i \in 1 .. N : i - 1 \in S => i \in S
  PROVE  \A i \in 0 .. N : i \in S
<1> SUFFICES ASSUME (0 .. N) \ S # {} PROVE FALSE
  OBVIOUS
<1>1. PICK n \in (0 .. N) \ S : \A m \in (0 .. N) \ S : n <= m
  <2>1. (0 .. N) \ S \in SUBSET Nat
    OBVIOUS
  <2> QED
    BY <2>1, LeastOf
<1>2. n \in 1 .. N /\ n - 1 \in 0 .. N
  BY <1>1
<1>3. n - 1 \in S
  BY <1>1, <1>2
<1> QED
  BY <1>1, <1>2, <1>3

\* A recursion that stays within a set defines a function.
Recursion(f, n, D, a, h) ==
    f \in [0 .. n -> D] /\ f[0] = a /\ \A i \in 1 .. n : f[i] = h[i][f[i - 1]]

LEMMA RecursionExists ==
  ASSUME NEW N \in Nat, NEW D, NEW a \in D, NEW h \in [1 .. N -> [D -> D]]
  PROVE  \E f : Recursion(f, N, D, a, h)
<1> DEFINE S == {n \in 0 .. N : \E f : Recursion(f, n, D, a, h)}
<1>1. 0 \in S
  <2> DEFINE g == [i \in 0 .. 0 |-> a]
  <2>1. Recursion(g, 0, D, a, h)
    BY DEF Recursion
  <2> HIDE DEF g
  <2> QED
    BY <2>1
<1>2. ASSUME NEW n \in 1 .. N, n - 1 \in S PROVE n \in S
  <2>1. PICK f : Recursion(f, n - 1, D, a, h)
    BY <1>2
  <2> DEFINE g == [i \in 0 .. n |-> IF i = n THEN h[n][f[n - 1]] ELSE f[i]]
  <2>2. f[n - 1] \in D /\ h[n][f[n - 1]] \in D
    BY <2>1 DEF Recursion
  <2>3. g \in [0 .. n -> D] /\ g[0] = a
    BY <2>1, <2>2 DEF Recursion
  <2>4. ASSUME NEW i \in 1 .. n PROVE g[i] = h[i][g[i - 1]]
    <3>1. CASE i = n
      <4>1. g[n - 1] = f[n - 1] /\ g[n] = h[n][f[n - 1]]
        OBVIOUS
      <4> QED
        BY <3>1, <4>1
    <3>2. CASE i # n
      <4>1. i \in 1 .. n - 1 /\ i \in 0 .. n /\ i - 1 \in 0 .. n /\ i - 1 # n
        BY <3>2
      <4>2. g[i] = f[i] /\ g[i - 1] = f[i - 1]
        BY <3>2, <4>1
      <4> QED
        BY <2>1, <4>1, <4>2 DEF Recursion
    <3> QED
      BY <3>1, <3>2
  <2> HIDE DEF g
  <2>5. Recursion(g, n, D, a, h)
    BY <2>3, <2>4 DEF Recursion
  <2> QED
    BY <2>5
<1> HIDE DEF S
<1>3. \A i \in 0 .. N : i \in S
  BY <1>1, <1>2, UpTo
<1> QED
  BY <1>3 DEF S

-----------------------------------------------------------------------------
(***************************************************************************)
(* The CPU decoder.                                                        *)
(***************************************************************************)
LEMMA PlanTypes ==
  ASSUME CodecTypeInv
  PROVE  /\ Ops \in Seq([output : Nat, sources : Seq(Nat)])
         /\ DOMAIN Ops = 1 .. Len(Ops)
         /\ Len(Ops) \in Nat
         /\ \A i \in DOMAIN Ops : /\ Ops[i].output \in Nat
                                  /\ Ops[i].sources \in Seq(Nat)
                                  /\ Ops[i].sources # <<>> => 1 \in DOMAIN Ops[i].sources
         /\ DOMAIN slots = Slots
<1>1. Ops \in Seq([output : Nat, sources : Seq(Nat)])
  BY DEF CodecTypeInv, Ops, DecodePlan
<1>2. \A i \in DOMAIN Ops : Ops[i] \in [output : Nat, sources : Seq(Nat)]
  <2>1. \A O : Ops \in Seq(O) => \A i \in DOMAIN Ops : Ops[i] \in O
    OBVIOUS
  <2> QED
    BY <1>1, <2>1, Zenon
<1>3. \A q \in Seq(Nat) : q # <<>> => 1 \in DOMAIN q
  OBVIOUS
<1> QED
  BY <1>1, <1>2, <1>3 DEF CodecTypeInv

LEMMA XorIsPayload ==
  ASSUME NEW T, NEW vals, \A i \in DOMAIN vals : vals[i] \in SUBSET T
  PROVE  XorAll(vals) \in SUBSET T
BY DEF XorAll

\* The present shards are the caller's and the outputs so far.
LEMMA PresentShards ==
  ASSUME CodecTypeInv, CodecInv
  PROVE  /\ \A s \in Slots : slots[s].has_value <=> s \in AvailableAt(next_op - 1)
         /\ \A s \in Slots : input[s].has_value => slots[s] = input[s]
         /\ AvailableAt(next_op - 1) \subseteq Slots
<1> USE PlanTypes
<1>1. \A i \in 1 .. next_op - 1 : /\ Ops[i].output \in Slots
                                  /\ slots[Ops[i].output].has_value
                                  /\ ~input[Ops[i].output].has_value
  <2> TAKE i \in 1 .. next_op - 1
  <2>1. RanSoundly(i)
    BY DEF CodecInv
  <2>2. Decoded(Ops[i]).has_value
    BY DEF Decoded, Shard
  <2> QED
    BY <2>1, <2>2 DEF RanSoundly
<1>2. \A s \in Slots : (\A i \in 1 .. next_op - 1 : Ops[i].output # s) => slots[s] = input[s]
  BY DEF CodecInv
<1> QED
  BY <1>1, <1>2 DEF AvailableAt

LEMMA ExecuteOperationKeepsInv ==
  ASSUME CodecTypeInv, CodecInv, UNCHANGED input, codec_pc = "run",
         next_op <= Len(Ops), CanExecute(Ops[next_op]),
         slots' = [slots EXCEPT ![Ops[next_op].output] = Decoded(Ops[next_op])],
         next_op' = next_op + 1, UNCHANGED <<codec_pc, decode_plan>>
  PROVE  CodecTypeInv' /\ CodecInv'
<1> DEFINE op == Ops[next_op]
<1> USE PlanTypes
<1>1. Ops' = Ops /\ Slots' = Slots /\ next_op \in DOMAIN Ops
  BY DEF Ops, Slots, CodecTypeInv
<1>2. /\ op.output \in Slots
      /\ op.sources # <<>>
      /\ ~slots[op.output].has_value
      /\ slots[op.sources[1]].words # 0
      /\ \A n \in DOMAIN op.sources :
           /\ op.sources[n] \in Slots
           /\ slots[op.sources[n]].has_value
           /\ slots[op.sources[n]].words = slots[op.sources[1]].words
  BY <1>1 DEF CanExecute, Present
<1>3. /\ op.output \notin AvailableAt(next_op - 1)
      /\ \A n \in DOMAIN op.sources : op.sources[n] \in AvailableAt(next_op - 1)
      /\ AvailableAt(next_op - 1) \subseteq Slots
  BY <1>2, PresentShards
<1>4. \A s \in AvailableAt(next_op - 1) : slots'[s] = slots[s]
  BY <1>3 DEF CodecTypeInv
<1>5. \A i \in 0 .. next_op : AvailableAt(i)' = AvailableAt(i)
  BY <1>1 DEF AvailableAt
<1>6. \A i \in 0 .. next_op - 1 : AvailableAt(i) \subseteq AvailableAt(next_op - 1)
  BY DEF AvailableAt, CodecTypeInv
<1>7. ASSUME NEW o, 1 \in DOMAIN o.sources,
             \A n \in DOMAIN o.sources : o.sources[n] \in AvailableAt(next_op - 1)
      PROVE  /\ \A n \in DOMAIN o.sources : slots'[o.sources[n]] = slots[o.sources[n]]
             /\ Decoded(o)' = Decoded(o)
  <2>1. \A n \in DOMAIN o.sources : slots'[o.sources[n]] = slots[o.sources[n]]
    BY <1>4, <1>7
  <2>2. [n \in DOMAIN o.sources |-> slots'[o.sources[n]].payload]
          = [n \in DOMAIN o.sources |-> slots[o.sources[n]].payload]
    BY <2>1
  <2> QED
    BY <2>1, <2>2, <1>7 DEF Decoded
<1>8. Decoded(op) \in Slot /\ slots'[op.output] = Decoded(op)
  <2>1. \A n \in DOMAIN op.sources : slots[op.sources[n]] \in Slot
    BY <1>2 DEF CodecTypeInv
  <2>2. XorAll([n \in DOMAIN op.sources |-> slots[op.sources[n]].payload]) \in SUBSET Nat
    BY <2>1, XorIsPayload DEF Slot
  <2>3. Decoded(op) \in Slot
    BY <1>1, <1>2, <2>1, <2>2 DEF Decoded, Shard, Slot
  <2> QED
    BY <2>3, <1>1, <1>2, <1>3, <1>7 DEF CodecTypeInv
<1>9. CodecTypeInv'
  BY <1>1, <1>2, <1>8 DEF CodecTypeInv
<1>10. ASSUME NEW i \in 1 .. next_op PROVE RanSoundly(i)'
  <2>1. i \in DOMAIN Ops /\ i - 1 \in 0 .. next_op - 1 /\ AvailableAt(i - 1)' = AvailableAt(i - 1)
    BY <1>1, <1>5 DEF CodecTypeInv
  <2>2. CASE i = next_op
    <3>1. ~input[op.output].has_value /\ \A j \in 1 .. i - 1 : Ops[j].output # op.output
      BY <1>2, <1>3, <2>2 DEF AvailableAt
    <3>2. /\ \A n \in DOMAIN Ops[i].sources :
               slots'[Ops[i].sources[n]] = slots[Ops[i].sources[n]]
          /\ Decoded(Ops[i])' = Decoded(Ops[i])
      BY <1>1, <1>2, <1>3, <1>7, <2>2
    <3> QED
      BY <1>1, <1>2, <1>3, <1>8, <2>1, <2>2, <3>1, <3>2 DEF RanSoundly
  <2>3. CASE i # next_op
    <3>1. RanSoundly(i) /\ i \in 1 .. next_op - 1
      BY <2>3 DEF CodecInv, CodecTypeInv
    <3>2. \A n \in DOMAIN Ops[i].sources : Ops[i].sources[n] \in AvailableAt(next_op - 1)
      BY <3>1, <1>6, <2>1 DEF RanSoundly
    <3>3. /\ \A n \in DOMAIN Ops[i].sources :
               slots'[Ops[i].sources[n]] = slots[Ops[i].sources[n]]
          /\ Decoded(Ops[i])' = Decoded(Ops[i])
      BY <1>1, <1>7, <2>1, <3>1, <3>2 DEF RanSoundly
    <3>4. slots'[Ops[i].output] = slots[Ops[i].output]
      BY <1>4, <3>1 DEF AvailableAt, CodecTypeInv
    <3> QED
      BY <1>1, <2>1, <3>1, <3>3, <3>4 DEF RanSoundly
  <2> QED
    BY <2>2, <2>3
<1>11. ASSUME NEW s \in Slots, \A i \in 1 .. next_op : Ops[i].output # s
       PROVE  slots'[s] = input[s]
  <2>1. s # op.output /\ \A i \in 1 .. next_op - 1 : Ops[i].output # s
    BY <1>11 DEF CodecTypeInv
  <2> QED
    BY <2>1 DEF CodecInv, CodecTypeInv
<1> QED
  BY <1>1, <1>9, <1>10, <1>11 DEF CodecInv, CodecTypeInv

LEMMA CodecStepKeepsInv ==
  ASSUME CodecTypeInv, CodecInv, CodecNext, UNCHANGED input
  PROVE  CodecTypeInv' /\ CodecInv'
<1>1. ASSUME UNCHANGED <<decode_plan, slots, next_op>>, codec_pc' \in {"run", "done", "throw"},
             codec_pc' \in {"run", "done"} => ValidatePlanShape(decode_plan),
             codec_pc' = "done" => next_op = Len(Ops) + 1,
             codec_pc' = "throw" => \/ ~ValidatePlanShape(decode_plan)
                                    \/ next_op <= Len(Ops) /\ ~CanExecute(Ops[next_op])
      PROVE  CodecTypeInv' /\ CodecInv'
  <2>1. Ops' = Ops /\ Slots' = Slots
    BY <1>1 DEF Ops, Slots
  <2>2. \A i \in 1 .. next_op - 1 : RanSoundly(i)' = RanSoundly(i)
    BY <1>1, <2>1 DEF RanSoundly, AvailableAt, Decoded
  <2>3. CodecTypeInv'
    BY <1>1, <2>1 DEF CodecTypeInv
  <2>4. next_op <= Len(Ops) => CanExecute(Ops[next_op])' = CanExecute(Ops[next_op])
    BY <1>1, <2>1 DEF CanExecute, Present
  <2> QED
    BY <1>1, <2>1, <2>2, <2>3, <2>4 DEF CodecInv
<1>2. CASE StartDecode
  BY <1>1, <1>2 DEF StartDecode, CodecInv
<1>3. CASE ReturnDecoded
  <2>1. next_op = Len(Ops) + 1
    BY <1>3, PlanTypes DEF ReturnDecoded, CodecTypeInv, Ops
  <2> QED
    BY <1>1, <1>3, <2>1 DEF ReturnDecoded, CodecInv
<1>4. CASE ExecuteOperation
  <2>1. CASE CanExecute(Ops[next_op])
    BY <1>4, <2>1, ExecuteOperationKeepsInv DEF ExecuteOperation, Ops
  <2>2. CASE ~CanExecute(Ops[next_op])
    BY <1>1, <1>4, <2>2 DEF ExecuteOperation, Ops
  <2> QED
    BY <2>1, <2>2
<1> QED
  BY <1>2, <1>3, <1>4 DEF CodecNext

-----------------------------------------------------------------------------
(***************************************************************************)
(* The validation ahead of the kernels.                                    *)
(***************************************************************************)
Scan == [valid : BOOLEAN, words : [Slots -> Nat], sources : Seq(Nat), offsets : Seq(Nat)]
ScanStart(words) == [valid |-> TRUE, words |-> words, sources |-> <<>>, offsets |-> <<>>]
ScanStep(i, p) ==
    IF p.valid /\ OperationValid(Ops[i], p.words)
      THEN ScanOperation(p, Ops[i])
      ELSE [p EXCEPT !.valid = FALSE]

LEMMA ScanStepFacts ==
  ASSUME CodecTypeInv, NEW i \in DOMAIN Ops, NEW p \in Scan
  PROVE  /\ ScanStep(i, p) \in Scan
         /\ IF p.valid /\ OperationValid(Ops[i], p.words)
              THEN /\ ScanStep(i, p).valid
                   /\ ScanStep(i, p).words =
                        [p.words EXCEPT ![Ops[i].output] = p.words[Ops[i].sources[1]]]
                   /\ ScanStep(i, p).offsets = Append(p.offsets, Len(p.sources))
                   /\ ScanStep(i, p).sources = p.sources \o Ops[i].sources
              ELSE ~ScanStep(i, p).valid
<1> USE PlanTypes
<1>1. CASE p.valid /\ OperationValid(Ops[i], p.words)
  <2>1. /\ Ops[i].output \in Slots
        /\ p.words[Ops[i].sources[1]] \in Nat
        /\ Ops[i].sources \in Seq(Nat)
    BY <1>1 DEF OperationValid, Scan
  <2>2. ScanStep(i, p) =
          [p EXCEPT !.words[Ops[i].output] = p.words[Ops[i].sources[1]],
                    !.offsets = Append(@, Len(p.sources)),
                    !.sources = @ \o Ops[i].sources]
    BY <1>1 DEF ScanStep, ScanOperation
  <2>3. /\ ScanStep(i, p).valid
        /\ ScanStep(i, p).words =
             [p.words EXCEPT ![Ops[i].output] = p.words[Ops[i].sources[1]]]
        /\ ScanStep(i, p).offsets = Append(p.offsets, Len(p.sources))
        /\ ScanStep(i, p).sources = p.sources \o Ops[i].sources
    BY <1>1, <2>2 DEF Scan
  <2>4. [p.words EXCEPT ![Ops[i].output] = p.words[Ops[i].sources[1]]] \in [Slots -> Nat]
    BY <2>1 DEF Scan
  <2>5. Append(p.offsets, Len(p.sources)) \in Seq(Nat) /\ p.sources \o Ops[i].sources \in Seq(Nat)
    BY <2>1 DEF Scan
  <2> QED
    BY <1>1, <2>2, <2>3, <2>4, <2>5 DEF Scan
<1>2. CASE ~(p.valid /\ OperationValid(Ops[i], p.words))
  BY <1>2 DEF ScanStep, Scan
<1> QED
  BY <1>1, <1>2

\* scan is the sequence of intermediate results of ScanPlan.
ScanOf(scan, words) ==
    /\ scan \in [0 .. Len(Ops) -> Scan]
    /\ scan[0] = ScanStart(words)
    /\ \A i \in 1 .. Len(Ops) : scan[i] = ScanStep(i, scan[i - 1])
    /\ ScanPlan(words) = scan[Len(Ops)]

LEMMA ScanUnfolds ==
  ASSUME CodecTypeInv, NEW words \in [Slots -> Nat]
  PROVE  \E scan : ScanOf(scan, words)
<1> DEFINE N == Len(Ops)
           a == ScanStart(words)
           h == [i \in 1 .. N |-> [p \in Scan |-> ScanStep(i, p)]]
           Rec(f) == f = [i \in 0 .. N |-> IF i = 0 THEN a ELSE ScanStep(i, f[i - 1])]
           g == CHOOSE f : Rec(f)
           S == {i \in 0 .. N : g[i] \in Scan}
<1>1. N \in Nat /\ DOMAIN Ops = 1 .. N /\ a \in Scan
  BY PlanTypes DEF ScanStart, Scan
<1>2. h \in [1 .. N -> [Scan -> Scan]]
  BY <1>1, ScanStepFacts
<1>3. \A i \in 1 .. N : \A p \in Scan : h[i][p] = ScanStep(i, p)
  OBVIOUS
<1>4. ScanPlan(words) = g[N]
  BY DEF ScanPlan, ScanStart, ScanStep
<1> HIDE DEF h, N, a
<1>5. PICK f : Recursion(f, N, Scan, a, h)
  BY <1>1, <1>2, RecursionExists
<1>6. Rec(f)
  <2>1. \A i \in 1 .. N : f[i - 1] \in Scan /\ f[i] = ScanStep(i, f[i - 1])
    BY <1>1, <1>3, <1>5 DEF Recursion
  <2> QED
    BY <1>1, <1>5, <2>1 DEF Recursion
<1>7. Rec(g)
  BY <1>6
<1> HIDE DEF g
<1>8. g[0] = a /\ \A i \in 1 .. N : g[i] = ScanStep(i, g[i - 1])
  BY <1>1, <1>7
<1>9. 0 \in S
  BY <1>1, <1>8
<1>10. ASSUME NEW i \in 1 .. N, i - 1 \in S PROVE i \in S
  <2>1. g[i - 1] \in Scan /\ i \in DOMAIN Ops
    BY <1>1, <1>10
  <2>2. ScanStep(i, g[i - 1]) \in Scan
    BY <2>1, ScanStepFacts
  <2> QED
    BY <1>1, <1>8, <2>2
<1> HIDE DEF S
<1>11. \A i \in 0 .. N : i \in S
  BY <1>1, <1>9, <1>10, UpTo
<1>12. g \in [0 .. N -> Scan]
  BY <1>7, <1>11 DEF S
<1> QED
  BY <1>4, <1>8, <1>12 DEF ScanOf, N, a

\* The scan p of the first i operations has foreseen what the CPU has done.
Foresees(p, i) ==
    /\ p.valid
    /\ \A s \in Slots : p.words[s] = IF s \in AvailableAt(i) THEN slots[s].words ELSE 0
    /\ Len(p.offsets) = i
    /\ \A j \in 1 .. i :
         /\ p.offsets[j] \in Nat
         /\ p.offsets[j] + Len(Ops[j].sources) <= Len(p.sources)
         /\ \A n \in DOMAIN Ops[j].sources : p.sources[p.offsets[j] + n] = Ops[j].sources[n]

LEMMA AvailableFacts ==
  ASSUME CodecTypeInv, CodecInv, NEW i \in 1 .. next_op - 1
  PROVE  /\ i \in DOMAIN Ops
         /\ AvailableAt(i) = AvailableAt(i - 1) \cup {Ops[i].output}
         /\ AvailableAt(i - 1) \subseteq Slots
         /\ Ops[i].output \notin AvailableAt(i - 1)
         /\ Ops[i].output \in Slots
         /\ RanSoundly(i)
<1>1. i \in DOMAIN Ops /\ RanSoundly(i)
  BY PlanTypes DEF CodecInv, CodecTypeInv
<1>2. \A j \in 1 .. next_op - 1 : Ops[j].output \in Slots
  BY DEF CodecInv, RanSoundly
<1>3. \A j \in 1 .. i : j = i \/ j \in 1 .. i - 1
  OBVIOUS
<1>4. AvailableAt(i) = AvailableAt(i - 1) \cup {Ops[i].output}
  BY <1>3 DEF AvailableAt
<1>5. AvailableAt(i - 1) \subseteq Slots
  BY <1>2 DEF AvailableAt, CodecTypeInv
<1>6. Ops[i].output \notin AvailableAt(i - 1)
  BY <1>1 DEF AvailableAt, RanSoundly
<1> QED
  BY <1>1, <1>2, <1>4, <1>5, <1>6

LEMMA Concatenated ==
  ASSUME NEW T, NEW q \in Seq(T), NEW r \in Seq(T)
  PROVE  /\ q \o r \in Seq(T)
         /\ Len(q \o r) = Len(q) + Len(r)
         /\ DOMAIN (q \o r) = 1 .. Len(q) + Len(r)
         /\ \A n \in 1 .. Len(q) : (q \o r)[n] = q[n]
         /\ \A n \in 1 .. Len(r) : (q \o r)[Len(q) + n] = r[n]
OBVIOUS

\* Appending sources leaves a part of the flattened list where it is.
LEMMA PartStays ==
  ASSUME NEW q \in Seq(Nat), NEW r \in Seq(Nat), NEW o \in Nat, NEW part \in Seq(Nat),
         o + Len(part) <= Len(q), \A n \in DOMAIN part : q[o + n] = part[n]
  PROVE  /\ o + Len(part) <= Len(q \o r)
         /\ \A n \in DOMAIN part : (q \o r)[o + n] = part[n]
<1>1. Len(q \o r) = Len(q) + Len(r) /\ \A n \in 1 .. Len(q) : (q \o r)[n] = q[n]
  BY Concatenated
<1>2. Len(q) \in Nat /\ Len(r) \in Nat /\ Len(part) \in Nat /\ DOMAIN part = 1 .. Len(part)
  OBVIOUS
<1>3. o + Len(part) <= Len(q \o r)
  BY <1>1, <1>2
<1>4. ASSUME NEW n \in DOMAIN part
      PROVE  (q \o r)[o + n] = part[n]
  <2>1. n \in Nat /\ 1 <= n /\ n <= Len(part)
    BY <1>2
  <2>2. o + n \in 1 .. Len(q)
    BY <1>2, <2>1
  <2>3. (q \o r)[o + n] = q[o + n]
    BY <1>1, <2>2
  <2> QED
    BY <2>3
<1> QED
  BY <1>3, <1>4

LEMMA PartAdded ==
  ASSUME NEW q \in Seq(Nat), NEW part \in Seq(Nat)
  PROVE  /\ Len(q) + Len(part) <= Len(q \o part)
         /\ \A n \in DOMAIN part : (q \o part)[Len(q) + n] = part[n]
<1>1. /\ Len(q \o part) = Len(q) + Len(part)
      /\ \A n \in 1 .. Len(part) : (q \o part)[Len(q) + n] = part[n]
  BY Concatenated
<1> QED
  BY <1>1

LEMMA ScanStepForesees ==
  ASSUME CodecTypeInv, CodecInv, NEW i \in 1 .. next_op - 1, NEW p \in Scan, Foresees(p, i - 1)
  PROVE  Foresees(ScanStep(i, p), i)
<1> DEFINE op == Ops[i]
           q == ScanStep(i, p)
<1>1. /\ i \in DOMAIN Ops
      /\ AvailableAt(i) = AvailableAt(i - 1) \cup {op.output}
      /\ AvailableAt(i - 1) \subseteq Slots
      /\ op.output \notin AvailableAt(i - 1)
      /\ op.output \in Slots
      /\ RanSoundly(i)
  BY AvailableFacts
<1>2. /\ op.sources # <<>> /\ op.sources \in Seq(Nat) /\ 1 \in DOMAIN op.sources
      /\ slots[op.sources[1]].words # 0
      /\ \A n \in DOMAIN op.sources :
           /\ op.sources[n] \in AvailableAt(i - 1)
           /\ slots[op.sources[n]].words = slots[op.sources[1]].words
      /\ slots[op.output].words = slots[op.sources[1]].words
  BY <1>1, PlanTypes DEF RanSoundly, Decoded, Shard
<1>3. /\ p.words \in [Slots -> Nat] /\ p.sources \in Seq(Nat) /\ p.offsets \in Seq(Nat)
      /\ p.words[op.output] = 0
      /\ \A n \in DOMAIN op.sources : p.words[op.sources[n]] = slots[op.sources[n]].words
  BY <1>1, <1>2 DEF Foresees, Scan
<1>4. OperationValid(op, p.words)
  BY <1>1, <1>2, <1>3 DEF OperationValid
<1>5. /\ q.valid
      /\ q.words = [p.words EXCEPT ![op.output] = p.words[op.sources[1]]]
      /\ q.offsets = Append(p.offsets, Len(p.sources))
      /\ q.sources = p.sources \o op.sources
  BY <1>1, <1>4, ScanStepFacts DEF Foresees
<1> HIDE DEF q
<1>6. ASSUME NEW s \in Slots
      PROVE  q.words[s] = IF s \in AvailableAt(i) THEN slots[s].words ELSE 0
  BY <1>1, <1>2, <1>3, <1>5 DEF Foresees
<1>7. Len(p.offsets) = i - 1 /\ Len(q.offsets) = i
  BY <1>3, <1>5 DEF Foresees
<1>8. ASSUME NEW j \in 1 .. i
      PROVE  /\ q.offsets[j] \in Nat
             /\ q.offsets[j] + Len(Ops[j].sources) <= Len(q.sources)
             /\ \A n \in DOMAIN Ops[j].sources : q.sources[q.offsets[j] + n] = Ops[j].sources[n]
  <2>1. CASE j = i
    <3>1. q.offsets[j] = Len(p.sources) /\ Len(p.sources) \in Nat
      BY <1>3, <1>5, <1>7, <2>1
    <3>2. p.sources \in Seq(Nat) /\ op.sources \in Seq(Nat)
      BY <1>2, <1>3
    <3>3. /\ Len(p.sources) + Len(op.sources) <= Len(p.sources \o op.sources)
          /\ \A n \in DOMAIN op.sources :
               (p.sources \o op.sources)[Len(p.sources) + n] = op.sources[n]
      BY <3>2, PartAdded, Zenon
    <3> HIDE DEF op
    <3>4. op = Ops[j]
      BY <2>1 DEF op
    <3> QED
      BY <1>5, <3>1, <3>3, <3>4, Zenon
  <2>2. CASE j # i
    <3>1. j \in 1 .. i - 1 /\ j \in 1 .. Len(Ops)
      BY <1>1, <2>2, PlanTypes
    <3>2. q.offsets[j] = p.offsets[j] /\ p.offsets[j] \in Nat
      BY <1>3, <1>5, <1>7, <3>1
    <3>3. Ops[j].sources \in Seq(Nat)
      BY <3>1, PlanTypes
    <3>4. /\ p.offsets[j] + Len(Ops[j].sources) <= Len(p.sources)
          /\ \A n \in DOMAIN Ops[j].sources : p.sources[p.offsets[j] + n] = Ops[j].sources[n]
      BY <3>1 DEF Foresees
    <3>5. p.sources \in Seq(Nat) /\ op.sources \in Seq(Nat)
      BY <1>2, <1>3
    <3>6. /\ p.offsets[j] + Len(Ops[j].sources) <= Len(p.sources \o op.sources)
          /\ \A n \in DOMAIN Ops[j].sources :
               (p.sources \o op.sources)[p.offsets[j] + n] = Ops[j].sources[n]
      BY <3>2, <3>3, <3>4, <3>5, PartStays, Zenon
    <3> HIDE DEF op
    <3> QED
      BY <1>5, <3>2, <3>6, Zenon
  <2> QED
    BY <2>1, <2>2
<1> QED
  BY <1>5, <1>6, <1>7, <1>8 DEF Foresees, q

LEMMA ScanForesees ==
  ASSUME CodecTypeInv, CodecInv, NEW scan, ScanOf(scan, WordsOf(input))
  PROVE  \A i \in 0 .. next_op - 1 : Foresees(scan[i], i)
<1> DEFINE S == {i \in 0 .. next_op - 1 : Foresees(scan[i], i)}
<1>1. next_op - 1 \in Nat /\ next_op - 1 <= Len(Ops) /\ Len(Ops) \in Nat
  BY PlanTypes DEF CodecTypeInv
<1>2. 0 \in S
  <2>1. scan[0] = [valid |-> TRUE, words |-> WordsOf(input), sources |-> <<>>, offsets |-> <<>>]
    BY DEF ScanOf, ScanStart
  <2>2. ASSUME NEW s \in Slots
        PROVE  WordsOf(input)[s] = IF s \in AvailableAt(0) THEN slots[s].words ELSE 0
    <3>1. s \in AvailableAt(0) <=> input[s].has_value
      BY DEF AvailableAt
    <3>2. ~input[s].has_value => input[s].words = 0
      BY DEF CodecTypeInv, NoShard
    <3> QED
      BY <3>1, <3>2, PresentShards DEF WordsOf
  <2>3. Foresees(scan[0], 0)
    BY <2>1, <2>2 DEF Foresees
  <2> QED
    BY <1>1, <2>3
<1>3. ASSUME NEW i \in 1 .. next_op - 1, i - 1 \in S PROVE i \in S
  <2>1. scan[i - 1] \in Scan /\ scan[i] = ScanStep(i, scan[i - 1])
    BY <1>1 DEF ScanOf
  <2> QED
    BY <1>1, <1>3, <2>1, ScanStepForesees
<1> HIDE DEF S
<1>4. \A i \in 0 .. next_op - 1 : i \in S
  BY <1>1, <1>2, <1>3, UpTo
<1> QED
  BY <1>4 DEF S

InputNotEmpty == \A s \in Slots : input[s].has_value => input[s].words # 0

\* No shard that is present is empty.
LEMMA PresentNotEmpty ==
  ASSUME CodecTypeInv, CodecInv, InputNotEmpty, NEW s \in AvailableAt(next_op - 1)
  PROVE  slots[s].words # 0
<1>1. CASE input[s].has_value /\ s \in Slots
  BY <1>1, PresentShards DEF InputNotEmpty
<1>2. ASSUME NEW i \in 1 .. next_op - 1, s = Ops[i].output PROVE slots[s].words # 0
  <2>1. RanSoundly(i)
    BY DEF CodecInv
  <2>2. Decoded(Ops[i]).words = slots[Ops[i].sources[1]].words
    BY DEF Decoded, Shard
  <2> QED
    BY <1>2, <2>1, <2>2 DEF RanSoundly
<1> QED
  BY <1>1, <1>2 DEF AvailableAt

\* What the CPU rejects the scan rejects.
LEMMA ScanRejects ==
  ASSUME CodecTypeInv, CodecInv, InputNotEmpty, codec_pc = "throw",
         ValidatePlanShape(decode_plan), NEW scan, ScanOf(scan, WordsOf(input))
  PROVE  ~scan[Len(Ops)].valid
<1> DEFINE p == scan[next_op - 1]
           op == Ops[next_op]
           S == {k \in 0 .. Len(Ops) - next_op : ~scan[next_op + k].valid}
<1>1. /\ next_op \in 1 .. Len(Ops) /\ next_op \in DOMAIN Ops /\ Len(Ops) \in Nat
      /\ ~CanExecute(op)
  BY PlanTypes DEF CodecInv, CodecTypeInv
<1>2. p \in Scan /\ Foresees(p, next_op - 1)
  <2>1. next_op - 1 \in 0 .. Len(Ops) /\ next_op - 1 \in 0 .. next_op - 1
    BY <1>1
  <2> QED
    BY <2>1, ScanForesees DEF ScanOf
<1> HIDE DEF p
<1>3. ASSUME OperationValid(op, p.words) PROVE FALSE
  <2>1. /\ op.output \in Slots /\ op.sources # <<>> /\ 1 \in DOMAIN op.sources
        /\ p.words[op.output] = 0
        /\ \A n \in DOMAIN op.sources : /\ op.sources[n] \in Slots
                                        /\ p.words[op.sources[n]] # 0
                                        /\ p.words[op.sources[n]] = p.words[op.sources[1]]
    BY <1>1, <1>2, <1>3, PlanTypes DEF OperationValid, Scan
  <2>2. \A s \in Slots : p.words[s] = IF slots[s].has_value THEN slots[s].words ELSE 0
    BY <1>2, PresentShards DEF Foresees
  <2>3. ~slots[op.output].has_value
    BY <2>1, <2>2, PresentShards, PresentNotEmpty
  <2>4. \A n \in DOMAIN op.sources : Present(op.sources[n])
    BY <2>1, <2>2, PlanTypes DEF Present
  <2>5. \A n \in DOMAIN op.sources :
          slots[op.sources[n]].words # 0 /\ slots[op.sources[n]].words = slots[op.sources[1]].words
    BY <2>1, <2>2
  <2> QED
    BY <1>1, <2>1, <2>3, <2>4, <2>5, PlanTypes DEF CanExecute
<1>4. 0 \in S
  <2>1. scan[next_op] = ScanStep(next_op, p)
    BY <1>1 DEF ScanOf, p
  <2>2. ~ScanStep(next_op, p).valid
    BY <1>1, <1>2, <1>3, ScanStepFacts
  <2> QED
    BY <1>1, <2>1, <2>2
<1>5. ASSUME NEW k \in 1 .. Len(Ops) - next_op, k - 1 \in S PROVE k \in S
  <2>1. next_op + k \in DOMAIN Ops /\ next_op + k - 1 = next_op + (k - 1)
    BY <1>1, PlanTypes
  <2>2. /\ scan[next_op + k] = ScanStep(next_op + k, scan[next_op + (k - 1)])
        /\ scan[next_op + (k - 1)] \in Scan
    BY <1>1, <2>1 DEF ScanOf
  <2>3. ~ScanStep(next_op + k, scan[next_op + (k - 1)]).valid
    BY <1>5, <2>1, <2>2, ScanStepFacts
  <2> QED
    BY <1>1, <2>2, <2>3
<1> HIDE DEF S
<1>6. \A k \in 0 .. Len(Ops) - next_op : k \in S
  <2>1. Len(Ops) - next_op \in Nat
    BY <1>1
  <2> QED
    BY <1>4, <1>5, <2>1, UpTo
<1>7. Len(Ops) - next_op \in S /\ next_op + (Len(Ops) - next_op) = Len(Ops)
  BY <1>1, <1>6
<1> QED
  BY <1>7 DEF S

\* The verdict of the validation is the CPU's, and what it returns is the plan.
LEMMA ScanVerdict ==
  ASSUME CodecTypeInv, CodecInv, codec_pc \in {"done", "throw"}
  PROVE  /\ ScanPlan(WordsOf(input)) \in Scan
         /\ codec_pc = "done" => /\ ScanPlan(WordsOf(input)).valid
                                 /\ FlattenedRight(ScanPlan(WordsOf(input)))
         /\ codec_pc = "throw" /\ ValidatePlanShape(decode_plan) /\ InputNotEmpty =>
              ~ScanPlan(WordsOf(input)).valid
<1>1. WordsOf(input) \in [Slots -> Nat]
  BY DEF WordsOf, CodecTypeInv, Slot
<1>2. PICK scan : ScanOf(scan, WordsOf(input))
  BY <1>1, ScanUnfolds
<1>3. ScanPlan(WordsOf(input)) = scan[Len(Ops)] /\ scan[Len(Ops)] \in Scan
  BY <1>2, PlanTypes DEF ScanOf
<1>4. ASSUME codec_pc = "done"
      PROVE  scan[Len(Ops)].valid /\ FlattenedRight(scan[Len(Ops)])
  <2>1. next_op = Len(Ops) + 1 /\ Len(Ops) \in Nat /\ Len(Ops) = next_op - 1
    BY <1>4, PlanTypes DEF CodecInv
  <2>2. Foresees(scan[Len(Ops)], Len(Ops))
    BY <1>2, <2>1, ScanForesees
  <2>3. \A i \in DOMAIN Ops : Ops[i].output \in Slots /\ Ops[i].output \in AvailableAt(Len(Ops))
    BY <2>1, PlanTypes DEF CodecInv, RanSoundly, AvailableAt
  <2> QED
    BY <2>2, <2>3, PlanTypes DEF Foresees, FlattenedRight
<1> QED
  BY <1>2, <1>3, <1>4, ScanRejects

-----------------------------------------------------------------------------
(***************************************************************************)
(* The kernels.                                                            *)
(***************************************************************************)
LEMMA DecodedPlanFacts ==
  ASSUME CodecTypeInv, CodecInv, codec_pc = "done", NEW i \in DOMAIN Ops
  PROVE  /\ i \in 1 .. Len(Ops) /\ i \in 1 .. next_op - 1
         /\ RanSoundly(i)
         /\ Ops[i].output \in Slots
         /\ ~input[Ops[i].output].has_value
         /\ slots[Ops[i].output].has_value
         /\ \A j \in DOMAIN Ops : Ops[j].output = Ops[i].output => j = i
         /\ \A n \in DOMAIN Ops[i].sources :
              /\ Ops[i].sources[n] \in Slots
              /\ \/ input[Ops[i].sources[n]].has_value
                 \/ \E j \in 1 .. i - 1 : Ops[j].output = Ops[i].sources[n]
<1>1. next_op = Len(Ops) + 1 /\ DOMAIN Ops = 1 .. Len(Ops) /\ Len(Ops) \in Nat
  BY PlanTypes DEF CodecInv
<1>2. \A j \in DOMAIN Ops : RanSoundly(j)
  BY <1>1 DEF CodecInv
<1>3. \A j \in DOMAIN Ops : Ops[j].output \in Slots
  BY <1>2 DEF RanSoundly
<1>4. \A j \in DOMAIN Ops : Ops[j].output = Ops[i].output => j = i
  <2> TAKE j \in DOMAIN Ops
  <2>1. i \in Nat /\ j \in Nat /\ 1 <= i /\ 1 <= j
    BY <1>1
  <2>2. i < j => i \in 1 .. j - 1
    BY <2>1
  <2>3. j < i => j \in 1 .. i - 1
    BY <2>1
  <2> QED
    BY <1>2, <2>1, <2>2, <2>3 DEF RanSoundly
<1>5. slots[Ops[i].output].has_value
  <2>1. Decoded(Ops[i]).has_value
    BY DEF Decoded, Shard
  <2> QED
    BY <1>2, <2>1 DEF RanSoundly
<1>6. \A n \in DOMAIN Ops[i].sources :
        \/ Ops[i].sources[n] \in Slots /\ input[Ops[i].sources[n]].has_value
        \/ \E j \in 1 .. i - 1 : Ops[j].output = Ops[i].sources[n]
  BY <1>2 DEF RanSoundly, AvailableAt
<1>7. \A j \in 1 .. i - 1 : j \in DOMAIN Ops
  BY <1>1
<1> QED
  BY <1>1, <1>2, <1>3, <1>4, <1>5, <1>6, <1>7 DEF RanSoundly

\* A kernel that finds the CPU's sources computes the CPU's output.
LEMMA KernelComputes ==
  ASSUME CodecTypeInv, CodecInv, codec_pc = "done", NEW plan, FlattenedRight(plan),
         NEW i \in DOMAIN Ops, NEW d,
         \A n \in DOMAIN Ops[i].sources :
            d[Ops[i].sources[n]].payload = slots[Ops[i].sources[n]].payload
  PROVE  KernelResult(d, plan, i) = slots[Ops[i].output].payload
<1>1. [n \in DOMAIN Ops[i].sources |-> d[plan.sources[plan.offsets[i] + n]].payload]
        = [n \in DOMAIN Ops[i].sources |-> slots[Ops[i].sources[n]].payload]
  BY DEF FlattenedRight
<1>2. slots[Ops[i].output] = Decoded(Ops[i])
  BY DecodedPlanFacts DEF RanSoundly
<1> QED
  BY <1>1, <1>2 DEF KernelResult, Decoded, Shard

LEMMA KernelsComputePlan ==
  ASSUME CodecTypeInv, CodecInv, codec_pc = "done", NEW plan, FlattenedRight(plan),
         NEW buffers \in [Slots -> Buffer],
         \A s \in Slots : input[s].has_value => buffers[s].payload = slots[s].payload
  PROVE  \A i \in DOMAIN Ops :
            RunKernels(plan, buffers)[Ops[i].output].payload = slots[Ops[i].output].payload
<1> DEFINE N == Len(Ops)
           D == [Slots -> Buffer]
           Step(i, d) == [d EXCEPT ![Ops[i].output].payload = KernelResult(d, plan, i)]
           h == [i \in 1 .. N |-> [d \in D |-> Step(i, d)]]
           Rec(f) == f = [i \in 0 .. N |-> IF i = 0 THEN buffers ELSE Step(i, f[i - 1])]
           g == CHOOSE f : Rec(f)
           S == {i \in 0 .. N : /\ g[i] \in D
                                /\ \A s \in AvailableAt(i) : g[i][s].payload = slots[s].payload}
<1>1. N \in Nat /\ DOMAIN Ops = 1 .. N /\ next_op = N + 1
  BY PlanTypes DEF CodecInv
<1>2. ASSUME NEW i \in 1 .. N, NEW d \in D PROVE Step(i, d) \in D
  <2>1. \A n \in DOMAIN Ops[i].sources :
          plan.sources[plan.offsets[i] + n] \in Slots
    BY <1>1, DecodedPlanFacts DEF FlattenedRight
  <2>2. KernelResult(d, plan, i) \in SUBSET Int
    <3>1. \A n \in DOMAIN Ops[i].sources : d[plan.sources[plan.offsets[i] + n]].payload \in SUBSET Int
      BY <2>1 DEF Buffer
    <3> QED
      BY <3>1, XorIsPayload DEF KernelResult
  <2>3. [d[Ops[i].output] EXCEPT !.payload = KernelResult(d, plan, i)] \in Buffer
    BY <1>1, <2>2, DecodedPlanFacts DEF Buffer
  <2> QED
    BY <2>3
<1>3. h \in [1 .. N -> [D -> D]]
  BY <1>2
<1>4. \A i \in 1 .. N : \A d \in D : h[i][d] = Step(i, d)
  OBVIOUS
<1>5. RunKernels(plan, buffers) = g[N]
  BY DEF RunKernels
<1>6. ASSUME NEW i \in 1 .. N, NEW d \in D
      PROVE  \A s \in Slots : Step(i, d)[s].payload =
                IF s = Ops[i].output THEN KernelResult(d, plan, i) ELSE d[s].payload
  BY DEF Buffer
<1> HIDE DEF h, N, D, Step
<1>7. PICK f : Recursion(f, N, D, buffers, h)
  <2>1. buffers \in D
    BY DEF D
  <2> QED
    BY <1>1, <1>3, <2>1, RecursionExists
<1>8. Rec(f)
  <2>1. \A i \in 1 .. N : f[i - 1] \in D /\ f[i] = Step(i, f[i - 1])
    BY <1>1, <1>4, <1>7 DEF Recursion
  <2> QED
    BY <1>1, <1>7, <2>1 DEF Recursion
<1>9. Rec(g)
  BY <1>8
<1> HIDE DEF g
<1>10. g[0] = buffers /\ \A i \in 1 .. N : g[i] = Step(i, g[i - 1])
  BY <1>1, <1>9
<1>11. 0 \in S
  <2>1. \A s \in AvailableAt(0) : s \in Slots /\ input[s].has_value
    BY DEF AvailableAt
  <2> QED
    BY <1>1, <1>10, <2>1 DEF D
<1>12. ASSUME NEW i \in 1 .. N, i - 1 \in S PROVE i \in S
  <2>1. /\ i \in DOMAIN Ops
        /\ AvailableAt(i) = AvailableAt(i - 1) \cup {Ops[i].output}
        /\ AvailableAt(i - 1) \subseteq Slots
        /\ Ops[i].output \notin AvailableAt(i - 1)
        /\ Ops[i].output \in Slots
        /\ RanSoundly(i)
    BY <1>1, AvailableFacts
  <2>2. g[i - 1] \in D /\ \A s \in AvailableAt(i - 1) : g[i - 1][s].payload = slots[s].payload
    BY <1>12
  <2>3. KernelResult(g[i - 1], plan, i) = slots[Ops[i].output].payload
    <3>1. \A n \in DOMAIN Ops[i].sources : Ops[i].sources[n] \in AvailableAt(i - 1)
      BY <2>1 DEF RanSoundly
    <3> QED
      BY <2>1, <2>2, <3>1, KernelComputes
  <2>4. Step(i, g[i - 1]) \in D
    BY <1>2, <2>2
  <2>5. \A s \in AvailableAt(i) : Step(i, g[i - 1])[s].payload = slots[s].payload
    BY <1>6, <2>1, <2>2, <2>3
  <2> QED
    BY <1>1, <1>10, <2>4, <2>5
<1> HIDE DEF S
<1>13. \A i \in 0 .. N : i \in S
  BY <1>1, <1>11, <1>12, UpTo
<1>14. \A s \in AvailableAt(N) : g[N][s].payload = slots[s].payload
  BY <1>1, <1>13 DEF S
<1>15. \A i \in DOMAIN Ops : Ops[i].output \in AvailableAt(N)
  BY <1>1 DEF AvailableAt
<1> QED
  BY <1>5, <1>14, <1>15

-----------------------------------------------------------------------------
(***************************************************************************)
(* What a step of the host or the device leaves alone.                     *)
(***************************************************************************)
LEMMA CodecStays ==
  ASSUME CodecTypeInv, CodecInv, UNCHANGED <<codecVars, input>>
  PROVE  /\ CodecTypeInv' /\ CodecInv'
         /\ Ops' = Ops /\ Slots' = Slots /\ Required' = Required
<1>1. Ops' = Ops /\ Slots' = Slots /\ UNCHANGED <<decode_plan, slots, next_op, codec_pc>>
  BY DEF Ops, Slots, codecVars
<1>2. Required' = Required
  BY <1>1 DEF Required
<1>3. CodecTypeInv'
  BY <1>1 DEF CodecTypeInv
<1>4. \A i \in 1 .. next_op - 1 : RanSoundly(i)' = RanSoundly(i)
  BY <1>1 DEF RanSoundly, AvailableAt, Decoded
<1>5. next_op <= Len(Ops) => CanExecute(Ops[next_op])' = CanExecute(Ops[next_op])
  BY <1>1 DEF CanExecute, Present
<1>6. CodecInv'
  BY <1>1, <1>4, <1>5 DEF CodecInv
<1> QED
  BY <1>1, <1>2, <1>3, <1>6

\* The parts about stream and context, for a step that changes neither.
LEMMA StreamStays ==
  ASSUME DeviceInv, UNCHANGED <<codecVars, input, context, stream, launches>>
  PROVE  /\ StreamInv' /\ PlanInv' /\ ReadyInv'
         /\ Decoding' = Decoding
<1>1. Ops' = Ops /\ Slots' = Slots /\ Required' = Required /\ slots' = slots /\ codec_pc' = codec_pc
  BY CodecStays DEF DeviceInv, codecVars
<1>2. Decoding' = Decoding
  BY DEF Decoding
<1>3. \A s : Good(s)' = Good(s)
  BY <1>1 DEF Good
<1>4. \A p, s : Filled(p, s)' = Filled(p, s)
  BY <1>1, <1>3 DEF Filled, Writes
<1>5. \A p : Founded(p)' = Founded(p)
  BY <1>1, <1>2, <1>4 DEF Founded
<1>6. StreamInv'
  BY <1>5 DEF DeviceInv, StreamInv
<1>7. PlanInv'
  BY <1>1, <1>2 DEF DeviceInv, PlanInv, FlattenedRight
<1>8. ReadyInv'
  BY <1>1, <1>4 DEF DeviceInv, ReadyInv, FilledAtEnd
<1> QED
  BY <1>2, <1>6, <1>7, <1>8

\* Results only concern the caller's slots.
LEMMA SlotsAndVerdictStay ==
  ASSUME DeviceInv, UNCHANGED <<codecVars, input, shards, verdict, received>>
  PROVE  RefusalsAgree' /\ ResultsMatchCpu' /\ HostShardsGenuine'
<1>1. Slots' = Slots /\ slots' = slots /\ codec_pc' = codec_pc
  BY CodecStays DEF DeviceInv, codecVars
<1> QED
  BY <1>1 DEF DeviceInv, RefusalsAgree, ResultsMatchCpu, HostShardsGenuine

LEMMA CodecStepKeepsDeviceInv ==
  ASSUME DeviceInv, CodecNext, UNCHANGED deviceVars
  PROVE  DeviceInv'
<1>1. CodecTypeInv' /\ CodecInv'
  BY CodecStepKeepsInv DEF DeviceInv, deviceVars
<1>2. codec_pc \in {"start", "run"}
  BY DEF CodecNext, StartDecode, ExecuteOperation, ReturnDecoded
<1>3. /\ verdict = "none" /\ ~received /\ context = NoDecodeContext /\ host_pc = "idle"
      /\ context.kind = "none" /\ stream = <<>> /\ shards = input /\ launches = 0
  BY <1>2 DEF DeviceInv, EarlyInv, NoDecodeContext
<1>4. /\ verdict' = "none" /\ ~received' /\ context' = context /\ host_pc' = "idle"
      /\ stream' = <<>> /\ shards' = input' /\ launches' = 0 /\ outputs' = outputs
      /\ Slots' = Slots
  BY <1>3 DEF deviceVars, Slots
<1>5. NoDecodeContext' = NoDecodeContext
  BY <1>4 DEF NoDecodeContext
<1>6. ContextTypeInv'
  BY <1>4, DeviceAssumption DEF DeviceInv, ContextTypeInv, DecodeContext, deviceVars
<1>7. StreamInv' /\ PlanInv' /\ ReadyInv' /\ StagingInv'
  BY <1>3, <1>4 DEF StreamInv, PlanInv, ReadyInv, StagingInv, Decoding
<1>8. DownloadInv' /\ EarlyInv'
  BY <1>3, <1>4, <1>5 DEF DownloadInv, EarlyInv
<1>9. RefusalsAgree' /\ ResultsMatchCpu' /\ HostShardsGenuine'
  BY <1>4 DEF RefusalsAgree, ResultsMatchCpu, HostShardsGenuine
<1> QED
  BY <1>1, <1>6, <1>7, <1>8, <1>9 DEF DeviceInv

\* Waiting, and returning from it.
LEMMA WaitingKeepsInv ==
  ASSUME DeviceInv,
         UNCHANGED <<input, shards, context, stream, outputs, launches, verdict, received,
                     codecVars>>,
         host_pc' \in {"idle", "synchronizing"}, host_pc \in {"idle", "synchronizing"},
         context.kind # "none" \/ host_pc = "synchronizing"
  PROVE  DeviceInv'
<1>1. CodecTypeInv' /\ CodecInv' /\ Ops' = Ops /\ Slots' = Slots
  BY CodecStays DEF DeviceInv
<1>2. slots' = slots /\ codec_pc' = codec_pc
  BY DEF codecVars
<1>3. ContextTypeInv'
  BY <1>1 DEF DeviceInv, ContextTypeInv, DecodeContext
<1>4. StreamInv' /\ PlanInv' /\ ReadyInv'
  BY StreamStays
<1>5. StagingInv' /\ DownloadInv'
  BY <1>1 DEF DeviceInv, StagingInv, DownloadInv, WordsOf
<1>6. EarlyInv'
  <2>1. codec_pc \notin {"start", "run"}
    BY DEF DeviceInv, EarlyInv, NoDecodeContext
  <2> QED
    BY <1>2, <2>1 DEF DeviceInv, EarlyInv
<1> QED
  BY <1>1, <1>3, <1>4, <1>5, <1>6, SlotsAndVerdictStay DEF DeviceInv

-----------------------------------------------------------------------------
(***************************************************************************)
(* The device executes a command.                                          *)
(***************************************************************************)

\* What a step of the device leaves of the context.
SameContext(c, d) ==
    /\ d.kind = c.kind /\ d.words = c.words /\ d.sources = c.sources /\ d.offsets = c.offsets
    /\ d.staged = c.staged /\ d.returned = c.returned /\ d.finalized = c.finalized
    /\ \A s \in Slots : d.device[s].allocated = c.device[s].allocated

LEMMA TailFacts ==
  ASSUME NEW T, NEW q \in Seq(T), q # <<>>
  PROVE  /\ Head(q) = q[1] /\ 1 \in DOMAIN q
         /\ Tail(q) \in Seq(T) /\ Len(Tail(q)) = Len(q) - 1 /\ Len(q) \in Nat \ {0}
         /\ DOMAIN Tail(q) = 1 .. Len(q) - 1
         /\ \A p \in 1 .. Len(q) - 1 : p + 1 \in DOMAIN q /\ Tail(q)[p] = q[p + 1]
OBVIOUS

\* If executing the first command has made good what it writes and spoilt nothing,
\* the other commands still find what they need.
LEMMA StreamAdvances ==
  ASSUME DeviceInv, UNCHANGED <<codecVars, input, launches>>, stream # <<>>,
         stream' = Tail(stream), SameContext(context, context'),
         \A s \in Slots : Good(s) => Good(s)',
         \A s \in Slots : Writes(stream[1], s) => Good(s)'
  PROVE  StreamInv' /\ PlanInv' /\ ReadyInv'
<1>1. /\ Ops' = Ops /\ Slots' = Slots /\ Required' = Required /\ slots' = slots
      /\ codec_pc' = codec_pc
  BY CodecStays DEF DeviceInv, codecVars
<1>2. Decoding' = Decoding
  BY DEF Decoding, SameContext
<1>3. /\ 1 \in DOMAIN stream /\ Len(stream) \in Nat \ {0}
      /\ Len(stream') = Len(stream) - 1 /\ DOMAIN stream' = 1 .. Len(stream) - 1
      /\ \A p \in 1 .. Len(stream) - 1 : p + 1 \in DOMAIN stream /\ stream'[p] = stream[p + 1]
  BY TailFacts DEF DeviceInv, ContextTypeInv, DecodeContext
<1>5. ASSUME NEW p \in 1 .. Len(stream), NEW s \in Slots, Filled(p + 1, s)
      PROVE  Filled(p, s)'
  <2>1. CASE Good(s)
    BY <2>1 DEF Filled
  <2>2. CASE Writes(stream[1], s)
    BY <2>2 DEF Filled
  <2>3. ASSUME NEW q \in 2 .. p, Writes(stream[q], s)
        PROVE  Filled(p, s)'
    <3>1. q - 1 \in 1 .. p - 1 /\ q - 1 \in 1 .. Len(stream) - 1 /\ (q - 1) + 1 = q
      BY <1>3
    <3>2. stream'[q - 1] = stream[q]
      BY <1>3, <3>1
    <3> QED
      BY <1>1, <2>3, <3>1, <3>2 DEF Filled, Writes
  <2>4. \A q \in 1 .. (p + 1) - 1 : q = 1 \/ q \in 2 .. p
    BY <1>3
  <2> QED
    BY <1>5, <2>1, <2>2, <2>3, <2>4 DEF Filled
<1>6. ASSUME Decoding
      PROVE  \A i \in DOMAIN Ops : /\ Ops[i].output \in Slots
                                   /\ \A n \in DOMAIN Ops[i].sources : Ops[i].sources[n] \in Slots
  BY <1>6, DecodedPlanFacts DEF DeviceInv, PlanInv
<1>7. StreamInv'
  <2> SUFFICES ASSUME NEW p \in 1 .. Len(stream) - 1 PROVE Founded(p)'
    BY <1>3 DEF StreamInv
  <2>1. p + 1 \in DOMAIN stream /\ p \in 1 .. Len(stream) /\ stream'[p] = stream[p + 1]
    BY <1>3
  <2>2. Founded(p + 1)
    BY <2>1 DEF DeviceInv, StreamInv
  <2> QED
    BY <1>1, <1>2, <1>5, <1>6, <2>1, <2>2 DEF Founded
<1>8. PlanInv'
  BY <1>1, <1>2 DEF DeviceInv, PlanInv, FlattenedRight, SameContext
<1>9. \A s \in Slots : FilledAtEnd(s) => FilledAtEnd(s)'
  BY <1>3, <1>5 DEF FilledAtEnd
<1>10. ReadyInv'
  <2>1. CASE context.kind = "prepared"
    <3>1. Decoding
      BY <2>1 DEF Decoding
    <3>2. \A s \in Required : s \in Slots
      BY <1>6, <3>1 DEF Required
    <3> QED
      BY <1>1, <1>6, <1>9, <2>1, <3>1, <3>2 DEF DeviceInv, ReadyInv, SameContext
  <2>2. CASE context.kind # "prepared"
    <3>1. context.returned \subseteq Slots
      BY DEF DeviceInv, ContextTypeInv, DecodeContext
    <3> QED
      BY <1>9, <2>2, <3>1 DEF DeviceInv, ReadyInv, SameContext
  <2> QED
    BY <2>1, <2>2
<1> QED
  BY <1>7, <1>8, <1>10

\* The device writes one buffer.
LEMMA BufferWritten ==
  ASSUME DeviceInv, NEW s \in Slots, NEW payload \in SUBSET Nat, UNCHANGED input,
         context' = [context EXCEPT !.device[s].payload = payload]
  PROVE  /\ SameContext(context, context')
         /\ context'.device[s].payload = payload
         /\ \A t \in Slots : t # s => context'.device[t] = context.device[t]
         /\ context' \in DecodeContext
<1>1. /\ context.device \in [Slots -> Buffer]
      /\ context \in DecodeContext
  BY DEF DeviceInv, ContextTypeInv, DecodeContext
<1> DEFINE b == [context.device[s] EXCEPT !.payload = payload]
           d == [context.device EXCEPT ![s] = b]
<1>2. context.device[s] \in Buffer
  BY <1>1
<1>3. b \in Buffer /\ b.payload = payload /\ b.allocated = context.device[s].allocated
  BY <1>2 DEF Buffer
<1>4. context' = [context EXCEPT !.device = d]
  BY <1>1
<1> HIDE DEF b
<1>5. d \in [Slots -> Buffer] /\ d[s] = b /\ \A t \in Slots : t # s => d[t] = context.device[t]
  BY <1>1, <1>3
<1> HIDE DEF d
<1>6. /\ context'.device = d
      /\ context'.kind = context.kind /\ context'.words = context.words
      /\ context'.sources = context.sources /\ context'.offsets = context.offsets
      /\ context'.staged = context.staged /\ context'.returned = context.returned
      /\ context'.finalized = context.finalized
  BY <1>1, <1>4 DEF DecodeContext
<1>7. \A t \in Slots : context'.device[t].allocated = context.device[t].allocated
  BY <1>3, <1>5, <1>6
<1>8. SameContext(context, context')
  BY <1>6, <1>7 DEF SameContext
<1> QED
  BY <1>1, <1>3, <1>4, <1>5, <1>6, <1>8 DEF DecodeContext

\* The downloads stay the last commands as the stream advances to one of them.
LEMMA DownloadsAdvance ==
  ASSUME DeviceInv, UNCHANGED <<codecVars, input, host_pc, outputs>>, stream # <<>>,
         stream' = Tail(stream), stream[1].kind # "download", Decoding' = Decoding
  PROVE  DownloadInv'
<1>1. Ops' = Ops /\ slots' = slots
  BY DEF codecVars, Ops
<1>2. /\ 1 \in DOMAIN stream /\ Len(stream) \in Nat \ {0}
      /\ Len(stream') = Len(stream) - 1 /\ DOMAIN stream' = 1 .. Len(stream) - 1
      /\ \A p \in 1 .. Len(stream) - 1 : p + 1 \in DOMAIN stream /\ stream'[p] = stream[p + 1]
  BY TailFacts DEF DeviceInv, ContextTypeInv, DecodeContext
<1>3. CASE host_pc # "downloading"
  BY <1>2, <1>3 DEF DeviceInv, DownloadInv
<1>4. CASE host_pc = "downloading"
  <2> DEFINE left == Len(Ops) - Len(outputs)
             before == Len(stream) - left
  <2>1. /\ Decoding
        /\ left \in Nat /\ before \in Nat
        /\ \A p \in DOMAIN stream :
             IF p <= before THEN stream[p].kind # "download"
                            ELSE stream[p] = Download(Len(outputs) + p - before)
        /\ \A i \in DOMAIN outputs : outputs[i] = slots[Ops[i].output].payload
    BY <1>4 DEF DeviceInv, DownloadInv
  <2>2. before # 0
    BY <1>2, <2>1 DEF Download
  <2>3. Len(Ops) \in Nat /\ Len(outputs) \in Nat
    BY PlanTypes DEF DeviceInv, ContextTypeInv, DecodeContext
  <2>4. Len(stream') - left = before - 1 /\ before - 1 \in Nat
    BY <1>2, <2>1, <2>2, <2>3
  <2>5. ASSUME NEW p \in DOMAIN stream'
        PROVE  IF p <= before - 1 THEN stream'[p].kind # "download"
                                  ELSE stream'[p] = Download(Len(outputs) + p - (before - 1))
    <3>1. p + 1 \in DOMAIN stream /\ stream'[p] = stream[p + 1] /\ p \in Nat
      BY <1>2
    <3>2. p <= before - 1 <=> p + 1 <= before
      BY <2>1, <3>1
    <3>3. Len(outputs) + p - (before - 1) = Len(outputs) + (p + 1) - before
      BY <2>1, <2>3, <3>1
    <3> QED
      BY <2>1, <3>1, <3>2, <3>3
  <2> QED
    BY <1>1, <1>4, <2>1, <2>4, <2>5 DEF DownloadInv, Download
<1> QED
  BY <1>3, <1>4

\* A download brings the next output.
LEMMA DownloadBrings ==
  ASSUME DeviceInv, UNCHANGED <<codecVars, input, host_pc, context>>, stream # <<>>,
         stream' = Tail(stream), stream[1].kind = "download",
         outputs' = Append(outputs, context.device[Ops[stream[1].op].output].payload)
  PROVE  DownloadInv' /\ outputs' \in Seq(SUBSET Nat)
<1>1. Ops' = Ops /\ slots' = slots /\ Decoding' = Decoding
  BY DEF codecVars, Ops, Decoding
<1>2. /\ 1 \in DOMAIN stream /\ Len(stream) \in Nat \ {0}
      /\ Len(stream') = Len(stream) - 1 /\ DOMAIN stream' = 1 .. Len(stream) - 1
      /\ \A p \in 1 .. Len(stream) - 1 : p + 1 \in DOMAIN stream /\ stream'[p] = stream[p + 1]
  BY TailFacts DEF DeviceInv, ContextTypeInv, DecodeContext
<1>3. host_pc = "downloading"
  BY <1>2 DEF DeviceInv, DownloadInv
<1> DEFINE left == Len(Ops) - Len(outputs)
           before == Len(stream) - left
           i == Len(outputs) + 1
<1>4. /\ Decoding
      /\ left \in Nat /\ before \in Nat
      /\ \A p \in DOMAIN stream :
           IF p <= before THEN stream[p].kind # "download"
                          ELSE stream[p] = Download(Len(outputs) + p - before)
      /\ \A n \in DOMAIN outputs : outputs[n] = slots[Ops[n].output].payload
  BY <1>3 DEF DeviceInv, DownloadInv
<1>5. Len(Ops) \in Nat /\ Len(outputs) \in Nat /\ outputs \in Seq(SUBSET Nat)
  BY PlanTypes DEF DeviceInv, ContextTypeInv, DecodeContext
<1>6. before = 0
  BY <1>2, <1>4
<1>7. stream[1].op = i
  <2>1. stream[1] = Download(Len(outputs) + 1 - 0)
    BY <1>2, <1>4, <1>6
  <2> QED
    BY <1>5, <2>1 DEF Download
<1>8. i \in DOMAIN Ops /\ Good(Ops[i].output)
  <2>1. Founded(1)
    BY <1>2 DEF DeviceInv, StreamInv
  <2> QED
    BY <1>7, <2>1 DEF Founded, Filled
<1>9. Ops[i].output \in Slots
  BY <1>4, <1>8, DecodedPlanFacts DEF DeviceInv, PlanInv
<1>10. slots[Ops[i].output].payload \in SUBSET Nat
  BY <1>9 DEF DeviceInv, CodecTypeInv, Slot
<1>11. outputs' = Append(outputs, slots[Ops[i].output].payload)
  BY <1>7, <1>8 DEF Good
<1>12. /\ outputs' \in Seq(SUBSET Nat)
       /\ Len(outputs') = Len(outputs) + 1
       /\ \A n \in DOMAIN outputs' : outputs'[n] = slots[Ops[n].output].payload
  <2> HIDE DEF left, before
  <2>1. \A x : x \in SUBSET Nat =>
          /\ Append(outputs, x) \in Seq(SUBSET Nat)
          /\ Len(Append(outputs, x)) = Len(outputs) + 1
          /\ DOMAIN Append(outputs, x) = 1 .. Len(outputs) + 1
          /\ \A n \in 1 .. Len(outputs) : Append(outputs, x)[n] = outputs[n]
          /\ Append(outputs, x)[Len(outputs) + 1] = x
    BY <1>5
  <2>2. /\ outputs' \in Seq(SUBSET Nat)
        /\ Len(outputs') = Len(outputs) + 1
        /\ DOMAIN outputs' = 1 .. Len(outputs) + 1
        /\ \A n \in 1 .. Len(outputs) : outputs'[n] = outputs[n]
        /\ outputs'[i] = slots[Ops[i].output].payload
    BY <1>10, <1>11, <2>1
  <2>3. DOMAIN outputs = 1 .. Len(outputs)
    BY <1>5
  <2>4. \A n \in 1 .. Len(outputs) + 1 : n = i \/ n \in 1 .. Len(outputs)
    BY <1>5
  <2> QED
    BY <1>4, <2>2, <2>3, <2>4
<1>13. /\ Len(Ops) - Len(outputs') = left - 1 /\ left - 1 \in Nat
       /\ Len(stream') - (left - 1) = 0
  BY <1>2, <1>4, <1>5, <1>6, <1>12
<1>14. ASSUME NEW p \in DOMAIN stream'
       PROVE  ~(p <= 0) /\ stream'[p] = Download(Len(outputs') + p - 0)
  <2>1. p + 1 \in DOMAIN stream /\ stream'[p] = stream[p + 1] /\ p \in Nat /\ p >= 1
    BY <1>2
  <2>2. stream[p + 1] = Download(Len(outputs) + (p + 1) - before)
    BY <1>4, <1>6, <2>1
  <2>3. Len(outputs) + (p + 1) - before = Len(outputs') + p - 0
    <3>1. Len(outputs') = Len(outputs) + 1 /\ Len(outputs) \in Nat /\ before = 0 /\ p \in Nat
      BY <1>5, <1>6, <1>12, <2>1
    <3> HIDE DEF before
    <3> QED
      BY <3>1
  <2> QED
    BY <2>1, <2>2, <2>3
<1> HIDE DEF left, before, i
<1>15. /\ Len(Ops') - Len(outputs') \in Nat
       /\ Len(stream') - (Len(Ops') - Len(outputs')) = 0
  BY <1>1, <1>13
<1> DEFINE after == Len(stream') - (Len(Ops') - Len(outputs'))
<1>16. ASSUME NEW p \in DOMAIN stream'
       PROVE  IF p <= after THEN stream'[p].kind # "download"
                            ELSE stream'[p] = Download(Len(outputs') + p - after)
  <2> HIDE DEF after
  <2>1. after = 0
    BY <1>15 DEF after
  <2> QED
    BY <1>14, <2>1
<1>17. DownloadInv'
  <2>1. after \in Nat
    BY <1>15
  <2> HIDE DEF after
  <2>2. host_pc' = "downloading" /\ Decoding'
    BY <1>1, <1>3, <1>4
  <2>3. \A n \in DOMAIN outputs' : outputs'[n] = slots'[Ops'[n].output].payload
    BY <1>1, <1>12
  <2> QED
    BY <1>15, <1>16, <2>1, <2>2, <2>3 DEF DownloadInv, Download, after
<1> QED
  BY <1>12, <1>17

LEMMA DeviceStepKeepsInv ==
  ASSUME DeviceInv, DeviceStep
  PROVE  DeviceInv'
<1> DEFINE c == stream[1]
<1>1. /\ stream # <<>> /\ stream' = Tail(stream) /\ Head(stream) = c
      /\ UNCHANGED <<input, shards, host_pc, launches, verdict, received, codecVars>>
      /\ 1 \in DOMAIN stream /\ stream' \in Seq(Command)
  BY TailFacts DEF DeviceStep, DeviceInv, ContextTypeInv, DecodeContext
<1>2. /\ CodecTypeInv' /\ CodecInv' /\ Ops' = Ops /\ Slots' = Slots /\ slots' = slots
      /\ codec_pc' = codec_pc
  BY <1>1, CodecStays DEF DeviceInv, codecVars
<1>3. Founded(1) /\ \A s : Filled(1, s) <=> Good(s)
  BY <1>1 DEF DeviceInv, StreamInv, Filled
<1>4. context.kind # "none" /\ codec_pc \notin {"start", "run"}
  BY <1>1 DEF DeviceInv, EarlyInv, NoDecodeContext
<1>5. ASSUME SameContext(context, context'),
             context' \in DecodeContext,
             outputs' \in Seq(SUBSET Nat), DownloadInv',
             \A s \in Slots : Good(s) => Good(s)',
             \A s \in Slots : Writes(c, s) => Good(s)'
      PROVE  DeviceInv'
  <2>1. StreamInv' /\ PlanInv' /\ ReadyInv'
    BY <1>1, <1>5, StreamAdvances
  <2>2. ContextTypeInv'
    BY <1>1, <1>2, <1>5 DEF DeviceInv, ContextTypeInv, DecodeContext
  <2>3. StagingInv'
    BY <1>1, <1>2, <1>5 DEF DeviceInv, StagingInv, SameContext, WordsOf
  <2>4. EarlyInv'
    BY <1>1, <1>2, <1>4, <1>5 DEF DeviceInv, EarlyInv, SameContext
  <2>5. RefusalsAgree' /\ ResultsMatchCpu' /\ HostShardsGenuine'
    BY <1>1, SlotsAndVerdictStay
  <2> QED
    BY <1>2, <1>5, <2>1, <2>2, <2>3, <2>4, <2>5 DEF DeviceInv
<1>6. ASSUME NEW s \in Slots, UNCHANGED outputs, c.kind # "download",
             context' = [context EXCEPT !.device[s].payload = slots[s].payload],
             \A t \in Slots : Writes(c, t) => t = s
      PROVE  DeviceInv'
  <2>1. slots[s].payload \in SUBSET Nat
    BY DEF DeviceInv, CodecTypeInv, Slot
  <2>2. /\ SameContext(context, context')
        /\ context'.device[s].payload = slots[s].payload
        /\ \A t \in Slots : t # s => context'.device[t] = context.device[t]
        /\ context' \in DecodeContext
    BY <1>1, <1>6, <2>1, BufferWritten
  <2>3. \A t \in Slots : (Good(t) => Good(t)') /\ (Writes(c, t) => Good(t)')
    BY <1>2, <1>6, <2>2 DEF Good
  <2>4. DownloadInv'
    <3>1. Decoding' = Decoding
      BY <2>2 DEF Decoding, SameContext
    <3> QED
      BY <1>1, <1>6, <3>1, DownloadsAdvance
  <2>5. outputs' \in Seq(SUBSET Nat)
    BY <1>6 DEF DeviceInv, ContextTypeInv, DecodeContext
  <2> QED
    BY <1>5, <2>2, <2>3, <2>4, <2>5
<1>7. CASE c.kind = "upload"
  <2>1. /\ c.shard \in Slots /\ input[c.shard].has_value
        /\ UNCHANGED outputs
        /\ context' = [context EXCEPT !.device[c.shard].payload = input[c.shard].payload]
    BY <1>1, <1>3, <1>7 DEF DeviceStep, Founded
  <2>2. input[c.shard] = slots[c.shard]
    BY <2>1, PresentShards DEF DeviceInv
  <2>3. \A t \in Slots : Writes(c, t) => t = c.shard
    BY <1>7 DEF Writes
  <2> QED
    BY <1>6, <1>7, <2>1, <2>2, <2>3
<1>8. CASE c.kind = "kernel"
  <2>1. /\ Decoding /\ c.op \in DOMAIN Ops
        /\ \A n \in DOMAIN Ops[c.op].sources : Good(Ops[c.op].sources[n])
        /\ UNCHANGED outputs
        /\ context' = [context EXCEPT !.device[Ops[c.op].output].payload =
                                         KernelResult(context.device, context, c.op)]
    BY <1>1, <1>3, <1>8 DEF DeviceStep, Founded
  <2>2. codec_pc = "done" /\ FlattenedRight(context)
    BY <2>1 DEF DeviceInv, PlanInv
  <2>3. KernelResult(context.device, context, c.op) = slots[Ops[c.op].output].payload
    BY <2>1, <2>2, KernelComputes DEF DeviceInv, Good
  <2>4. Ops[c.op].output \in Slots
    BY <2>1, <2>2, DecodedPlanFacts DEF DeviceInv
  <2>5. \A t \in Slots : Writes(c, t) => t = Ops[c.op].output
    BY <1>8 DEF Writes
  <2> QED
    BY <1>6, <1>8, <2>1, <2>3, <2>4, <2>5
<1>9. CASE c.kind = "download"
  <2>1. /\ UNCHANGED context
        /\ outputs' = Append(outputs, context.device[Ops[c.op].output].payload)
    BY <1>1, <1>9 DEF DeviceStep
  <2>2. DownloadInv' /\ outputs' \in Seq(SUBSET Nat)
    BY <1>1, <1>9, <2>1, DownloadBrings
  <2>3. SameContext(context, context')
    BY <2>1 DEF SameContext
  <2>4. \A t \in Slots : (Good(t) => Good(t)') /\ ~Writes(c, t)
    BY <1>2, <1>9, <2>1 DEF Good, Writes
  <2>5. context' \in DecodeContext
    BY <2>1 DEF DeviceInv, ContextTypeInv, DecodeContext
  <2> QED
    BY <1>5, <2>2, <2>3, <2>4, <2>5
<1> QED
  BY <1>3, <1>7, <1>8, <1>9 DEF Founded

-----------------------------------------------------------------------------
(***************************************************************************)
(* The host appends commands to the stream.                                *)
(***************************************************************************)
LEMMA StreamGrows ==
  ASSUME DeviceInv, UNCHANGED <<codecVars, input>>,
         NEW more \in Seq(Command), stream' = stream \o more
  PROVE  /\ stream' \in Seq(Command)
         /\ Len(stream) \in Nat /\ Len(more) \in Nat
         /\ Len(stream') = Len(stream) + Len(more)
         /\ DOMAIN stream' = 1 .. Len(stream) + Len(more)
         /\ \A p \in 1 .. Len(stream) : stream'[p] = stream[p]
         /\ \A i \in 1 .. Len(more) : stream'[Len(stream) + i] = more[i]
         /\ DOMAIN stream = 1 .. Len(stream)
<1>1. stream \in Seq(Command)
  BY DEF DeviceInv, ContextTypeInv
<1> QED
  BY <1>1, Concatenated

\* What has been on its way to the device still is.
LEMMA StillFilled ==
  ASSUME DeviceInv, UNCHANGED <<codecVars, input>>,
         NEW more \in Seq(Command), stream' = stream \o more,
         NEW s, Good(s) => Good(s)'
  PROVE  /\ \A p \in 1 .. Len(stream) : Filled(p, s) => Filled(p, s)'
         /\ FilledAtEnd(s) => \A p \in Nat : p > Len(stream) => Filled(p, s)'
<1>1. Ops' = Ops
  BY CodecStays DEF DeviceInv
<1>2. Len(stream) \in Nat /\ \A p \in 1 .. Len(stream) : stream'[p] = stream[p]
  BY StreamGrows
<1>3. ASSUME NEW p \in Nat, NEW r \in Nat, p <= r, p <= Len(stream) + 1, Filled(p, s)
      PROVE  Filled(r, s)'
  <2>1. CASE Good(s)
    BY <2>1 DEF Filled
  <2>2. ASSUME NEW q \in 1 .. p - 1, Writes(stream[q], s) PROVE Filled(r, s)'
    <3>1. q \in 1 .. r - 1 /\ stream'[q] = stream[q]
      BY <1>2, <1>3
    <3> QED
      BY <1>1, <2>2, <3>1 DEF Filled, Writes
  <2> QED
    BY <1>3, <2>1, <2>2 DEF Filled
<1>4. ASSUME NEW p \in 1 .. Len(stream), Filled(p, s) PROVE Filled(p, s)'
  <2>1. p \in Nat /\ p <= p /\ p <= Len(stream) + 1
    BY <1>2
  <2> QED
    BY <1>3, <1>4, <2>1
<1>5. ASSUME FilledAtEnd(s), NEW p \in Nat, p > Len(stream) PROVE Filled(p, s)'
  <2>1. Len(stream) + 1 \in Nat /\ Len(stream) + 1 <= p /\ Len(stream) + 1 <= Len(stream) + 1
    BY <1>2, <1>5
  <2> QED
    BY <1>3, <1>5, <2>1 DEF FilledAtEnd
<1> QED
  BY <1>4, <1>5

\* The commands that were in the stream find what they need.
LEMMA OldCommandsFounded ==
  ASSUME DeviceInv, UNCHANGED <<codecVars, input>>,
         NEW more \in Seq(Command), stream' = stream \o more,
         Decoding => Decoding' /\ \A s \in Slots : Good(s) => Good(s)'
  PROVE  \A p \in 1 .. Len(stream) : Founded(p)'
<1>1. Ops' = Ops /\ Slots' = Slots
  BY CodecStays DEF DeviceInv
<1> TAKE p \in 1 .. Len(stream)
<1>2. p \in DOMAIN stream /\ stream'[p] = stream[p]
  BY StreamGrows
<1>3. Founded(p)
  BY <1>2 DEF DeviceInv, StreamInv
<1>4. CASE ~Decoding
  BY <1>1, <1>2, <1>3, <1>4 DEF Founded
<1>5. CASE Decoding
  <2>1. \A i \in DOMAIN Ops : /\ Ops[i].output \in Slots
                              /\ \A n \in DOMAIN Ops[i].sources : Ops[i].sources[n] \in Slots
    BY <1>5, DecodedPlanFacts DEF DeviceInv, PlanInv
  <2>2. \A s \in Slots : Filled(p, s) => Filled(p, s)'
    BY <1>5, StillFilled
  <2> QED
    BY <1>1, <1>2, <1>3, <1>5, <2>1, <2>2 DEF Founded
<1> QED
  BY <1>4, <1>5

\* Kernels that are enqueued in the order of the plan find their sources, if the
\* caller's shards are on their way.
LEMMA KernelsFounded ==
  ASSUME DeviceInv, UNCHANGED <<codecVars, input>>, codec_pc = "done", Decoding',
         NEW more \in Seq(Command), stream' = stream \o more, NEW len, len = Len(stream),
         NEW n \in 0 .. Len(Ops), n <= Len(more), \A i \in 1 .. n : more[i] = Kernel(i),
         \A s \in Required :
            input[s].has_value => FilledAtEnd(s) /\ (Good(s) => Good(s)')
  PROVE  /\ \A i \in 1 .. n : Founded(len + i)'
         /\ \A i \in 1 .. n : \A p \in Nat : \A s :
              p > len + i /\ s = Ops[i].output => Filled(p, s)'
<1>1. Ops' = Ops /\ Slots' = Slots
  BY CodecStays DEF DeviceInv
<1>2. /\ len \in Nat /\ Len(more) \in Nat
      /\ \A i \in 1 .. Len(more) : stream'[len + i] = more[i]
  BY StreamGrows
<1>3. DOMAIN Ops = 1 .. Len(Ops) /\ Len(Ops) \in Nat
  BY PlanTypes DEF DeviceInv
<1>4. \A i \in 1 .. n : stream'[len + i] = Kernel(i) /\ i \in DOMAIN Ops
  BY <1>2, <1>3
<1>5. \A i \in 1 .. n : stream'[len + i].kind = "kernel" /\ stream'[len + i].op = i
  <2>1. \A i \in 1 .. n : Kernel(i).kind = "kernel" /\ Kernel(i).op = i
    BY DEF Kernel
  <2> QED
    BY <1>4, <2>1
<1>6. ASSUME NEW i \in 1 .. n, NEW p \in Nat, p > len + i, NEW s, s = Ops[i].output
      PROVE  Filled(p, s)'
  <2>1. len + i \in 1 .. p - 1
    BY <1>2, <1>6
  <2> QED
    BY <1>1, <1>5, <1>6, <2>1 DEF Filled, Writes
<1>7. ASSUME NEW i \in 1 .. n PROVE Founded(len + i)'
  <2>1. i \in DOMAIN Ops /\ len + i \in Nat /\ len + i > len
    BY <1>2, <1>4
  <2>2. ASSUME NEW m \in DOMAIN Ops[i].sources, NEW s, s = Ops[i].sources[m]
        PROVE  Filled(len + i, s)'
    <3>1. CASE input[s].has_value
      <4>1. s \in Required
        BY <2>1, <2>2 DEF Required
      <4>2. FilledAtEnd(s) /\ (Good(s) => Good(s)')
        BY <3>1, <4>1
      <4> QED
        BY <2>1, <4>2, StillFilled
    <3>2. ASSUME NEW j \in 1 .. i - 1, Ops[j].output = s
          PROVE  Filled(len + i, s)'
      <4>1. j \in 1 .. n /\ len + i > len + j
        BY <1>2, <1>3
      <4> QED
        BY <1>6, <2>1, <3>2, <4>1
    <3>3. input[s].has_value \/ \E j \in 1 .. i - 1 : Ops[j].output = s
      BY <2>1, <2>2, DecodedPlanFacts DEF DeviceInv
    <3> QED
      BY <3>1, <3>2, <3>3
  <2> QED
    BY <1>1, <1>5, <2>1, <2>2 DEF Founded
<1> QED
  BY <1>6, <1>7

\* Downloads find the outputs that will be there.
LEMMA DownloadsFounded ==
  ASSUME DeviceInv, UNCHANGED <<codecVars, input>>, Decoding',
         NEW more \in Seq(Command), stream' = stream \o more, NEW len, len = Len(stream),
         NEW n \in Nat, Len(more) = n + Len(Ops),
         \A i \in DOMAIN Ops : more[n + i] = Download(i),
         \A i \in DOMAIN Ops : \A s : s = Ops[i].output => Filled(len + (n + i), s)'
  PROVE  \A i \in DOMAIN Ops : Founded(len + (n + i))'
<1>1. Ops' = Ops /\ Slots' = Slots
  BY CodecStays DEF DeviceInv
<1>2. DOMAIN Ops = 1 .. Len(Ops) /\ Len(Ops) \in Nat
  BY PlanTypes DEF DeviceInv
<1>3. ASSUME NEW i \in DOMAIN Ops PROVE Founded(len + (n + i))'
  <2>1. n + i \in 1 .. Len(more)
    BY <1>2
  <2>2. stream'[len + (n + i)] = Download(i)
    BY <2>1, StreamGrows
  <2>3. stream'[len + (n + i)].kind = "download" /\ stream'[len + (n + i)].op = i
    BY <2>2 DEF Download
  <2> QED
    BY <1>1, <2>3 DEF Founded
<1> QED
  BY <1>1, <1>3

LEMMA SlotsAreNumbers ==
  ASSUME CodecTypeInv
  PROVE  /\ Slots \subseteq Nat /\ Cardinality(Slots) \in Nat
         /\ \A s \in Slots : s < Cardinality(Slots) /\ FreshBuffer(s) \in Buffer
<1>1. Cardinality(Slots) \in Nat
  BY FS_CardinalityType DEF CodecTypeInv
<1>2. Slots = 0 .. Cardinality(Slots) - 1
  BY DEF CodecTypeInv
<1>3. Slots \subseteq Nat /\ \A s \in Slots : s < Cardinality(Slots)
  BY <1>1, <1>2
<1>4. \A s \in Nat : [allocated |-> TRUE, payload |-> {-1 - s}] \in Buffer
  BY DEF Buffer
<1> QED
  BY <1>1, <1>3, <1>4 DEF FreshBuffer

LEMMA CommandSequences ==
  ASSUME CodecTypeInv
  PROVE  /\ Kernels \in Seq(Command) /\ Downloads \in Seq(Command)
         /\ Len(Kernels) = Len(Ops) /\ Len(Downloads) = Len(Ops)
         /\ \A i \in DOMAIN Ops : Kernels[i] = Kernel(i) /\ Downloads[i] = Download(i)
         /\ \A s \in Slots : Upload(s) \in Command
<1>1. DOMAIN Ops = 1 .. Len(Ops) /\ Len(Ops) \in Nat
  BY PlanTypes
<1>2. \A i \in 1 .. Len(Ops) : Kernel(i) \in Command /\ Download(i) \in Command
  BY <1>1 DEF Kernel, Download, Command
<1>3. Slots \subseteq Nat
  BY SlotsAreNumbers
<1>4. \A s \in Slots : Upload(s) \in Command
  BY <1>3 DEF Upload, Command
<1>5. ASSUME NEW f \in [1 .. Len(Ops) -> Command] PROVE f \in Seq(Command) /\ Len(f) = Len(Ops)
  BY <1>1
<1>6. Kernels \in [1 .. Len(Ops) -> Command] /\ Downloads \in [1 .. Len(Ops) -> Command]
  BY <1>1, <1>2 DEF Kernels, Downloads
<1>7. \A i \in DOMAIN Ops : Kernels[i] = Kernel(i) /\ Downloads[i] = Download(i)
  BY DEF Kernels, Downloads
<1> QED
  BY <1>4, <1>5, <1>6, <1>7

\* A position of the longer stream is one of the old ones or one of the new ones.
LEMMA OldOrNew ==
  ASSUME NEW len \in Nat, NEW n \in Nat, NEW p \in 1 .. len + n
  PROVE  p \in 1 .. len \/ \E i \in 1 .. n : p = len + i
<1>1. CASE p <= len
  BY <1>1
<1>2. CASE p > len
  <2>1. p - len \in 1 .. n /\ p = len + (p - len)
    BY <1>2
  <2> QED
    BY <2>1
<1> QED
  BY <1>1, <1>2

\* The host enqueues the first n kernels of a prepared context.
LEMMA PreparedKernelsKeepInv ==
  ASSUME DeviceInv, context.kind = "prepared", host_pc = "idle",
         UNCHANGED <<codecVars, input, shards, context, outputs, verdict, received>>,
         NEW n \in 0 .. Len(Ops), NEW more \in Seq(Command), Len(more) = n,
         \A i \in 1 .. n : more[i] = Kernel(i),
         stream' = stream \o more,
         host_pc' \in {"idle", "synchronizing"},
         launches' = launches \/ (launches' = launches + 1 /\ n = Len(Ops))
  PROVE  DeviceInv'
<1> DEFINE len == Len(stream)
<1>1. /\ CodecTypeInv' /\ CodecInv' /\ Ops' = Ops /\ Slots' = Slots /\ Required' = Required
      /\ slots' = slots /\ codec_pc' = codec_pc
  BY CodecStays DEF DeviceInv, codecVars
<1>2. Decoding /\ Decoding' /\ codec_pc = "done" /\ FlattenedRight(context)
  BY DEF DeviceInv, PlanInv, Decoding
<1>3. /\ stream' \in Seq(Command) /\ len \in Nat
      /\ Len(stream') = len + n /\ DOMAIN stream' = 1 .. len + n
      /\ \A p \in 1 .. len : stream'[p] = stream[p] /\ p \in DOMAIN stream
      /\ \A i \in 1 .. n : stream'[len + i] = Kernel(i)
  BY StreamGrows
<1>4. \A s : Good(s) => Good(s)'
  BY <1>1 DEF Good
<1>5. \A s \in Required : input[s].has_value => FilledAtEnd(s)
  BY DEF DeviceInv, ReadyInv
<1>6. \A i \in DOMAIN Ops : Ops[i].output \in Slots
  BY <1>2, DecodedPlanFacts DEF DeviceInv
<1>7. \A p \in 1 .. len : Founded(p)'
  BY <1>2, <1>4, OldCommandsFounded
<1>8. PICK l : l = Len(stream)
  OBVIOUS
<1>9. /\ \A i \in 1 .. n : Founded(l + i)'
      /\ \A i \in 1 .. n : \A p \in Nat : \A s :
           p > l + i /\ s = Ops[i].output => Filled(p, s)'
  <2>1. UNCHANGED <<codecVars, input>> /\ n <= Len(more)
    BY SMT
  <2>2. \A s \in Required : input[s].has_value => FilledAtEnd(s) /\ (Good(s) => Good(s)')
    BY <1>4, <1>5
  <2> QED
    BY <1>2, <1>8, <2>1, <2>2, KernelsFounded
<1>10. ASSUME NEW p \in 1 .. l + n PROVE p \in 1 .. l \/ \E i \in 1 .. n : p = l + i
  <2>1. l \in Nat /\ n \in Nat
    BY <1>3, <1>8
  <2> QED
    BY <1>10, <2>1, OldOrNew
<1>11. StreamInv'
  <2> SUFFICES ASSUME NEW p \in DOMAIN stream' PROVE Founded(p)'
    BY DEF StreamInv
  <2>1. p \in 1 .. l + n
    BY <1>3, <1>8
  <2> QED
    BY <1>7, <1>8, <1>9, <1>10, <2>1
<1>12. ContextTypeInv'
  BY <1>1, <1>3 DEF DeviceInv, ContextTypeInv, DecodeContext
<1>13. PlanInv'
  BY <1>1, <1>2 DEF PlanInv, FlattenedRight
<1>14. \A s : FilledAtEnd(s) => FilledAtEnd(s)'
  <2> TAKE s
  <2> HAVE FilledAtEnd(s)
  <2>1. PICK e : e = Len(stream') + 1
    OBVIOUS
  <2>2. e \in Nat /\ e > Len(stream)
    BY <1>3, <2>1
  <2>3. Filled(e, s)'
    BY <1>4, <2>2, StillFilled
  <2> QED
    BY <2>1, <2>3 DEF FilledAtEnd, Filled
<1>15. ASSUME n = Len(Ops), NEW i \in DOMAIN Ops, NEW s, s = Ops[i].output PROVE FilledAtEnd(s)'
  <2>1. PICK e : e = Len(stream') + 1
    OBVIOUS
  <2>2. e \in Nat /\ i \in 1 .. n /\ e > l + i
    BY <1>3, <1>8, <1>15, <2>1, PlanTypes DEF DeviceInv
  <2>3. Filled(e, s)'
    BY <1>9, <1>15, <2>2
  <2> QED
    BY <2>1, <2>3 DEF FilledAtEnd, Filled
<1>16. ReadyInv'
  <2>1. launches' > 0 => launches > 0 \/ n = Len(Ops)
    BY DEF DeviceInv, ContextTypeInv
  <2>2. launches > 0 => \A i \in DOMAIN Ops : FilledAtEnd(Ops[i].output)
    BY DEF DeviceInv, ReadyInv
  <2>3. launches' > 0 => \A i \in DOMAIN Ops : \A s : s = Ops[i].output => FilledAtEnd(s)'
    BY <1>14, <1>15, <2>1, <2>2
  <2>4. \A s \in Required : input'[s].has_value => FilledAtEnd(s)'
    BY <1>5, <1>14
  <2> QED
    BY <1>1, <2>3, <2>4 DEF ReadyInv
<1>17. StagingInv' /\ EarlyInv'
  BY <1>1, <1>2 DEF StagingInv, EarlyInv
<1>18. DownloadInv'
  <2>1. \A i \in 1 .. n : Kernel(i).kind # "download"
    BY DEF Kernel
  <2>2. \A p \in DOMAIN stream : stream[p].kind # "download"
    BY DEF DeviceInv, DownloadInv
  <2>3. \A p \in DOMAIN stream' : stream'[p].kind # "download"
    BY <1>3, <1>8, <1>10, <2>1, <2>2
  <2> QED
    BY <2>3 DEF DownloadInv
<1> QED
  BY <1>1, <1>11, <1>12, <1>13, <1>16, <1>17, <1>18, SlotsAndVerdictStay DEF DeviceInv

LEMMA LaunchKeepsInv ==
  ASSUME DeviceInv, NEW after \in {"idle", "synchronizing"}, Launch(after)
  PROVE  DeviceInv'
<1>1. /\ Kernels \in Seq(Command) /\ Len(Kernels) = Len(Ops)
      /\ Len(Ops) \in Nat
      /\ \A i \in 1 .. Len(Ops) : Kernels[i] = Kernel(i)
  BY CommandSequences, PlanTypes DEF DeviceInv
<1>2. /\ context.kind = "prepared" /\ host_pc = "idle"
      /\ UNCHANGED <<codecVars, input, shards, context, outputs, verdict, received>>
      /\ stream' = stream \o Kernels /\ host_pc' \in {"idle", "synchronizing"}
      /\ launches' = launches + 1
  BY DEF Launch, Idle
<1>3. Len(Ops) \in 0 .. Len(Ops)
  BY <1>1
<1> QED
  BY <1>1, <1>2, <1>3, PreparedKernelsKeepInv

LEMMA LaunchFailsKeepsInv ==
  ASSUME DeviceInv, LaunchFails
  PROVE  DeviceInv'
<1>1. /\ Kernels \in Seq(Command) /\ Len(Kernels) = Len(Ops) /\ Len(Ops) \in Nat
      /\ \A i \in 1 .. Len(Ops) : Kernels[i] = Kernel(i)
  BY CommandSequences, PlanTypes DEF DeviceInv
<1>2. PICK n \in 0 .. Len(Ops) - 1 : stream' = stream \o SubSeq(Kernels, 1, n)
  BY DEF LaunchFails
<1>3. /\ context.kind = "prepared" /\ host_pc = "idle"
      /\ UNCHANGED <<codecVars, input, shards, context, outputs, verdict, received>>
      /\ host_pc' \in {"idle", "synchronizing"} /\ launches' = launches
  BY DEF LaunchFails, Idle
<1>4. ASSUME NEW q \in Seq(Command), Len(q) = Len(Ops)
      PROVE  /\ SubSeq(q, 1, n) \in Seq(Command) /\ Len(SubSeq(q, 1, n)) = n
             /\ \A i \in 1 .. n : SubSeq(q, 1, n)[i] = q[i]
  BY <1>1, <1>4
<1>5. /\ SubSeq(Kernels, 1, n) \in Seq(Command) /\ Len(SubSeq(Kernels, 1, n)) = n
      /\ \A i \in 1 .. n : SubSeq(Kernels, 1, n)[i] = Kernel(i)
      /\ n \in 0 .. Len(Ops)
  BY <1>1, <1>4
<1> QED
  BY <1>2, <1>3, <1>5, PreparedKernelsKeepInv

\* A call issues its downloads last.
LEMMA DownloadsIssued ==
  ASSUME CodecTypeInv, UNCHANGED codecVars, NEW q \in Seq(Command),
         \A p \in DOMAIN q : q[p].kind # "download",
         stream' = q \o Downloads, outputs' = <<>>, host_pc' = "downloading", Decoding'
  PROVE  DownloadInv'
<1>1. Ops' = Ops
  BY DEF codecVars, Ops
<1>2. /\ Downloads \in Seq(Command) /\ Len(Downloads) = Len(Ops) /\ Len(Ops) \in Nat
      /\ \A i \in 1 .. Len(Ops) : Downloads[i] = Download(i)
  BY CommandSequences, PlanTypes
<1>3. /\ Len(stream') = Len(q) + Len(Ops) /\ Len(q) \in Nat
      /\ DOMAIN stream' = 1 .. Len(q) + Len(Ops) /\ DOMAIN q = 1 .. Len(q)
      /\ \A p \in 1 .. Len(q) : stream'[p] = q[p]
      /\ \A i \in 1 .. Len(Ops) : stream'[Len(q) + i] = Download(i)
  <2>1. Len(q) \in Nat /\ DOMAIN q = 1 .. Len(q)
    OBVIOUS
  <2>2. /\ Len(q \o Downloads) = Len(q) + Len(Downloads)
        /\ DOMAIN (q \o Downloads) = 1 .. Len(q) + Len(Downloads)
        /\ \A p \in 1 .. Len(q) : (q \o Downloads)[p] = q[p]
        /\ \A i \in 1 .. Len(Downloads) : (q \o Downloads)[Len(q) + i] = Downloads[i]
    <3>1. Downloads \in Seq(Command)
      BY <1>2
    <3> QED
      BY <3>1, Concatenated
  <2> QED
    BY <1>2, <2>1, <2>2, Zenon
<1> DEFINE before == Len(stream') - (Len(Ops') - Len(outputs'))
<1>4. Len(outputs') = 0
  OBVIOUS
<1>5. before = Len(q) /\ Len(Ops') - Len(outputs') \in Nat
  BY <1>1, <1>2, <1>3, <1>4
<1>6. ASSUME NEW p \in DOMAIN stream'
      PROVE  IF p <= before THEN stream'[p].kind # "download"
                            ELSE stream'[p] = Download(Len(outputs') + p - before)
  <2> HIDE DEF before
  <2>1. CASE p <= Len(q)
    BY <1>3, <1>5, <2>1
  <2>2. CASE ~(p <= Len(q))
    <3>1. p - Len(q) \in 1 .. Len(Ops) /\ Len(q) + (p - Len(q)) = p
      BY <1>2, <1>3, <2>2
    <3>2. Len(outputs') + p - before = p - Len(q)
      BY <1>3, <1>4, <1>5
    <3>3. stream'[p] = Download(p - Len(q))
      BY <1>3, <3>1
    <3> QED
      BY <1>5, <2>2, <3>2, <3>3
  <2> QED
    BY <2>1, <2>2
<1>7. before \in Nat
  BY <1>3, <1>5
<1>8. \A i \in DOMAIN outputs' : outputs'[i] = slots'[Ops'[i].output].payload
  BY DEF Ops
<1> HIDE DEF before
<1> QED
  BY <1>5, <1>6, <1>7, <1>8 DEF DownloadInv, Download, before

LEMMA DownloadResultsKeepsInv ==
  ASSUME DeviceInv, DownloadResults
  PROVE  DeviceInv'
<1>1. /\ context.kind = "prepared" /\ host_pc = "idle" /\ launches > 0
      /\ UNCHANGED <<input, shards, context, launches, verdict, received, codecVars>>
      /\ stream' = stream \o Downloads /\ outputs' = <<>> /\ host_pc' = "downloading"
  BY DEF DownloadResults, Idle
<1>2. /\ CodecTypeInv' /\ CodecInv' /\ Ops' = Ops /\ Slots' = Slots /\ Required' = Required
      /\ slots' = slots /\ codec_pc' = codec_pc
  BY <1>1, CodecStays DEF DeviceInv, codecVars
<1>3. Decoding /\ Decoding' /\ codec_pc = "done" /\ FlattenedRight(context)
  BY <1>1 DEF DeviceInv, PlanInv, Decoding
<1>4. /\ Downloads \in Seq(Command) /\ Len(Downloads) = Len(Ops) /\ Len(Ops) \in Nat
      /\ DOMAIN Ops = 1 .. Len(Ops)
      /\ \A i \in DOMAIN Ops : Downloads[i] = Download(i)
  BY CommandSequences, PlanTypes DEF DeviceInv
<1>5. PICK l : l = Len(stream)
  OBVIOUS
<1>6. /\ stream' \in Seq(Command) /\ l \in Nat /\ stream \in Seq(Command)
      /\ Len(stream') = l + Len(Ops) /\ DOMAIN stream' = 1 .. l + Len(Ops)
  BY <1>1, <1>4, <1>5, StreamGrows DEF DeviceInv, ContextTypeInv
<1>7. \A s : Good(s) => Good(s)'
  BY <1>1, <1>2 DEF Good
<1>8. \A p \in 1 .. l : Founded(p)'
  BY <1>1, <1>3, <1>4, <1>5, <1>7, OldCommandsFounded
<1>9. ASSUME NEW s, FilledAtEnd(s), NEW p \in Nat, p > l PROVE Filled(p, s)'
  <2>1. Good(s) => Good(s)'
    BY <1>7
  <2> QED
    BY <1>1, <1>4, <1>5, <1>9, <2>1, StillFilled
<1>10. \A i \in DOMAIN Ops : FilledAtEnd(Ops[i].output)
  BY <1>1 DEF DeviceInv, ReadyInv
<1>11. \A i \in DOMAIN Ops : Founded(l + (0 + i))'
  <2>1. \A i \in DOMAIN Ops : \A s : s = Ops[i].output => Filled(l + (0 + i), s)'
    <3> TAKE i \in DOMAIN Ops
    <3> TAKE s
    <3> HAVE s = Ops[i].output
    <3>1. l + (0 + i) \in Nat /\ l + (0 + i) > l
      BY <1>4, <1>6
    <3>2. FilledAtEnd(s)
      BY <1>10
    <3> QED
      BY <1>9, <3>1, <3>2
  <2>2. 0 \in Nat /\ Len(Downloads) = 0 + Len(Ops)
    BY <1>4
  <2>3. \A i \in DOMAIN Ops : Downloads[0 + i] = Download(i)
    BY <1>4
  <2>4. UNCHANGED <<codecVars, input>>
    BY <1>1
  <2> QED
    BY <1>1, <1>3, <1>4, <1>5, <2>1, <2>2, <2>3, <2>4, DownloadsFounded
<1>12. StreamInv'
  <2> SUFFICES ASSUME NEW p \in DOMAIN stream' PROVE Founded(p)'
    BY DEF StreamInv
  <2>1. p \in 1 .. l \/ \E i \in 1 .. Len(Ops) : p = l + i
    <3>1. p \in 1 .. l + Len(Ops)
      BY <1>6
    <3> QED
      BY <1>4, <1>6, <3>1, OldOrNew
  <2>2. \A i \in 1 .. Len(Ops) : l + i = l + (0 + i)
    BY <1>4, <1>6
  <2> QED
    BY <1>4, <1>8, <1>11, <2>1, <2>2
<1>13. DownloadInv'
  <2>1. \A p \in DOMAIN stream : stream[p].kind # "download"
    BY <1>1 DEF DeviceInv, DownloadInv
  <2>2. UNCHANGED codecVars
    BY <1>1
  <2> QED
    BY <1>1, <1>3, <1>6, <2>1, <2>2, DownloadsIssued DEF DeviceInv
<1>14. \A s : FilledAtEnd(s) => FilledAtEnd(s)'
  <2> TAKE s
  <2> HAVE FilledAtEnd(s)
  <2>1. PICK e : e = Len(stream') + 1
    OBVIOUS
  <2>2. e \in Nat /\ e > l
    BY <1>4, <1>6, <2>1
  <2>3. Filled(e, s)'
    BY <1>9, <2>2
  <2> QED
    BY <2>1, <2>3 DEF FilledAtEnd, Filled
<1>15. ReadyInv'
  <2>1. \A i \in DOMAIN Ops : \A s : s = Ops[i].output => FilledAtEnd(s)'
    BY <1>10, <1>14
  <2>2. \A s \in Required : input'[s].has_value => FilledAtEnd(s)'
    BY <1>1, <1>14 DEF DeviceInv, ReadyInv
  <2> QED
    BY <1>1, <1>2, <2>1, <2>2 DEF ReadyInv
<1>16. ContextTypeInv'
  <2>1. <<>> \in Seq(SUBSET Nat)
    OBVIOUS
  <2> QED
    BY <1>1, <1>2, <1>6, <2>1 DEF DeviceInv, ContextTypeInv, DecodeContext
<1>17. PlanInv' /\ StagingInv' /\ EarlyInv'
  BY <1>1, <1>2, <1>3 DEF PlanInv, FlattenedRight, StagingInv, EarlyInv
<1> QED
  BY <1>1, <1>2, <1>12, <1>13, <1>15, <1>16, <1>17, SlotsAndVerdictStay DEF DeviceInv

-----------------------------------------------------------------------------
(***************************************************************************)
(* Results reach the caller, or not.                                       *)
(***************************************************************************)

\* Moving outputs that are the CPU's to the caller's slots makes them the CPU's.
LEMMA OutputsMoved ==
  ASSUME CodecTypeInv, CodecInv, codec_pc = "done", HostShardsGenuine,
         shards \in [Slots -> Slot],
         NEW n \in 0 .. Len(Ops), NEW words, NEW results,
         \A i \in DOMAIN Ops : /\ words[Ops[i].output] = slots[Ops[i].output].words
                               /\ results[i] = slots[Ops[i].output].payload
  PROVE  /\ WithOutputs(n, words, results) \in [Slots -> Slot]
         /\ \A s \in Slots : WithOutputs(n, words, results)[s] \in {shards[s], slots[s]}
         /\ n = Len(Ops) => WithOutputs(n, words, results) = slots
<1> DEFINE moved == WithOutputs(n, words, results)
<1>1. DOMAIN Ops = 1 .. Len(Ops) /\ Len(Ops) \in Nat
  BY PlanTypes
<1>2. slots \in [Slots -> Slot]
  BY DEF CodecTypeInv
<1>3. \A i \in 1 .. n : i \in DOMAIN Ops
  BY <1>1
<1>4. ASSUME NEW i \in 1 .. n, NEW s, s = Ops[i].output, s \in Slots
      PROVE  moved[s] = slots[s]
  <2> DEFINE k == CHOOSE j \in 1 .. n : Ops[j].output = s
  <2>1. k \in 1 .. n /\ Ops[k].output = s
    BY <1>4
  <2>2. moved[s] = Shard(words[s], results[k])
    BY <1>4 DEF WithOutputs
  <2> HIDE DEF k
  <2>3. words[s] = slots[s].words /\ results[k] = slots[s].payload
    BY <1>3, <2>1
  <2>4. slots[s].has_value /\ slots[s] \in Slot
    BY <1>2, <1>3, <1>4, DecodedPlanFacts
  <2> QED
    BY <2>2, <2>3, <2>4 DEF Shard, Slot
<1>5. ASSUME NEW s \in Slots, \A i \in 1 .. n : Ops[i].output # s
      PROVE  moved[s] = shards[s]
  BY <1>5 DEF WithOutputs
<1>6. \A s \in Slots : moved[s] \in {shards[s], slots[s]}
  BY <1>4, <1>5
<1>7. moved = [s \in Slots |-> moved[s]]
  BY DEF WithOutputs
<1> HIDE DEF moved
<1>8. moved \in [Slots -> Slot]
  <2>1. \A s \in Slots : moved[s] \in Slot
    BY <1>2, <1>6
  <2> QED
    BY <1>7, <2>1
<1>9. ASSUME n = Len(Ops) PROVE moved = slots
  <2>1. ASSUME NEW s \in Slots PROVE moved[s] = slots[s]
    <3>1. CASE \E i \in 1 .. n : Ops[i].output = s
      BY <1>4, <3>1
    <3>2. CASE \A i \in 1 .. n : Ops[i].output # s
      <4>1. next_op - 1 = n
        BY <1>1, <1>9 DEF CodecInv, CodecTypeInv
      <4>2. slots[s] = input[s]
        BY <3>2, <4>1 DEF CodecInv
      <4> QED
        BY <1>5, <3>2, <4>2 DEF HostShardsGenuine
    <3> QED
      BY <3>1, <3>2
  <2> QED
    BY <1>2, <1>8, <2>1
<1> QED
  BY <1>6, <1>8, <1>9 DEF moved

LEMMA ResultsArriveKeepsInv ==
  ASSUME DeviceInv, ResultsArrive
  PROVE  DeviceInv'
<1>1. /\ host_pc = "downloading" /\ stream = <<>> /\ stream' = <<>>
      /\ shards' = WithOutputs(Len(Ops), context.words, outputs)
      /\ context' = [context EXCEPT !.staged = [s \in Slots |-> NoShard]]
      /\ host_pc' \in {"idle", "ended"}
      /\ UNCHANGED <<input, outputs, launches, verdict, codecVars>>
  BY DEF ResultsArrive
<1>2. /\ CodecTypeInv' /\ CodecInv' /\ Ops' = Ops /\ Slots' = Slots /\ Required' = Required
      /\ slots' = slots /\ codec_pc' = codec_pc
  BY <1>1, CodecStays DEF DeviceInv, codecVars
<1>3. /\ Decoding /\ Len(Ops) - Len(outputs) \in Nat
      /\ Len(stream) - (Len(Ops) - Len(outputs)) \in Nat
      /\ \A i \in DOMAIN outputs : outputs[i] = slots[Ops[i].output].payload
  BY <1>1 DEF DeviceInv, DownloadInv
<1>4. codec_pc = "done" /\ FlattenedRight(context)
  BY <1>3 DEF DeviceInv, PlanInv
<1>5. \A i \in DOMAIN Ops : outputs[i] = slots[Ops[i].output].payload
  <2>1. Len(Ops) \in Nat /\ DOMAIN Ops = 1 .. Len(Ops)
    BY PlanTypes DEF DeviceInv
  <2>2. Len(outputs) \in Nat /\ DOMAIN outputs = 1 .. Len(outputs)
    BY DEF DeviceInv, ContextTypeInv
  <2>3. Len(stream) = 0
    BY <1>1
  <2>4. Len(Ops) = Len(outputs)
    <3>1. \A a, b \in Nat : a - b \in Nat /\ 0 - (a - b) \in Nat => a = b
      OBVIOUS
    <3>2. 0 - (Len(Ops) - Len(outputs)) \in Nat
      BY <1>3, <2>3, Zenon
    <3> QED
      BY <1>3, <2>1, <2>2, <3>1, <3>2, Zenon
  <2> QED
    BY <1>3, <2>1, <2>2, <2>4
<1>6. shards' \in [Slots -> Slot] /\ shards' = slots
  <2>1. Len(Ops) \in 0 .. Len(Ops)
    <3>1. Len(Ops) \in Nat
      BY PlanTypes DEF DeviceInv
    <3> QED
      BY <3>1
  <2>2. \A i \in DOMAIN Ops : context.words[Ops[i].output] = slots[Ops[i].output].words
    BY <1>4 DEF FlattenedRight
  <2>3. shards \in [Slots -> Slot]
    BY DEF DeviceInv, ContextTypeInv
  <2> QED
    BY <1>1, <1>4, <1>5, <2>1, <2>2, <2>3, OutputsMoved DEF DeviceInv
<1>7. /\ context' \in DecodeContext
      /\ context'.kind = context.kind /\ context'.finalized = context.finalized
      /\ context'.device = context.device /\ context'.words = context.words
      /\ context'.sources = context.sources /\ context'.offsets = context.offsets
      /\ context'.returned = context.returned
  <2>1. context \in DecodeContext
    BY DEF DeviceInv, ContextTypeInv
  <2>2. [s \in Slots |-> NoShard] \in [Slots -> Slot]
    BY DEF NoShard, Slot
  <2> QED
    BY <1>1, <2>1, <2>2 DEF DecodeContext
<1>8. Decoding' /\ StagingInv'
  BY <1>3, <1>7 DEF Decoding, StagingInv
<1>9. ContextTypeInv'
  <2>1. <<>> \in Seq(Command)
    OBVIOUS
  <2> QED
    BY <1>1, <1>2, <1>6, <1>7, <2>1 DEF DeviceInv, ContextTypeInv, DecodeContext
<1>10. StreamInv' /\ DownloadInv'
  BY <1>1 DEF StreamInv, DownloadInv
<1>11. PlanInv'
  BY <1>2, <1>4, <1>7 DEF PlanInv, FlattenedRight
<1>12. ReadyInv'
  <2>1. \A s : Good(s)' = Good(s)
    BY <1>2, <1>7 DEF Good
  <2>2. \A s : FilledAtEnd(s)' = FilledAtEnd(s)
    BY <1>1, <2>1 DEF FilledAtEnd, Filled
  <2> QED
    BY <1>1, <1>2, <1>7, <2>2 DEF DeviceInv, ReadyInv
<1>13. EarlyInv'
  BY <1>1, <1>2, <1>3, <1>4, <1>7 DEF DeviceInv, EarlyInv, Decoding
<1>14. RefusalsAgree' /\ ResultsMatchCpu' /\ HostShardsGenuine'
  BY <1>1, <1>2, <1>4, <1>6
  DEF DeviceInv, RefusalsAgree, ResultsMatchCpu, HostShardsGenuine
<1> QED
  BY <1>2, <1>8, <1>9, <1>10, <1>11, <1>12, <1>13, <1>14 DEF DeviceInv

LEMMA PrefixFacts ==
  ASSUME NEW T, NEW q \in Seq(T), NEW n \in 0 .. Len(q)
  PROVE  /\ SubSeq(q, 1, n) \in Seq(T) /\ Len(SubSeq(q, 1, n)) = n
         /\ DOMAIN SubSeq(q, 1, n) = 1 .. n
         /\ \A i \in 1 .. n : SubSeq(q, 1, n)[i] = q[i] /\ i \in DOMAIN q
OBVIOUS

LEMMA ResultsFailKeepsInv ==
  ASSUME DeviceInv, ResultsFail
  PROVE  DeviceInv'
<1>1. /\ host_pc = "downloading" /\ host_pc' \in {"idle", "ended"}
      /\ UNCHANGED <<input, shards, context, outputs, launches, verdict, received, codecVars>>
  BY DEF ResultsFail
<1>2. PICK n \in 0 .. Len(stream) :
        /\ \A i \in DOMAIN stream : i <= n <=> stream[i].kind # "download"
        /\ stream' = SubSeq(stream, 1, n)
  BY DEF ResultsFail, DropDownloads
<1>3. /\ CodecTypeInv' /\ CodecInv' /\ Ops' = Ops /\ Slots' = Slots /\ Required' = Required
      /\ slots' = slots /\ codec_pc' = codec_pc
  BY <1>1, CodecStays DEF DeviceInv, codecVars
<1>4. /\ stream' \in Seq(Command) /\ Len(stream') = n /\ DOMAIN stream' = 1 .. n
      /\ \A i \in 1 .. n : stream'[i] = stream[i] /\ i \in DOMAIN stream
  BY <1>2, PrefixFacts DEF DeviceInv, ContextTypeInv
<1>5. Decoding' = Decoding /\ \A s : Good(s)' = Good(s)
  BY <1>1, <1>3 DEF Decoding, Good
<1>6. Decoding /\ codec_pc = "done" /\ FlattenedRight(context)
  BY <1>1 DEF DeviceInv, DownloadInv, PlanInv
<1>7. ASSUME NEW p \in 1 .. n, NEW s, Filled(p, s) PROVE Filled(p, s)'
  <2>1. \A q \in 1 .. p - 1 : q \in 1 .. n
    OBVIOUS
  <2> QED
    BY <1>3, <1>4, <1>5, <1>7, <2>1 DEF Filled, Writes
<1>8. StreamInv'
  <2> SUFFICES ASSUME NEW p \in 1 .. n PROVE Founded(p)'
    BY <1>4 DEF StreamInv
  <2>1. Founded(p) /\ stream'[p] = stream[p]
    BY <1>4 DEF DeviceInv, StreamInv
  <2> QED
    BY <1>1, <1>3, <1>5, <1>7, <2>1 DEF Founded
<1>9. ASSUME NEW s, FilledAtEnd(s) PROVE FilledAtEnd(s)'
  <2>1. CASE Good(s)
    BY <1>5, <2>1 DEF FilledAtEnd, Filled
  <2>2. ASSUME NEW q \in 1 .. (Len(stream) + 1) - 1, Writes(stream[q], s)
        PROVE  FilledAtEnd(s)'
    <3>1. q \in DOMAIN stream
      BY DEF DeviceInv, ContextTypeInv
    <3>2. stream[q].kind # "download"
      BY <2>2 DEF Writes
    <3>3. q \in 1 .. n
      BY <1>2, <3>1, <3>2
    <3>4. PICK e : e = Len(stream') + 1
      OBVIOUS
    <3>5. q \in 1 .. e - 1 /\ stream'[q] = stream[q]
      BY <1>4, <3>3, <3>4
    <3>6. Filled(e, s)'
      BY <1>3, <2>2, <3>5 DEF Filled, Writes
    <3> QED
      BY <3>4, <3>6 DEF FilledAtEnd, Filled
  <2> QED
    BY <1>9, <2>1, <2>2 DEF FilledAtEnd, Filled
<1>10. ReadyInv'
  <2>1. \A s \in Required : input'[s].has_value => (FilledAtEnd(s) => FilledAtEnd(s)')
    BY <1>9
  <2>2. \A i \in DOMAIN Ops : \A s : s = Ops[i].output => (FilledAtEnd(s) => FilledAtEnd(s)')
    BY <1>9
  <2>3. \A s \in context.returned : FilledAtEnd(s) => FilledAtEnd(s)'
    BY <1>9
  <2> QED
    BY <1>1, <1>3, <2>1, <2>2, <2>3 DEF DeviceInv, ReadyInv
<1>11. DownloadInv'
  BY <1>1, <1>2, <1>4 DEF DownloadInv
<1>12. ContextTypeInv'
  BY <1>1, <1>3, <1>4 DEF DeviceInv, ContextTypeInv, DecodeContext
<1>13. PlanInv' /\ StagingInv' /\ EarlyInv'
  BY <1>1, <1>3, <1>5, <1>6
  DEF DeviceInv, PlanInv, FlattenedRight, StagingInv, EarlyInv, Decoding
<1> QED
  BY <1>1, <1>3, <1>8, <1>10, <1>11, <1>12, <1>13, SlotsAndVerdictStay DEF DeviceInv

-----------------------------------------------------------------------------
(***************************************************************************)
(* The one-shot decoder.                                                   *)
(***************************************************************************)

\* The device's checks come to the CPU's verdict.
LEMMA PlanVerdict ==
  ASSUME CodecTypeInv, CodecInv, codec_pc \in {"done", "throw"}, shards = input
  PROVE  /\ PlanAccepted => codec_pc = "done"
         /\ ~PlanAccepted => \/ codec_pc = "throw"
                             \/ \E s \in Slots : input[s].has_value /\ input[s].words = 0
         /\ ValidatePlanShape(decode_plan) /\ Ops = <<>> => codec_pc = "done"
<1>1. WordsOf(shards) = WordsOf(input)
  BY DEF WordsOf
<1>2. NoEmptyShard <=> InputNotEmpty
  BY DEF NoEmptyShard, InputNotEmpty
<1>3. PlanAccepted => codec_pc = "done"
  BY <1>1, <1>2, ScanVerdict DEF PlanAccepted
<1>4. codec_pc = "done" /\ NoEmptyShard => PlanAccepted
  BY <1>1, ScanVerdict DEF PlanAccepted, CodecInv
<1>5. ValidatePlanShape(decode_plan) /\ Ops = <<>> => codec_pc = "done"
  <2>1. Ops = <<>> => Len(Ops) = 0
    OBVIOUS
  <2>2. Ops = <<>> => ~(next_op <= Len(Ops))
    BY <2>1 DEF CodecTypeInv
  <2> QED
    BY <2>2 DEF CodecInv
<1> QED
  BY <1>2, <1>3, <1>4, <1>5 DEF InputNotEmpty

\* A decode that changes only the caller's slots and the histories.
LEMMA OneShotKeepsInv ==
  ASSUME DeviceInv, Idle, context.kind = "none", host_pc' = "ended",
         UNCHANGED <<input, context, stream, outputs, launches, codecVars>>,
         shards' \in [Slots -> Slot],
         RefusalsAgree', ResultsMatchCpu', HostShardsGenuine'
  PROVE  DeviceInv'
<1>1. /\ CodecTypeInv' /\ CodecInv' /\ Ops' = Ops /\ Slots' = Slots
      /\ codec_pc' = codec_pc /\ codec_pc \notin {"start", "run"}
  BY CodecStays DEF DeviceInv, codecVars, Idle
<1>2. StreamInv' /\ PlanInv' /\ ReadyInv'
  BY StreamStays
<1>3. ContextTypeInv'
  BY <1>1 DEF DeviceInv, ContextTypeInv, DecodeContext
<1>4. StagingInv' /\ EarlyInv' /\ DownloadInv'
  BY <1>1 DEF DeviceInv, StagingInv, EarlyInv, DownloadInv
<1> QED
  BY <1>1, <1>2, <1>3, <1>4 DEF DeviceInv

LEMMA RunDecodePlanKeepsInv ==
  ASSUME DeviceInv, RunDecodePlan
  PROVE  DeviceInv'
<1>1. /\ Idle /\ context.kind = "none" /\ host_pc' = "ended"
      /\ UNCHANGED <<input, context, stream, outputs, launches, codecVars>>
  BY DEF RunDecodePlan
<1>2. /\ shards = input /\ codec_pc \in {"done", "throw"}
      /\ Slots' = Slots /\ slots' = slots /\ codec_pc' = codec_pc
      /\ shards \in [Slots -> Slot]
  <2>1. shards = input /\ codec_pc \in {"done", "throw"}
    BY <1>1 DEF DeviceInv, EarlyInv, Idle
  <2> QED
    BY <1>1, <2>1, CodecStays DEF DeviceInv, codecVars, ContextTypeInv
<1> DEFINE refuse == ~ValidatePlanShape(decode_plan) \/ (Ops # <<>> /\ ~PlanAccepted)
           plan == ScanPlan(WordsOf(shards))
           buffers == [s \in Slots |-> IF shards[s].has_value
                         THEN [allocated |-> TRUE, payload |-> shards[s].payload]
                         ELSE FreshBuffer(s)]
           computed == RunKernels(plan, buffers)
           results == [i \in DOMAIN Ops |-> computed[Ops[i].output].payload]
<1>3. CASE refuse
  <2>1. verdict' = "refused" /\ UNCHANGED <<shards, received>>
    BY <1>3 DEF RunDecodePlan
  <2>2. \/ codec_pc = "throw"
        \/ \E s \in Slots : input[s].has_value /\ input[s].words = 0
    <3>1. codec_pc = "done" => ValidatePlanShape(decode_plan)
      BY DEF DeviceInv, CodecInv
    <3> QED
      BY <1>2, <1>3, <3>1, PlanVerdict DEF DeviceInv
  <2>3. RefusalsAgree' /\ ResultsMatchCpu' /\ HostShardsGenuine'
    BY <1>1, <1>2, <2>1, <2>2
    DEF DeviceInv, RefusalsAgree, ResultsMatchCpu, HostShardsGenuine
  <2> QED
    BY <1>1, <1>2, <2>1, <2>3, OneShotKeepsInv
<1>4. CASE ~refuse
  <2>1. verdict' = "accepted"
    BY <1>4 DEF RunDecodePlan
  <2>2. PICK n \in IF CudaFaults THEN 0 .. Len(Ops) ELSE {Len(Ops)} :
          shards' = WithOutputs(n, plan.words, results) /\ received' = (n = Len(Ops))
    BY <1>4 DEF RunDecodePlan
  <2>3. codec_pc = "done"
    BY <1>2, <1>4, PlanVerdict DEF DeviceInv
  <2>4. FlattenedRight(plan)
    BY <1>2, <2>3, ScanVerdict DEF DeviceInv
  <2> HIDE DEF plan
  <2>5. buffers \in [Slots -> Buffer]
    <3>1. \A s \in Slots : FreshBuffer(s) \in Buffer
      BY SlotsAreNumbers DEF DeviceInv
    <3>2. \A s \in Slots : [allocated |-> TRUE, payload |-> shards[s].payload] \in Buffer
      BY <1>2 DEF Buffer, Slot
    <3> QED
      BY <3>1, <3>2
  <2>6. \A s \in Slots : input[s].has_value => buffers[s].payload = slots[s].payload
    BY <1>2, PresentShards DEF DeviceInv
  <2> HIDE DEF buffers
  <2>7. \A i \in DOMAIN Ops : computed[Ops[i].output].payload = slots[Ops[i].output].payload
    BY <2>3, <2>4, <2>5, <2>6, KernelsComputePlan DEF DeviceInv
  <2> HIDE DEF computed
  <2>8. \A i \in DOMAIN Ops : /\ plan.words[Ops[i].output] = slots[Ops[i].output].words
                              /\ results[i] = slots[Ops[i].output].payload
    BY <2>4, <2>7 DEF FlattenedRight
  <2>9. n \in 0 .. Len(Ops)
    <3>1. Len(Ops) \in Nat
      BY PlanTypes DEF DeviceInv
    <3> QED
      BY <3>1
  <2> HIDE DEF results
  <2>10. /\ shards' \in [Slots -> Slot]
         /\ \A s \in Slots : shards'[s] \in {shards[s], slots[s]}
         /\ n = Len(Ops) => shards' = slots
    BY <1>2, <2>2, <2>3, <2>8, <2>9, OutputsMoved DEF DeviceInv
  <2>11. RefusalsAgree' /\ ResultsMatchCpu' /\ HostShardsGenuine'
    BY <1>1, <1>2, <2>1, <2>2, <2>3, <2>10
    DEF RefusalsAgree, ResultsMatchCpu, HostShardsGenuine
  <2> QED
    BY <1>1, <2>10, <2>11, OneShotKeepsInv
<1> QED
  BY <1>3, <1>4

-----------------------------------------------------------------------------
(***************************************************************************)
(* Preparing a context.                                                    *)
(***************************************************************************)
LEMMA RequiredFacts ==
  ASSUME CodecTypeInv, CodecInv, codec_pc = "done"
  PROVE  /\ Required \subseteq Slots
         /\ \A i \in DOMAIN Ops : Ops[i].output \in Required
<1>1. \A i \in DOMAIN Ops : /\ Ops[i].output \in Slots
                            /\ \A n \in DOMAIN Ops[i].sources : Ops[i].sources[n] \in Slots
  BY DecodedPlanFacts
<1> QED
  BY <1>1 DEF Required

\* No context is made: the CPU's verdict, if there is one, is repeated.
LEMMA NotPreparedKeepsInv ==
  ASSUME DeviceInv, Idle, context.kind = "none", host_pc' = "ended",
         UNCHANGED <<input, shards, context, stream, outputs, launches, received, codecVars>>,
         verdict' = verdict \/ (verdict' = "refused" /\ ~PlanAccepted)
  PROVE  DeviceInv'
<1>1. /\ shards = input /\ codec_pc \in {"done", "throw"} /\ shards \in [Slots -> Slot]
  BY DEF DeviceInv, EarlyInv, Idle, ContextTypeInv
<1>2. Slots' = Slots /\ slots' = slots /\ codec_pc' = codec_pc
  BY CodecStays DEF DeviceInv, codecVars
<1>3. verdict' # verdict => \/ codec_pc = "throw"
                            \/ \E s \in Slots : input[s].has_value /\ input[s].words = 0
  BY <1>1, PlanVerdict DEF DeviceInv
<1>4. RefusalsAgree' /\ ResultsMatchCpu' /\ HostShardsGenuine'
  BY <1>2, <1>3 DEF DeviceInv, RefusalsAgree, ResultsMatchCpu, HostShardsGenuine
<1> QED
  BY <1>1, <1>4, OneShotKeepsInv

LEMMA PrepareKeepsInv ==
  ASSUME DeviceInv, Prepare
  PROVE  DeviceInv'
<1>1. /\ Idle /\ context.kind = "none"
      /\ UNCHANGED <<input, shards, outputs, launches, received, codecVars>>
  BY DEF Prepare
<1>2. CASE UNCHANGED <<context, stream>> /\ host_pc' = "ended"
            /\ (verdict' = verdict \/ (verdict' = "refused" /\ ~PlanAccepted))
  BY <1>1, <1>2, NotPreparedKeepsInv
<1> DEFINE plan == ScanPlan(WordsOf(shards))
<1>3. ASSUME PlanAccepted, verdict' = "accepted", host_pc' = "synchronizing",
             context' = [NoDecodeContext EXCEPT
                           !.kind = "prepared", !.words = plan.words,
                           !.sources = plan.sources, !.offsets = plan.offsets,
                           !.device = [s \in Slots |-> IF s \in Required
                                         THEN FreshBuffer(s) ELSE NoBuffer]],
             NEW q \in [1 .. Cardinality(ToUpload) -> ToUpload],
             InUploadOrder(q), stream' = [i \in DOMAIN q |-> Upload(q[i])]
      PROVE  DeviceInv'
  <2>1. shards = input /\ codec_pc = "done"
    <3>1. shards = input /\ codec_pc \in {"done", "throw"}
      BY <1>1 DEF DeviceInv, EarlyInv, Idle
    <3> QED
      BY <1>3, <3>1, PlanVerdict DEF DeviceInv
  <2>2. /\ CodecTypeInv' /\ CodecInv' /\ Ops' = Ops /\ Slots' = Slots /\ Required' = Required
        /\ slots' = slots /\ codec_pc' = codec_pc
    BY <1>1, CodecStays DEF DeviceInv, codecVars
  <2>3. plan \in Scan /\ FlattenedRight(plan)
    BY <2>1, ScanVerdict DEF DeviceInv
  <2> HIDE DEF plan
  <2>4. /\ context'.kind = "prepared" /\ context'.words = plan.words
        /\ context'.sources = plan.sources /\ context'.offsets = plan.offsets
        /\ context' \in DecodeContext
    <3> DEFINE d == [s \in Slots |-> IF s \in Required THEN FreshBuffer(s) ELSE NoBuffer]
    <3>1. d \in [Slots -> Buffer]
      <4>1. \A s \in Slots : FreshBuffer(s) \in Buffer
        BY SlotsAreNumbers DEF DeviceInv
      <4>2. NoBuffer \in Buffer
        BY DEF NoBuffer, Buffer
      <4> QED
        BY <4>1, <4>2
    <3>2. [s \in Slots |-> NoShard] \in [Slots -> Slot]
      BY DEF NoShard, Slot
    <3> HIDE DEF d
    <3>3. context' = [kind |-> "prepared", words |-> plan.words, device |-> d,
                      sources |-> plan.sources, offsets |-> plan.offsets,
                      staged |-> [s \in Slots |-> NoShard], returned |-> {},
                      finalized |-> FALSE]
      BY <1>3 DEF NoDecodeContext, d
    <3> QED
      BY <2>3, <3>1, <3>2, <3>3 DEF DecodeContext, Scan
  <2>5. /\ ToUpload \subseteq Slots /\ Cardinality(ToUpload) \in Nat
        /\ \A s \in ToUpload : input[s].has_value
        /\ \A s \in Required : input[s].has_value => s \in ToUpload
    <3>1. ToUpload \subseteq Slots
      BY <2>1, RequiredFacts DEF DeviceInv, ToUpload
    <3>2. IsFiniteSet(ToUpload)
      BY <3>1, FS_Subset DEF DeviceInv, CodecTypeInv
    <3> QED
      BY <2>1, <3>1, <3>2, FS_CardinalityType DEF ToUpload
  <2>6. PICK m \in Nat : m = Cardinality(ToUpload)
    BY <2>5
  <2>7. /\ stream' = [i \in 1 .. m |-> Upload(q[i])]
        /\ \A i \in 1 .. m : q[i] \in ToUpload
        /\ \A s \in ToUpload : \E i \in 1 .. m : s = q[i]
    BY <1>3, <2>6 DEF InUploadOrder
  <2>8. \A i \in 1 .. m : Upload(q[i]) \in Command
    BY <2>5, <2>7, CommandSequences DEF DeviceInv
  <2>9. /\ stream' \in Seq(Command) /\ Len(stream') = m /\ DOMAIN stream' = 1 .. m
        /\ \A i \in 1 .. m : stream'[i] = Upload(q[i])
    <3>1. \A f \in [1 .. m -> Command] : f \in Seq(Command) /\ Len(f) = m /\ DOMAIN f = 1 .. m
      OBVIOUS
    <3>2. stream' \in [1 .. m -> Command]
      BY <2>7, <2>8
    <3> QED
      BY <2>7, <3>1, <3>2
  <2>10. \A i \in 1 .. m : stream'[i].kind = "upload" /\ stream'[i].shard = q[i]
    <3>1. \A s : Upload(s).kind = "upload" /\ Upload(s).shard = s
      BY DEF Upload
    <3> QED
      BY <2>9, <3>1
  <2>11. StreamInv'
    <3> SUFFICES ASSUME NEW p \in 1 .. m PROVE Founded(p)'
      BY <2>9 DEF StreamInv
    <3>1. q[p] \in Slots /\ input[q[p]].has_value
      BY <2>5, <2>7
    <3> QED
      BY <1>1, <2>2, <2>10, <3>1 DEF Founded
  <2>12. ASSUME NEW s \in Required, input[s].has_value PROVE FilledAtEnd(s)'
    <3>1. PICK i \in 1 .. m : s = q[i]
      BY <2>5, <2>7, <2>12
    <3>2. i \in 1 .. (m + 1) - 1
      OBVIOUS
    <3>3. Filled(m + 1, s)'
      BY <2>10, <3>1, <3>2 DEF Filled, Writes
    <3>4. PICK e : e = Len(stream') + 1
      OBVIOUS
    <3> QED
      BY <2>9, <3>3, <3>4 DEF FilledAtEnd, Filled
  <2>13. ReadyInv'
    <3>1. launches' = 0
      BY <1>1 DEF DeviceInv, EarlyInv
    <3> QED
      BY <1>1, <2>2, <2>4, <2>12, <3>1 DEF ReadyInv
  <2>14. PlanInv'
    BY <2>1, <2>2, <2>3, <2>4 DEF PlanInv, FlattenedRight
  <2>15. ContextTypeInv'
    BY <1>1, <2>2, <2>4, <2>9 DEF DeviceInv, ContextTypeInv, DecodeContext
  <2>16. DownloadInv'
    BY <1>3, <2>9, <2>10 DEF DownloadInv
  <2>17. StagingInv' /\ EarlyInv'
    BY <2>1, <2>2, <2>4 DEF StagingInv, EarlyInv
  <2>18. RefusalsAgree' /\ ResultsMatchCpu' /\ HostShardsGenuine'
    BY <1>1, <1>3, <2>1, <2>2
    DEF DeviceInv, RefusalsAgree, ResultsMatchCpu, HostShardsGenuine
  <2> QED
    BY <2>2, <2>11, <2>13, <2>14, <2>15, <2>16, <2>17, <2>18 DEF DeviceInv
<1> QED
  BY <1>2, <1>3 DEF Prepare

-----------------------------------------------------------------------------
(***************************************************************************)
(* The staging context, before it has a plan.                              *)
(***************************************************************************)
LEMMA CreateStagingContextKeepsInv ==
  ASSUME DeviceInv, CreateStagingContext
  PROVE  DeviceInv'
<1>1. /\ Idle /\ context.kind = "none"
      /\ context' = [NoDecodeContext EXCEPT !.kind = "staging"]
      /\ UNCHANGED <<input, shards, stream, host_pc, outputs, launches, verdict, received,
                     codecVars>>
  BY DEF CreateStagingContext
<1>2. /\ CodecTypeInv' /\ CodecInv' /\ Ops' = Ops /\ Slots' = Slots
      /\ slots' = slots /\ codec_pc' = codec_pc
  BY <1>1, CodecStays DEF DeviceInv, codecVars
<1>3. /\ stream' = <<>> /\ shards' = input' /\ launches' = 0 /\ host_pc' = "idle"
      /\ codec_pc' \notin {"start", "run"}
  BY <1>1, <1>2 DEF DeviceInv, EarlyInv, Idle
<1>4. /\ context'.kind = "staging" /\ ~context'.finalized /\ context'.returned = {}
      /\ context'.words = [s \in Slots |-> 0]
      /\ context'.staged = [s \in Slots |-> NoShard]
      /\ context' \in DecodeContext
  <2>1. NoBuffer \in Buffer /\ NoShard \in Slot
    BY DEF NoBuffer, Buffer, NoShard, Slot
  <2>2. context' = [kind |-> "staging", words |-> [s \in Slots |-> 0],
                    device |-> [s \in Slots |-> NoBuffer], sources |-> <<>>, offsets |-> <<>>,
                    staged |-> [s \in Slots |-> NoShard], returned |-> {},
                    finalized |-> FALSE]
    BY <1>1 DEF NoDecodeContext
  <2> QED
    BY <2>1, <2>2 DEF DecodeContext
<1>5. ContextTypeInv'
  BY <1>1, <1>2, <1>4 DEF DeviceInv, ContextTypeInv, DecodeContext
<1>6. StreamInv' /\ PlanInv' /\ ReadyInv' /\ DownloadInv' /\ EarlyInv'
  BY <1>3, <1>4 DEF StreamInv, PlanInv, Decoding, ReadyInv, DownloadInv, EarlyInv
<1>7. StagingInv'
  <2>1. \A s \in Slots : context'.staged[s] = NoShard /\ context'.staged[s].words = 0
    BY <1>4 DEF NoShard
  <2>2. [s \in Slots |-> context'.staged[s].words] = [s \in Slots |-> 0]
    BY <2>1
  <2> QED
    BY <1>2, <1>3, <1>4, <2>1, <2>2 DEF StagingInv, WordsOf
<1> QED
  BY <1>1, <1>2, <1>5, <1>6, <1>7, SlotsAndVerdictStay DEF DeviceInv

\* A staging context without a plan has only uploads in its stream.
LEMMA OnlyUploads ==
  ASSUME DeviceInv, context.kind = "staging", ~context.finalized
  PROVE  ~Decoding /\ \A p \in DOMAIN stream : stream[p].kind = "upload"
<1>1. ~Decoding
  BY DEF Decoding
<1> QED
  BY <1>1 DEF DeviceInv, StreamInv, Founded

\* A shard is recorded, and uploaded if nothing fails.
LEMMA ShardStagedKeepsInv ==
  ASSUME DeviceInv, NEW s \in Slots, CanStage(s),
         UNCHANGED <<input, shards, host_pc, outputs, launches, verdict, received, codecVars>>,
         context' \in DecodeContext, context'.kind = "staging", ~context'.finalized,
         context'.words[s] = shards[s].words, context'.staged[s] = shards[s],
         \A t \in Slots : t # s => /\ context'.words[t] = context.words[t]
                                  /\ context'.staged[t] = context.staged[t]
                                  /\ context'.device[t] = context.device[t],
         NEW more \in {<<>>, <<Upload(s)>>}, stream' = stream \o more,
         \/ context'.returned = context.returned
         \/ /\ context'.returned = context.returned \cup {s}
            /\ context'.device[s].allocated
            /\ more = <<Upload(s)>>
  PROVE  DeviceInv'
<1>1. /\ host_pc = "idle" /\ codec_pc \notin {"start", "run"} /\ context.kind = "staging"
      /\ ~context.finalized /\ shards[s].has_value /\ shards[s].words # 0
      /\ ~context.device[s].allocated
  BY DEF CanStage, Idle
<1>2. /\ CodecTypeInv' /\ CodecInv' /\ Ops' = Ops /\ Slots' = Slots
      /\ slots' = slots /\ codec_pc' = codec_pc /\ UNCHANGED <<codecVars, input>>
  BY CodecStays DEF DeviceInv, codecVars
<1>3. ~Decoding /\ ~Decoding' /\ \A p \in DOMAIN stream : stream[p].kind = "upload"
  BY <1>1, OnlyUploads DEF Decoding
<1>4. shards = input /\ context \in DecodeContext
  BY <1>1 DEF DeviceInv, StagingInv, ContextTypeInv
<1>5. /\ more \in Seq(Command)
      /\ \A i \in 1 .. Len(more) : more[i] = Upload(s)
      /\ more = <<Upload(s)>> => 1 \in 1 .. Len(more)
  <2>1. Upload(s) \in Command
    BY CommandSequences DEF DeviceInv
  <2>2. \A c \in Command : /\ <<c>> \in Seq(Command) /\ Len(<<c>>) = 1
                           /\ \A i \in 1 .. 1 : <<c>>[i] = c
    OBVIOUS
  <2>3. /\ <<Upload(s)>> \in Seq(Command) /\ Len(<<Upload(s)>>) = 1
        /\ \A i \in 1 .. 1 : <<Upload(s)>>[i] = Upload(s)
    BY <2>1, <2>2, Zenon
  <2>4. /\ <<>> \in Seq(Command) /\ Len(<<>>) = 0
    OBVIOUS
  <2>5. CASE more = <<>>
    BY <2>4, <2>5
  <2>6. CASE more = <<Upload(s)>>
    BY <2>3, <2>6
  <2> QED
    BY <2>5, <2>6
<1>6. PICK l : l = Len(stream)
  OBVIOUS
<1>7. /\ stream' \in Seq(Command) /\ l \in Nat /\ Len(more) \in Nat
      /\ Len(stream') = l + Len(more) /\ DOMAIN stream' = 1 .. l + Len(more)
      /\ \A p \in 1 .. l : stream'[p] = stream[p] /\ p \in DOMAIN stream
      /\ \A i \in 1 .. Len(more) : stream'[l + i] = Upload(s)
  BY <1>2, <1>5, <1>6, StreamGrows
<1>8. \A p \in DOMAIN stream' : stream'[p].kind = "upload" /\ Founded(p)'
  <2> TAKE p \in DOMAIN stream'
  <2>1. p \in 1 .. l \/ \E i \in 1 .. Len(more) : p = l + i
    BY <1>7, OldOrNew
  <2>2. CASE p \in 1 .. l
    BY <1>2, <1>3, <1>5, <1>6, <1>7, <2>2, OldCommandsFounded
  <2>3. CASE \E i \in 1 .. Len(more) : p = l + i
    <3>1. stream'[p] = Upload(s)
      BY <1>7, <2>3
    <3>2. stream'[p].kind = "upload" /\ stream'[p].shard = s
      BY <3>1 DEF Upload
    <3> QED
      BY <1>1, <1>2, <1>4, <3>2 DEF Founded
  <2> QED
    BY <2>1, <2>2, <2>3
<1>9. \A t \in context.returned : t \in Slots /\ t # s /\ context.device[t].allocated /\ FilledAtEnd(t)
  BY <1>1, <1>4 DEF DeviceInv, ReadyInv, DecodeContext
<1>10. PICK e : e = Len(stream') + 1
  OBVIOUS
<1>11. e \in Nat /\ e > l
  BY <1>7, <1>10
<1>12. \A t : Filled(e, t)' => FilledAtEnd(t)'
  BY <1>10 DEF FilledAtEnd, Filled
<1>13. ASSUME NEW t \in context.returned PROVE context'.device[t].allocated /\ FilledAtEnd(t)'
  <2>1. context'.device[t] = context.device[t]
    BY <1>9
  <2>2. Good(t) => Good(t)'
    BY <1>2, <2>1 DEF Good
  <2>3. Filled(e, t)'
    BY <1>2, <1>5, <1>6, <1>9, <1>11, <2>2, StillFilled
  <2> QED
    BY <1>9, <1>12, <2>1, <2>3
<1>14. ASSUME more = <<Upload(s)>> PROVE FilledAtEnd(s)'
  <2>1. 1 \in 1 .. Len(more)
    BY <1>5, <1>14
  <2>2. stream'[l + 1] = Upload(s) /\ l + 1 \in 1 .. e - 1
    BY <1>7, <1>10, <2>1
  <2>3. stream'[l + 1].kind = "upload" /\ stream'[l + 1].shard = s
    BY <2>2 DEF Upload
  <2>4. Filled(e, s)'
    BY <2>2, <2>3 DEF Filled, Writes
  <2> QED
    BY <1>12, <2>4
<1>15. ReadyInv'
  BY <1>13, <1>14 DEF ReadyInv
<1>16. StagingInv'
  <2>1. /\ context.words = WordsOf(context.staged)
        /\ context.staged \in [Slots -> Slot] /\ context.words \in [Slots -> Nat]
        /\ \A t \in Slots :
             \/ t \notin context.returned /\ context.staged[t] = NoShard
             \/ context.staged[t] = input[t] /\ input[t].has_value /\ input[t].words # 0
    BY <1>1, <1>4 DEF DeviceInv, StagingInv, DecodeContext
  <2>2. \A t \in Slots :
          /\ t = s => context'.staged[t] = shards[s] /\ context'.words[t] = shards[s].words
          /\ t # s => /\ context'.staged[t] = context.staged[t]
                      /\ context'.words[t] = context.words[t]
                      /\ (t \in context'.returned <=> t \in context.returned)
    BY <2>1
  <2>3. \A t \in Slots : context'.words[t] = context'.staged[t].words
    BY <2>1, <2>2 DEF WordsOf
  <2>4. context'.words = [t \in Slots |-> context'.words[t]]
    BY <1>2 DEF DecodeContext
  <2>5. context'.words = [t \in Slots |-> context'.staged[t].words]
    BY <2>3, <2>4
  <2>6. \A t \in Slots :
          \/ t \notin context'.returned /\ context'.staged[t] = NoShard
          \/ context'.staged[t] = input[t] /\ input[t].has_value /\ input[t].words # 0
    BY <1>1, <1>4, <2>1, <2>2
  <2> QED
    BY <1>2, <1>4, <2>5, <2>6 DEF StagingInv, WordsOf
<1>17. ContextTypeInv'
  BY <1>2, <1>7 DEF DeviceInv, ContextTypeInv, DecodeContext
<1>18. StreamInv' /\ DownloadInv'
  BY <1>1, <1>8 DEF StreamInv, DownloadInv
<1>19. PlanInv' /\ EarlyInv'
  BY <1>1, <1>2, <1>3 DEF DeviceInv, PlanInv, EarlyInv
<1> QED
  BY <1>2, <1>15, <1>16, <1>17, <1>18, <1>19, SlotsAndVerdictStay DEF DeviceInv

\* What a staging call leaves of the context.
WithStaged(c, s, shard, buffer, returned) ==
    [c EXCEPT !.staged[s] = shard, !.words[s] = shard.words, !.device[s] = buffer,
              !.returned = returned]

LEMMA StagedContext ==
  ASSUME DeviceInv, NEW s \in Slots, NEW shard \in Slot, NEW buffer \in Buffer,
         NEW returned \in SUBSET Slots,
         context' = WithStaged(context, s, shard, buffer, returned)
  PROVE  /\ context' \in DecodeContext
         /\ context'.kind = context.kind /\ context'.finalized = context.finalized
         /\ context'.words[s] = shard.words /\ context'.staged[s] = shard
         /\ \A t \in Slots : t # s => /\ context'.words[t] = context.words[t]
                                      /\ context'.staged[t] = context.staged[t]
                                      /\ context'.device[t] = context.device[t]
         /\ context'.device[s] = buffer
         /\ context'.returned = returned
<1>1. context \in DecodeContext
  BY DEF DeviceInv, ContextTypeInv
<1>2. shard.words \in Nat
  BY DEF Slot
<1> DEFINE w == [context.words EXCEPT ![s] = shard.words]
           g == [context.staged EXCEPT ![s] = shard]
           d == [context.device EXCEPT ![s] = buffer]
<1>3. /\ w \in [Slots -> Nat] /\ g \in [Slots -> Slot]
      /\ w[s] = shard.words /\ g[s] = shard
      /\ \A t \in Slots : t # s => w[t] = context.words[t] /\ g[t] = context.staged[t]
  BY <1>1, <1>2 DEF DecodeContext
<1>4. d \in [Slots -> Buffer] /\ d[s] = buffer /\ \A t \in Slots : t # s => d[t] = context.device[t]
  BY <1>1 DEF DecodeContext
<1>5. context' = [context EXCEPT !.staged = g, !.words = w, !.device = d, !.returned = returned]
  BY <1>1 DEF DecodeContext, WithStaged
<1> HIDE DEF w, g, d
<1>6. /\ context' \in DecodeContext
      /\ context'.kind = context.kind /\ context'.finalized = context.finalized
      /\ context'.words = w /\ context'.staged = g /\ context'.device = d
      /\ context'.returned = returned
  BY <1>1, <1>3, <1>4, <1>5 DEF DecodeContext
<1> QED
  BY <1>3, <1>4, <1>6

LEMMA StageShardKeepsInv ==
  ASSUME DeviceInv, NEW s \in Slots, StageShard(s)
  PROVE  DeviceInv'
<1>1. /\ CanStage(s)
      /\ context' = [context EXCEPT !.staged[s] = shards[s], !.words[s] = shards[s].words,
                                    !.device[s] = FreshBuffer(s), !.returned = @ \cup {s}]
      /\ stream' = Append(stream, Upload(s))
      /\ UNCHANGED <<input, shards, host_pc, outputs, launches, verdict, received, codecVars>>
  BY DEF StageShard
<1>2. /\ shards[s] \in Slot /\ FreshBuffer(s) \in Buffer
      /\ context.returned \cup {s} \in SUBSET Slots /\ stream \in Seq(Command)
  BY SlotsAreNumbers DEF DeviceInv, ContextTypeInv, DecodeContext
<1>3. /\ context' \in DecodeContext
      /\ context'.kind = context.kind /\ context'.finalized = context.finalized
      /\ context'.words[s] = shards[s].words /\ context'.staged[s] = shards[s]
      /\ \A t \in Slots : t # s => /\ context'.words[t] = context.words[t]
                                   /\ context'.staged[t] = context.staged[t]
                                   /\ context'.device[t] = context.device[t]
      /\ context'.device[s] = FreshBuffer(s)
      /\ context'.returned = context.returned \cup {s}
  <2>1. PICK returned : returned = context.returned \cup {s}
    OBVIOUS
  <2>2. context' = WithStaged(context, s, shards[s], FreshBuffer(s), returned)
    BY <1>1, <2>1 DEF WithStaged
  <2>3. returned \in SUBSET Slots
    BY <1>2, <2>1
  <2>4. /\ context' \in DecodeContext
        /\ context'.kind = context.kind /\ context'.finalized = context.finalized
        /\ context'.words[s] = shards[s].words /\ context'.staged[s] = shards[s]
        /\ \A t \in Slots : t # s => /\ context'.words[t] = context.words[t]
                                     /\ context'.staged[t] = context.staged[t]
                                     /\ context'.device[t] = context.device[t]
        /\ context'.device[s] = FreshBuffer(s)
        /\ context'.returned = returned
    <3>1. shards[s] \in Slot /\ FreshBuffer(s) \in Buffer
      BY <1>2
    <3> QED
      BY <2>2, <2>3, <3>1, StagedContext
  <2> QED
    BY <2>1, <2>4
<1>4. context'.device[s].allocated /\ context.kind = "staging" /\ ~context.finalized
  BY <1>1, <1>3 DEF FreshBuffer, CanStage
<1>5. stream' = stream \o <<Upload(s)>>
  <2>1. Upload(s) \in Command
    BY CommandSequences DEF DeviceInv
  <2>2. \A q \in Seq(Command) : \A c \in Command : Append(q, c) = q \o <<c>>
    OBVIOUS
  <2> QED
    BY <1>1, <1>2, <2>1, <2>2, Zenon
<1> QED
  BY <1>1, <1>3, <1>4, <1>5, ShardStagedKeepsInv

LEMMA StageShardFailsKeepsInv ==
  ASSUME DeviceInv, NEW s \in Slots, StageShardFails(s)
  PROVE  DeviceInv'
<1>1. /\ CanStage(s)
      /\ UNCHANGED <<input, shards, host_pc, outputs, launches, verdict, received, codecVars>>
  BY DEF StageShardFails
<1>2. PICK allocated, issued \in BOOLEAN :
        /\ context' = [context EXCEPT !.staged[s] = shards[s], !.words[s] = shards[s].words,
                           !.device[s] = IF allocated THEN FreshBuffer(s) ELSE NoBuffer]
        /\ stream' = IF issued THEN Append(stream, Upload(s)) ELSE stream
  BY DEF StageShardFails
<1> DEFINE buffer == IF allocated THEN FreshBuffer(s) ELSE NoBuffer
<1>3. /\ shards[s] \in Slot /\ buffer \in Buffer /\ stream \in Seq(Command)
      /\ context.returned \in SUBSET Slots
  <2>1. NoBuffer \in Buffer
    BY DEF NoBuffer, Buffer
  <2> QED
    BY <2>1, SlotsAreNumbers DEF DeviceInv, ContextTypeInv, DecodeContext
<1> HIDE DEF buffer
<1>4. context' = WithStaged(context, s, shards[s], buffer, context.returned)
  <2>1. context \in DecodeContext
    BY DEF DeviceInv, ContextTypeInv
  <2> QED
    BY <1>2, <2>1 DEF DecodeContext, buffer, WithStaged
<1>5. /\ context' \in DecodeContext
      /\ context'.kind = context.kind /\ context'.finalized = context.finalized
      /\ context'.words[s] = shards[s].words /\ context'.staged[s] = shards[s]
      /\ \A t \in Slots : t # s => /\ context'.words[t] = context.words[t]
                                   /\ context'.staged[t] = context.staged[t]
                                   /\ context'.device[t] = context.device[t]
      /\ context'.returned = context.returned
  BY <1>3, <1>4, StagedContext
<1>6. context.kind = "staging" /\ ~context.finalized
  BY <1>1 DEF CanStage
<1>7. \E more \in {<<>>, <<Upload(s)>>} : stream' = stream \o more
  <2>1. Upload(s) \in Command
    BY CommandSequences DEF DeviceInv
  <2>2. \A q \in Seq(Command) : \A c \in Command : Append(q, c) = q \o <<c>> /\ q = q \o <<>>
    OBVIOUS
  <2>3. Append(stream, Upload(s)) = stream \o <<Upload(s)>> /\ stream = stream \o <<>>
    BY <1>3, <2>1, <2>2, Zenon
  <2> QED
    BY <1>2, <2>3
<1> QED
  BY <1>1, <1>5, <1>6, <1>7, ShardStagedKeepsInv

-----------------------------------------------------------------------------
(***************************************************************************)
(* The staging context decodes.                                            *)
(***************************************************************************)

\* A caller who supplies the shards it has staged gets the CPU's verdict.
LEMMA StagedVerdict ==
  ASSUME DeviceInv, MayRunStaged
  PROVE  /\ StagedPlanAccepted => /\ codec_pc = "done" /\ shards = input
                                  /\ context.words = WordsOf(input)
                                  /\ \A s \in Slots : input[s].has_value => s \in context.returned
         /\ ~StagedPlanAccepted => \/ codec_pc = "throw"
                                   \/ \E s \in Slots : input[s].has_value /\ input[s].words = 0
<1>1. /\ codec_pc \in {"done", "throw"}
      /\ \A s \in Slots : shards[s].has_value /\ shards[s].words # 0 => s \in context.returned
  BY DEF MayRunStaged, Idle
<1>2. /\ shards = input /\ context.words = WordsOf(context.staged)
      /\ \A s \in Slots :
           \/ s \notin context.returned /\ context.staged[s] = NoShard
           \/ context.staged[s] = input[s] /\ input[s].has_value /\ input[s].words # 0
  BY DEF DeviceInv, StagingInv, MayRunStaged
<1>3. /\ context.staged \in [Slots -> Slot] /\ input \in [Slots -> Slot]
      /\ \A s \in Slots : ~input[s].has_value => input[s] = NoShard
  BY DEF DeviceInv, ContextTypeInv, DecodeContext, CodecTypeInv
<1>4. InputNotEmpty => context.staged = input
  <2> SUFFICES ASSUME InputNotEmpty, NEW s \in Slots PROVE context.staged[s] = input[s]
    BY <1>3
  <2>1. CASE input[s].has_value
    BY <1>1, <1>2, <2>1 DEF InputNotEmpty
  <2>2. CASE ~input[s].has_value
    BY <1>2, <1>3, <2>2
  <2> QED
    BY <2>1, <2>2
<1>5. context.staged = input => InputNotEmpty
  <2>1. ~NoShard.has_value
    BY DEF NoShard
  <2> QED
    BY <1>2, <2>1 DEF InputNotEmpty
<1>6. StagedPlanAccepted => codec_pc = "done" /\ context.words = WordsOf(input) /\ InputNotEmpty
  BY <1>1, <1>2, <1>5, ScanVerdict DEF StagedPlanAccepted, DeviceInv
<1>7. codec_pc = "done" /\ InputNotEmpty => StagedPlanAccepted
  BY <1>1, <1>2, <1>4, ScanVerdict DEF StagedPlanAccepted, DeviceInv, CodecInv
<1>8. InputNotEmpty => \A s \in Slots : input[s].has_value => s \in context.returned
  BY <1>1, <1>2 DEF InputNotEmpty
<1> QED
  BY <1>1, <1>2, <1>6, <1>7, <1>8 DEF InputNotEmpty

LEMMA RunStagedRefusedKeepsInv ==
  ASSUME DeviceInv, RunStagedRefused
  PROVE  DeviceInv'
<1>1. /\ MayRunStaged /\ ~StagedPlanAccepted /\ verdict' = "refused" /\ host_pc' = "ended"
      /\ UNCHANGED <<input, shards, context, stream, outputs, launches, received, codecVars>>
  BY DEF RunStagedRefused
<1>2. /\ host_pc = "idle" /\ context.kind = "staging" /\ codec_pc \in {"done", "throw"}
  BY <1>1 DEF MayRunStaged, Idle
<1>3. /\ CodecTypeInv' /\ CodecInv' /\ Ops' = Ops /\ Slots' = Slots
      /\ slots' = slots /\ codec_pc' = codec_pc
  BY <1>1, CodecStays DEF DeviceInv, codecVars
<1>4. StreamInv' /\ PlanInv' /\ ReadyInv'
  BY <1>1, StreamStays
<1>5. ContextTypeInv' /\ StagingInv' /\ DownloadInv'
  BY <1>1, <1>2, <1>3
  DEF DeviceInv, ContextTypeInv, DecodeContext, StagingInv, WordsOf, DownloadInv
<1>6. EarlyInv'
  BY <1>1, <1>2, <1>3 DEF DeviceInv, EarlyInv
<1>7. RefusalsAgree' /\ ResultsMatchCpu' /\ HostShardsGenuine'
  <2>1. \/ codec_pc = "throw"
        \/ \E s \in Slots : input[s].has_value /\ input[s].words = 0
    BY <1>1, StagedVerdict
  <2> QED
    BY <1>1, <1>3, <2>1 DEF DeviceInv, RefusalsAgree, ResultsMatchCpu, HostShardsGenuine
<1> QED
  BY <1>3, <1>4, <1>5, <1>6, <1>7 DEF DeviceInv

\* Buffers for the outputs leave those that have been allocated alone.
LEMMA BuffersAdded ==
  ASSUME DeviceInv, NEW upto, NEW c, c = WithRequiredBuffers(context, upto)
  PROVE  /\ c \in DecodeContext
         /\ c.kind = context.kind /\ c.finalized = context.finalized /\ c.words = context.words
         /\ c.staged = context.staged /\ c.returned = context.returned
         /\ \A s \in Slots : context.device[s].allocated => c.device[s] = context.device[s]
<1>1. context \in DecodeContext
  BY DEF DeviceInv, ContextTypeInv
<1> DEFINE d == [s \in Slots |-> IF s \in Required /\ s < upto /\ ~context.device[s].allocated
                                   THEN FreshBuffer(s) ELSE context.device[s]]
<1>2. \A s \in Slots : FreshBuffer(s) \in Buffer /\ context.device[s] \in Buffer
  BY <1>1, SlotsAreNumbers DEF DeviceInv, DecodeContext
<1>3. /\ d \in [Slots -> Buffer]
      /\ \A s \in Slots : context.device[s].allocated => d[s] = context.device[s]
  BY <1>2
<1>4. c = [context EXCEPT !.device = d]
  BY DEF WithRequiredBuffers
<1> HIDE DEF d
<1>5. /\ c \in DecodeContext /\ c.device = d
      /\ c.kind = context.kind /\ c.finalized = context.finalized /\ c.words = context.words
      /\ c.staged = context.staged /\ c.returned = context.returned
  BY <1>1, <1>3, <1>4 DEF DecodeContext
<1> QED
  BY <1>3, <1>5

LEMMA RunStagedFailsKeepsInv ==
  ASSUME DeviceInv, RunStagedFails
  PROVE  DeviceInv'
<1>1. /\ MayRunStaged /\ StagedPlanAccepted /\ verdict' = "accepted"
      /\ UNCHANGED <<input, shards, stream, host_pc, outputs, launches, received, codecVars>>
  BY DEF RunStagedFails
<1>2. PICK upto \in 0 .. Cardinality(Slots) : context' = WithRequiredBuffers(context, upto)
  BY DEF RunStagedFails
<1>3. /\ host_pc = "idle" /\ context.kind = "staging" /\ ~context.finalized
      /\ codec_pc = "done"
  BY <1>1, StagedVerdict DEF MayRunStaged, Idle
<1>4. /\ CodecTypeInv' /\ CodecInv' /\ Ops' = Ops /\ Slots' = Slots
      /\ slots' = slots /\ codec_pc' = codec_pc
  BY <1>1, CodecStays DEF DeviceInv, codecVars
<1>5. /\ context' \in DecodeContext
      /\ context'.kind = context.kind /\ context'.finalized = context.finalized
      /\ context'.words = context.words
      /\ context'.staged = context.staged /\ context'.returned = context.returned
      /\ \A s \in Slots : context.device[s].allocated => context'.device[s] = context.device[s]
  <2>1. PICK c : c = context'
    OBVIOUS
  <2>2. c = WithRequiredBuffers(context, upto)
    BY <1>2, <2>1
  <2> QED
    BY <2>1, <2>2, BuffersAdded
<1>6. ~Decoding /\ ~Decoding' /\ \A p \in DOMAIN stream : stream[p].kind = "upload"
  BY <1>3, <1>5, OnlyUploads DEF Decoding
<1>7. StreamInv'
  BY <1>1, <1>4, <1>6 DEF DeviceInv, StreamInv, Founded
<1>8. ReadyInv'
  <2>1. ASSUME NEW s \in context.returned PROVE context'.device[s].allocated /\ FilledAtEnd(s)'
    <3>1. s \in Slots /\ context.device[s].allocated /\ FilledAtEnd(s)
      BY <1>3 DEF DeviceInv, ReadyInv, ContextTypeInv, DecodeContext
    <3>2. context'.device[s] = context.device[s]
      BY <1>5, <3>1
    <3>3. Good(s)' = Good(s)
      BY <1>4, <3>2 DEF Good
    <3> QED
      BY <1>1, <1>4, <3>1, <3>2, <3>3 DEF FilledAtEnd, Filled, Writes
  <2> QED
    BY <1>3, <1>5, <2>1 DEF ReadyInv
<1>9. StagingInv'
  BY <1>1, <1>3, <1>4, <1>5 DEF DeviceInv, StagingInv, WordsOf
<1>10. ContextTypeInv'
  BY <1>1, <1>4, <1>5 DEF DeviceInv, ContextTypeInv, DecodeContext
<1>11. PlanInv' /\ DownloadInv' /\ EarlyInv'
  BY <1>1, <1>3, <1>4, <1>5, <1>6 DEF DeviceInv, PlanInv, DownloadInv, EarlyInv
<1>12. RefusalsAgree' /\ ResultsMatchCpu' /\ HostShardsGenuine'
  BY <1>1, <1>3, <1>4 DEF DeviceInv, RefusalsAgree, ResultsMatchCpu, HostShardsGenuine
<1> QED
  BY <1>4, <1>7, <1>8, <1>9, <1>10, <1>11, <1>12 DEF DeviceInv

LEMMA RunStagedKeepsInv ==
  ASSUME DeviceInv, RunStaged
  PROVE  DeviceInv'
<1> DEFINE plan == ScanPlan(context.words)
<1>1. /\ MayRunStaged /\ StagedPlanAccepted /\ verdict' = "accepted"
      /\ context' = [WithRequiredBuffers(context, Cardinality(Slots)) EXCEPT
                       !.words = plan.words, !.sources = plan.sources,
                       !.offsets = plan.offsets, !.finalized = TRUE]
      /\ stream' = stream \o Kernels \o Downloads
      /\ host_pc' = "downloading" /\ outputs' = <<>>
      /\ UNCHANGED <<input, shards, launches, received, codecVars>>
  BY DEF RunStaged
<1>2. /\ host_pc = "idle" /\ context.kind = "staging" /\ ~context.finalized
      /\ codec_pc = "done" /\ shards = input
      /\ \A s \in Slots : input[s].has_value => s \in context.returned
      /\ context.words = WordsOf(input)
  BY <1>1, StagedVerdict DEF MayRunStaged, Idle
<1>3. plan \in Scan /\ FlattenedRight(plan)
  BY <1>2, ScanVerdict DEF DeviceInv
<1> HIDE DEF plan
<1>4. /\ CodecTypeInv' /\ CodecInv' /\ Ops' = Ops /\ Slots' = Slots /\ Required' = Required
      /\ slots' = slots /\ codec_pc' = codec_pc /\ UNCHANGED <<codecVars, input>>
  BY <1>1, CodecStays DEF DeviceInv, codecVars
<1>5. /\ context' \in DecodeContext
      /\ context'.kind = "staging" /\ context'.finalized
      /\ context'.words = plan.words /\ context'.sources = plan.sources
      /\ context'.offsets = plan.offsets /\ context'.returned = context.returned
      /\ \A s \in Slots : context.device[s].allocated => context'.device[s] = context.device[s]
  <2>1. PICK c : c = WithRequiredBuffers(context, Cardinality(Slots))
    OBVIOUS
  <2>2. /\ c \in DecodeContext /\ c.kind = "staging" /\ c.returned = context.returned
        /\ \A s \in Slots : context.device[s].allocated => c.device[s] = context.device[s]
    BY <1>2, <2>1, BuffersAdded
  <2>3. context' = [c EXCEPT !.words = plan.words, !.sources = plan.sources,
                             !.offsets = plan.offsets, !.finalized = TRUE]
    BY <1>1, <2>1
  <2>4. /\ context' \in DecodeContext
        /\ context'.kind = c.kind /\ context'.finalized
        /\ context'.words = plan.words /\ context'.sources = plan.sources
        /\ context'.offsets = plan.offsets /\ context'.returned = c.returned
        /\ context'.device = c.device
    BY <1>3, <2>2, <2>3 DEF DecodeContext, Scan
  <2> QED
    BY <2>2, <2>4
<1>6. Decoding' /\ ~Decoding /\ \A p \in DOMAIN stream : stream[p].kind = "upload"
  BY <1>2, <1>5, OnlyUploads DEF Decoding
<1>7. /\ Kernels \in Seq(Command) /\ Downloads \in Seq(Command) /\ stream \in Seq(Command)
      /\ Len(Kernels) = Len(Ops) /\ Len(Downloads) = Len(Ops)
      /\ Len(Ops) \in Nat /\ DOMAIN Ops = 1 .. Len(Ops)
      /\ \A i \in 1 .. Len(Ops) : Kernels[i] = Kernel(i) /\ Downloads[i] = Download(i)
  BY CommandSequences, PlanTypes DEF DeviceInv, ContextTypeInv
<1>8. PICK n \in Nat : n = Len(Ops)
  BY <1>7
<1>9. PICK more \in Seq(Command) :
        /\ more = Kernels \o Downloads
        /\ Len(more) = n + n
        /\ \A i \in 1 .. n : more[i] = Kernel(i) /\ more[n + i] = Download(i)
  <2>1. /\ Kernels \o Downloads \in Seq(Command)
        /\ Len(Kernels \o Downloads) = Len(Kernels) + Len(Downloads)
        /\ \A i \in 1 .. Len(Kernels) : (Kernels \o Downloads)[i] = Kernels[i]
        /\ \A i \in 1 .. Len(Downloads) :
             (Kernels \o Downloads)[Len(Kernels) + i] = Downloads[i]
    <3>1. Kernels \in Seq(Command) /\ Downloads \in Seq(Command)
      BY <1>7
    <3> QED
      BY <3>1, Concatenated
  <2> DEFINE both == Kernels \o Downloads
  <2>2. Len(Kernels) = n /\ Len(Downloads) = n
    BY <1>7, <1>8
  <2>3. both \in Seq(Command) /\ Len(both) = n + n
    BY <2>1, <2>2
  <2>4. \A i \in 1 .. n : both[i] = Kernel(i) /\ both[n + i] = Download(i)
    <3> TAKE i \in 1 .. n
    <3>1. Kernels[i] = Kernel(i) /\ Downloads[i] = Download(i)
      BY <1>7, <1>8
    <3>2. both[i] = Kernels[i] /\ both[n + i] = Downloads[i]
      BY <2>1, <2>2, Zenon
    <3> QED
      BY <3>1, <3>2, Zenon
  <2> QED
    BY <2>3, <2>4, Zenon
<1>10. stream' = stream \o more
  <2>1. (stream \o Kernels) \o Downloads = stream \o (Kernels \o Downloads)
    BY <1>7, ConcatAssociative
  <2> QED
    BY <1>1, <1>9, <2>1
<1>11. PICK l : l = Len(stream)
  OBVIOUS
<1>12. /\ stream' \in Seq(Command) /\ l \in Nat
       /\ Len(stream') = l + (n + n) /\ DOMAIN stream' = 1 .. l + (n + n)
  BY <1>4, <1>9, <1>10, <1>11, StreamGrows
<1>13. ASSUME NEW s \in context.returned
       PROVE  /\ s \in Slots /\ FilledAtEnd(s) /\ context'.device[s].allocated
              /\ (Good(s) => Good(s)')
  <2>1. s \in Slots /\ context.device[s].allocated /\ FilledAtEnd(s)
    BY <1>2 DEF DeviceInv, ReadyInv, ContextTypeInv, DecodeContext
  <2> QED
    BY <1>4, <1>5, <2>1 DEF Good
<1>14. \A s \in Required : input[s].has_value => FilledAtEnd(s) /\ (Good(s) => Good(s)')
  <2>1. \A s \in Required : s \in Slots
    BY <1>2, RequiredFacts DEF DeviceInv
  <2> QED
    BY <1>2, <1>13, <2>1
<1>15. \A p \in 1 .. l : Founded(p)'
  BY <1>4, <1>6, <1>10, <1>11, OldCommandsFounded
<1>16. /\ \A i \in 1 .. n : Founded(l + i)'
       /\ \A i \in 1 .. n : \A p \in Nat : \A s :
            p > l + i /\ s = Ops[i].output => Filled(p, s)'
  <2>1. n \in 0 .. Len(Ops) /\ n <= Len(more)
    BY <1>8, <1>9
  <2>2. \A i \in 1 .. n : more[i] = Kernel(i)
    BY <1>9
  <2> QED
    BY <1>2, <1>4, <1>6, <1>10, <1>11, <1>14, <2>1, <2>2, KernelsFounded
<1>17. \A i \in DOMAIN Ops : Founded(l + (n + i))'
  <2>1. \A i \in DOMAIN Ops : \A s : s = Ops[i].output => Filled(l + (n + i), s)'
    <3> TAKE i \in DOMAIN Ops
    <3>1. i \in 1 .. n /\ l + (n + i) \in Nat /\ l + (n + i) > l + i
      BY <1>7, <1>8, <1>12
    <3> QED
      BY <1>16, <3>1
  <2>2. Len(more) = n + Len(Ops) /\ \A i \in DOMAIN Ops : more[n + i] = Download(i)
    BY <1>7, <1>8, <1>9
  <2> QED
    BY <1>4, <1>6, <1>10, <1>11, <2>1, <2>2, DownloadsFounded
<1>18. StreamInv'
  <2> SUFFICES ASSUME NEW p \in DOMAIN stream' PROVE Founded(p)'
    BY DEF StreamInv
  <2>1. p \in 1 .. l \/ \E i \in 1 .. n + n : p = l + i
    <3>1. p \in 1 .. l + (n + n) /\ n + n \in Nat
      BY <1>12
    <3> QED
      BY <1>12, <3>1, OldOrNew
  <2>2. ASSUME NEW i \in 1 .. n + n, p = l + i PROVE Founded(p)'
    <3>1. i \in 1 .. n \/ \E j \in 1 .. n : i = n + j
      BY OldOrNew
    <3> QED
      BY <1>7, <1>8, <1>16, <1>17, <2>2, <3>1
  <2> QED
    BY <1>15, <2>1, <2>2
<1>19. DownloadInv'
  <2> DEFINE q == stream \o Kernels
  <2>1. /\ q \in Seq(Command) /\ DOMAIN q = 1 .. Len(stream) + Len(Kernels)
        /\ \A p \in 1 .. Len(stream) : q[p] = stream[p]
        /\ \A i \in 1 .. Len(Kernels) : q[Len(stream) + i] = Kernels[i]
    <3>1. Kernels \in Seq(Command) /\ stream \in Seq(Command)
      BY <1>7
    <3> QED
      BY <3>1, Concatenated
  <2>2. \A i \in 1 .. Len(Ops) : Kernel(i).kind # "download"
    BY DEF Kernel
  <2> HIDE DEF q
  <2>3. ASSUME NEW p \in DOMAIN q PROVE q[p].kind # "download"
    <3>1. p \in 1 .. l + n
      BY <1>7, <1>8, <1>11, <2>1
    <3>2. p \in 1 .. l \/ \E i \in 1 .. n : p = l + i
      BY <1>8, <1>12, <3>1, OldOrNew
    <3>3. DOMAIN stream = 1 .. l
      BY <1>7, <1>11
    <3> QED
      BY <1>6, <1>7, <1>8, <1>11, <2>1, <2>2, <3>2, <3>3
  <2>4. UNCHANGED codecVars /\ stream' = q \o Downloads
    BY <1>1 DEF q
  <2> QED
    BY <1>1, <1>6, <2>1, <2>3, <2>4, DownloadsIssued DEF DeviceInv
<1>20. ReadyInv'
  <2>1. ASSUME NEW s \in context.returned PROVE FilledAtEnd(s)'
    <3>1. PICK e : e = Len(stream') + 1
      OBVIOUS
    <3>2. e \in Nat /\ e > Len(stream)
      BY <1>11, <1>12, <3>1
    <3>3. Filled(e, s)'
      BY <1>4, <1>10, <1>13, <3>2, StillFilled
    <3> QED
      BY <3>1, <3>3 DEF FilledAtEnd, Filled
  <2> QED
    BY <1>5, <1>13, <2>1 DEF ReadyInv
<1>21. ContextTypeInv'
  <2>1. <<>> \in Seq(SUBSET Nat)
    OBVIOUS
  <2> QED
    BY <1>1, <1>4, <1>5, <1>12, <2>1 DEF DeviceInv, ContextTypeInv, DecodeContext
<1>22. PlanInv'
  BY <1>2, <1>3, <1>4, <1>5 DEF PlanInv, FlattenedRight
<1>23. StagingInv' /\ EarlyInv'
  BY <1>1, <1>2, <1>4, <1>5 DEF DeviceInv, StagingInv, EarlyInv
<1>24. RefusalsAgree' /\ ResultsMatchCpu' /\ HostShardsGenuine'
  BY <1>1, <1>2, <1>4 DEF DeviceInv, RefusalsAgree, ResultsMatchCpu, HostShardsGenuine
<1> QED
  BY <1>4, <1>18, <1>19, <1>20, <1>21, <1>22, <1>23, <1>24 DEF DeviceInv

-----------------------------------------------------------------------------
(***************************************************************************)
(* The theorems.                                                           *)
(***************************************************************************)
LEMMA DeviceInitHasInv ==
  ASSUME DeviceInit
  PROVE  DeviceInv
<1>1. PICK call \in Calls : CodecInit(call.plan, call.shards) /\ input = call.shards
  BY DEF DeviceInit
<1>2. /\ decode_plan = call.plan /\ slots = input /\ next_op = 1 /\ codec_pc = "start"
      /\ shards = input /\ context = NoDecodeContext /\ stream = <<>> /\ host_pc = "idle"
      /\ outputs = <<>> /\ launches = 0 /\ verdict = "none" /\ received = FALSE
  BY <1>1 DEF DeviceInit, CodecInit
<1>3. /\ decode_plan \in DecodePlan /\ IsFiniteSet(Slots) /\ Slots = 0 .. Cardinality(Slots) - 1
      /\ input \in [Slots -> Slot] /\ \A s \in Slots : ~input[s].has_value => input[s] = NoShard
  BY <1>1, <1>2, DeviceAssumption DEF Slots
<1>4. CodecTypeInv
  <2>1. Len(Ops) \in Nat
    BY <1>3 DEF DecodePlan, Ops
  <2> QED
    BY <1>2, <1>3, <2>1 DEF CodecTypeInv
<1>5. CodecInv
  BY <1>2 DEF CodecInv
<1>6. context.kind = "none" /\ context \in DecodeContext
  <2>1. NoBuffer \in Buffer /\ NoShard \in Slot
    BY DEF NoBuffer, Buffer, NoShard, Slot
  <2> QED
    BY <1>2, <2>1 DEF NoDecodeContext, DecodeContext
<1>7. ContextTypeInv
  BY <1>2, <1>3, <1>6 DEF ContextTypeInv
<1>8. StreamInv /\ PlanInv /\ ReadyInv /\ StagingInv /\ DownloadInv /\ EarlyInv
  BY <1>2, <1>6
  DEF StreamInv, PlanInv, Decoding, ReadyInv, StagingInv, DownloadInv, EarlyInv
<1>9. RefusalsAgree /\ ResultsMatchCpu /\ HostShardsGenuine
  BY <1>2 DEF RefusalsAgree, ResultsMatchCpu, HostShardsGenuine
<1> QED
  BY <1>4, <1>5, <1>7, <1>8, <1>9 DEF DeviceInv

LEMMA DeviceStutterKeepsInv ==
  ASSUME DeviceInv, UNCHANGED <<codecVars, deviceVars>>
  PROVE  DeviceInv'
<1>1. UNCHANGED <<codecVars, input, shards, context, stream, host_pc, outputs, launches, verdict,
                  received>>
  BY DEF deviceVars
<1>2. CodecTypeInv' /\ CodecInv' /\ Ops' = Ops /\ Slots' = Slots /\ slots' = slots
        /\ codec_pc' = codec_pc
  BY <1>1, CodecStays DEF DeviceInv, codecVars
<1>3. StreamInv' /\ PlanInv' /\ ReadyInv' /\ Decoding' = Decoding
  BY <1>1, StreamStays
<1>4. ContextTypeInv' /\ StagingInv' /\ DownloadInv'
  BY <1>1, <1>2, <1>3
  DEF DeviceInv, ContextTypeInv, DecodeContext, StagingInv, WordsOf, DownloadInv, Download
<1>5. EarlyInv'
  <2>1. NoDecodeContext' = NoDecodeContext
    BY <1>2 DEF NoDecodeContext
  <2> QED
    BY <1>1, <1>2, <2>1 DEF DeviceInv, EarlyInv
<1> QED
  BY <1>1, <1>2, <1>3, <1>4, <1>5, SlotsAndVerdictStay DEF DeviceInv

LEMMA HostStepKeepsInv ==
  ASSUME DeviceInv, HostStep
  PROVE  DeviceInv'
<1>1. CASE RunDecodePlan
  BY <1>1, RunDecodePlanKeepsInv
<1>2. CASE Prepare
  BY <1>2, PrepareKeepsInv
<1>3. CASE Launch("idle") \/ Launch("synchronizing")
  BY <1>3, LaunchKeepsInv
<1>4. CASE LaunchFails
  BY <1>4, LaunchFailsKeepsInv
<1>5. CASE Synchronize \/ SynchronizeReturns
  BY <1>5, WaitingKeepsInv DEF Synchronize, SynchronizeReturns, Idle
<1>6. CASE DownloadResults
  BY <1>6, DownloadResultsKeepsInv
<1>7. CASE ResultsArrive
  BY <1>7, ResultsArriveKeepsInv
<1>8. CASE ResultsFail
  BY <1>8, ResultsFailKeepsInv
<1>9. CASE CreateStagingContext
  BY <1>9, CreateStagingContextKeepsInv
<1>10. CASE \E s \in Slots : StageShard(s) \/ StageShardFails(s)
  BY <1>10, StageShardKeepsInv, StageShardFailsKeepsInv
<1>11. CASE RunStagedRefused \/ RunStagedFails \/ RunStaged
  BY <1>11, RunStagedRefusedKeepsInv, RunStagedFailsKeepsInv, RunStagedKeepsInv
<1> QED
  BY <1>1, <1>2, <1>3, <1>4, <1>5, <1>6, <1>7, <1>8, <1>9, <1>10, <1>11 DEF HostStep

\* The invariant holds in every reachable state of the CPU decoder and the three
\* device decoders of sparse_decoder.cu.
THEOREM DeviceInvariance == DeviceSpec => []DeviceInv
<1>1. DeviceInit => DeviceInv
  BY DeviceInitHasInv
<1>2. DeviceInv /\ [DeviceNext]_<<codecVars, deviceVars>> => DeviceInv'
  <2> SUFFICES ASSUME DeviceInv, [DeviceNext]_<<codecVars, deviceVars>> PROVE DeviceInv'
    OBVIOUS
  <2>1. CASE CodecNext /\ UNCHANGED deviceVars
    BY <2>1, CodecStepKeepsDeviceInv
  <2>2. CASE HostStep
    BY <2>2, HostStepKeepsInv
  <2>3. CASE DeviceStep
    BY <2>3, DeviceStepKeepsInv
  <2>4. CASE UNCHANGED <<codecVars, deviceVars>>
    BY <2>4, DeviceStutterKeepsInv
  <2> QED
    BY <2>1, <2>2, <2>3, <2>4 DEF DeviceNext
<1> QED
  BY <1>1, <1>2, PTL DEF DeviceSpec

\* The validation ahead of the kernels (sparse_decoder.cu:320-364, 581-626, 778-823)
\* refuses a plan just where execute_decode_plan_cpu throws, an empty shard apart.
THEOREM DecodersRefuseAlike == DeviceSpec => []RefusalsAgree
<1>1. DeviceInv => RefusalsAgree
  BY DEF DeviceInv
<1> QED
  BY <1>1, DeviceInvariance, PTL

\* Whatever a device decode hands over is what the CPU computes, however often the
\* kernels of the plan have been launched (sparse_decoder.cu:403-463, 671-717, 869-967).
THEOREM DeviceMatchesCpu == DeviceSpec => []ResultsMatchCpu
<1>1. DeviceInv => ResultsMatchCpu
  BY DEF DeviceInv
<1> QED
  BY <1>1, DeviceInvariance, PTL

\* A decode that fails moves no shard to the caller that no upload or kernel has
\* computed (sparse_decoder.cu:446-461, 684-716, 960-967).
THEOREM FailuresAreClean == DeviceSpec => []HostShardsGenuine
<1>1. DeviceInv => HostShardsGenuine
  BY DEF DeviceInv
<1> QED
  BY <1>1, DeviceInvariance, PTL

\* Whatever plan execute_decode_plan_cpu runs, and wherever it throws, the equations
\* of the operations it has run hold of the slots (codec.cpp:71-109).
THEOREM EquationsStayTrue == DeviceSpec => []ExecutedEquationsHold
<1>1. DeviceInv => ExecutedEquationsHold
  BY DEF DeviceInv, CodecInv, RanSoundly, ExecutedEquationsHold, Ops
<1> QED
  BY <1>1, DeviceInvariance, PTL
=============================================================================

--------------------------- MODULE XorKernelProofs ---------------------------
(***************************************************************************)
(* The XOR kernels write every word of a shard exactly once and no word    *)
(* outside it, for every length of the shard, every block size and every   *)
(* grid, in whatever order the hardware runs the threads.                  *)
(*                                                                         *)
(* The vectors are distributed by owner: thread t owns the vectors that    *)
(* are congruent to its index in the grid modulo the stride.               *)
(***************************************************************************)
EXTENDS XorKernel, TLAPS

Id(t) == t[1] * blockDim + t[2]
Owns(t, v) == \E n \in Nat : v = Id(t) + n * Stride

(***************************************************************************)
(* The inductive invariant.                                                *)
(***************************************************************************)
LaunchInv ==
    /\ word_count \in Nat \ {0}
    /\ blockDim \in Nat /\ blockDim >= 3
    /\ gridDim \in Nat /\ gridDim >= 1
    /\ vector_index \in [GridThreads -> Nat]
    /\ thread_pc \in [GridThreads -> {"loop", "tail", "done"}]

\* A thread only visits vectors it owns, and leaves when they are done.
WalkInv ==
    \A t \in GridThreads :
        /\ Owns(t, vector_index[t])
        /\ thread_pc[t] # "loop" => vector_index[t] >= VectorWordCount

\* The words of a vector are written when its owner has passed it, a word of the
\* tail when its thread is done.
InVectors(w) ==
    \E t \in GridThreads : \E v \in Nat :
        Owns(t, v) /\ v < vector_index[t] /\ v < VectorWordCount /\ w \in WordsOfVector(v)

InTail(w) ==
    \E t \in GridThreads : thread_pc[t] = "done" /\ TailThread(t) /\ w = TailStart + t[2]

OutputInv == output = {w \in Nat : InVectors(w) \/ InTail(w)}

KernelInv == LaunchInv /\ WalkInv /\ OutputInv

-----------------------------------------------------------------------------
(***************************************************************************)
(* Arithmetic.                                                             *)
(***************************************************************************)
LEMMA NextMultiple ==
  ASSUME NEW a \in Nat, NEW b \in Nat, NEW n \in Nat, a < b
  PROVE  a * n + n <= b * n
<1>1. PICK d \in Nat : b = a + 1 + d
  <2>1. b - a - 1 \in Nat /\ b = a + 1 + (b - a - 1)
    OBVIOUS
  <2> QED
    BY <2>1
<1>2. b * n = a * n + n + d * n
  BY <1>1
<1>3. d * n \in Nat
  OBVIOUS
<1>4. a * n \in Nat
  OBVIOUS
<1> QED
  BY <1>2, <1>3, <1>4

\* Quotient and remainder are unique ...
LEMMA DivisionUnique ==
  ASSUME NEW n \in Nat, NEW a \in Nat, NEW b \in Nat,
         NEW i \in 0 .. n - 1, NEW j \in 0 .. n - 1, a * n + i = b * n + j
  PROVE  a = b /\ i = j
<1>1. a * n \in Nat /\ b * n \in Nat
  OBVIOUS
<1>2. ~(a < b)
  BY <1>1, NextMultiple
<1>3. ~(b < a)
  BY <1>1, NextMultiple
<1>4. a = b
  BY <1>2, <1>3
<1> QED
  BY <1>1, <1>4

\* ... and exist.
LEMMA DivisionExists ==
  ASSUME NEW n \in Nat \ {0}, NEW x \in Nat
  PROVE  \E a \in Nat : \E i \in 0 .. n - 1 : x = a * n + i
<1>1. x \div n \in Nat /\ x % n \in 0 .. n - 1 /\ x = n * (x \div n) + (x % n)
  OBVIOUS
<1>2. n * (x \div n) = (x \div n) * n
  BY <1>1
<1> QED
  BY <1>1, <1>2

-----------------------------------------------------------------------------
(***************************************************************************)
(* Owners.                                                                 *)
(***************************************************************************)
LEMMA GridFacts ==
  ASSUME LaunchInv
  PROVE  /\ Stride \in Nat \ {0}
         /\ VectorWordCount \in Nat
         /\ TailStart = 4 * VectorWordCount
         /\ TailStart <= word_count /\ word_count < TailStart + 4
<1>1. blockDim * gridDim \in Nat \ {0}
  BY DEF LaunchInv
<1>2. /\ word_count \div 4 \in Nat
      /\ 4 * (word_count \div 4) <= word_count
      /\ word_count < 4 * (word_count \div 4) + 4
  BY DEF LaunchInv
<1> QED
  BY <1>1, <1>2 DEF Stride, VectorWordCount, TailStart

LEMMA IdFacts ==
  ASSUME LaunchInv, NEW t \in GridThreads
  PROVE  /\ t = <<t[1], t[2]>>
         /\ t[1] \in 0 .. gridDim - 1 /\ t[2] \in 0 .. blockDim - 1
         /\ Id(t) \in 0 .. Stride - 1
<1>1. /\ t = <<t[1], t[2]>>
      /\ t[1] \in 0 .. gridDim - 1 /\ t[2] \in 0 .. blockDim - 1
  BY DEF GridThreads
<1>2. blockDim \in Nat /\ gridDim \in Nat
  BY DEF LaunchInv
<1>3. t[1] * blockDim \in Nat
  BY <1>1, <1>2
<1>4. t[1] * blockDim + blockDim <= gridDim * blockDim
  BY <1>1, <1>2, NextMultiple
<1>5. gridDim * blockDim = blockDim * gridDim /\ blockDim * gridDim \in Nat
  BY <1>2
<1> QED
  BY <1>1, <1>2, <1>3, <1>4, <1>5 DEF Id, Stride

\* A vector has one owner.
LEMMA OwnerUnique ==
  ASSUME LaunchInv, NEW t \in GridThreads, NEW u \in GridThreads, NEW v,
         Owns(t, v), Owns(u, v)
  PROVE  t = u
<1>1. PICK n \in Nat : v = Id(t) + n * Stride
  BY DEF Owns
<1>2. PICK m \in Nat : v = Id(u) + m * Stride
  BY DEF Owns
<1>3. /\ Id(t) \in 0 .. Stride - 1 /\ Id(u) \in 0 .. Stride - 1
      /\ Stride \in Nat
  BY IdFacts, GridFacts
<1>4. n * Stride + Id(t) = m * Stride + Id(u)
  BY <1>1, <1>2, <1>3
<1>5. Id(t) = Id(u)
  BY <1>3, <1>4, DivisionUnique
<1>6. /\ t = <<t[1], t[2]>> /\ u = <<u[1], u[2]>>
      /\ t[1] \in Nat /\ u[1] \in Nat
      /\ t[2] \in 0 .. blockDim - 1 /\ u[2] \in 0 .. blockDim - 1
      /\ blockDim \in Nat
  BY IdFacts DEF LaunchInv
<1>7. t[1] * blockDim + t[2] = u[1] * blockDim + u[2]
  BY <1>5 DEF Id
<1>8. t[1] = u[1] /\ t[2] = u[2]
  BY <1>6, <1>7, DivisionUnique
<1> QED
  BY <1>6, <1>8

LEMMA OwnerExists ==
  ASSUME LaunchInv, NEW v \in Nat
  PROVE  \E t \in GridThreads : Owns(t, v)
<1>1. Stride \in Nat \ {0} /\ blockDim \in Nat \ {0} /\ gridDim \in Nat
  BY GridFacts DEF LaunchInv
<1>2. PICK n \in Nat, i \in 0 .. Stride - 1 : v = n * Stride + i
  BY <1>1, DivisionExists
<1> i \in Nat
  BY <1>1
<1>3. PICK g \in Nat, b \in 0 .. blockDim - 1 : i = g * blockDim + b
  BY <1>1, DivisionExists
<1>4. g < gridDim
  <2>1. SUFFICES ASSUME g >= gridDim PROVE FALSE
    BY <1>1
  <2>2. PICK d \in Nat : g = gridDim + d
    <3>1. g - gridDim \in Nat /\ g = gridDim + (g - gridDim)
      BY <1>1, <2>1
    <3> QED
      BY <3>1
  <2>3. g * blockDim = gridDim * blockDim + d * blockDim
    BY <1>1, <2>2
  <2>4. d * blockDim \in Nat /\ gridDim * blockDim = Stride
    BY <1>1 DEF Stride
  <2>5. i >= Stride
    BY <1>1, <1>3, <2>3, <2>4
  <2> QED
    BY <1>1, <2>5
<1>5. <<g, b>> \in GridThreads
  BY <1>1, <1>3, <1>4 DEF GridThreads
<1>6. Id(<<g, b>>) = i
  BY <1>3 DEF Id
<1>7. n * Stride \in Nat /\ i \in Nat
  BY <1>1
<1>8. v = Id(<<g, b>>) + n * Stride
  BY <1>2, <1>6, <1>7
<1> QED
  BY <1>5, <1>8 DEF Owns

\* The vectors of a thread are a stride apart.
LEMMA NextVector ==
  ASSUME LaunchInv, NEW t \in GridThreads, NEW x \in Nat, Owns(t, x)
  PROVE  /\ x + Stride \in Nat /\ Owns(t, x + Stride)
         /\ \A v \in Nat : Owns(t, v) /\ v < x + Stride => v = x \/ v < x
<1>1. Stride \in Nat \ {0} /\ Id(t) \in Nat
  BY GridFacts, IdFacts
<1>2. PICK n \in Nat : x = Id(t) + n * Stride
  BY DEF Owns
<1>3. (n + 1) * Stride = n * Stride + Stride /\ n * Stride \in Nat
  BY <1>1
<1>4. x + Stride = Id(t) + (n + 1) * Stride
  BY <1>1, <1>2, <1>3
<1>5. Owns(t, x + Stride)
  BY <1>4 DEF Owns
<1>6. ASSUME NEW v \in Nat, Owns(t, v), v < x + Stride
      PROVE  v = x \/ v < x
  <2>1. PICK m \in Nat : v = Id(t) + m * Stride
    BY <1>6 DEF Owns
  <2>2. m * Stride \in Nat
    BY <1>1
  <2>3. CASE n < m
    <3>1. n * Stride + Stride <= m * Stride
      BY <1>1, <2>3, NextMultiple
    <3> QED
      BY <1>1, <1>2, <1>3, <1>6, <2>1, <2>2, <3>1
  <2>4. CASE m < n
    <3>1. m * Stride + Stride <= n * Stride
      BY <1>1, <2>4, NextMultiple
    <3> QED
      BY <1>1, <1>2, <1>3, <2>1, <2>2, <3>1
  <2>5. CASE m = n
    BY <1>2, <2>1, <2>5
  <2> QED
    BY <2>3, <2>4, <2>5
<1> QED
  BY <1>1, <1>5, <1>6

\* A word belongs to one vector.
LEMMA WordsFacts ==
  ASSUME NEW v \in Nat
  PROVE  /\ WordsOfVector(v) \subseteq Nat
         /\ \A w \in WordsOfVector(v) : 4 * v <= w /\ w <= 4 * v + 3
         /\ \A x \in Nat : \A w \in WordsOfVector(v) : w \in WordsOfVector(x) => x = v
         /\ \A n \in Nat : v < n => \A w \in WordsOfVector(v) : w < 4 * n
BY DEF WordsOfVector

-----------------------------------------------------------------------------
(***************************************************************************)
(* The steps.                                                              *)
(***************************************************************************)
LEMMA QuotientIsInteger ==
  ASSUME NEW a \in Int, NEW n \in Nat \ {0}
  PROVE  a \div n \in Int
OBVIOUS

LEMMA LaunchEstablishesInv == LaunchXorOperation => KernelInv
<1> SUFFICES ASSUME LaunchXorOperation PROVE KernelInv
  OBVIOUS
<1>1. word_count \in Nat \ {0}
  BY KernelAssumption DEF LaunchXorOperation
<1>2. PICK d \in Devices : blockDim = d.block_size /\ gridDim = CalculateGridBlocks(word_count, d)
  BY DEF LaunchXorOperation
<1>3. /\ d.block_size \in Nat /\ d.block_size >= 3 /\ d.min_grid_size \in Nat
      /\ d.multiprocessors \in Nat \ {0} /\ d.active_blocks \in Nat /\ d.max_grid_size \in Nat \ {0}
  BY KernelAssumption
<1>4. MaxGridBlocks(d) \in Int
  <2> DEFINE potential == Larger(1, (d.min_grid_size + d.multiprocessors - 1) \div d.multiprocessors)
             per_sm == Larger(1, Smaller(potential, d.active_blocks))
  <2>1. (d.min_grid_size + d.multiprocessors - 1) \div d.multiprocessors \in Int
    BY <1>3, QuotientIsInteger
  <2>2. potential \in Int
    BY <2>1 DEF Larger
  <2> HIDE DEF potential
  <2>3. per_sm \in Int
    BY <1>3, <2>2 DEF Larger, Smaller
  <2> HIDE DEF per_sm
  <2>4. d.multiprocessors * per_sm * 2 \in Int
    BY <1>3, <2>3
  <2>5. MaxGridBlocks(d) = Smaller(d.multiprocessors * per_sm * 2, d.max_grid_size)
    BY DEF MaxGridBlocks, potential, per_sm
  <2> QED
    BY <1>3, <2>4, <2>5 DEF Smaller
<1>5. gridDim \in Nat /\ gridDim >= 1
  <2> DEFINE required == word_count \div (d.block_size * 4)
                           + (IF word_count % (d.block_size * 4) # 0 THEN 1 ELSE 0)
  <2>1. word_count \div (d.block_size * 4) \in Int
    BY <1>1, <1>3, QuotientIsInteger
  <2>2. required \in Int
    BY <2>1
  <2> HIDE DEF required
  <2>3. gridDim = Larger(1, Smaller(required, MaxGridBlocks(d)))
    BY <1>2 DEF CalculateGridBlocks, required
  <2> QED
    BY <1>4, <2>2, <2>3 DEF Larger, Smaller
<1>6. \A t \in GridThreads : t[1] * blockDim + t[2] \in Nat
  BY <1>2, <1>3, <1>5 DEF GridThreads
<1>7. LaunchInv
  BY <1>1, <1>2, <1>3, <1>5, <1>6 DEF LaunchInv, LaunchXorOperation
<1>8. \A t \in GridThreads : vector_index[t] = Id(t) /\ thread_pc[t] = "loop"
  BY DEF LaunchXorOperation, Id
<1>9. \A t \in GridThreads : Id(t) \in 0 .. Stride - 1 /\ Stride \in Nat
  BY <1>7, IdFacts, GridFacts
<1>10. \A t \in GridThreads : Id(t) = Id(t) + 0 * Stride
  BY <1>9
<1>11. WalkInv
  BY <1>8, <1>10 DEF WalkInv, Owns
<1>12. ASSUME NEW t \in GridThreads, NEW v \in Nat, Owns(t, v)
       PROVE  ~(v < vector_index[t])
  <2>1. PICK n \in Nat : v = Id(t) + n * Stride
    BY <1>12 DEF Owns
  <2>2. n * Stride \in Nat
    BY <1>9
  <2> QED
    BY <1>8, <1>9, <2>1, <2>2
<1>13. OutputInv
  BY <1>8, <1>12 DEF OutputInv, InVectors, InTail, LaunchXorOperation
<1> QED
  BY <1>7, <1>11, <1>13 DEF KernelInv

LEMMA VectorIterationKeepsInv ==
  ASSUME KernelInv, NEW t \in GridThreads, VectorIteration(t)
  PROVE  KernelInv'
<1> DEFINE x == vector_index[t]
<1> USE DEF KernelInv
<1>1. /\ x \in Nat /\ x < VectorWordCount /\ thread_pc[t] = "loop"
      /\ output' = output \cup WordsOfVector(x)
      /\ vector_index' = [vector_index EXCEPT ![t] = x + Stride]
      /\ UNCHANGED <<word_count, blockDim, gridDim, thread_pc>>
  BY DEF VectorIteration, LaunchInv
<1>2. /\ GridThreads' = GridThreads /\ Stride' = Stride
      /\ VectorWordCount' = VectorWordCount /\ TailStart' = TailStart
      /\ \A u : Id(u)' = Id(u) /\ (TailThread(u)' <=> TailThread(u))
  BY <1>1 DEF GridThreads, Stride, VectorWordCount, TailStart, Id, TailThread
<1>3. \A u, v : Owns(u, v)' <=> Owns(u, v)
  BY <1>2 DEF Owns
<1>4. /\ Owns(t, x) /\ x + Stride \in Nat /\ Owns(t, x + Stride)
      /\ \A v \in Nat : Owns(t, v) /\ v < x + Stride => v = x \/ v < x
      /\ x < x + Stride
  BY <1>1, NextVector, GridFacts DEF WalkInv
<1>5. LaunchInv'
  BY <1>1, <1>2, <1>4 DEF LaunchInv
<1>6. WalkInv'
  BY <1>1, <1>2, <1>3, <1>4 DEF WalkInv, LaunchInv
<1>7. \A w : InTail(w)' <=> InTail(w)
  BY <1>1, <1>2 DEF InTail
<1>8. \A u \in GridThreads : vector_index'[u] = IF u = t THEN x + Stride ELSE vector_index[u]
  BY <1>1 DEF LaunchInv
<1>9. ASSUME NEW w \in Nat
      PROVE  InVectors(w)' <=> InVectors(w) \/ w \in WordsOfVector(x)
  <2> HIDE DEF x
  <2>1. ASSUME InVectors(w)'
        PROVE  InVectors(w) \/ w \in WordsOfVector(x)
    <3>1. PICK u \in GridThreads, v \in Nat :
            Owns(u, v) /\ v < vector_index'[u] /\ v < VectorWordCount /\ w \in WordsOfVector(v)
      BY <1>2, <1>3, <2>1 DEF InVectors, WordsOfVector
    <3> QED
      BY <1>4, <1>8, <3>1 DEF InVectors, x
  <2>2. ASSUME InVectors(w)
        PROVE  InVectors(w)'
    <3>1. PICK u \in GridThreads, v \in Nat :
            Owns(u, v) /\ v < vector_index[u] /\ v < VectorWordCount /\ w \in WordsOfVector(v)
      BY <2>2 DEF InVectors
    <3>2. v < vector_index'[u]
      BY <1>1, <1>4, <1>8, <3>1 DEF x
    <3> QED
      BY <1>2, <1>3, <3>1, <3>2 DEF InVectors, WordsOfVector
  <2>3. ASSUME w \in WordsOfVector(x)
        PROVE  InVectors(w)'
    <3>1. x < vector_index'[t]
      BY <1>4, <1>8
    <3> QED
      BY <1>1, <1>2, <1>3, <1>4, <2>3, <3>1 DEF InVectors, WordsOfVector
  <2> QED
    BY <2>1, <2>2, <2>3
<1>10. OutputInv'
  <2>1. WordsOfVector(x) \subseteq Nat
    BY <1>1, WordsFacts
  <2> HIDE DEF x
  <2> QED
    BY <1>1, <1>7, <1>9, <2>1 DEF OutputInv
<1> QED
  BY <1>5, <1>6, <1>10

LEMMA LeaveLoopKeepsInv ==
  ASSUME KernelInv, NEW t \in GridThreads, LeaveLoop(t)
  PROVE  KernelInv'
<1> USE DEF KernelInv
<1>1. /\ thread_pc[t] = "loop" /\ vector_index[t] >= VectorWordCount
      /\ thread_pc' = [thread_pc EXCEPT ![t] = "tail"]
      /\ UNCHANGED <<word_count, blockDim, gridDim, vector_index, output>>
  BY DEF LeaveLoop
<1>2. /\ GridThreads' = GridThreads /\ Stride' = Stride
      /\ VectorWordCount' = VectorWordCount /\ TailStart' = TailStart
      /\ \A u : Id(u)' = Id(u) /\ (TailThread(u)' <=> TailThread(u))
  BY <1>1 DEF GridThreads, Stride, VectorWordCount, TailStart, Id, TailThread
<1>3. \A u, v : Owns(u, v)' <=> Owns(u, v)
  BY <1>2 DEF Owns
<1>4. LaunchInv'
  BY <1>1, <1>2 DEF LaunchInv
<1>5. WalkInv'
  BY <1>1, <1>2, <1>3 DEF WalkInv, LaunchInv
<1>6. \A u \in GridThreads : thread_pc'[u] = "done" <=> thread_pc[u] = "done"
  BY <1>1 DEF LaunchInv
<1>7. \A w : (InVectors(w)' <=> InVectors(w)) /\ (InTail(w)' <=> InTail(w))
  BY <1>1, <1>2, <1>3, <1>6 DEF InVectors, InTail, WordsOfVector
<1>8. OutputInv'
  BY <1>1, <1>7 DEF OutputInv
<1> QED
  BY <1>4, <1>5, <1>8

LEMMA TailKeepsInv ==
  ASSUME KernelInv, NEW t \in GridThreads, Tail(t)
  PROVE  KernelInv'
<1> USE DEF KernelInv
<1>1. /\ thread_pc[t] = "tail"
      /\ output' = output \cup (IF TailThread(t) THEN {TailStart + t[2]} ELSE {})
      /\ thread_pc' = [thread_pc EXCEPT ![t] = "done"]
      /\ UNCHANGED <<word_count, blockDim, gridDim, vector_index>>
  BY DEF Tail
<1>2. /\ GridThreads' = GridThreads /\ Stride' = Stride
      /\ VectorWordCount' = VectorWordCount /\ TailStart' = TailStart
      /\ \A u : Id(u)' = Id(u) /\ (TailThread(u)' <=> TailThread(u))
  BY <1>1 DEF GridThreads, Stride, VectorWordCount, TailStart, Id, TailThread
<1>3. \A u, v : Owns(u, v)' <=> Owns(u, v)
  BY <1>2 DEF Owns
<1>4. LaunchInv'
  BY <1>1, <1>2 DEF LaunchInv
<1>5. WalkInv'
  BY <1>1, <1>2, <1>3 DEF WalkInv, LaunchInv
<1>6. \A u \in GridThreads : thread_pc'[u] = "done" <=> thread_pc[u] = "done" \/ u = t
  BY <1>1 DEF LaunchInv
<1>7. \A w : InVectors(w)' <=> InVectors(w)
  BY <1>1, <1>2, <1>3 DEF InVectors, WordsOfVector
<1>8. \A w : InTail(w)' <=> InTail(w) \/ (TailThread(t) /\ w = TailStart + t[2])
  BY <1>2, <1>6 DEF InTail
<1>9. TailStart + t[2] \in Nat
  BY GridFacts, IdFacts
<1>10. OutputInv'
  BY <1>1, <1>7, <1>8, <1>9 DEF OutputInv
<1> QED
  BY <1>4, <1>5, <1>10

LEMMA KernelStutterKeepsInv ==
  ASSUME KernelInv, UNCHANGED kernelVars
  PROVE  KernelInv'
<1> USE DEF KernelInv, kernelVars
<1>1. /\ GridThreads' = GridThreads /\ Stride' = Stride
      /\ VectorWordCount' = VectorWordCount /\ TailStart' = TailStart
      /\ \A u : Id(u)' = Id(u) /\ (TailThread(u)' <=> TailThread(u))
  BY DEF GridThreads, Stride, VectorWordCount, TailStart, Id, TailThread
<1>2. \A u, v : Owns(u, v)' <=> Owns(u, v)
  BY <1>1 DEF Owns
<1>3. LaunchInv' /\ WalkInv'
  BY <1>1, <1>2 DEF LaunchInv, WalkInv
<1>4. \A w : (InVectors(w)' <=> InVectors(w)) /\ (InTail(w)' <=> InTail(w))
  BY <1>1, <1>2 DEF InVectors, InTail, WordsOfVector
<1>5. OutputInv'
  BY <1>4 DEF OutputInv
<1> QED
  BY <1>3, <1>5

-----------------------------------------------------------------------------
(***************************************************************************)
(* The results.                                                            *)
(***************************************************************************)

\* At every moment the output is what the threads have passed
\* (sparse_decoder.cu:89-129).
THEOREM KernelInvariance == KernelSpec => []KernelInv
<1>1. KernelInv /\ [KernelNext]_kernelVars => KernelInv'
  BY VectorIterationKeepsInv, LeaveLoopKeepsInv, TailKeepsInv, KernelStutterKeepsInv
     DEF KernelNext
<1> QED
  BY <1>1, LaunchEstablishesInv, PTL DEF KernelSpec

\* A word of a vector lies before the tail.
LEMMA VectorsBeforeTail ==
  ASSUME KernelInv, NEW v \in Nat, v < VectorWordCount, NEW w \in WordsOfVector(v)
  PROVE  w \in Nat /\ w < TailStart /\ w < word_count
<1>1. /\ VectorWordCount \in Nat /\ TailStart = 4 * VectorWordCount /\ TailStart <= word_count
      /\ word_count \in Nat
  BY GridFacts DEF KernelInv, LaunchInv
<1>2. w \in Nat /\ w < 4 * VectorWordCount
  BY <1>1, WordsFacts
<1> QED
  BY <1>1, <1>2

\* The grid writes all of the shard and nothing else, whatever its size and
\* whatever the launch configuration (sparse_decoder.cu:63-74, 89-129).
THEOREM GridCoversShard == KernelSpec => []KernelCoversShard
<1>1. KernelInv => KernelCoversShard
  <2> SUFFICES ASSUME KernelInv PROVE KernelCoversShard
    OBVIOUS
  <2>1. /\ LaunchInv /\ word_count \in Nat
        /\ VectorWordCount \in Nat /\ TailStart = 4 * VectorWordCount
        /\ TailStart <= word_count /\ word_count < TailStart + 4
    BY GridFacts DEF KernelInv, LaunchInv
  <2>2. output \subseteq 0 .. word_count - 1
    <3> SUFFICES ASSUME NEW w \in output PROVE w \in 0 .. word_count - 1
      OBVIOUS
    <3>1. w \in Nat /\ (InVectors(w) \/ InTail(w))
      BY DEF KernelInv, OutputInv
    <3>2. CASE InVectors(w)
      BY <2>1, <3>1, <3>2, VectorsBeforeTail DEF InVectors
    <3>3. CASE InTail(w)
      <4>1. PICK t \in GridThreads : t[2] < word_count - TailStart /\ w = TailStart + t[2]
        BY <3>3 DEF InTail, TailThread
      <4>2. t[2] \in Nat
        BY <2>1, IdFacts
      <4> QED
        BY <2>1, <3>1, <4>1, <4>2
    <3> QED
      BY <3>1, <3>2, <3>3
  <2>3. ASSUME \A t \in GridThreads : thread_pc[t] = "done", NEW w \in 0 .. word_count - 1
        PROVE  w \in output
    <3>1. CASE w < TailStart
      <4>1. /\ w \div 4 \in Nat /\ w \div 4 < VectorWordCount
            /\ 4 * (w \div 4) <= w /\ w <= 4 * (w \div 4) + 3
        BY <2>1, <3>1
      <4>2. PICK v \in Nat : v < VectorWordCount /\ w \in WordsOfVector(v)
        BY <2>3, <4>1 DEF WordsOfVector
      <4>3. PICK t \in GridThreads : Owns(t, v)
        BY <2>1, OwnerExists
      <4>4. vector_index[t] >= VectorWordCount /\ vector_index[t] \in Nat
        BY <2>3 DEF KernelInv, WalkInv, LaunchInv
      <4>5. v < vector_index[t]
        BY <2>1, <4>2, <4>4
      <4>6. InVectors(w)
        BY <4>2, <4>3, <4>5 DEF InVectors
      <4> QED
        BY <4>6 DEF KernelInv, OutputInv
    <3>2. CASE w >= TailStart
      <4>1. blockDim \in Nat /\ blockDim >= 3 /\ gridDim \in Nat /\ gridDim >= 1
        BY <2>1 DEF LaunchInv
      <4>2. /\ w - TailStart \in 0 .. blockDim - 1 /\ 0 \in 0 .. gridDim - 1
            /\ w - TailStart < word_count - TailStart /\ w = TailStart + (w - TailStart)
        BY <2>1, <3>2, <4>1
      <4> DEFINE t == <<0, w - TailStart>>
      <4>3. t \in GridThreads /\ t[1] = 0 /\ t[2] = w - TailStart
        BY <4>2 DEF GridThreads
      <4>4. TailThread(t)
        BY <4>2, <4>3 DEF TailThread
      <4>5. InTail(w)
        BY <2>3, <4>2, <4>3, <4>4 DEF InTail
      <4> QED
        BY <4>5 DEF KernelInv, OutputInv
    <3> QED
      BY <2>1, <3>1, <3>2
  <2> QED
    BY <2>2, <2>3 DEF KernelCoversShard
<1> QED
  BY <1>1, KernelInvariance, PTL

\* No word is written by two threads, in the loop or in the tail
\* (sparse_decoder.cu:99-115, 117-128).
THEOREM ThreadsNeverRace == KernelSpec => WordsWrittenOnce
<1>1. ASSUME KernelInv, NEW t \in GridThreads
      PROVE  /\ VectorIteration(t) => WordsOfVector(vector_index[t]) \cap output = {}
             /\ Tail(t) /\ TailThread(t) => TailStart + t[2] \notin output
  <2>0. LaunchInv /\ vector_index[t] \in Nat /\ Owns(t, vector_index[t])
    BY <1>1 DEF KernelInv, LaunchInv, WalkInv
  <2>1. ASSUME VectorIteration(t), NEW w \in WordsOfVector(vector_index[t]), w \in output
        PROVE  FALSE
    <3>1. vector_index[t] < VectorWordCount
      BY <2>1 DEF VectorIteration
    <3>2. w < TailStart /\ w \in Nat
      BY <1>1, <2>0, <2>1, <3>1, VectorsBeforeTail
    <3>3. ~InTail(w)
      <4>1. \A u \in GridThreads : u[2] \in Nat /\ TailStart \in Nat
        BY <2>0, IdFacts, GridFacts
      <4> QED
        BY <3>2, <4>1 DEF InTail
    <3>4. PICK u \in GridThreads, v \in Nat :
            Owns(u, v) /\ v < vector_index[u] /\ w \in WordsOfVector(v)
      BY <1>1, <2>1, <3>3 DEF KernelInv, OutputInv, InVectors
    <3>5. v = vector_index[t]
      BY <2>0, <2>1, <3>4, WordsFacts
    <3>6. u = t
      BY <2>0, <3>4, <3>5, OwnerUnique
    <3> QED
      BY <2>0, <3>4, <3>5, <3>6
  <2>2. ASSUME Tail(t), TailThread(t), TailStart + t[2] \in output
        PROVE  FALSE
    <3>1. /\ t[2] \in Nat /\ TailStart \in Nat
          /\ \A u \in GridThreads : u = <<u[1], u[2]>> /\ u[2] \in Nat
      BY <2>0, IdFacts, GridFacts
    <3>2. ~InVectors(TailStart + t[2])
      BY <1>1, <3>1, VectorsBeforeTail DEF InVectors
    <3>3. PICK u \in GridThreads : /\ thread_pc[u] = "done" /\ TailThread(u)
                                   /\ TailStart + t[2] = TailStart + u[2]
      BY <1>1, <2>2, <3>2 DEF KernelInv, OutputInv, InTail
    <3>4. t[1] = 0 /\ u[1] = 0 /\ t[2] = u[2]
      BY <2>2, <3>1, <3>3 DEF TailThread
    <3>5. u = t
      BY <3>1, <3>4
    <3> QED
      BY <2>2, <3>3, <3>5 DEF Tail
  <2> QED
    BY <2>1, <2>2
<1>2. KernelInv /\ [KernelNext]_kernelVars =>
        [\A t \in GridThreads :
           /\ VectorIteration(t) => WordsOfVector(vector_index[t]) \cap output = {}
           /\ Tail(t) /\ TailThread(t) => TailStart + t[2] \notin output]_kernelVars
  BY <1>1
<1> QED
  BY <1>2, KernelInvariance, PTL DEF KernelSpec, WordsWrittenOnce
=============================================================================

------------------------------ MODULE XorKernel ------------------------------
(***************************************************************************)
(* One launch of the XOR kernels of kernels/sparse_decoder.cu: a grid of   *)
(* threads rebuilds a shard of word_count 32-bit words.  Each thread walks *)
(* over vectors of four words with the stride of the whole grid; the words *)
(* after the last full vector are left to the first threads of block 0.    *)
(* The template for 2 to 6 sources and the dynamic kernel have the same    *)
(* body.  A thread's step is one iteration of its loop, or its tail; the   *)
(* hardware may run the threads in any order.                              *)
(*                                                                         *)
(* The value of a word is the XOR of the sources at the same index, which  *)
(* is module Codec's subject; here `output' is the set of the words that   *)
(* have been written.                                                      *)
(***************************************************************************)
EXTENDS Integers, FiniteSets

CONSTANTS
    WordCounts,         \* lengths of the shards
    Devices             \* what the CUDA runtime reports of a device and a kernel

\* The occupancy calls return a block size that is a multiple of the warp size;
\* the tail needs three threads.  A device without multiprocessors is refused.
ASSUME KernelAssumption ==
    /\ WordCounts \subseteq Nat \ {0}
    /\ Devices \subseteq [block_size : {n \in Nat : n >= 3}, min_grid_size : Nat,
                          multiprocessors : Nat \ {0}, active_blocks : Nat,
                          max_grid_size : Nat \ {0}]

VARIABLES
    word_count,
    blockDim, gridDim,
    vector_index,       \* of each thread
    thread_pc,          \* "loop", "tail" or "done"
    output              \* the words written so far

kernelVars == <<word_count, blockDim, gridDim, vector_index, thread_pc, output>>

Larger(a, b) == IF a < b THEN b ELSE a
Smaller(a, b) == IF a < b THEN a ELSE b

\* GetOptimalLaunchConfig: the bound on the grid.  (The limit of an int is no
\* further bound: max_grid_size is one.)
MaxGridBlocks(d) ==
    LET potential == Larger(1, (d.min_grid_size + d.multiprocessors - 1)
                                   \div d.multiprocessors)
        blocks_per_sm == Larger(1, Smaller(potential, d.active_blocks))
    IN Smaller(d.multiprocessors * blocks_per_sm * 2, d.max_grid_size)

CalculateGridBlocks(words, d) ==
    LET words_per_block == d.block_size * 4
        required == words \div words_per_block
                        + (IF words % words_per_block # 0 THEN 1 ELSE 0)
    IN Larger(1, Smaller(required, MaxGridBlocks(d)))

\* A mutant of VectorWordCount: the last vector may be a partial one.
VectorWordCountRoundedUp == (word_count + 3) \div 4

VectorWordCount == word_count \div 4

\* A mutant of Stride: the threads of one block only.
BlockStride == blockDim

Stride == blockDim * gridDim

GridThreads == (0 .. gridDim - 1) \X (0 .. blockDim - 1)

\* LaunchXorOperationCuda.
LaunchXorOperation ==
    /\ word_count \in WordCounts
    /\ \E d \in Devices : /\ blockDim = d.block_size
                         /\ gridDim = CalculateGridBlocks(word_count, d)
    /\ vector_index = [t \in GridThreads |-> t[1] * blockDim + t[2]]
    /\ thread_pc = [t \in GridThreads |-> "loop"]
    /\ output = {}

WordsOfVector(v) == 4 * v .. 4 * v + 3

VectorIteration(t) ==
    /\ thread_pc[t] = "loop"
    /\ vector_index[t] < VectorWordCount
    /\ output' = output \cup WordsOfVector(vector_index[t])
    /\ vector_index' = [vector_index EXCEPT ![t] = @ + Stride]
    /\ UNCHANGED <<word_count, blockDim, gridDim, thread_pc>>

LeaveLoop(t) ==
    /\ thread_pc[t] = "loop"
    /\ vector_index[t] >= VectorWordCount
    /\ thread_pc' = [thread_pc EXCEPT ![t] = "tail"]
    /\ UNCHANGED <<word_count, blockDim, gridDim, vector_index, output>>

TailStart == VectorWordCount * 4

TailThread(t) == t[1] = 0 /\ t[2] < word_count - TailStart

Tail(t) ==
    /\ thread_pc[t] = "tail"
    /\ output' = output \cup (IF TailThread(t) THEN {TailStart + t[2]} ELSE {})
    /\ thread_pc' = [thread_pc EXCEPT ![t] = "done"]
    /\ UNCHANGED <<word_count, blockDim, gridDim, vector_index>>

KernelNext == \E t \in GridThreads : VectorIteration(t) \/ LeaveLoop(t) \/ Tail(t)

KernelSpec == LaunchXorOperation /\ [][KernelNext]_kernelVars

-----------------------------------------------------------------------------
(***************************************************************************)
(* The threads do not race: a word of the output that some thread has      *)
(* written is not written by any other one, in the vector loop or in the   *)
(* tail (sparse_decoder.cu:99-115, 117-128).                               *)
(***************************************************************************)
WordsWrittenOnce ==
    [][\A t \in GridThreads :
         /\ VectorIteration(t) => WordsOfVector(vector_index[t]) \cap output = {}
         /\ Tail(t) /\ TailThread(t) => TailStart + t[2] \notin output]_kernelVars

(***************************************************************************)
(* The grid writes the shard and nothing else: no thread ever writes       *)
(* outside the output buffer, and when the last one is done every word,    *)
(* also the up to three behind the last full vector, has been written, for *)
(* any block size and any grid that the tuning has bounded                 *)
(* (sparse_decoder.cu:63-74, 89-129).                                      *)
(***************************************************************************)
KernelCoversShard ==
    /\ output \subseteq 0 .. word_count - 1
    /\ (\A t \in GridThreads : thread_pc[t] = "done") => output = 0 .. word_count - 1
=============================================================================

--------------------------- MODULE MCCodedRecovery ---------------------------
(***************************************************************************)
(* Small instances of the composed recovery path.  The graphs reach chains *)
(* of two dependent operations, releases in the second pass over the       *)
(* equations, parity shards that are redundant and ones that are lost;     *)
(* malformed graphs and shard sets are refused.                            *)
(***************************************************************************)
EXTENDS CodedRecovery, TLC

SortedVectors(S) ==
    UNION {{v \in [1 .. len -> S] : \A i \in 1 .. len - 1 : v[i] < v[i + 1]} :
             len \in 1 .. 3}

Graphs(k, m) ==
    {[k |-> k, m |-> m, eq |-> e] :
        e \in [k .. k + m - 1 -> SortedVectors(0 .. k - 1)]}

\* A graph with three parity shards whose plan needs two passes.
Chain == [k |-> 3, m |-> 3,
          eq |-> (3 :> <<2, 1, 0>>) @@ (4 :> <<1, 0>>) @@ (5 :> <<0>>)]

\* Graphs that validation refuses: empty, duplicate and foreign neighbours,
\* missing and superfluous equations, no shards, too many shards.
BadGraphs ==
    {[k |-> 2, m |-> 1, eq |-> (2 :> v)] : v \in {<<>>, <<0, 0>>, <<1, 0, 1>>, <<0, 2>>}}
    \cup {[k |-> 2, m |-> 1, eq |-> (3 :> <<0>>)],
          [k |-> 2, m |-> 1, eq |-> [p \in {2, 3} |-> <<0>>]],
          [k |-> 0, m |-> 1, eq |-> (0 :> <<0>>)],
          [k |-> 2, m |-> 0, eq |-> <<>>],
          [k |-> 7, m |-> 2, eq |-> [p \in {7, 8} |-> <<0>>]],
          [Chain EXCEPT !.m = 2]}

\* Graphs as the generator draws them; the last ones have the most shards there
\* can be.
Generated == GenerateRegularGraph(3, 2, 2) \cup GenerateRegularGraph(2, 2, 2)
                \cup GenerateRegularGraph(5, 1, 1)

MCInputs ==
    UNION {[graph : Graphs(km[1], km[2]), missing : SUBSET (0 .. km[1] - 1),
            available : SUBSET (km[1] .. km[1] + km[2] - 1)] :
             km \in {<<1, 1>>, <<2, 2>>, <<3, 2>>}}
    \cup [graph : {Chain}, missing : SUBSET (0 .. 2), available : SUBSET (3 .. 5)]
    \cup [graph : Generated, missing : SUBSET (0 .. 2), available : {{4}, {3, 4}, {5}}]
    \cup [graph : BadGraphs, missing : {{}, {0}, {0, 1}}, available : {{}, {2}, {3}}]
    \cup [graph : Graphs(2, 1), missing : {{2}, {0, 3}}, available : {{2}, {0}, {4}}]
=============================================================================

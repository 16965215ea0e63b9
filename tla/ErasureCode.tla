----------------------------- MODULE ErasureCode -----------------------------
(***************************************************************************)
(* The sparse XOR erasure code that the planner, the codec and the serving *)
(* runtime share: the bipartite graph of parity equations and its          *)
(* validation, and the GF(2) arithmetic of shard payloads.                 *)
(*                                                                         *)
(* A graph is a record [k, m, eq]: k systematic shards 0 .. k-1, m parity  *)
(* shards k .. k+m-1, and eq, the std::map from a parity shard to the      *)
(* vector of its systematic neighbours.                                    *)
(*                                                                         *)
(* A payload is modelled by the set of systematic shards whose XOR it is:  *)
(* systematic shard s holds {s}, and XOR is symmetric difference.  XOR     *)
(* works on every word of a shard alike, so two payloads with the same set *)
(* are equal bit for bit whatever the words of the systematic shards are.  *)
(***************************************************************************)
EXTENDS Integers, Sequences, FiniteSets

CONSTANT MaxShardId     \* std::numeric_limits<ShardId>::max()

ASSUME MaxShardIdAssumption == MaxShardId \in Nat

Systematic(g) == 0 .. g.k - 1
Parity(g)     == g.k .. g.k + g.m - 1
Shards(g)     == 0 .. g.k + g.m - 1

\* The vector of systematic neighbours of parity shard p, and its elements.
Equation(g, p)  == g.eq[p]
Neighbors(g, p) == {g.eq[p][i] : i \in DOMAIN g.eq[p]}

\* What a BipartiteGraph value is before anybody has validated it.
IsBipartiteGraph(g) ==
    /\ g = [k |-> g.k, m |-> g.m, eq |-> g.eq]
    /\ g.k \in Nat
    /\ g.m \in Nat
    /\ DOMAIN g.eq \subseteq Nat
    /\ IsFiniteSet(DOMAIN g.eq)
    /\ g.eq \in [DOMAIN g.eq -> Seq(Nat)]

\* A mutant of ValidEquation: the duplicate-edge check is gone.
ValidEquationWithDuplicates(g, p) ==
    /\ g.eq[p] # <<>>
    /\ \A i \in DOMAIN g.eq[p] : g.eq[p][i] < g.k

\* One iteration of ValidateGraph's loop over the parity shards.
ValidEquation(g, p) ==
    /\ g.eq[p] # <<>>
    /\ \A i \in DOMAIN g.eq[p] : g.eq[p][i] < g.k
    /\ \A i, j \in DOMAIN g.eq[p] : g.eq[p][i] = g.eq[p][j] => i = j

\* TRUE iff ValidateGraph returns; otherwise it throws.
ValidateGraph(g) ==
    /\ g.k # 0
    /\ g.m # 0
    /\ g.k <= MaxShardId
    /\ g.m <= (MaxShardId + 1) - g.k
    /\ Cardinality(DOMAIN g.eq) = g.m
    /\ \A p \in Parity(g) : p \in DOMAIN g.eq /\ ValidEquation(g, p)

\* A mutant of DrawnNeighbors: each neighbour is drawn on its own.
DrawnWithRepetition(k, degree) == [1 .. degree -> 0 .. k - 1]

\* The first `degree' elements of the shuffled candidates.
DrawnNeighbors(k, degree) ==
    {v \in [1 .. degree -> 0 .. k - 1] : \A i, j \in 1 .. degree : v[i] = v[j] => i = j}

\* The graphs GenerateRegularGraph may return, whatever the seed; none if it throws.
GenerateRegularGraph(k, m, degree) ==
    IF /\ k # 0 /\ m # 0
       /\ degree \in 1 .. k
       /\ k <= MaxShardId
       /\ m <= (MaxShardId + 1) - k
      THEN {[k |-> k, m |-> m, eq |-> e] : e \in [k .. k + m - 1 -> DrawnNeighbors(k, degree)]}
      ELSE {}

-----------------------------------------------------------------------------
(***************************************************************************)
(* CodeGraph, the encoder's own graph type: a record [k, m, equations],    *)
(* with a sequence of equations [output, sources].                         *)
(***************************************************************************)

\* TRUE iff CodeGraph's constructor returns.
ValidateCodeGraph(c) ==
    /\ c.k # 0 /\ c.m # 0
    /\ c.k <= MaxShardId - c.m
    /\ Len(c.equations) = c.m
    /\ \A i \in DOMAIN c.equations :
         LET e == c.equations[i]
         IN /\ e.output \in c.k .. c.k + c.m - 1
            /\ \A j \in DOMAIN c.equations : c.equations[j].output = e.output => j = i
            /\ e.sources # <<>>
            /\ \A n \in DOMAIN e.sources : e.sources[n] < c.k + c.m
            /\ \A n, o \in DOMAIN e.sources : e.sources[n] = e.sources[o] => n = o

\* TRUE iff encode_parity_cpu throws at none of the sources.
EncoderAccepts(c) ==
    \A i \in DOMAIN c.equations :
        \A n \in DOMAIN c.equations[i].sources : c.equations[i].sources[n] < c.k

\* The conversion that the differential test makes.
ToCodeGraph(g) ==
    [k |-> g.k, m |-> g.m,
     equations |-> [i \in 1 .. g.m |-> [output |-> g.k + i - 1, sources |-> g.eq[g.k + i - 1]]]]

-----------------------------------------------------------------------------
(***************************************************************************)
(* XOR of a vector of payloads: the systematic shards that occur in an odd *)
(* number of them.                                                         *)
(***************************************************************************)
XorAll(vals) ==
    {x \in UNION {vals[i] : i \in DOMAIN vals} :
        Cardinality({i \in DOMAIN vals : x \in vals[i]}) % 2 = 1}

\* encode_parity_cpu: the payload of parity shard p of the systematic shards,
\* shard s holding {s}.
EncodedParity(g, p) == XorAll([i \in DOMAIN g.eq[p] |-> {g.eq[p][i]}])

\* The payload every shard of an encoded request holds.
Encoded(g, s) == IF s \in Systematic(g) THEN {s} ELSE EncodedParity(g, s)

-----------------------------------------------------------------------------
(***************************************************************************)
(* Reference definition of what peeling can recover.  A stopping set is a  *)
(* set of systematic shards that no available parity equation touches      *)
(* exactly once: while all of it is missing, no equation yields any of it. *)
(***************************************************************************)
TouchesOnce(g, p, S) == \E x \in S : Neighbors(g, p) \cap S = {x}

StoppingSet(g, available, S) == \A p \in available : ~TouchesOnce(g, p, S)

Peelable(g, missing, available) ==
    \A S \in SUBSET missing : StoppingSet(g, available, S) => S = {}
=============================================================================

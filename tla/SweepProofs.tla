----------------------------- MODULE SweepProofs -----------------------------
(***************************************************************************)
(* Proofs about the parameter sweep of module ParameterSweep, for any      *)
(* numbers of points, requests, shards and sizes, any draws and any        *)
(* calibration table:                                                      *)
(*                                                                         *)
(*   - CodedRows: the rows can be compared.  The sweep stops early only    *)
(*     for a decode cost that was not measured, an admitted recovery       *)
(*     always wins and every other request has the latency of waiting;     *)
(*   - NeverSlower: no percentile of a replicated or coded row is above    *)
(*     that of the waiting row;                                            *)
(*   - ExactPercentiles: every percentile of a row is the least latency    *)
(*     that so many of its requests do not exceed;                         *)
(*   - ReplicationIsBalanced: the replicas are spread fairly.              *)
(*                                                                         *)
(* All but the last follow from the inductive invariant SweepInv, which    *)
(* says for each phase how its metrics compare with the waiting baseline.  *)
(* It rests on the invariant of the simulator (module ClusterProofs), on   *)
(* what a generated trace looks like (FullTrace), on the agreement of the  *)
(* two ways to find a completion time (LastSystematic), on the regularity  *)
(* of the graph, by which every decode cost is found (EstimateIsPositive), *)
(* and on the nearest rank (PercentileRanked).                             *)
(***************************************************************************)
EXTENDS ParameterSweep, ClusterProofs

-----------------------------------------------------------------------------
(***************************************************************************)
(* The arrival times of the requests are the sums of the gaps: the         *)
(* recursive definition has a solution, and its values are times.          *)
(***************************************************************************)
LEMMA PartialSums ==
    ASSUME NEW n \in Nat, NEW gaps \in [0 .. n -> Nat]
    PROVE  \A b \in 0 .. n : \E f \in [0 .. b -> Nat] :
              \A r \in 0 .. b : f[r] = IF r = 0 THEN gaps[0] ELSE f[r - 1] + gaps[r]
<1> DEFINE Sums(b, f) ==
             \A r \in 0 .. b : f[r] = IF r = 0 THEN gaps[0] ELSE f[r - 1] + gaps[r]
           Bad == {b \in 0 .. n : ~ \E f \in [0 .. b -> Nat] : Sums(b, f)}
<1> SUFFICES ASSUME Bad # {} PROVE FALSE
  OBVIOUS
<1>1. PICK b \in Bad : \A c \in Bad : b <= c
  <2>1. Bad \in SUBSET Nat
    OBVIOUS
  <2>2. QED  BY <2>1, LeastNatural
<1>2. b # 0
  <2> SUFFICES ASSUME b = 0 PROVE FALSE
    OBVIOUS
  <2> DEFINE f == [r \in 0 .. 0 |-> gaps[0]]
  <2>1. f \in [0 .. 0 -> Nat] /\ Sums(0, f)
    OBVIOUS
  <2>2. QED  BY <2>1, <1>1
<1>3. b - 1 \in 0 .. n /\ b - 1 \notin Bad /\ b \in 0 .. n
  <2>1. b \in 0 .. n
    BY <1>1
  <2>2. b - 1 \in 0 .. n /\ ~(b <= b - 1)
    BY <2>1, <1>2
  <2> HIDE DEF Bad
  <2>3. QED  BY <2>1, <2>2, <1>1
<1>4. PICK f \in [0 .. b - 1 -> Nat] : Sums(b - 1, f)
  BY <1>3
<1> DEFINE g == [r \in 0 .. b |-> IF r = b THEN f[b - 1] + gaps[b] ELSE f[r]]
<1>5. g \in [0 .. b -> Nat]
  BY <1>3, <1>4
<1>6. Sums(b, g)
  <2> SUFFICES ASSUME NEW r \in 0 .. b
               PROVE  g[r] = IF r = 0 THEN gaps[0] ELSE g[r - 1] + gaps[r]
    OBVIOUS
  <2>1. CASE r = b
    BY <2>1, <1>2, <1>3
  <2>2. CASE r # b
    BY <2>2, <1>3, <1>4
  <2>3. QED  BY <2>1, <2>2
<1>7. QED  BY <1>1, <1>5, <1>6

LEMMA ArrivalTimesExist ==
    ASSUME NEW n \in Nat, NEW gaps \in [0 .. n -> Nat]
    PROVE  GenerateRequestArrivalTimes(gaps) \in [0 .. n -> Nat]
<1>1. PICK f \in [0 .. n -> Nat] :
         \A r \in 0 .. n : f[r] = IF r = 0 THEN gaps[0] ELSE f[r - 1] + gaps[r]
  <2>1. n \in 0 .. n
    OBVIOUS
  <2>2. QED  BY <2>1, PartialSums
<1> DEFINE Solves(h) == h = [r \in DOMAIN gaps |-> IF r = 0 THEN gaps[0] ELSE h[r - 1] + gaps[r]]
           a == CHOOSE h : Solves(h)
<1>2. Solves(f)
  BY <1>1
<1>3. Solves(a)
  BY <1>2
<1>4. GenerateRequestArrivalTimes(gaps) = a
  BY DEF GenerateRequestArrivalTimes
<1> HIDE DEF a
<1>5. \A r \in 0 .. n : a[r] = IF r = 0 THEN gaps[0] ELSE a[r - 1] + gaps[r]
  BY <1>3
<1>6. \A r \in 0 .. n : a[r] \in Nat
  <2> DEFINE Bad == {r \in 0 .. n : a[r] \notin Nat}
  <2> SUFFICES ASSUME Bad # {} PROVE FALSE
    OBVIOUS
  <2>1. PICK r \in Bad : \A q \in Bad : r <= q
    <3>1. Bad \in SUBSET Nat
      OBVIOUS
    <3>2. QED  BY <3>1, LeastNatural
  <2>2. r # 0
    BY <1>5, <2>1
  <2>3. r - 1 \in 0 .. n /\ a[r - 1] \in Nat
    BY <2>1, <2>2
  <2>4. r \in 0 .. n /\ a[r] \notin Nat /\ gaps[r] \in Nat
    BY <2>1
  <2>5. a[r] = a[r - 1] + gaps[r]
    BY <1>5, <2>2, <2>4
  <2>6. QED  BY <2>3, <2>4, <2>5
<1>7. QED  BY <1>3, <1>4, <1>6

-----------------------------------------------------------------------------
(***************************************************************************)
(* A nonempty set of requests has one with the greatest value.             *)
(***************************************************************************)
LEMMA GreatestValue ==
    ASSUME NEW n \in Nat, NEW A \in SUBSET (0 .. n), A # {}, NEW g \in [0 .. n -> Int]
    PROVE  \E i \in A : \A j \in A : g[j] <= g[i]
<1> DEFINE Top(b) == (\E i \in A : i <= b) =>
                         \E i \in A : i <= b /\ \A j \in A : j <= b => g[j] <= g[i]
           Bad == {b \in 0 .. n : ~Top(b)}
<1>1. Bad = {}
  <2> SUFFICES ASSUME Bad # {} PROVE FALSE
    OBVIOUS
  <2>1. PICK b \in Bad : \A c \in Bad : b <= c
    <3>1. Bad \in SUBSET Nat
      OBVIOUS
    <3>2. QED  BY <3>1, LeastNatural
  <2>2. b \in 0 .. n /\ ~Top(b)
    BY <2>1
  <2>3. b # 0
    <3> SUFFICES ASSUME b = 0 PROVE Top(0)
      BY <2>2
    <3>1. QED  OBVIOUS
  <2>4. b - 1 \in 0 .. n /\ Top(b - 1)
    <3>1. b - 1 \in 0 .. n /\ ~(b <= b - 1)
      BY <2>2, <2>3
    <3>2. b - 1 \notin Bad
      <4> HIDE DEF Bad
      <4>1. QED  BY <2>1, <3>1
    <3> HIDE DEF Top
    <3>3. QED  BY <3>1, <3>2
  <2>5. CASE b \notin A
    <3>1. ASSUME NEW j \in A PROVE /\ j <= b => j <= b - 1
                                   /\ j <= b - 1 => j <= b
      <4>1. j # b /\ j \in Int /\ b \in Int
        BY <2>2, <2>5
      <4>2. \A x, y \in Int : x # y /\ x <= y => x <= y - 1
        OBVIOUS
      <4>3. \A x, y \in Int : x <= y - 1 => x <= y
        OBVIOUS
      <4>4. QED  BY <4>1, <4>2, <4>3
    <3>2. QED  BY <3>1, <2>2, <2>4
  <2>6. CASE b \in A /\ ~ \E i \in A : i <= b - 1
    <3>1. \A j \in A : j <= b => j = b
      BY <2>2, <2>6
    <3>2. QED  BY <3>1, <2>2, <2>6
  <2>7. CASE b \in A /\ \E i \in A : i <= b - 1
    <3>1. PICK i \in A : i <= b - 1 /\ \A j \in A : j <= b - 1 => g[j] <= g[i]
      BY <2>4, <2>7
    <3>2. \A j \in A : j <= b => j <= b - 1 \/ j = b
      BY <2>2
    <3>3. CASE g[b] <= g[i]
      <4>1. i <= b /\ \A j \in A : j <= b => g[j] <= g[i]
        BY <3>1, <3>2, <3>3, <2>2
      <4>2. QED  BY <4>1, <2>2
    <3>4. CASE ~(g[b] <= g[i])
      <4>1. \A j \in A : g[j] \in Int /\ g[i] \in Int /\ g[b] \in Int
        BY <2>2
      <4>2. ASSUME NEW j \in A, j <= b PROVE g[j] <= g[b]
        <5>1. g[j] <= g[i] \/ j = b
          BY <3>1, <3>2, <4>2
        <5>2. g[j] \in Int /\ g[i] \in Int /\ g[b] \in Int
          BY <4>1
        <5>3. \A x, y, z \in Int : x <= y /\ ~(z <= y) => x <= z
          OBVIOUS
        <5>4. \A z \in Int : z <= z
          OBVIOUS
        <5>5. CASE j = b
          BY <5>2, <5>4, <5>5
        <5>6. CASE g[j] <= g[i]
          BY <5>2, <5>3, <5>6, <3>4
        <5>7. QED  BY <5>1, <5>5, <5>6
      <4>3. b <= b
        BY <2>2
      <4>4. QED  BY <4>2, <4>3, <2>2, <2>7
    <3>5. QED  BY <3>3, <3>4
  <2>8. QED  BY <2>5, <2>6, <2>7
<1>2. Top(n)
  <2>1. n \in 0 .. n
    OBVIOUS
  <2>2. QED  BY <1>1, <2>1
<1>3. \A i \in A : i <= n
  OBVIOUS
<1>4. QED  BY <1>2, <1>3

-----------------------------------------------------------------------------
(***************************************************************************)
(* Percentiles by the nearest rank.                                        *)
(***************************************************************************)
\* The percentiles of a row.
Percents == {50, 95, 99}

\* The requests with at most, and with less than, a latency.
AtMost(m, v) == {r \in DOMAIN m : m[r].latency <= v}
Below(m, v) == {r \in DOMAIN m : m[r].latency < v}

LEMMA Ranks ==
    ASSUME NEW n \in Nat
    PROVE  /\ \A percent \in Percents : Rank(percent, n + 1) \in 1 .. n + 1
           /\ Rank(50, n + 1) <= Rank(95, n + 1)
           /\ Rank(95, n + 1) <= Rank(99, n + 1)
<1>1. Rank(50, n + 1) \in 1 .. n + 1
  BY DEF Rank
<1>2. Rank(95, n + 1) \in 1 .. n + 1
  BY DEF Rank
<1>3. Rank(99, n + 1) \in 1 .. n + 1
  BY DEF Rank
<1>4. Rank(50, n + 1) <= Rank(95, n + 1)
  BY DEF Rank
<1>5. Rank(95, n + 1) <= Rank(99, n + 1)
  BY DEF Rank
<1>6. QED  BY <1>1, <1>2, <1>3, <1>4, <1>5 DEF Percents

LEMMA CountTypes ==
    ASSUME NEW n \in Nat, NEW S \in SUBSET (0 .. n)
    PROVE  /\ IsFiniteSet(S) /\ Cardinality(S) \in Nat
           /\ Cardinality(0 .. n) = n + 1
           /\ \A T \in SUBSET S : Cardinality(T) \in Nat /\ Cardinality(T) <= Cardinality(S)
<1>1. IsFiniteSet(0 .. n) /\ Cardinality(0 .. n) = n + 1
  <2>1. 0 \in Int /\ n \in Int
    OBVIOUS
  <2>2. IsFiniteSet(0 .. n) /\ Cardinality(0 .. n) = IF 0 > n THEN 0 ELSE n - 0 + 1
    BY <2>1, FS_Interval
  <2>3. QED  BY <2>2
<1>2. IsFiniteSet(S)
  BY <1>1, FS_Subset
<1>3. ASSUME NEW T \in SUBSET S
      PROVE  Cardinality(T) \in Nat /\ Cardinality(T) <= Cardinality(S)
  BY <1>2, FS_Subset, FS_CardinalityType
<1>4. QED  BY <1>1, <1>2, <1>3, FS_CardinalityType

(***************************************************************************)
(* There is a latency at every rank: of the latencies that enough requests *)
(* have at most, the least one.                                            *)
(***************************************************************************)
LEMMA RankedLatency ==
    ASSUME NEW n \in Nat, NEW m, DOMAIN m = 0 .. n, \A r \in 0 .. n : m[r].latency \in Int,
           NEW rank \in 1 .. n + 1
    PROVE  \E r \in 0 .. n : /\ Cardinality(Below(m, m[r].latency)) < rank
                             /\ rank <= Cardinality(AtMost(m, m[r].latency))
<1> DEFINE lat == [r \in 0 .. n |-> m[r].latency]
           neg == [r \in 0 .. n |-> 0 - m[r].latency]
           Enough == {r \in 0 .. n : rank <= Cardinality(AtMost(m, lat[r]))}
<1>1. lat \in [0 .. n -> Int] /\ neg \in [0 .. n -> Int]
  OBVIOUS
<1>2. \A r \in 0 .. n : lat[r] = m[r].latency /\ neg[r] = 0 - m[r].latency
  OBVIOUS
<1>3. \A v : Below(m, v) \in SUBSET (0 .. n) /\ AtMost(m, v) \in SUBSET (0 .. n)
  BY DEF Below, AtMost
<1> HIDE DEF lat, neg
<1>4. Enough # {}
  <2>1. PICK r \in 0 .. n : \A q \in 0 .. n : lat[q] <= lat[r]
    <3>1. 0 .. n \in SUBSET (0 .. n) /\ 0 .. n # {}
      OBVIOUS
    <3>2. QED  BY <3>1, <1>1, GreatestValue
  <2>2. AtMost(m, lat[r]) = 0 .. n
    BY <2>1, <1>2 DEF AtMost
  <2>3. Cardinality(0 .. n) = n + 1
    BY <1>3, CountTypes
  <2>4. QED  BY <2>2, <2>3
<1>5. PICK r \in Enough : \A q \in Enough : neg[q] <= neg[r]
  <2>1. Enough \in SUBSET (0 .. n)
    OBVIOUS
  <2> HIDE DEF Enough
  <2>2. QED  BY <2>1, <1>1, <1>4, GreatestValue
<1>6. r \in 0 .. n /\ rank <= Cardinality(AtMost(m, lat[r]))
  BY <1>5
<1>7. ASSUME NEW q \in Enough PROVE lat[r] <= lat[q]
  <2>1. q \in 0 .. n /\ neg[q] <= neg[r]
    BY <1>5
  <2>2. \A x, y \in Int : 0 - x <= 0 - y => y <= x
    OBVIOUS
  <2>3. QED  BY <2>1, <2>2, <1>2, <1>6
<1> DEFINE B == Below(m, lat[r])
<1>8. Cardinality(B) < rank
  <2> SUFFICES ASSUME ~(Cardinality(B) < rank) PROVE FALSE
    OBVIOUS
  <2>1. B \in SUBSET (0 .. n) /\ IsFiniteSet(B) /\ Cardinality(B) \in Nat
    BY <1>3, CountTypes
  <2>2. B # {}
    BY <2>1, FS_EmptySet
  <2>3. PICK q \in B : \A p \in B : lat[p] <= lat[q]
    <3> HIDE DEF B
    <3>1. QED  BY <2>1, <2>2, <1>1, GreatestValue
  <2>4. q \in 0 .. n /\ lat[q] < lat[r] /\ lat[q] \in Int /\ lat[r] \in Int
    BY <2>3, <1>1, <1>2, <1>6 DEF Below
  <2>5. AtMost(m, lat[q]) = B
    <3>1. ASSUME NEW p \in AtMost(m, lat[q]) PROVE p \in B
      <4>1. p \in 0 .. n /\ lat[p] <= lat[q] /\ lat[p] \in Int
        BY <1>1, <1>2 DEF AtMost
      <4>2. lat[p] < lat[r]
        BY <4>1, <2>4
      <4>3. QED  BY <4>1, <4>2, <1>2 DEF Below
    <3>2. ASSUME NEW p \in B PROVE p \in AtMost(m, lat[q])
      BY <2>3, <1>2 DEF AtMost, Below
    <3>3. QED  BY <3>1, <3>2
  <2>6. q \in Enough
    BY <2>4, <2>5, <2>1
  <2>7. lat[r] <= lat[q]
    BY <2>6, <1>7
  <2>8. QED  BY <2>4, <2>7
<1>9. QED  BY <1>6, <1>8, <1>2

LEMMA PercentileRanked ==
    ASSUME NEW n \in Nat, NEW m, DOMAIN m = 0 .. n, \A r \in 0 .. n : m[r].latency \in Int,
           NEW percent \in Percents
    PROVE  /\ Percentile(m, percent) \in Int
           /\ Cardinality(Below(m, Percentile(m, percent))) < Rank(percent, n + 1)
           /\ Rank(percent, n + 1) <= Cardinality(AtMost(m, Percentile(m, percent)))
<1> DEFINE L == {m[r].latency : r \in DOMAIN m}
           rank == Rank(percent, n + 1)
<1>1. rank \in 1 .. n + 1
  BY Ranks
<1>2. Cardinality(DOMAIN m) = n + 1
  BY CountTypes
<1>3. Percentile(m, percent) =
         CHOOSE v \in L : Cardinality(Below(m, v)) < rank /\ rank <= Cardinality(AtMost(m, v))
  BY <1>2 DEF Percentile, Below, AtMost
<1> HIDE DEF rank
<1>4. \E v \in L : Cardinality(Below(m, v)) < rank /\ rank <= Cardinality(AtMost(m, v))
  <2>1. PICK r \in 0 .. n : /\ Cardinality(Below(m, m[r].latency)) < rank
                            /\ rank <= Cardinality(AtMost(m, m[r].latency))
    BY <1>1, RankedLatency
  <2>2. QED  BY <2>1
<1>5. /\ Percentile(m, percent) \in L
      /\ Cardinality(Below(m, Percentile(m, percent))) < rank
      /\ rank <= Cardinality(AtMost(m, Percentile(m, percent)))
  <2> HIDE DEF L
  <2>1. QED  BY <1>3, <1>4
<1>6. Percentile(m, percent) \in Int
  BY <1>5
<1>7. QED  BY <1>5, <1>6 DEF rank

(***************************************************************************)
(* Percentiles are monotonic, in the latencies of the requests and in the  *)
(* rank.                                                                   *)
(***************************************************************************)
LEMMA PercentileMonotonic ==
    ASSUME NEW n \in Nat,
           NEW m, DOMAIN m = 0 .. n, \A r \in 0 .. n : m[r].latency \in Int,
           NEW w, DOMAIN w = 0 .. n, \A r \in 0 .. n : w[r].latency \in Int,
           \A r \in 0 .. n : m[r].latency <= w[r].latency,
           NEW a \in Percents, NEW b \in Percents,
           Rank(a, n + 1) <= Rank(b, n + 1)
    PROVE  Percentile(m, a) <= Percentile(w, b)
<1>1. PICK v : v = Percentile(m, a)
  OBVIOUS
<1>2. PICK u : u = Percentile(w, b)
  OBVIOUS
<1>3. /\ v \in Int /\ Cardinality(Below(m, v)) < Rank(a, n + 1)
  BY <1>1, PercentileRanked
<1>4. u \in Int /\ Rank(b, n + 1) <= Cardinality(AtMost(w, u))
  BY <1>2, PercentileRanked
<1> SUFFICES ASSUME u < v PROVE FALSE
  BY <1>1, <1>2, <1>3, <1>4
<1>5. AtMost(w, u) \subseteq Below(m, v)
  <2> SUFFICES ASSUME NEW r \in AtMost(w, u) PROVE r \in Below(m, v)
    OBVIOUS
  <2>1. r \in 0 .. n /\ w[r].latency <= u /\ m[r].latency <= w[r].latency
    BY DEF AtMost
  <2>2. m[r].latency \in Int /\ w[r].latency \in Int
    BY <2>1
  <2>3. m[r].latency < v
    BY <2>1, <2>2, <1>3, <1>4
  <2>4. QED  BY <2>1, <2>3 DEF Below
<1>6. Below(m, v) \in SUBSET (0 .. n)
  BY DEF Below
<1>7. /\ Cardinality(AtMost(w, u)) <= Cardinality(Below(m, v))
      /\ Cardinality(AtMost(w, u)) \in Nat /\ Cardinality(Below(m, v)) \in Nat
  BY <1>5, <1>6, CountTypes
<1>8. Rank(a, n + 1) \in Int /\ Rank(b, n + 1) \in Int
  BY Ranks
<1>9. QED  BY <1>3, <1>4, <1>7, <1>8

-----------------------------------------------------------------------------
(***************************************************************************)
(* Traces.  A trace of the sweep has one arrival for every shard of every  *)
(* request, not before the request starts.                                 *)
(***************************************************************************)
FullTrace(w, arrivals) ==
    /\ \A e \in w :
         /\ e \in [time : Nat, request : RequestIds, shard : Shards(Graph), start : Nat]
         /\ e.start = arrivals[e.request]
         /\ e.start <= e.time
    /\ \A r \in RequestIds, s \in Shards(Graph) : \E e \in w : e.request = r /\ e.shard = s
    /\ \A d, e \in w : d.request = e.request /\ d.shard = e.shard => d = e

\* No shard arrives later than in the other trace.
NoLater(w, base) ==
    \A e \in w : \E d \in base : /\ d.request = e.request /\ d.shard = e.shard
                                 /\ e.time <= d.time

\* x is the last systematic arrival of request r.
LastSystematic(w, r, x) ==
    /\ \E e \in w : e.request = r /\ e.shard \in Systematic(Graph) /\ e.time = x
    /\ \A e \in w : e.request = r /\ e.shard \in Systematic(Graph) => e.time <= x

LEMMA GraphFacts ==
    /\ Graph.k \in Nat /\ Graph.k > 0 /\ Graph.m \in Nat
    /\ Systematic(Graph) \subseteq Shards(Graph) /\ Shards(Graph) \subseteq Nat
    /\ 0 \in Systematic(Graph)
    /\ \A s \in Shards(Graph) : s \in Systematic(Graph) <=> s < Graph.k
<1>1. Graph.k \in Nat /\ Graph.k > 0 /\ Graph.m \in Nat
  BY ClusterAssumption DEF IsBipartiteGraph, ValidateGraph
<1>2. QED  BY <1>1 DEF Systematic, Shards

LEMMA TraceFields ==
    ASSUME NEW w, NEW arrivals, FullTrace(w, arrivals), NEW e \in w
    PROVE  /\ e.time \in Nat /\ e.request \in RequestIds /\ e.shard \in Shards(Graph)
           /\ e.start \in Nat /\ e.start = arrivals[e.request] /\ e.start <= e.time
<1>1. /\ e \in [time : Nat, request : RequestIds, shard : Shards(Graph), start : Nat]
      /\ e.start = arrivals[e.request] /\ e.start <= e.time
  BY DEF FullTrace
<1>2. QED  BY <1>1

LEMMA GeneratedIsFull ==
    ASSUME NEW arrivals \in [RequestIds -> Nat],
           NEW delays \in [RequestIds \X Shards(Graph) -> Int]
    PROVE  FullTrace(Generate(arrivals, delays, Graph.k, Graph.m), arrivals)
<1> DEFINE Event(r, s) == [time |-> arrivals[r] + Sample(delays[<<r, s>>]), request |-> r,
                           shard |-> s, start |-> arrivals[r]]
           w == Generate(arrivals, delays, Graph.k, Graph.m)
<1>1. w = {Event(r, s) : r \in RequestIds, s \in Shards(Graph)}
  BY DEF Generate, Shards
<1>2. ASSUME NEW r \in RequestIds, NEW s \in Shards(Graph)
      PROVE  /\ Event(r, s) \in [time : Nat, request : RequestIds, shard : Shards(Graph),
                                 start : Nat]
             /\ Event(r, s).request = r /\ Event(r, s).shard = s
             /\ Event(r, s).start = arrivals[r]
             /\ Event(r, s).start <= Event(r, s).time
  <2>1. delays[<<r, s>>] \in Int /\ arrivals[r] \in Nat
    OBVIOUS
  <2>2. Sample(delays[<<r, s>>]) \in Nat
    BY <2>1 DEF Sample
  <2>3. arrivals[r] + Sample(delays[<<r, s>>]) \in Nat
    BY <2>1, <2>2
  <2>4. arrivals[r] <= arrivals[r] + Sample(delays[<<r, s>>])
    BY <2>1, <2>2
  <2>5. QED  BY <2>1, <2>3, <2>4
<1> HIDE DEF Event, w
<1>3. ASSUME NEW e \in w PROVE \E r \in RequestIds, s \in Shards(Graph) : e = Event(r, s)
  BY <1>1
<1>4. \A r \in RequestIds, s \in Shards(Graph) : Event(r, s) \in w
  BY <1>1
<1>5. QED  BY <1>2, <1>3, <1>4 DEF FullTrace, w

(***************************************************************************)
(* A replica that is sent when the request starts only makes a shard       *)
(* arrive earlier, and not before the request starts.                      *)
(***************************************************************************)
LEMMA ReplicaIsNoLater ==
    ASSUME NEW base, NEW arrivals, FullTrace(base, arrivals),
           NEW delays \in [RequestIds \X Systematic(Graph) -> Int],
           NEW e \in base, e.shard \in Systematic(Graph),
           NEW d, d = WithReplica(e, arrivals, delays)
    PROVE  /\ d \in [time : Nat, request : RequestIds, shard : Shards(Graph), start : Nat]
           /\ d.request = e.request /\ d.shard = e.shard /\ d.start = e.start
           /\ d.start <= d.time /\ d.time <= e.time
<1>1. /\ e \in [time : Nat, request : RequestIds, shard : Shards(Graph), start : Nat]
      /\ e.start = arrivals[e.request] /\ e.start <= e.time
  BY DEF FullTrace
<1>2. PICK x : x = arrivals[e.request] + Sample(delays[<<e.request, e.shard>>])
  OBVIOUS
<1>3. x \in Nat /\ e.start <= x
  <2>1. e.start \in Nat /\ delays[<<e.request, e.shard>>] \in Int
    BY <1>1
  <2>2. Sample(delays[<<e.request, e.shard>>]) \in Nat
    BY <2>1 DEF Sample
  <2>3. QED  BY <1>1, <1>2, <2>1, <2>2
<1>4. d = [e EXCEPT !.time = IF x < e.time THEN x ELSE e.time]
  BY <1>2 DEF WithReplica
<1>5. QED  BY <1>1, <1>3, <1>4

LEMMA ReplicatedIsFull ==
    ASSUME NEW base, NEW arrivals, FullTrace(base, arrivals),
           NEW delays \in [RequestIds \X Systematic(Graph) -> Int],
           NEW f, NEW w, w = {f[e] : e \in base},
           \A e \in base : \/ f[e] = e
                           \/ /\ e.shard \in Systematic(Graph)
                              /\ f[e] = WithReplica(e, arrivals, delays)
    PROVE  FullTrace(w, arrivals) /\ NoLater(w, base)
<1>1. ASSUME NEW e \in base
      PROVE  /\ f[e] \in [time : Nat, request : RequestIds, shard : Shards(Graph), start : Nat]
             /\ f[e].request = e.request /\ f[e].shard = e.shard /\ f[e].start = e.start
             /\ f[e].start <= f[e].time /\ f[e].time <= e.time
  <2>1. CASE f[e] = e
    <3>1. /\ e \in [time : Nat, request : RequestIds, shard : Shards(Graph), start : Nat]
          /\ e.start <= e.time
      BY DEF FullTrace
    <3>2. QED  BY <2>1, <3>1
  <2>2. CASE e.shard \in Systematic(Graph) /\ f[e] = WithReplica(e, arrivals, delays)
    <3>1. PICK d : d = f[e]
      OBVIOUS
    <3>2. d = WithReplica(e, arrivals, delays)
      BY <2>2, <3>1
    <3>3. /\ d \in [time : Nat, request : RequestIds, shard : Shards(Graph), start : Nat]
          /\ d.request = e.request /\ d.shard = e.shard /\ d.start = e.start
          /\ d.start <= d.time /\ d.time <= e.time
      BY <2>2, <3>2, ReplicaIsNoLater
    <3>4. QED  BY <3>1, <3>3
  <2>3. QED  BY <2>1, <2>2
<1>2. \A d \in w : \E e \in base : d = f[e]
  OBVIOUS
<1>3. FullTrace(w, arrivals)
  <2>1. ASSUME NEW d \in w
        PROVE  /\ d \in [time : Nat, request : RequestIds, shard : Shards(Graph), start : Nat]
               /\ d.start = arrivals[d.request]
               /\ d.start <= d.time
    BY <1>1, <1>2 DEF FullTrace
  <2>2. ASSUME NEW r \in RequestIds, NEW s \in Shards(Graph)
        PROVE  \E d \in w : d.request = r /\ d.shard = s
    <3>1. PICK e \in base : e.request = r /\ e.shard = s
      BY DEF FullTrace
    <3>2. QED  BY <1>1, <3>1
  <2>3. ASSUME NEW c \in w, NEW d \in w, c.request = d.request, c.shard = d.shard
        PROVE  c = d
    <3>1. PICK a \in base : c = f[a]
      BY <1>2
    <3>2. PICK b \in base : d = f[b]
      BY <1>2
    <3>3. a.request = b.request /\ a.shard = b.shard
      BY <1>1, <2>3, <3>1, <3>2
    <3>4. a = b
      BY <3>3 DEF FullTrace
    <3>5. QED  BY <3>1, <3>2, <3>4
  <2>4. QED  BY <2>1, <2>2, <2>3 DEF FullTrace
<1>4. NoLater(w, base)
  BY <1>1, <1>2 DEF NoLater
<1>5. QED  BY <1>3, <1>4

LEMMA FullReplication ==
    ASSUME NEW base, NEW arrivals, FullTrace(base, arrivals),
           NEW delays \in [RequestIds \X Systematic(Graph) -> Int],
           NEW w, w = ApplyReplication(base, arrivals, delays, Graph.k)
    PROVE  FullTrace(w, arrivals) /\ NoLater(w, base)
<1> DEFINE f == [e \in base |-> IF e.shard >= Graph.k THEN e ELSE WithReplica(e, arrivals, delays)]
<1>1. w = {f[e] : e \in base}
  BY DEF ApplyReplication
<1>2. ASSUME NEW e \in base
      PROVE  \/ f[e] = e
             \/ e.shard \in Systematic(Graph) /\ f[e] = WithReplica(e, arrivals, delays)
  <2>1. e.shard \in Shards(Graph) /\ e.shard \in Nat
    BY TraceFields, GraphFacts
  <2>2. e.shard >= Graph.k \/ e.shard \in Systematic(Graph)
    BY <2>1, GraphFacts
  <2>3. QED  BY <2>2
<1> HIDE DEF f
<1>3. QED  BY <1>1, <1>2, ReplicatedIsFull

LEMMA CapacityReplication ==
    ASSUME NEW base, NEW arrivals, FullTrace(base, arrivals),
           NEW delays \in [RequestIds \X Systematic(Graph) -> Int], NEW permutation,
           NEW w, w = ApplyCapacityNormalizedReplication(base, arrivals, delays, Graph.k, Graph.m,
                                                         permutation)
    PROVE  FullTrace(w, arrivals) /\ NoLater(w, base)
<1> DEFINE f == [e \in base |->
                   IF /\ e.shard < Graph.k
                      /\ e.shard \in SelectCapacityNormalizedReplicas(e.request, Graph.k, Graph.m,
                                                                      permutation)
                     THEN WithReplica(e, arrivals, delays) ELSE e]
<1>1. w = {f[e] : e \in base}
  BY DEF ApplyCapacityNormalizedReplication
<1>2. ASSUME NEW e \in base
      PROVE  \/ f[e] = e
             \/ e.shard \in Systematic(Graph) /\ f[e] = WithReplica(e, arrivals, delays)
  <2>1. e.shard < Graph.k => e.shard \in Systematic(Graph)
    BY TraceFields, GraphFacts
  <2>2. QED  BY <2>1
<1> HIDE DEF f
<1>3. QED  BY <1>1, <1>2, ReplicatedIsFull

(***************************************************************************)
(* GetNaturalCompletionTimes finds the last systematic arrival, and        *)
(* RunBaseline the time from the start to it.                              *)
(***************************************************************************)
LEMMA LastSystematicExists ==
    ASSUME NEW w, NEW arrivals, FullTrace(w, arrivals), NEW r \in RequestIds
    PROVE  \E x \in Nat : LastSystematic(w, r, x)
<1> DEFINE At(s) == CHOOSE e \in w : e.request = r /\ e.shard = s
           n == Graph.k - 1
           g == [s \in 0 .. n |-> At(s).time]
<1>1. n \in Nat /\ Systematic(Graph) = 0 .. n
  BY GraphFacts DEF Systematic
<1>2. ASSUME NEW s \in Systematic(Graph)
      PROVE  /\ At(s) \in w /\ At(s).request = r /\ At(s).shard = s
             /\ \A e \in w : e.request = r /\ e.shard = s => e = At(s)
  <2>1. s \in Shards(Graph)
    BY GraphFacts
  <2>2. \E e \in w : e.request = r /\ e.shard = s
    BY <2>1 DEF FullTrace
  <2>3. At(s) \in w /\ At(s).request = r /\ At(s).shard = s
    BY <2>2
  <2> HIDE DEF At
  <2>4. QED  BY <2>3 DEF FullTrace
<1> HIDE DEF At, n
<1>3. \A s \in 0 .. n : At(s).time \in Nat
  BY <1>1, <1>2, TraceFields
<1>4. g \in [0 .. n -> Int] /\ \A s \in 0 .. n : g[s] = At(s).time
  BY <1>3
<1> HIDE DEF g
<1>5. PICK s \in 0 .. n : \A t \in 0 .. n : g[t] <= g[s]
  <2>1. 0 .. n \in SUBSET (0 .. n) /\ 0 \in 0 .. n
    BY <1>1
  <2>2. QED  BY <2>1, <1>1, <1>4, GreatestValue
<1>6. \E e \in w : e.request = r /\ e.shard \in Systematic(Graph) /\ e.time = At(s).time
  BY <1>1, <1>2
<1>7. ASSUME NEW e \in w, e.request = r, e.shard \in Systematic(Graph)
      PROVE  e.time <= At(s).time
  <2>1. e = At(e.shard)
    BY <1>2, <1>7
  <2>2. g[e.shard] <= g[s]
    BY <1>1, <1>5, <1>7
  <2>3. QED  BY <2>1, <2>2, <1>1, <1>4, <1>7
<1>8. LastSystematic(w, r, At(s).time) /\ At(s).time \in Nat
  BY <1>3, <1>6, <1>7 DEF LastSystematic
<1>9. QED  BY <1>8

LEMMA RequestsOfFull ==
    ASSUME NEW w, NEW arrivals, FullTrace(w, arrivals)
    PROVE  RequestsOf(w) = RequestIds
<1>1. \A e \in w : e.request \in RequestIds
  BY TraceFields
<1>2. \A r \in RequestIds : \E e \in w : e.request = r
  BY GraphFacts DEF FullTrace
<1>3. QED  BY <1>1, <1>2 DEF RequestsOf

LEMMA CompletionIsLast ==
    ASSUME NEW w, NEW arrivals, FullTrace(w, arrivals), NEW r \in RequestIds
    PROVE  /\ GetNaturalCompletionTimes(w)[r] \in Nat
           /\ LastSystematic(w, r, GetNaturalCompletionTimes(w)[r])
           /\ \A x : LastSystematic(w, r, x) => x = GetNaturalCompletionTimes(w)[r]
<1> DEFINE T == {e.time : e \in w}
           Last(x) == /\ \E e \in {d \in w : d.request = r /\ d.shard < Graph.k} : e.time = x
                      /\ \A e \in {d \in w : d.request = r /\ d.shard < Graph.k} : e.time <= x
           c == GetNaturalCompletionTimes(w)[r]
<1>1. \A e \in w : e.shard \in Systematic(Graph) <=> e.shard < Graph.k
  BY TraceFields, GraphFacts
<1>2. ASSUME NEW x PROVE Last(x) <=> LastSystematic(w, r, x)
  BY <1>1 DEF LastSystematic
<1>3. PICK x \in Nat : LastSystematic(w, r, x)
  BY LastSystematicExists
<1>4. x \in T
  BY <1>3 DEF LastSystematic
<1>5. c = CHOOSE y \in T : Last(y)
  <2>1. r \in RequestsOf(w)
    BY RequestsOfFull
  <2>2. QED  BY <2>1 DEF GetNaturalCompletionTimes
<1> HIDE DEF Last, T, c
<1>6. c \in T /\ Last(c)
  BY <1>2, <1>3, <1>4, <1>5
<1>7. LastSystematic(w, r, c)
  BY <1>2, <1>6
<1>8. c \in Nat
  BY <1>6, TraceFields DEF T
<1>9. ASSUME NEW y, LastSystematic(w, r, y) PROVE y = c
  <2>1. PICK d \in w : d.request = r /\ d.shard \in Systematic(Graph) /\ d.time = y
    BY <1>9 DEF LastSystematic
  <2>2. y \in Nat
    BY <2>1, TraceFields
  <2>3. PICK e \in w : e.request = r /\ e.shard \in Systematic(Graph) /\ e.time = c
    BY <1>7 DEF LastSystematic
  <2>4. y <= c /\ c <= y
    BY <1>7, <1>9, <2>1, <2>3 DEF LastSystematic
  <2>5. QED  BY <2>2, <2>4, <1>8
<1>10. QED  BY <1>7, <1>8, <1>9 DEF c

LEMMA CompletionMonotonic ==
    ASSUME NEW base, NEW arrivals, FullTrace(base, arrivals), NEW w, FullTrace(w, arrivals),
           NoLater(w, base), NEW r \in RequestIds
    PROVE  GetNaturalCompletionTimes(w)[r] <= GetNaturalCompletionTimes(base)[r]
<1>1. PICK x : x = GetNaturalCompletionTimes(w)[r]
  OBVIOUS
<1>2. PICK y : y = GetNaturalCompletionTimes(base)[r]
  OBVIOUS
<1>3. x \in Nat /\ LastSystematic(w, r, x)
  BY <1>1, CompletionIsLast
<1>4. y \in Nat /\ LastSystematic(base, r, y)
  BY <1>2, CompletionIsLast
<1>5. PICK e \in w : e.request = r /\ e.shard \in Systematic(Graph) /\ e.time = x
  BY <1>3 DEF LastSystematic
<1>6. PICK d \in base : d.request = r /\ d.shard = e.shard /\ e.time <= d.time
  BY <1>5 DEF NoLater
<1>7. d.time <= y /\ d.time \in Nat
  BY <1>4, <1>5, <1>6, TraceFields DEF LastSystematic
<1>8. QED  BY <1>1, <1>2, <1>3, <1>4, <1>5, <1>6, <1>7

LEMMA BaselineLatency ==
    ASSUME NEW w, NEW arrivals, FullTrace(w, arrivals)
    PROVE  /\ DOMAIN RunBaseline(w) = RequestIds
           /\ \A r \in RequestIds :
                /\ arrivals[r] \in Nat
                /\ (CHOOSE e \in w : e.request = r).start = arrivals[r]
                /\ RunBaseline(w)[r].latency = GetNaturalCompletionTimes(w)[r] - arrivals[r]
                /\ RunBaseline(w)[r].latency \in Int
<1>1. RequestsOf(w) = RequestIds
  BY RequestsOfFull
<1>2. DOMAIN RunBaseline(w) = RequestIds
  BY <1>1 DEF RunBaseline
<1>3. ASSUME NEW r \in RequestIds
      PROVE  /\ arrivals[r] \in Nat
             /\ (CHOOSE e \in w : e.request = r).start = arrivals[r]
             /\ RunBaseline(w)[r].latency = GetNaturalCompletionTimes(w)[r] - arrivals[r]
             /\ RunBaseline(w)[r].latency \in Int
  <2>1. PICK d : d = CHOOSE e \in w : e.request = r
    OBVIOUS
  <2>2. d \in w /\ d.request = r
    BY <1>1, <2>1 DEF RequestsOf
  <2>3. d.start = arrivals[r] /\ arrivals[r] \in Nat
    BY <2>2, TraceFields
  <2>4. RunBaseline(w)[r].latency = GetNaturalCompletionTimes(w)[r] - d.start
    BY <1>1, <2>1 DEF RunBaseline
  <2>5. GetNaturalCompletionTimes(w)[r] \in Nat
    BY CompletionIsLast
  <2>6. QED  BY <2>1, <2>3, <2>4, <2>5
<1>4. QED  BY <1>2, <1>3

-----------------------------------------------------------------------------
(***************************************************************************)
(* The inductive invariant of the sweep, by the phase it is in.            *)
(***************************************************************************)
TraceReady ==
    /\ request_arrivals \in [RequestIds -> Nat]
    /\ FullTrace(base_events, request_arrivals)
    /\ wait_metrics = RunBaseline(base_events)

\* No request is slower than it is in the waiting baseline.
Improves(m) ==
    /\ DOMAIN m = RequestIds
    /\ \A r \in RequestIds : m[r].latency \in Int /\ m[r].latency <= wait_metrics[r].latency

\* Every recovery that was admitted ends before the request completes by itself.
RecoveriesWin ==
    \A r \in DOMAIN recovery_completion_times :
        recovery_completion_times[r] < wait_metrics[r].latency + request_arrivals[r]

SimulationInv ==
    /\ ClusterInv
    /\ workload = base_events
    /\ sim_pc \in {"instants", "groups"}
    /\ Measured
    /\ \A d \in events : current_time <= d.time
    /\ RecoveriesWin

\* A recovery was admitted, and won, iff the request is faster for it.
CodedInv ==
    /\ Improves(metrics)
    /\ \A r \in RequestIds :
         /\ metrics[r].admitted <=> metrics[r].latency < wait_metrics[r].latency
         /\ metrics[r].won <=> metrics[r].latency < wait_metrics[r].latency

RowsInv ==
    /\ sweep_pc = "rows"
    /\ rows = [wait |-> Summarize(wait_metrics),
               replication_capacity_normalized |-> Summarize(capacity_replication_metrics),
               replication_full |-> Summarize(full_replication_metrics),
               codedllm |-> Summarize(metrics)]

SweepInv ==
    /\ sweep_pc \in {"generate", "capacity", "full", "cell", "simulate", "rows", "done", "threw"}
    /\ shard_sizes \in ShardSizeLists /\ OptionsAccepted(shard_sizes)
    /\ sweep_pc \in {"capacity", "full", "cell", "simulate", "rows"} => TraceReady
    /\ sweep_pc \in {"full", "cell", "simulate", "rows"} => Improves(capacity_replication_metrics)
    /\ sweep_pc \in {"cell", "simulate", "rows"} => Improves(full_replication_metrics)
    /\ sweep_pc = "simulate" => SimulationInv
    /\ sweep_pc = "rows" => CodedInv
    /\ sweep_pc = "threw" => ~Measured
    /\ rows # NoRows => RowsInv

-----------------------------------------------------------------------------
\* What is kept when the trace and the metrics stay.
LEMMA TraceKept ==
    ASSUME TraceReady, UNCHANGED <<request_arrivals, base_events, wait_metrics>>
    PROVE  TraceReady'
BY DEF TraceReady, FullTrace, RunBaseline, GetNaturalCompletionTimes, RequestsOf

LEMMA CapacityKept ==
    ASSUME Improves(capacity_replication_metrics),
           UNCHANGED <<capacity_replication_metrics, wait_metrics>>
    PROVE  Improves(capacity_replication_metrics)'
BY DEF Improves

LEMMA FullKept ==
    ASSUME Improves(full_replication_metrics), UNCHANGED <<full_replication_metrics, wait_metrics>>
    PROVE  Improves(full_replication_metrics)'
BY DEF Improves

LEMMA CodedKept ==
    ASSUME CodedInv, UNCHANGED <<metrics, wait_metrics>>
    PROVE  CodedInv'
BY DEF CodedInv, Improves

LEMMA OptionsKept ==
    ASSUME OptionsAccepted(shard_sizes), shard_sizes' = shard_sizes
    PROVE  OptionsAccepted(shard_sizes)'
BY DEF OptionsAccepted

LEMMA SizesFacts ==
    \A sizes \in ShardSizeLists : OptionsAccepted(sizes) =>
        /\ NumRequests \in Nat /\ NumRequests > 0 /\ RequestIds = 0 .. NumRequests - 1
        /\ \A c \in DOMAIN DecodeCosts : DecodeCosts[c] \in Int /\ DecodeCosts[c] > 0
BY SweepAssumption DEF OptionsAccepted

LEMMA SweepInvInit == SweepInit => SweepInv
<1> SUFFICES ASSUME SweepInit PROVE SweepInv
  OBVIOUS
<1>1. /\ sweep_pc = "generate" /\ rows = NoRows
      /\ shard_sizes \in ShardSizeLists /\ OptionsAccepted(shard_sizes)
  BY DEF SweepInit
<1>2. QED  BY <1>1 DEF SweepInv

\* A trace in which no shard arrives later improves every request.
LEMMA BaselineImproves ==
    ASSUME TraceReady, NEW w, FullTrace(w, request_arrivals), NoLater(w, base_events),
           NEW m, m = RunBaseline(w)
    PROVE  Improves(m)
<1>1. PICK base : base = base_events
  OBVIOUS
<1>2. PICK arrivals : arrivals = request_arrivals
  OBVIOUS
<1>3. FullTrace(base, arrivals) /\ FullTrace(w, arrivals) /\ NoLater(w, base)
  BY <1>1, <1>2 DEF TraceReady
<1>4. /\ DOMAIN m = RequestIds
      /\ \A r \in RequestIds :
           /\ arrivals[r] \in Nat
           /\ m[r].latency = GetNaturalCompletionTimes(w)[r] - arrivals[r]
           /\ m[r].latency \in Int
  BY <1>3, BaselineLatency
<1>5. \A r \in RequestIds :
         wait_metrics[r].latency = GetNaturalCompletionTimes(base)[r] - arrivals[r]
  BY <1>1, <1>3, BaselineLatency DEF TraceReady
<1>6. ASSUME NEW r \in RequestIds PROVE m[r].latency <= wait_metrics[r].latency
  <2>1. /\ GetNaturalCompletionTimes(w)[r] <= GetNaturalCompletionTimes(base)[r]
        /\ GetNaturalCompletionTimes(w)[r] \in Nat /\ GetNaturalCompletionTimes(base)[r] \in Nat
    BY <1>3, CompletionMonotonic, CompletionIsLast
  <2>2. QED  BY <2>1, <1>4, <1>5
<1>7. QED  BY <1>4, <1>6 DEF Improves

LEMMA GenerateWorkloadPreserves ==
    ASSUME SweepInv, GenerateWorkload
    PROVE  SweepInv'
<1>1. /\ sweep_pc = "generate" /\ sweep_pc' = "capacity"
      /\ UNCHANGED <<shard_sizes, cell, rows>>
      /\ wait_metrics' = RunBaseline(base_events')
  BY DEF GenerateWorkload
<1>2. PICK gaps \in [RequestIds -> Gaps], delays \in AllDraws :
        /\ request_arrivals' = GenerateRequestArrivalTimes(gaps)
        /\ base_events' = Generate(request_arrivals', delays, Graph.k, Graph.m)
  BY DEF GenerateWorkload
<1>3. NumRequests \in Nat /\ NumRequests > 0 /\ RequestIds = 0 .. NumRequests - 1
  BY SizesFacts DEF SweepInv
<1>4. PICK arrivals : arrivals = request_arrivals'
  OBVIOUS
<1>5. arrivals \in [RequestIds -> Nat]
  <2>1. PICK n : n = NumRequests - 1
    OBVIOUS
  <2>2. n \in Nat /\ RequestIds = 0 .. n
    BY <1>3, <2>1
  <2>3. gaps \in [0 .. n -> Nat]
    BY <2>2, SweepAssumption
  <2>4. QED  BY <2>2, <2>3, <1>2, <1>4, ArrivalTimesExist
<1>6. delays \in [RequestIds \X Shards(Graph) -> Int]
  BY <1>2, SweepAssumption DEF AllDraws
<1>7. FullTrace(Generate(arrivals, delays, Graph.k, Graph.m), arrivals)
  BY <1>5, <1>6, GeneratedIsFull
<1>8. PICK w : w = Generate(arrivals, delays, Graph.k, Graph.m)
  OBVIOUS
<1>9. FullTrace(w, arrivals) /\ w = base_events'
  BY <1>2, <1>4, <1>7, <1>8
<1>10. TraceReady'
  BY <1>1, <1>4, <1>5, <1>9
     DEF TraceReady, FullTrace, RunBaseline, GetNaturalCompletionTimes, RequestsOf
<1>11. OptionsAccepted(shard_sizes)' /\ (shard_sizes \in ShardSizeLists)'
  BY <1>1, OptionsKept DEF SweepInv
<1>12. rows' = NoRows
  BY <1>1 DEF SweepInv, RowsInv
<1>13. QED  BY <1>1, <1>10, <1>11, <1>12 DEF SweepInv

\* The replication functions find the events they are given valid.
LEMMA CapacityBaselinePreserves ==
    ASSUME SweepInv, CapacityBaseline
    PROVE  SweepInv'
<1>1. /\ sweep_pc = "capacity" /\ TraceReady
      /\ UNCHANGED <<shard_sizes, cell, request_arrivals, base_events, wait_metrics, rows>>
  BY DEF SweepInv, CapacityBaseline
<1>2. ValidReplicationEvents(base_events, request_arrivals)
  <2>1. PICK base : base = base_events
    OBVIOUS
  <2>2. PICK arrivals : arrivals = request_arrivals
    OBVIOUS
  <2>3. FullTrace(base, arrivals) /\ DOMAIN arrivals = RequestIds
    BY <1>1, <2>1, <2>2 DEF TraceReady
  <2>4. \A e \in base : e.request \in DOMAIN arrivals /\ e.start = arrivals[e.request]
    BY <2>3, TraceFields
  <2>5. QED  BY <2>1, <2>2, <2>4 DEF ValidReplicationEvents
<1>3. sweep_pc' = "full"
  BY <1>2 DEF CapacityBaseline
<1>4. PICK delays \in SystematicDraws, permutation \in Shuffles :
        capacity_replication_metrics' =
          RunBaseline(ApplyCapacityNormalizedReplication(
              base_events, request_arrivals, delays, Graph.k, Graph.m, permutation))
  BY <1>2 DEF CapacityBaseline
<1>5. delays \in [RequestIds \X Systematic(Graph) -> Int]
  BY SweepAssumption DEF SystematicDraws
<1>6. PICK w : w = ApplyCapacityNormalizedReplication(
                     base_events, request_arrivals, delays, Graph.k, Graph.m, permutation)
  OBVIOUS
<1>7. FullTrace(w, request_arrivals) /\ NoLater(w, base_events)
  <2>1. PICK base : base = base_events
    OBVIOUS
  <2>2. PICK arrivals : arrivals = request_arrivals
    OBVIOUS
  <2>3. /\ FullTrace(base, arrivals)
        /\ w = ApplyCapacityNormalizedReplication(base, arrivals, delays, Graph.k, Graph.m,
                                                  permutation)
    BY <1>1, <1>6, <2>1, <2>2 DEF TraceReady
  <2>4. FullTrace(w, arrivals) /\ NoLater(w, base)
    BY <2>3, <1>5, CapacityReplication
  <2>5. QED  BY <2>1, <2>2, <2>4
<1>8. PICK m : m = RunBaseline(w)
  OBVIOUS
<1>9. Improves(m) /\ m = capacity_replication_metrics'
  BY <1>1, <1>4, <1>6, <1>7, <1>8, BaselineImproves
<1>10. Improves(capacity_replication_metrics)'
  BY <1>1, <1>9 DEF Improves
<1>11. TraceReady'
  BY <1>1, TraceKept
<1>12. OptionsAccepted(shard_sizes)' /\ (shard_sizes \in ShardSizeLists)'
  BY <1>1, OptionsKept DEF SweepInv
<1>13. rows' = NoRows
  BY <1>1 DEF SweepInv, RowsInv
<1>14. QED  BY <1>3, <1>10, <1>11, <1>12, <1>13 DEF SweepInv

LEMMA FullBaselinePreserves ==
    ASSUME SweepInv, FullBaseline
    PROVE  SweepInv'
<1>1. /\ sweep_pc = "full" /\ sweep_pc' = "cell" /\ TraceReady
      /\ Improves(capacity_replication_metrics)
      /\ UNCHANGED <<shard_sizes, cell, request_arrivals, base_events, wait_metrics,
                     capacity_replication_metrics, rows>>
  BY DEF SweepInv, FullBaseline
<1>2. PICK delays \in SystematicDraws :
        full_replication_metrics' =
          RunBaseline(ApplyReplication(base_events, request_arrivals, delays, Graph.k))
  BY DEF FullBaseline
<1>3. delays \in [RequestIds \X Systematic(Graph) -> Int]
  BY SweepAssumption DEF SystematicDraws
<1>4. PICK w : w = ApplyReplication(base_events, request_arrivals, delays, Graph.k)
  OBVIOUS
<1>5. FullTrace(w, request_arrivals) /\ NoLater(w, base_events)
  <2>1. PICK base : base = base_events
    OBVIOUS
  <2>2. PICK arrivals : arrivals = request_arrivals
    OBVIOUS
  <2>3. FullTrace(base, arrivals) /\ w = ApplyReplication(base, arrivals, delays, Graph.k)
    BY <1>1, <1>4, <2>1, <2>2 DEF TraceReady
  <2>4. FullTrace(w, arrivals) /\ NoLater(w, base)
    BY <2>3, <1>3, FullReplication
  <2>5. QED  BY <2>1, <2>2, <2>4
<1>6. PICK m : m = RunBaseline(w)
  OBVIOUS
<1>7. Improves(m) /\ m = full_replication_metrics'
  BY <1>1, <1>2, <1>4, <1>5, <1>6, BaselineImproves
<1>8. Improves(full_replication_metrics)'
  BY <1>1, <1>7 DEF Improves
<1>9. TraceReady' /\ Improves(capacity_replication_metrics)'
  BY <1>1, TraceKept, CapacityKept
<1>10. OptionsAccepted(shard_sizes)' /\ (shard_sizes \in ShardSizeLists)'
  BY <1>1, OptionsKept DEF SweepInv
<1>11. rows' = NoRows
  BY <1>1 DEF SweepInv, RowsInv
<1>12. QED  BY <1>1, <1>8, <1>9, <1>10, <1>11 DEF SweepInv

\* A fresh queue and simulator.
LEMMA FreshQueueInv ==
    ASSUME FreshQueue, job_of' = <<>>, recovery_completion_times' = <<>>
    PROVE  QueueInv' /\ SlotsBusy' /\ WaitersWait' /\ JobInv'
<1>1. QueueTypeOK'
  BY QueueAssumption DEF FreshQueue, QueueTypeOK
<1>2. PendingInv'
  BY FS_EmptySet DEF FreshQueue, PendingInv
<1>3. SlotInv'
  BY DEF FreshQueue, SlotInv
<1>4. SlotsBusy' /\ WaitersWait'
  BY DEF FreshQueue, SlotsBusy, WaitersWait
<1>5. JobInv'
  BY DEF JobInv, QuotesAreHonoured
<1>6. QED  BY <1>1, <1>2, <1>3, <1>4, <1>5 DEF QueueInv

LEMMA StartCodedPreserves ==
    ASSUME SweepInv, StartCoded
    PROVE  SweepInv'
<1>1. /\ sweep_pc = "cell" /\ TraceReady
      /\ Improves(capacity_replication_metrics) /\ Improves(full_replication_metrics)
      /\ UNCHANGED <<shard_sizes, cell, request_arrivals, base_events, wait_metrics,
                     capacity_replication_metrics, full_replication_metrics, rows>>
  BY DEF SweepInv, StartCoded, baselineVars
<1>2. OptionsAccepted(shard_sizes)' /\ (shard_sizes \in ShardSizeLists)'
  BY <1>1, OptionsKept DEF SweepInv
<1>3. rows' = NoRows
  BY <1>1 DEF SweepInv, RowsInv
<1>4. CASE ~Measured
  <2>1. sweep_pc' = "threw" /\ ~Measured'
    BY <1>1, <1>4 DEF StartCoded, Measured
  <2>2. QED  BY <2>1, <1>2, <1>3 DEF SweepInv
<1>5. CASE Measured
  <2>1. sweep_pc' = "simulate" /\ Begin(base_events) /\ FreshQueue
    BY <1>5 DEF StartCoded
  <2>2. TraceReady' /\ Improves(capacity_replication_metrics)' /\ Improves(full_replication_metrics)'
    BY <1>1, TraceKept, CapacityKept, FullKept
  <2>3. PICK w : w = base_events
    OBVIOUS
  <2>4. PICK arrivals : arrivals = request_arrivals
    OBVIOUS
  <2>5. FullTrace(w, arrivals)
    BY <1>1, <2>3, <2>4 DEF TraceReady
  <2>6. TypedTrace(w)
    <3>1. \A e \in w : e \in [time : Nat, request : RequestIds, shard : Shards(Graph), start : Nat]
      BY <2>5 DEF FullTrace
    <3>2. QED  BY <3>1, GraphFacts DEF TypedTrace
  <2>7. ValidWorkload(w)
    <3>1. \A e \in w : e.start = arrivals[e.request] /\ e.start <= e.time
                       /\ e.start \in Nat /\ e.time \in Nat
      BY <2>5, TraceFields
    <3>2. QED  BY <3>1 DEF ValidWorkload
  <2>8. /\ workload' = base_events' /\ events' = w /\ sim_pc' = "instants"
        /\ job_of' = <<>> /\ recovery_completion_times' = <<>>
    BY <1>1, <2>1, <2>3, <2>7 DEF Begin
  <2>9. RunInv'
    <3>1. Begin(w)
      BY <2>1, <2>3 DEF Begin
    <3>2. QED  BY <3>1, <2>6, BeginEstablishes
  <2>10. ClusterInv'
    BY <2>1, <2>8, <2>9, FreshQueueInv DEF ClusterInv
  <2>11. Measured'
    BY <1>1, <1>5 DEF Measured
  <2>12. \A d \in events' : current_time' <= d.time
    <3>1. \A d \in w : d.time \in Nat
      BY <2>5, TraceFields
    <3>2. QED  BY <3>1, <2>1, <2>8 DEF FreshQueue
  <2>13. RecoveriesWin'
    BY <2>8 DEF RecoveriesWin
  <2>14. SimulationInv'
    BY <2>8, <2>10, <2>11, <2>12, <2>13 DEF SimulationInv
  <2>15. QED  BY <2>1, <2>2, <2>14, <1>2, <1>3 DEF SweepInv
<1>6. QED  BY <1>4, <1>5

LEMMA PrintRowsPreserves ==
    ASSUME SweepInv, PrintRows
    PROVE  SweepInv'
<1>1. /\ sweep_pc = "rows" /\ sweep_pc' = "rows" /\ TraceReady /\ CodedInv
      /\ Improves(capacity_replication_metrics) /\ Improves(full_replication_metrics)
      /\ UNCHANGED <<shard_sizes, cell, request_arrivals, base_events, wait_metrics,
                     capacity_replication_metrics, full_replication_metrics, metrics>>
  BY DEF SweepInv, PrintRows, baselineVars, clusterVars, runVars
<1>2. OptionsAccepted(shard_sizes)' /\ (shard_sizes \in ShardSizeLists)'
  BY <1>1, OptionsKept DEF SweepInv
<1>3. RowsInv'
  <2>1. rows' = [wait |-> Summarize(wait_metrics),
                 replication_capacity_normalized |-> Summarize(capacity_replication_metrics),
                 replication_full |-> Summarize(full_replication_metrics),
                 codedllm |-> Summarize(metrics)]
    BY DEF PrintRows
  <2>2. /\ Summarize(wait_metrics)' = Summarize(wait_metrics)
        /\ Summarize(capacity_replication_metrics)' = Summarize(capacity_replication_metrics)
        /\ Summarize(full_replication_metrics)' = Summarize(full_replication_metrics)
        /\ Summarize(metrics)' = Summarize(metrics)
    BY <1>1 DEF Summarize, Percentile
  <2>3. QED  BY <1>1, <2>1, <2>2 DEF RowsInv
<1>4. /\ TraceReady' /\ CodedInv'
      /\ Improves(capacity_replication_metrics)' /\ Improves(full_replication_metrics)'
  BY <1>1, TraceKept, CapacityKept, FullKept, CodedKept
<1>5. QED  BY <1>1, <1>2, <1>3, <1>4 DEF SweepInv

LEMMA NextPreserves ==
    ASSUME SweepInv, NextCell \/ NextPoint
    PROVE  SweepInv'
<1>1. CASE NextCell
  <2>1. /\ sweep_pc = "rows" /\ sweep_pc' = "cell" /\ TraceReady /\ rows' = NoRows
        /\ Improves(capacity_replication_metrics) /\ Improves(full_replication_metrics)
        /\ UNCHANGED <<shard_sizes, request_arrivals, base_events, wait_metrics,
                       capacity_replication_metrics, full_replication_metrics>>
    BY <1>1 DEF SweepInv, NextCell, baselineVars
  <2>2. OptionsAccepted(shard_sizes)' /\ (shard_sizes \in ShardSizeLists)'
    BY <2>1, OptionsKept DEF SweepInv
  <2>3. TraceReady' /\ Improves(capacity_replication_metrics)' /\ Improves(full_replication_metrics)'
    BY <2>1, TraceKept, CapacityKept, FullKept
  <2>4. QED  BY <2>1, <2>2, <2>3 DEF SweepInv
<1>2. CASE NextPoint
  <2>1. /\ sweep_pc' \in {"done", "generate"} /\ rows' = NoRows /\ shard_sizes' = shard_sizes
    BY <1>2 DEF NextPoint
  <2>2. OptionsAccepted(shard_sizes)' /\ (shard_sizes \in ShardSizeLists)'
    BY <2>1, OptionsKept DEF SweepInv
  <2>3. QED  BY <2>1, <2>2 DEF SweepInv
<1>3. QED  BY <1>1, <1>2

-----------------------------------------------------------------------------
(***************************************************************************)
(* The coded simulation.                                                   *)
(***************************************************************************)
\* The waiting baseline knows when each request completes by itself.
LEMMA Completions ==
    ASSUME TraceReady, NEW r \in RequestIds
    PROVE  /\ GetNaturalCompletionTimes(base_events)[r] \in Nat
           /\ request_arrivals[r] \in Nat
           /\ wait_metrics[r].latency \in Int
           /\ wait_metrics[r].latency =
                GetNaturalCompletionTimes(base_events)[r] - request_arrivals[r]
           /\ (CHOOSE e \in base_events : e.request = r).start = request_arrivals[r]
           /\ LastSystematic(base_events, r, GetNaturalCompletionTimes(base_events)[r])
           /\ \A x : LastSystematic(base_events, r, x) =>
                       x = GetNaturalCompletionTimes(base_events)[r]
<1>1. PICK base : base = base_events
  OBVIOUS
<1>2. PICK arrivals : arrivals = request_arrivals
  OBVIOUS
<1>3. FullTrace(base, arrivals) /\ wait_metrics = RunBaseline(base)
  BY <1>1, <1>2 DEF TraceReady
<1>4. /\ arrivals[r] \in Nat
      /\ (CHOOSE e \in base : e.request = r).start = arrivals[r]
      /\ wait_metrics[r].latency = GetNaturalCompletionTimes(base)[r] - arrivals[r]
      /\ wait_metrics[r].latency \in Int
  BY <1>3, BaselineLatency
<1>5. /\ GetNaturalCompletionTimes(base)[r] \in Nat
      /\ LastSystematic(base, r, GetNaturalCompletionTimes(base)[r])
      /\ \A x : LastSystematic(base, r, x) => x = GetNaturalCompletionTimes(base)[r]
  BY <1>3, CompletionIsLast
<1>6. QED  BY <1>1, <1>2, <1>4, <1>5

\* The simulator replays the generated trace.
LEMMA ReplayedTrace ==
    ASSUME TraceReady, SimulationInv
    PROVE  /\ TraceInv /\ QueueInv
           /\ events \subseteq workload
           /\ RequestsOf(workload) = RequestIds
           /\ \A e \in workload : /\ e.time \in Nat /\ e.request \in RequestIds
                                  /\ e.shard \in Shards(Graph)
<1>1. PICK base : base = base_events
  OBVIOUS
<1>2. PICK arrivals : arrivals = request_arrivals
  OBVIOUS
<1>3. FullTrace(base, arrivals) /\ workload = base
  BY <1>1, <1>2 DEF TraceReady, SimulationInv
<1>4. \A e \in base : e.time \in Nat /\ e.request \in RequestIds /\ e.shard \in Shards(Graph)
  BY <1>3, TraceFields
<1>5. RequestsOf(base) = RequestIds
  BY <1>3, RequestsOfFull
<1>6. TraceInv /\ QueueInv
  BY DEF SimulationInv, ClusterInv, RunInv
<1>7. events \subseteq workload
  BY <1>6 DEF TraceInv, OrderInv
<1>8. QED  BY <1>3, <1>4, <1>5, <1>6, <1>7

\* The clock never runs ahead of the trace.
LEMMA NextInstantSimulates ==
    ASSUME TraceReady, SimulationInv, NextInstant,
           UNCHANGED <<shard_sizes, cell, request_arrivals, base_events, wait_metrics>>
    PROVE  SimulationInv' /\ sim_pc' = "groups"
<1>1. PICK e \in events :
         /\ \A d \in events : e.time <= d.time
         /\ IF e.time >= 0 /\ e.time >= current_time
              THEN AdvanceTime(e.time) /\ sim_pc' = "groups"
              ELSE sim_pc' = "threw" /\ UNCHANGED queueVars
  BY DEF NextInstant
<1>2. e.time \in Nat /\ current_time \in Nat /\ current_time <= e.time
  BY <1>1, ReplayedTrace DEF SimulationInv, QueueInv, QueueTypeOK
<1>3. sim_pc' = "groups" /\ current_time' = e.time
  BY <1>1, <1>2 DEF AdvanceTime
<1>4. UNCHANGED <<workload, events, recovery_completion_times>>
  BY DEF NextInstant, outcomeVars
<1>5. ClusterInv'
  BY NextInstantPreserves DEF SimulationInv
<1>6. RecoveriesWin'
  BY <1>4 DEF SimulationInv, RecoveriesWin
<1>7. Measured'
  BY DEF SimulationInv, Measured
<1>8. QED  BY <1>1, <1>3, <1>4, <1>5, <1>6, <1>7 DEF SimulationInv

\* Marking the arrivals of a group.
LEMMA GroupSimulates ==
    ASSUME TraceReady, SimulationInv, NEW r, MarkGroup(r), Continue, ClusterInv',
           UNCHANGED <<workload, current_time, recovery_completion_times>>,
           UNCHANGED <<shard_sizes, cell, request_arrivals, base_events, wait_metrics>>
    PROVE  SimulationInv' /\ sim_pc' \in {"instants", "groups"}
<1>1. events' \subseteq events
  BY DEF MarkGroup
<1>2. sim_pc' \in {"instants", "groups"}
  BY DEF Continue
<1>3. RecoveriesWin' /\ Measured'
  BY DEF SimulationInv, RecoveriesWin, Measured
<1>4. QED  BY <1>1, <1>2, <1>3 DEF SimulationInv

\* Every shard of the trace is one of the graph, so no tracker rejects it.
LEMMA ProcessGroupSimulates ==
    ASSUME TraceReady, SimulationInv, NEW r, ProcessGroup(r),
           UNCHANGED <<shard_sizes, cell, request_arrivals, base_events, wait_metrics>>
    PROVE  SimulationInv' /\ sim_pc' \in {"instants", "groups"}
<1>1. \A e \in Group(r) : e.shard \in Shards(Graph)
  BY ReplayedTrace DEF Group
<1>2. NaturalCompletion(r) \/ AlreadyRecovering(r) \/ CannotRecover(r)
  BY <1>1 DEF ProcessGroup, GroupThrows
<1>3. /\ MarkGroup(r) /\ Continue
      /\ UNCHANGED <<workload, current_time, recovery_completion_times>>
  BY <1>2 DEF NaturalCompletion, AlreadyRecovering, CannotRecover, Undecided, outcomeVars,
              queueVars
<1>4. ClusterInv'
  BY ProcessGroupPreserves DEF SimulationInv
<1>5. QED  BY <1>3, <1>4, GroupSimulates

\* Every operation has as many sources as the graph has neighbours per equation.
LEMMA RegularEquations ==
    ASSUME NEW p \in Parity(Graph)
    PROVE  Len(Equation(Graph, p)) = Degree
<1>1. PICK e : /\ e \in [Graph.k .. Graph.k + Graph.m - 1 -> DrawnNeighbors(Graph.k, Degree)]
               /\ Graph = [k |-> Graph.k, m |-> Graph.m, eq |-> e]
               /\ Degree \in 1 .. Graph.k
  BY SweepAssumption DEF GenerateRegularGraph
<1>2. Graph.eq = e
  BY <1>1
<1>3. Graph.eq[p] \in DrawnNeighbors(Graph.k, Degree)
  BY <1>1, <1>2 DEF Parity
<1>4. DOMAIN Graph.eq[p] = 1 .. Degree
  BY <1>3 DEF DrawnNeighbors
<1>5. Graph.eq[p] \in Seq(Nat)
  <2>1. p \in DOMAIN Graph.eq
    BY <1>1, <1>2 DEF Parity
  <2>2. QED  BY <2>1, ClusterAssumption DEF IsBipartiteGraph
<1>6. Len(Graph.eq[p]) \in Nat /\ DOMAIN Graph.eq[p] = 1 .. Len(Graph.eq[p])
  BY <1>5
<1>7. Degree \in Nat /\ Degree >= 1
  BY <1>1, GraphFacts
<1>8. Len(Graph.eq[p]) = Degree
  <2>1. \A x, y \in Nat : x >= 1 /\ 1 .. x = 1 .. y => x = y
    <3> SUFFICES ASSUME NEW x \in Nat, NEW y \in Nat, x >= 1, 1 .. x = 1 .. y PROVE x = y
      OBVIOUS
    <3>1. x \in 1 .. y
      OBVIOUS
    <3>2. y \in 1 .. x
      BY <3>1
    <3>3. QED  BY <3>1, <3>2
  <2>2. QED  BY <1>4, <1>6, <1>7, <2>1
<1>9. QED  BY <1>8 DEF Equation

\* A sum of costs is not less than any one of them.
LEMMA SumsGrow ==
    ASSUME NEW n \in Nat, NEW gaps \in [0 .. n -> Nat], NEW i \in 0 .. n
    PROVE  /\ GenerateRequestArrivalTimes(gaps)[n] \in Nat
           /\ gaps[i] <= GenerateRequestArrivalTimes(gaps)[n]
<1> DEFINE Solves(h) == h = [r \in DOMAIN gaps |-> IF r = 0 THEN gaps[0] ELSE h[r - 1] + gaps[r]]
           a == CHOOSE h : Solves(h)
           Bad == {r \in i .. n : ~(gaps[i] <= a[r])}
<1>1. GenerateRequestArrivalTimes(gaps) = a
  BY DEF GenerateRequestArrivalTimes
<1>2. a \in [0 .. n -> Nat]
  BY <1>1, ArrivalTimesExist
<1>3. Solves(a)
  <2>1. PICK f \in [0 .. n -> Nat] :
           \A r \in 0 .. n : f[r] = IF r = 0 THEN gaps[0] ELSE f[r - 1] + gaps[r]
    <3>1. n \in 0 .. n
      OBVIOUS
    <3>2. QED  BY <3>1, PartialSums
  <2>2. Solves(f)
    BY <2>1
  <2>3. QED  BY <2>2
<1> HIDE DEF a
<1>4. \A r \in 0 .. n : a[r] = IF r = 0 THEN gaps[0] ELSE a[r - 1] + gaps[r]
  BY <1>3
<1>5. Bad = {}
  <2> SUFFICES ASSUME Bad # {} PROVE FALSE
    OBVIOUS
  <2>1. PICK r \in Bad : \A q \in Bad : r <= q
    <3>1. Bad \in SUBSET Nat
      OBVIOUS
    <3>2. QED  BY <3>1, LeastNatural
  <2>2. r \in i .. n /\ ~(gaps[i] <= a[r]) /\ r \in 0 .. n
    BY <2>1
  <2>3. r # i
    <3> SUFFICES ASSUME r = i PROVE FALSE
      OBVIOUS
    <3>1. a[i] = IF i = 0 THEN gaps[0] ELSE a[i - 1] + gaps[i]
      BY <1>4
    <3>2. gaps[i] \in Nat /\ (i # 0 => i - 1 \in 0 .. n)
      OBVIOUS
    <3>3. i # 0 => a[i - 1] \in Nat
      BY <1>2, <3>2
    <3>4. gaps[i] <= a[i]
      BY <3>1, <3>2, <3>3
    <3>5. QED  BY <2>2, <3>4
  <2>4. r - 1 \in i .. n /\ r - 1 \in 0 .. n /\ r # 0 /\ ~(r <= r - 1)
    BY <2>2, <2>3
  <2>5. r - 1 \notin Bad
    <3> HIDE DEF Bad
    <3>1. QED  BY <2>1, <2>4
  <2>6. gaps[i] <= a[r - 1]
    BY <2>4, <2>5
  <2>7. a[r] = a[r - 1] + gaps[r] /\ a[r - 1] \in Nat /\ gaps[r] \in Nat /\ gaps[i] \in Nat
    BY <1>2, <1>4, <2>2, <2>4
  <2>8. \A x, y, z \in Nat : x <= y => x <= y + z
    OBVIOUS
  <2>9. QED  BY <2>2, <2>6, <2>7, <2>8
<1>6. n \in i .. n /\ n \in 0 .. n
  OBVIOUS
<1>7. gaps[i] <= a[n]
  BY <1>5, <1>6
<1>8. QED  BY <1>1, <1>2, <1>6, <1>7

\* Every lookup of a plan for an incomplete request succeeds, and the estimate is
\* positive.
LEMMA EstimateIsPositive ==
    ASSUME SweepInv, Measured, NEW arrived, ~Complete(arrived), NEW plan \in Plans(arrived)
    PROVE  EstimateServiceTime(plan) \in Int /\ EstimateServiceTime(plan) > 0
<1>1. PICK c : c = DecodeCosts[<<Degree, shard_sizes[cell]>>]
  OBVIOUS
<1>2. c \in Nat /\ c > 0
  BY <1>1, SizesFacts DEF SweepInv, Measured
<1>3. plan \in [Systematic(Graph) \ arrived -> arrived \cap Parity(Graph)]
  BY DEF Plans
<1>4. \A s \in DOMAIN plan : CostKey(plan[s]) = <<Degree, shard_sizes[cell]>>
  BY <1>3, RegularEquations DEF CostKey
<1>5. \A s \in DOMAIN plan : CostKey(plan[s]) \in DOMAIN DecodeCosts
  BY <1>4 DEF Measured
<1>6. PICK n : n = Graph.k - 1
  OBVIOUS
<1>7. n \in Nat /\ Systematic(Graph) = 0 .. n
  BY <1>6, GraphFacts DEF Systematic
<1>8. PICK costs : costs = [s \in Systematic(Graph) |->
                              IF s \in DOMAIN plan THEN DecodeCosts[CostKey(plan[s])] ELSE 0]
  OBVIOUS
<1>9. costs = [s \in 0 .. n |-> IF s \in DOMAIN plan THEN c ELSE 0]
  BY <1>1, <1>4, <1>7, <1>8
<1>10. costs \in [0 .. n -> Nat] /\ DOMAIN costs = Systematic(Graph)
  BY <1>2, <1>7, <1>9
<1>11. EstimateServiceTime(plan) = GenerateRequestArrivalTimes(costs)[n]
  BY <1>5, <1>6, <1>8, <1>10 DEF EstimateServiceTime, GenerateRequestArrivalTimes
<1>12. PICK i \in Systematic(Graph) : i \notin arrived
  BY DEF Complete
<1>13. i \in 0 .. n /\ i \in DOMAIN plan
  BY <1>3, <1>7, <1>12
<1>14. costs[i] = c
  BY <1>9, <1>13
<1>15. PICK t : t = GenerateRequestArrivalTimes(costs)[n]
  OBVIOUS
<1>16. t \in Nat /\ c <= t
  BY <1>7, <1>10, <1>13, <1>14, <1>15, SumsGrow
<1>17. QED  BY <1>2, <1>11, <1>15, <1>16

\* An admitted recovery ends before the instant the oracle knows of.
LEMMA AdmitSimulates ==
    ASSUME TraceReady, SimulationInv, NEW r \in RequestIds, NEW service_time \in Int,
           NEW wait_cost \in Int, Admit(r, service_time, wait_cost),
           wait_cost = WaitRemaining(r, instant),
           UNCHANGED <<shard_sizes, cell, request_arrivals, base_events, wait_metrics>>
    PROVE  SimulationInv' /\ sim_pc' \in {"instants", "groups"}
<1>1. PICK cost : cost = ExpectedRecoveryCost(instant, service_time)
  OBVIOUS
<1>2. /\ MarkGroup(r) /\ Continue /\ cost < wait_cost
      /\ SubmitJob(instant, service_time)
      /\ recovery_completion_times' = Put(recovery_completion_times, r, instant + cost)
      /\ UNCHANGED workload
  BY <1>1 DEF Admit, Undecided
<1>3. ClusterInv'
  BY AdmitPreserves DEF SimulationInv
<1>4. events' \subseteq events /\ current_time' = current_time
  BY <1>2 DEF MarkGroup, SubmitJob
<1>5. sim_pc' \in {"instants", "groups"}
  BY <1>2 DEF Continue
<1>6. instant \in Nat
  <2>1. instant = current_time
    BY <1>2, ReplayedTrace DEF MarkGroup, Turn, TraceInv, InstantInv
  <2>2. QED  BY <2>1, ReplayedTrace DEF QueueInv, QueueTypeOK
<1>7. cost \in Int /\ cost > 0
  <2>1. StartTime(instant) \in Nat /\ StartTime(instant) >= instant
    BY <1>6, ReplayedTrace, StartTimeBounds DEF QueueInv, QueueTypeOK
  <2>2. service_time > 0
    BY <1>2 DEF SubmitJob
  <2>3. QED  BY <1>1, <1>6, <2>1, <2>2 DEF ExpectedRecoveryCost
<1>8. instant + cost < wait_metrics[r].latency + request_arrivals[r]
  <2>1. PICK c : c = GetNaturalCompletionTimes(base_events)[r]
    OBVIOUS
  <2>2. /\ c \in Nat /\ request_arrivals[r] \in Nat
        /\ wait_metrics[r].latency = c - request_arrivals[r]
    BY <2>1, Completions
  <2>3. wait_cost = IF c > instant THEN c - instant ELSE 0
    BY <2>1 DEF WaitRemaining
  <2>4. instant + cost < c
    BY <1>2, <1>6, <1>7, <2>2, <2>3
  <2>5. QED  BY <2>2, <2>4
<1>9. RecoveriesWin'
  <2>1. PICK stop : stop = instant + cost
    OBVIOUS
  <2>2. /\ DOMAIN recovery_completion_times' = DOMAIN recovery_completion_times \cup {r}
        /\ recovery_completion_times'[r] = stop
        /\ \A q \in DOMAIN recovery_completion_times :
             q # r => recovery_completion_times'[q] = recovery_completion_times[q]
    BY <1>2, <2>1 DEF Put
  <2>3. QED  BY <1>8, <2>1, <2>2 DEF SimulationInv, RecoveriesWin
<1>10. Measured'
  BY DEF SimulationInv, Measured
<1>11. QED  BY <1>2, <1>3, <1>4, <1>5, <1>9, <1>10 DEF SimulationInv

\* The callbacks of the sweep never give a value that the simulator refuses.
LEMMA DecideSimulates ==
    ASSUME SweepInv, TraceReady, SimulationInv, NEW r \in RequestIds,
           NEW plan \in Plans(trackers[r] \cup {e.shard : e \in Group(r)}),
           Decide(r, EstimateServiceTime(plan), WaitRemaining(r, instant)),
           UNCHANGED <<shard_sizes, cell, request_arrivals, base_events, wait_metrics>>
    PROVE  SimulationInv' /\ sim_pc' \in {"instants", "groups"}
<1>1. PICK arrived : arrived = trackers[r] \cup {e.shard : e \in Group(r)}
  OBVIOUS
<1>2. PICK service_time : service_time = EstimateServiceTime(plan)
  OBVIOUS
<1>3. PICK wait_cost : wait_cost = WaitRemaining(r, instant)
  OBVIOUS
<1>4. Decide(r, service_time, wait_cost)
  BY <1>2, <1>3
<1>5. Undecided(r) /\ workload' = workload
  BY <1>4 DEF Decide, Reject, DecisionThrows, KeepWaiting, Admit
<1>6. MarkGroup(r) /\ ~Complete(trackers'[r])
  BY <1>5 DEF Undecided
<1>7. trackers'[r] = arrived
  BY <1>1, <1>5, <1>6, ReplayedTrace, MarkGroupTrackers DEF TraceInv
<1>8. service_time \in Int /\ service_time > 0
  BY <1>1, <1>2, <1>6, <1>7, EstimateIsPositive DEF SimulationInv
<1>9. wait_cost \in Int /\ wait_cost >= 0
  <2>1. instant = current_time
    BY <1>6, ReplayedTrace DEF MarkGroup, Turn, TraceInv, InstantInv
  <2>2. instant \in Nat
    BY <2>1, ReplayedTrace DEF QueueInv, QueueTypeOK
  <2>3. PICK c : c = GetNaturalCompletionTimes(base_events)[r]
    OBVIOUS
  <2>4. c \in Nat
    BY <2>3, Completions
  <2>5. wait_cost = IF c > instant THEN c - instant ELSE 0
    BY <1>3, <2>3 DEF WaitRemaining
  <2>6. QED  BY <2>2, <2>4, <2>5
<1>10. CASE Admit(r, service_time, wait_cost)
  BY <1>3, <1>8, <1>9, <1>10, AdmitSimulates
<1>11. CASE Reject(r, service_time) \/ KeepWaiting(r, service_time, wait_cost)
  <2>1. /\ Continue
        /\ UNCHANGED <<workload, current_time, recovery_completion_times>>
    BY <1>11 DEF Reject, KeepWaiting, queueVars
  <2>2. ClusterInv'
    BY <1>4, <1>8, <1>9, DecidePreserves DEF SimulationInv
  <2>3. QED  BY <1>6, <2>1, <2>2, GroupSimulates
<1>12. ~DecisionThrows(r, service_time, wait_cost)
  BY <1>8, <1>9 DEF DecisionThrows
<1>13. QED  BY <1>4, <1>10, <1>11, <1>12 DEF Decide

\* The replay finds the completion times that the oracle takes from the trace.
LEMMA ReplayAgrees ==
    ASSUME TraceReady, SimulationInv, events = {}, NEW r \in RequestIds
    PROVE  /\ r \in DOMAIN natural_completion_times
           /\ natural_completion_times[r] = GetNaturalCompletionTimes(base_events)[r]
<1>1. PICK base : base = base_events
  OBVIOUS
<1>2. PICK arrivals : arrivals = request_arrivals
  OBVIOUS
<1>3. FullTrace(base, arrivals) /\ workload = base /\ Processed = base
  BY <1>1, <1>2 DEF TraceReady, SimulationInv, Processed
<1>4. TrackerInv /\ NaturalInv /\ RequestsOf(workload) = RequestIds
  BY ReplayedTrace DEF TraceInv
<1>5. trackers[r] = {e.shard : e \in {d \in base : d.request = r}}
  BY <1>3, <1>4 DEF TrackerInv
<1>6. Complete(trackers[r])
  <2>1. \A s \in Systematic(Graph) : \E e \in base : e.request = r /\ e.shard = s
    BY <1>3, GraphFacts DEF FullTrace
  <2>2. QED  BY <1>5, <2>1 DEF Complete
<1>7. r \in DOMAIN natural_completion_times
  BY <1>4, <1>6 DEF NaturalInv
<1>8. PICK x : x = natural_completion_times[r]
  OBVIOUS
<1>9. CompletedAt(r, x)
  BY <1>4, <1>7, <1>8 DEF NaturalInv
<1>10. LastSystematic(base, r, x)
  <2>1. \E e \in base : e.request = r /\ e.shard \in Systematic(Graph) /\ e.time = x
    BY <1>3, <1>9 DEF CompletedAt
  <2>2. ASSUME NEW e \in base, e.request = r, e.shard \in Systematic(Graph)
        PROVE  e.time <= x
    <3>1. PICK d \in base : d.request = r /\ d.shard = e.shard /\ d.time <= x
      BY <1>3, <1>9, <2>2 DEF CompletedAt
    <3>2. d = e
      BY <1>3, <2>2, <3>1 DEF FullTrace
    <3>3. QED  BY <3>1, <3>2
  <2>3. QED  BY <2>1, <2>2 DEF LastSystematic
<1>11. QED  BY <1>1, <1>7, <1>8, <1>10, Completions

LEMMA ReportSimulates ==
    ASSUME TraceReady, SimulationInv, Report, wait_metrics' = wait_metrics
    PROVE  CodedInv' /\ sim_pc' = "done"
<1>1. events = {} /\ RequestsOf(workload) = RequestIds
  BY ReplayedTrace DEF Report
<1>2. RequestsOf(workload) \subseteq DOMAIN natural_completion_times
  BY <1>1, ReplayAgrees
<1>3. sim_pc' = "done" /\ metrics' = [r \in RequestIds |-> RequestMetrics(r)]
  BY <1>1, <1>2 DEF Report
<1>4. ASSUME NEW r \in RequestIds
      PROVE  /\ metrics'[r].latency \in Int
             /\ metrics'[r].latency <= wait_metrics[r].latency
             /\ metrics'[r].admitted <=> metrics'[r].latency < wait_metrics[r].latency
             /\ metrics'[r].won <=> metrics'[r].latency < wait_metrics[r].latency
  <2>1. PICK c : c = natural_completion_times[r]
    OBVIOUS
  <2>2. PICK a : a = request_arrivals[r]
    OBVIOUS
  <2>3. PICK y : y = recovery_completion_times[r]
    OBVIOUS
  <2>4. c \in Nat /\ a \in Nat /\ wait_metrics[r].latency = c - a
    BY <1>1, <2>1, <2>2, Completions, ReplayAgrees
  <2>5. StartOf(r) = a
    BY <2>2, Completions DEF StartOf, SimulationInv
  <2>6. r \in DOMAIN recovery_completion_times => y \in Nat /\ y < c
    <3>1. SUFFICES ASSUME r \in DOMAIN recovery_completion_times PROVE y \in Nat /\ y < c
      OBVIOUS
    <3>2. y < wait_metrics[r].latency + a
      BY <2>2, <2>3, <3>1 DEF SimulationInv, RecoveriesWin
    <3>3. JobInv
      BY DEF SimulationInv, ClusterInv
    <3>4. job_of[r] \in DOMAIN schedule /\ y = schedule[job_of[r]].stop
      BY <2>3, <3>1, <3>3 DEF JobInv, QuotesAreHonoured
    <3>5. y \in Nat
      BY <3>4, ReplayedTrace, JobTypes
    <3>6. QED  BY <2>4, <3>2, <3>5
  <2>7. Won(r) <=> r \in DOMAIN recovery_completion_times
    BY <2>1, <2>3, <2>6 DEF Won
  <2>8. /\ metrics'[r].latency = (IF Won(r) THEN y ELSE c) - a
        /\ metrics'[r].won = Won(r)
        /\ metrics'[r].admitted = (r \in DOMAIN recovery_completion_times)
    BY <1>3, <2>1, <2>3, <2>5 DEF RequestMetrics
  <2>9. CASE r \in DOMAIN recovery_completion_times
    <3>1. metrics'[r].latency = y - a
      BY <2>7, <2>8, <2>9
    <3>2. y - a \in Int /\ y - a < c - a /\ y - a <= c - a
      BY <2>4, <2>6, <2>9
    <3>3. metrics'[r].won /\ metrics'[r].admitted
      BY <2>7, <2>8, <2>9
    <3>4. QED  BY <2>4, <3>1, <3>2, <3>3, Zenon
  <2>10. CASE r \notin DOMAIN recovery_completion_times
    <3>1. metrics'[r].latency = c - a
      BY <2>7, <2>8, <2>10
    <3>2. c - a \in Int /\ ~(c - a < c - a) /\ c - a <= c - a
      BY <2>4
    <3>3. QED  BY <2>4, <2>7, <2>8, <2>10, <3>1, <3>2
  <2>11. QED  BY <2>9, <2>10
<1>5. DOMAIN metrics' = RequestIds
  BY <1>3
<1>6. QED  BY <1>3, <1>4, <1>5 DEF CodedInv, Improves

LEMMA SimulatePreserves ==
    ASSUME SweepInv, Simulate
    PROVE  SweepInv'
<1>1. /\ sweep_pc = "simulate" /\ TraceReady /\ SimulationInv
      /\ Improves(capacity_replication_metrics) /\ Improves(full_replication_metrics)
      /\ UNCHANGED <<shard_sizes, cell, request_arrivals, base_events, wait_metrics,
                     capacity_replication_metrics, full_replication_metrics, rows>>
      /\ sweep_pc' = CASE sim_pc' = "done" -> "rows"
                       [] sim_pc' = "threw" -> "threw"
                       [] OTHER -> "simulate"
  BY DEF SweepInv, Simulate, baselineVars
<1>2. OptionsAccepted(shard_sizes)' /\ (shard_sizes \in ShardSizeLists)'
  BY <1>1, OptionsKept DEF SweepInv
<1>3. rows' = NoRows
  BY <1>1 DEF SweepInv, RowsInv
<1>4. TraceReady' /\ Improves(capacity_replication_metrics)' /\ Improves(full_replication_metrics)'
  BY <1>1, TraceKept, CapacityKept, FullKept
<1>5. \/ SimulationInv' /\ sim_pc' \in {"instants", "groups"}
      \/ CodedInv' /\ sim_pc' = "done"
  <2>1. CASE NextInstant
    BY <1>1, <2>1, NextInstantSimulates
  <2>2. ASSUME NEW r \in RequestsOf(events), ProcessGroup(r)
        PROVE  SimulationInv' /\ sim_pc' \in {"instants", "groups"}
    BY <1>1, <2>2, ProcessGroupSimulates
  <2>3. ASSUME NEW r \in RequestsOf(events),
               NEW plan \in Plans(trackers[r] \cup {e.shard : e \in Group(r)}),
               Decide(r, EstimateServiceTime(plan), WaitRemaining(r, instant))
        PROVE  SimulationInv' /\ sim_pc' \in {"instants", "groups"}
    <3>1. r \in RequestIds
      BY <1>1, ReplayedTrace DEF RequestsOf
    <3>2. QED  BY <1>1, <2>3, <3>1, DecideSimulates
  <2>4. CASE Report
    BY <1>1, <2>4, ReportSimulates
  <2>5. QED  BY <2>1, <2>2, <2>3, <2>4 DEF Simulate
<1>6. CASE SimulationInv' /\ sim_pc' \in {"instants", "groups"}
  <2>1. sweep_pc' = "simulate"
    BY <1>1, <1>6
  <2>2. QED  BY <2>1, <1>2, <1>3, <1>4, <1>6 DEF SweepInv
<1>7. CASE CodedInv' /\ sim_pc' = "done"
  <2>1. sweep_pc' = "rows"
    BY <1>1, <1>7
  <2>2. QED  BY <2>1, <1>2, <1>3, <1>4, <1>7 DEF SweepInv
<1>8. QED  BY <1>5, <1>6, <1>7

LEMMA SweepStutters ==
    ASSUME SweepInv, UNCHANGED allVars
    PROVE  SweepInv'
<1>1. /\ UNCHANGED clusterVars
      /\ UNCHANGED <<sweep_pc, shard_sizes, cell, request_arrivals, base_events, wait_metrics,
                     capacity_replication_metrics, full_replication_metrics, rows>>
  BY DEF allVars, sweepVars, baselineVars
<1>2. UNCHANGED <<metrics, workload, sim_pc, events, recovery_completion_times>>
  BY <1>1 DEF clusterVars, runVars, outcomeVars
<1>3. current_time' = current_time
  BY <1>1 DEF clusterVars, queueVars
<1>4. OptionsAccepted(shard_sizes)' /\ (shard_sizes \in ShardSizeLists)'
  BY <1>1, OptionsKept DEF SweepInv
<1>5. TraceReady => TraceReady'
  BY <1>1, TraceKept
<1>6. Improves(capacity_replication_metrics) => Improves(capacity_replication_metrics)'
  BY <1>1, CapacityKept
<1>7. Improves(full_replication_metrics) => Improves(full_replication_metrics)'
  BY <1>1, FullKept
<1>8. CodedInv => CodedInv'
  BY <1>1, <1>2, CodedKept
<1>9. Measured' <=> Measured
  BY <1>1 DEF Measured
<1>10. SimulationInv => SimulationInv'
  <2>1. ClusterInv => ClusterInv'
    BY <1>1, ClusterStutters
  <2>2. RecoveriesWin => RecoveriesWin'
    BY <1>1, <1>2 DEF RecoveriesWin
  <2>3. QED  BY <1>1, <1>2, <1>3, <1>9, <2>1, <2>2 DEF SimulationInv
<1>11. RowsInv => RowsInv'
  <2>1. /\ Summarize(wait_metrics)' = Summarize(wait_metrics)
        /\ Summarize(capacity_replication_metrics)' = Summarize(capacity_replication_metrics)
        /\ Summarize(full_replication_metrics)' = Summarize(full_replication_metrics)
        /\ Summarize(metrics)' = Summarize(metrics)
    BY <1>1, <1>2 DEF Summarize, Percentile
  <2>2. QED  BY <1>1, <2>1 DEF RowsInv
<1>12. QED
  BY <1>1, <1>4, <1>5, <1>6, <1>7, <1>8, <1>9, <1>10, <1>11 DEF SweepInv

\* In every phase of every point and cell the sweep keeps its invariant
\* (phase7_parameter_sweep.cpp:283-384, 446-519).
THEOREM SweepInvariance == SweepSpec => []SweepInv
<1>1. SweepInv /\ [SweepNext]_allVars => SweepInv'
  <2> SUFFICES ASSUME SweepInv, [SweepNext]_allVars PROVE SweepInv'
    OBVIOUS
  <2>1. CASE GenerateWorkload
    BY <2>1, GenerateWorkloadPreserves
  <2>2. CASE CapacityBaseline
    BY <2>2, CapacityBaselinePreserves
  <2>3. CASE FullBaseline
    BY <2>3, FullBaselinePreserves
  <2>4. CASE StartCoded
    BY <2>4, StartCodedPreserves
  <2>5. CASE Simulate
    BY <2>5, SimulatePreserves
  <2>6. CASE PrintRows
    BY <2>6, PrintRowsPreserves
  <2>7. CASE NextCell \/ NextPoint
    BY <2>7, NextPreserves
  <2>8. CASE UNCHANGED allVars
    BY <2>8, SweepStutters
  <2>9. QED
    BY <2>1, <2>2, <2>3, <2>4, <2>5, <2>6, <2>7, <2>8 DEF SweepNext
<1>2. QED  BY <1>1, SweepInvInit, PTL DEF SweepSpec

\* The coded row is comparable with the waiting row: only a missing decode cost
\* ends the sweep early, an admitted recovery always wins, and any other request
\* has exactly the latency of waiting (phase7_parameter_sweep.cpp:299-313,
\* 340-368).
THEOREM CodedRows == SweepSpec => []CodedRowsExact
<1>1. SweepInv => CodedRowsExact
  BY DEF SweepInv, CodedInv, Improves, CodedRowsExact
<1>2. QED  BY <1>1, SweepInvariance, PTL

\* The percentiles of metrics that improve on the waiting baseline.
LEMMA ImprovedPercentiles ==
    ASSUME SweepInv, TraceReady, NEW m, Improves(m),
           NEW p \in Percents, NEW q \in Percents, p <= q
    PROVE  /\ Percentile(m, p) <= Percentile(wait_metrics, p)
           /\ Percentile(m, p) <= Percentile(m, q)
<1>1. NumRequests \in Nat /\ NumRequests > 0 /\ RequestIds = 0 .. NumRequests - 1
  BY SizesFacts DEF SweepInv
<1>2. PICK n : n = NumRequests - 1
  OBVIOUS
<1>3. n \in Nat /\ RequestIds = 0 .. n
  BY <1>1, <1>2
<1>4. PICK w : w = wait_metrics
  OBVIOUS
<1>5. /\ DOMAIN m = 0 .. n
      /\ \A r \in 0 .. n : m[r].latency \in Int /\ m[r].latency <= w[r].latency
  BY <1>3, <1>4 DEF Improves
<1>6. DOMAIN w = 0 .. n /\ \A r \in 0 .. n : w[r].latency \in Int
  <2>1. DOMAIN w = RequestIds
    <3>1. PICK base : base = base_events
      OBVIOUS
    <3>2. PICK arrivals : arrivals = request_arrivals
      OBVIOUS
    <3>3. FullTrace(base, arrivals) /\ w = RunBaseline(base)
      BY <1>4, <3>1, <3>2 DEF TraceReady
    <3>4. QED  BY <3>3, BaselineLatency
  <2>2. QED  BY <1>3, <1>4, <2>1, Completions
<1>7. PICK v : v = m
  OBVIOUS
<1>8. Rank(p, n + 1) <= Rank(p, n + 1) /\ Rank(p, n + 1) <= Rank(q, n + 1)
  BY <1>3, Ranks DEF Percents
<1>9. Percentile(m, p) <= Percentile(w, p)
  BY <1>3, <1>5, <1>6, <1>8, PercentileMonotonic
<1>10. /\ DOMAIN v = 0 .. n
       /\ \A r \in 0 .. n : v[r].latency \in Int
       /\ \A r \in 0 .. n : m[r].latency <= v[r].latency
  BY <1>5, <1>7
<1>11. Percentile(m, p) <= Percentile(v, q)
  <2>1. \A r \in 0 .. n : m[r].latency \in Int
    BY <1>5
  <2>2. n \in Nat /\ DOMAIN m = 0 .. n /\ Rank(p, n + 1) <= Rank(q, n + 1)
    BY <1>3, <1>5, <1>8
  <2>3. QED  BY ONLY <1>10, <2>1, <2>2, p \in Percents, q \in Percents,
                     PercentileMonotonic, Zenon
<1>12. QED  BY <1>4, <1>7, <1>9, <1>11

LEMMA ImprovedRow ==
    ASSUME SweepInv, TraceReady, RowsInv, NEW m, Improves(m), NEW row, row = Summarize(m)
    PROVE  NoSlower(row)
<1>1. rows.wait = Summarize(wait_metrics)
  BY DEF RowsInv
<1>2. /\ row.p50 = Percentile(m, 50) /\ row.p95 = Percentile(m, 95) /\ row.p99 = Percentile(m, 99)
  BY DEF Summarize
<1>3. /\ rows.wait.p50 = Percentile(wait_metrics, 50)
      /\ rows.wait.p95 = Percentile(wait_metrics, 95)
      /\ rows.wait.p99 = Percentile(wait_metrics, 99)
  BY <1>1 DEF Summarize
<1>4. 50 \in Percents /\ 95 \in Percents /\ 99 \in Percents /\ 50 <= 95 /\ 95 <= 99 /\ 99 <= 99
  BY DEF Percents
<1>5. /\ Percentile(m, 50) <= Percentile(wait_metrics, 50)
      /\ Percentile(m, 50) <= Percentile(m, 95)
  BY <1>4, ImprovedPercentiles
<1>6. /\ Percentile(m, 95) <= Percentile(wait_metrics, 95)
      /\ Percentile(m, 95) <= Percentile(m, 99)
  BY <1>4, ImprovedPercentiles
<1>7. Percentile(m, 99) <= Percentile(wait_metrics, 99)
  BY <1>4, ImprovedPercentiles
<1>8. QED  BY <1>2, <1>3, <1>5, <1>6, <1>7 DEF NoSlower

\* No percentile of a replicated or coded row is above that of the waiting row,
\* whatever the replicas' draws, the queue and the ties are
\* (workload_generator.cpp:181-183, 210-212, phase7_parameter_sweep.cpp:370-378).
THEOREM NeverSlower == SweepSpec => []StrategiesNeverSlower
<1>1. SweepInv => StrategiesNeverSlower
  <2> SUFFICES ASSUME SweepInv, rows # NoRows
               PROVE  /\ NoSlower(rows.replication_capacity_normalized)
                      /\ NoSlower(rows.replication_full)
                      /\ NoSlower(rows.codedllm)
    BY DEF StrategiesNeverSlower
  <2>1. RowsInv
    BY DEF SweepInv
  <2>2. sweep_pc = "rows"
    BY <2>1 DEF RowsInv
  <2>3. /\ TraceReady /\ Improves(capacity_replication_metrics)
        /\ Improves(full_replication_metrics) /\ Improves(metrics)
    BY <2>2 DEF SweepInv, CodedInv
  <2>4. /\ rows.replication_capacity_normalized = Summarize(capacity_replication_metrics)
        /\ rows.replication_full = Summarize(full_replication_metrics)
        /\ rows.codedllm = Summarize(metrics)
    BY <2>1 DEF RowsInv
  <2>5. QED  BY <2>1, <2>3, <2>4, ImprovedRow
<1>2. QED  BY <1>1, SweepInvariance, PTL

-----------------------------------------------------------------------------
\* The rank is the least count that is `percent' of all.
LEMMA RankIsLeast ==
    ASSUME NEW n \in Nat, NEW percent \in Percents
    PROVE  /\ 100 * Rank(percent, n + 1) >= percent * (n + 1)
           /\ 100 * (Rank(percent, n + 1) - 1) < percent * (n + 1)
<1>1. /\ 100 * Rank(50, n + 1) >= 50 * (n + 1)
      /\ 100 * (Rank(50, n + 1) - 1) < 50 * (n + 1)
  BY DEF Rank
<1>2. /\ 100 * Rank(95, n + 1) >= 95 * (n + 1)
      /\ 100 * (Rank(95, n + 1) - 1) < 95 * (n + 1)
  BY DEF Rank
<1>3. /\ 100 * Rank(99, n + 1) >= 99 * (n + 1)
      /\ 100 * (Rank(99, n + 1) - 1) < 99 * (n + 1)
  BY DEF Rank
<1>4. percent = 50 \/ percent = 95 \/ percent = 99
  BY DEF Percents
<1>5. QED  BY <1>1, <1>2, <1>3, <1>4

LEMMA PercentileIsExact ==
    ASSUME SweepInv, NEW m, DOMAIN m = RequestIds, \A r \in RequestIds : m[r].latency \in Int,
           NEW percent \in Percents
    PROVE  IsPercentile(Percentile(m, percent), m, percent)
<1>1. NumRequests \in Nat /\ NumRequests > 0 /\ RequestIds = 0 .. NumRequests - 1
  BY SizesFacts DEF SweepInv
<1>2. PICK n : n = NumRequests - 1
  OBVIOUS
<1>3. n \in Nat /\ n + 1 = NumRequests /\ DOMAIN m = 0 .. n
      /\ \A r \in 0 .. n : m[r].latency \in Int
  BY <1>1, <1>2
<1>4. PICK v : v = Percentile(m, percent)
  OBVIOUS
<1>5. PICK rank : rank = Rank(percent, n + 1)
  OBVIOUS
<1>6. PICK atMost : atMost = Cardinality(AtMost(m, v))
  OBVIOUS
<1>7. PICK below : below = Cardinality(Below(m, v))
  OBVIOUS
<1>8. below < rank /\ rank <= atMost
  BY <1>3, <1>4, <1>5, <1>6, <1>7, PercentileRanked
<1>9. below \in Int /\ atMost \in Int
  <2>1. Below(m, v) \in SUBSET (0 .. n) /\ AtMost(m, v) \in SUBSET (0 .. n)
    BY <1>3 DEF Below, AtMost
  <2>2. QED  BY <1>3, <1>6, <1>7, <2>1, CountTypes
<1>10. rank \in Int
  BY <1>3, <1>5, Ranks
<1>11. PICK share : share = percent * (n + 1)
  OBVIOUS
<1>12. share \in Int /\ 100 * rank >= share /\ 100 * (rank - 1) < share
  <2>1. percent \in Int
    BY DEF Percents
  <2>2. share \in Int
    BY <1>3, <1>11, <2>1
  <2>3. QED  BY <1>3, <1>5, <1>11, <2>2, RankIsLeast
<1>13. 100 * atMost >= share /\ 100 * below < share
  BY <1>8, <1>9, <1>10, <1>12
<1>14. QED  BY <1>3, <1>4, <1>6, <1>7, <1>11, <1>13 DEF IsPercentile, AtMost, Below

LEMMA RowIsExact ==
    ASSUME SweepInv, NEW m, DOMAIN m = RequestIds, \A r \in RequestIds : m[r].latency \in Int,
           NEW row, row = Summarize(m)
    PROVE  RowOf(row, m)
<1>1. row.p50 = Percentile(m, 50) /\ row.p95 = Percentile(m, 95) /\ row.p99 = Percentile(m, 99)
  BY DEF Summarize
<1>2. 50 \in Percents /\ 95 \in Percents /\ 99 \in Percents
  BY DEF Percents
<1>3. /\ IsPercentile(Percentile(m, 50), m, 50)
      /\ IsPercentile(Percentile(m, 95), m, 95)
      /\ IsPercentile(Percentile(m, 99), m, 99)
  BY <1>2, PercentileIsExact
<1>4. QED  BY <1>1, <1>3 DEF RowOf

\* Every p50, p95 and p99 that is printed is the least latency that 50, 95 and 99
\* percent of the requests do not exceed under the row's strategy, for every
\* number of requests (phase7_parameter_sweep.cpp:370-378, 399-402).
THEOREM ExactPercentiles == SweepSpec => []PercentilesExact
<1>1. SweepInv => PercentilesExact
  <2> SUFFICES ASSUME SweepInv, rows # NoRows
               PROVE  /\ RowOf(rows.wait, wait_metrics)
                      /\ RowOf(rows.replication_capacity_normalized, capacity_replication_metrics)
                      /\ RowOf(rows.replication_full, full_replication_metrics)
                      /\ RowOf(rows.codedllm, metrics)
    BY DEF PercentilesExact
  <2>1. RowsInv
    BY DEF SweepInv
  <2>2. sweep_pc = "rows"
    BY <2>1 DEF RowsInv
  <2>3. /\ TraceReady /\ Improves(capacity_replication_metrics)
        /\ Improves(full_replication_metrics) /\ Improves(metrics)
    BY <2>2 DEF SweepInv, CodedInv
  <2>4. /\ rows.wait = Summarize(wait_metrics)
        /\ rows.replication_capacity_normalized = Summarize(capacity_replication_metrics)
        /\ rows.replication_full = Summarize(full_replication_metrics)
        /\ rows.codedllm = Summarize(metrics)
    BY <2>1 DEF RowsInv
  <2>5. DOMAIN wait_metrics = RequestIds /\ \A r \in RequestIds : wait_metrics[r].latency \in Int
    <3>1. PICK base : base = base_events
      OBVIOUS
    <3>2. PICK arrivals : arrivals = request_arrivals
      OBVIOUS
    <3>3. FullTrace(base, arrivals) /\ wait_metrics = RunBaseline(base)
      BY <2>3, <3>1, <3>2 DEF TraceReady
    <3>4. DOMAIN wait_metrics = RequestIds
      BY <3>3, BaselineLatency
    <3>5. QED  BY <2>3, <3>4, Completions
  <2>6. RowOf(rows.wait, wait_metrics)
    BY <2>4, <2>5, RowIsExact
  <2>7. /\ RowOf(rows.replication_capacity_normalized, capacity_replication_metrics)
        /\ RowOf(rows.replication_full, full_replication_metrics)
        /\ RowOf(rows.codedllm, metrics)
    BY <2>3, <2>4, RowIsExact DEF Improves
  <2>8. QED  BY <2>6, <2>7
<1>2. QED  BY <1>1, SweepInvariance, PTL

-----------------------------------------------------------------------------
(***************************************************************************)
(* The capacity-normalised replicas.  The windows of consecutive requests  *)
(* follow each other on the line of the positions, so the requests of a    *)
(* run that replicate position j are the positions j, j + k, j + 2k, ...   *)
(* that the run passes.                                                    *)
(***************************************************************************)
LEMMA DivMod ==
    ASSUME NEW a \in Int, NEW k \in Nat, k > 0
    PROVE  /\ a \div k \in Int /\ a % k \in Int
           /\ a = (a \div k) * k + (a % k)
           /\ 0 <= a % k /\ a % k < k
OBVIOUS

\* Quotients are ordered as their multiples are, up to one divisor.
LEMMA Quotients ==
    ASSUME NEW k \in Nat, k > 0, NEW p \in Int, NEW q \in Int, q * k < p * k + k
    PROVE  q <= p
<1>1. SUFFICES ASSUME q >= p + 1 PROVE FALSE
  OBVIOUS
<1>2. PICK d \in Nat : q = p + 1 + d
  <2>1. q - p - 1 \in Nat
    BY <1>1
  <2>2. q = p + 1 + (q - p - 1)
    OBVIOUS
  <2>3. QED  BY <2>1, <2>2
<1>3. q * k = p * k + k + d * k
  BY <1>2
<1>4. d * k >= 0 /\ d * k \in Int /\ p * k \in Int
  BY <1>2
<1>5. QED  BY <1>3, <1>4

LEMMA UniqueRemainder ==
    ASSUME NEW k \in Nat, k > 0, NEW q \in Int, NEW j \in 0 .. k - 1
    PROVE  (q * k + j) % k = j
<1>1. PICK a : a = q * k + j
  OBVIOUS
<1>2. PICK p : p = a \div k
  OBVIOUS
<1>3. PICK s : s = a % k
  OBVIOUS
<1>4. a \in Int
  BY <1>1
<1>5. p \in Int /\ s \in Int /\ a = p * k + s /\ 0 <= s /\ s < k
  BY <1>2, <1>3, <1>4, DivMod
<1>6. q * k \in Int /\ p * k \in Int
  BY <1>5
<1>7. q * k < p * k + k /\ p * k < q * k + k
  BY <1>1, <1>5, <1>6
<1>8. q = p
  BY <1>5, <1>7, Quotients
<1>9. s = j
  BY <1>1, <1>5, <1>6, <1>8
<1>10. QED  BY <1>1, <1>3, <1>9

-----------------------------------------------------------------------------
\* The number of the first of the positions j, j + k, j + 2k, ... not before a:
\* how many of them are before a.
Passed(j, k, a) == (a + k - 1 - j) \div k

LEMMA PassedFacts ==
    ASSUME NEW k \in Nat, k > 0, NEW j \in 0 .. k - 1, NEW a \in Nat
    PROVE  /\ Passed(j, k, a) \in Int
           /\ a <= Passed(j, k, a) * k + j
           /\ Passed(j, k, a) * k + j < a + k
<1>1. PICK b : b = a + k - 1 - j
  OBVIOUS
<1>2. PICK q : q = b \div k
  OBVIOUS
<1>3. PICK s : s = b % k
  OBVIOUS
<1>4. b \in Int
  BY <1>1
<1>5. q \in Int /\ s \in Int /\ b = q * k + s /\ 0 <= s /\ s < k
  BY <1>2, <1>3, <1>4, DivMod
<1>6. q * k \in Int
  BY <1>5
<1>7. Passed(j, k, a) = q
  BY <1>1, <1>2 DEF Passed
<1>8. a <= q * k + j /\ q * k + j < a + k
  BY <1>1, <1>5, <1>6
<1>9. QED  BY <1>5, <1>7, <1>8

\* Request r replicates position j iff one of the positions j, j + k, ... is among
\* those from r * c to (r + 1) * c: the windows follow each other.
LEMMA WindowPositions ==
    ASSUME NEW k \in Nat, k > 0, NEW c \in 0 .. k, NEW r \in Nat, NEW j \in 0 .. k - 1
    PROVE  (\E i \in 0 .. c - 1 : (FirstReplica(r, k, c) + i) % k = j) <=>
           (\E q \in Int : r * c <= q * k + j /\ q * k + j < r * c + c)
<1>1. PICK f : f = FirstReplica(r, k, c)
  OBVIOUS
<1>2. PICK w \in Int : r * c = w * k + f
  <2>1. PICK u : u = r \div k
    OBVIOUS
  <2>2. PICK s : s = r % k
    OBVIOUS
  <2>3. u \in Int /\ s \in Int /\ r = u * k + s
    BY <2>1, <2>2, DivMod
  <2>4. s * c \in Int
    BY <2>3
  <2>5. PICK v : v = (s * c) \div k
    OBVIOUS
  <2>6. f = (s * c) % k
    BY <1>1, <2>2 DEF FirstReplica
  <2>7. v \in Int /\ f \in Int /\ s * c = v * k + f
    BY <2>4, <2>5, <2>6, DivMod
  <2>8. r * c = (u * k + s) * c
    BY <2>3
  <2>9. (u * k + s) * c = (u * c) * k + s * c
    BY <2>3
  <2>10. r * c = (u * c + v) * k + f
    BY <2>3, <2>7, <2>8, <2>9
  <2>11. u * c + v \in Int
    BY <2>3, <2>7
  <2>12. QED  BY <2>10, <2>11
<1>3. f \in Int
  <2>1. ((r % k) * c) \in Int
    BY DivMod
  <2>2. QED  BY <1>1, <2>1, DivMod DEF FirstReplica
<1>4. w * k \in Int
  BY <1>2
<1>5. ASSUME NEW i \in 0 .. c - 1, (f + i) % k = j
      PROVE  \E q \in Int : r * c <= q * k + j /\ q * k + j < r * c + c
  <2>1. PICK z : z = (f + i) \div k
    OBVIOUS
  <2>2. z \in Int /\ f + i = z * k + j
    BY <1>3, <1>5, <2>1, DivMod
  <2>3. (z + w) * k = z * k + w * k /\ z * k \in Int /\ z + w \in Int
    BY <1>2, <2>2
  <2>4. (z + w) * k + j = r * c + i
    BY <1>2, <1>3, <1>4, <2>2, <2>3
  <2>5. r * c \in Int
    OBVIOUS
  <2>6. r * c <= (z + w) * k + j /\ (z + w) * k + j < r * c + c
    BY <2>4, <2>5
  <2>7. QED  BY <2>3, <2>6
<1>6. ASSUME NEW q \in Int, r * c <= q * k + j, q * k + j < r * c + c
      PROVE  \E i \in 0 .. c - 1 : (f + i) % k = j
  <2>1. PICK i : i = q * k + j - r * c
    OBVIOUS
  <2>2. q * k \in Int /\ r * c \in Int
    OBVIOUS
  <2>3. i \in 0 .. c - 1
    BY <1>6, <2>1, <2>2
  <2>4. (q - w) * k = q * k - w * k /\ q - w \in Int
    BY <1>2
  <2>5. f + i = (q - w) * k + j
    BY <1>2, <1>3, <1>4, <2>1, <2>2, <2>4
  <2>6. (f + i) % k = j
    BY <2>4, <2>5, UniqueRemainder
  <2>7. QED  BY <2>3, <2>6
<1>7. QED  BY <1>1, <1>5, <1>6

\* A request passes one position more iff it replicates it.
LEMMA PassedNext ==
    ASSUME NEW k \in Nat, k > 0, NEW c \in 0 .. k, NEW r \in Nat, NEW j \in 0 .. k - 1
    PROVE  Passed(j, k, (r + 1) * c) = Passed(j, k, r * c) +
             IF \E q \in Int : r * c <= q * k + j /\ q * k + j < r * c + c THEN 1 ELSE 0
<1>1. PICK a : a = r * c
  OBVIOUS
<1>2. a \in Nat /\ (r + 1) * c = a + c
  BY <1>1
<1>3. PICK x : x = Passed(j, k, a)
  OBVIOUS
<1>4. PICK y : y = Passed(j, k, a + c)
  OBVIOUS
<1>5. x \in Int /\ x * k \in Int /\ a <= x * k + j /\ x * k + j < a + k
  BY <1>2, <1>3, PassedFacts
<1>6. y \in Int /\ y * k \in Int /\ a + c <= y * k + j /\ y * k + j < a + c + k
  BY <1>2, <1>4, PassedFacts
<1>7. x <= y
  <2>1. x * k < y * k + k
    BY <1>2, <1>5, <1>6
  <2>2. QED  BY <2>1, <1>5, <1>6, Quotients
<1>8. y <= x + 1
  <2>1. (x + 1) * k = x * k + k
    BY <1>5
  <2>2. y * k < (x + 1) * k + k
    BY <1>2, <1>5, <1>6, <2>1
  <2>3. QED  BY <2>2, <1>5, <1>6, Quotients
<1>9. CASE \E q \in Int : a <= q * k + j /\ q * k + j < a + c
  <2>1. PICK q \in Int : a <= q * k + j /\ q * k + j < a + c
    BY <1>9
  <2>2. q * k \in Int
    OBVIOUS
  <2>3. x <= q
    <3>1. x * k < q * k + k
      BY <1>2, <1>5, <2>1, <2>2
    <3>2. QED  BY <3>1, <1>5, Quotients
  <2>4. q + 1 <= y
    <3>1. (q + 1) * k = q * k + k
      OBVIOUS
    <3>2. (q + 1) * k < y * k + k
      BY <1>2, <1>6, <2>1, <2>2, <3>1
    <3>3. QED  BY <3>2, <1>6, Quotients
  <2>5. y = x + 1
    BY <1>5, <1>6, <1>8, <2>3, <2>4
  <2>6. QED  BY <1>1, <1>2, <1>3, <1>4, <1>9, <2>5
<1>10. CASE ~ \E q \in Int : a <= q * k + j /\ q * k + j < a + c
  <2>1. a + c <= x * k + j
    BY <1>2, <1>5, <1>10
  <2>2. y <= x
    <3>1. y * k < x * k + k
      BY <1>2, <1>5, <1>6, <2>1
    <3>2. QED  BY <3>1, <1>5, <1>6, Quotients
  <2>3. y = x
    BY <1>5, <1>6, <1>7, <2>2
  <2>4. QED  BY <1>1, <1>2, <1>3, <1>4, <1>5, <1>10, <2>3
<1>11. QED  BY <1>9, <1>10

\* A shuffle of the shards.
Permutes(p, k) ==
    /\ p \in [0 .. k - 1 -> 0 .. k - 1]
    /\ \A i, j \in 0 .. k - 1 : p[i] = p[j] => i = j

LEMMA PermutesOnto ==
    ASSUME NEW k \in Nat, k > 0, NEW p, Permutes(p, k), NEW s \in 0 .. k - 1
    PROVE  \E j \in 0 .. k - 1 : p[j] = s
<1>1. PICK S : S = 0 .. k - 1
  OBVIOUS
<1>2. IsFiniteSet(S)
  BY <1>1, FS_Interval
<1>3. p \in Injection(S, S)
  BY <1>1 DEF Permutes, Injection, IsInjective
<1>4. p \in Surjection(S, S)
  BY <1>2, <1>3, FS_Injection
<1>5. QED  BY <1>1, <1>4 DEF Surjection

\* The requests of a window that replicate position j are as many as the
\* positions j, j + k, ... that the window passes.
CountIsPassed(j, first, n, k, c, p) ==
    Cardinality(SelectedBy(p[j], first .. first + n, k, c, p)) =
        Passed(j, k, (first + n + 1) * c) - Passed(j, k, first * c)

LEMMA SelectedCount ==
    ASSUME NEW k \in Nat, k > 0, NEW c \in 0 .. k, NEW p, Permutes(p, k),
           NEW first \in Nat, NEW n \in Nat, NEW j \in 0 .. k - 1
    PROVE  CountIsPassed(j, first, n, k, c, p)
<1> DEFINE Sel(x) == SelectedBy(p[j], first .. first + x, k, c, p)
           Hit(r) == \E q \in Int : r * c <= q * k + j /\ q * k + j < r * c + c
           N(r) == Passed(j, k, r * c)
           Counted(x) == /\ IsFiniteSet(Sel(x))
                         /\ Cardinality(Sel(x)) = N(first + x + 1) - N(first)
           Bad == {x \in Nat : ~Counted(x)}
<1>1. ASSUME NEW r \in Nat
      PROVE  p[j] \in SelectCapacityNormalizedReplicas(r, k, c, p) <=> Hit(r)
  <2>1. \A i \in 0 .. c - 1 : (FirstReplica(r, k, c) + i) % k \in 0 .. k - 1
    <3>1. (r % k) * c \in Int
      BY DivMod
    <3>2. FirstReplica(r, k, c) \in Int
      BY <3>1, DivMod DEF FirstReplica
    <3>3. QED  BY <3>2, DivMod
  <2>2. \A i \in 0 .. c - 1 : p[(FirstReplica(r, k, c) + i) % k] = p[j] <=>
                              (FirstReplica(r, k, c) + i) % k = j
    BY <2>1 DEF Permutes
  <2>3. p[j] \in SelectCapacityNormalizedReplicas(r, k, c, p) <=>
          \E i \in 0 .. c - 1 : (FirstReplica(r, k, c) + i) % k = j
    BY <2>2 DEF SelectCapacityNormalizedReplicas
  <2>4. (\E i \in 0 .. c - 1 : (FirstReplica(r, k, c) + i) % k = j) <=> Hit(r)
    BY WindowPositions
  <2> HIDE DEF Hit
  <2>5. QED  BY <2>3, <2>4, Zenon
<1>2. \A r \in Nat : /\ N(r) \in Int
                     /\ Hit(r) => N(r + 1) = N(r) + 1
                     /\ ~Hit(r) => N(r + 1) = N(r)
  <2> SUFFICES ASSUME NEW r \in Nat
               PROVE  /\ N(r) \in Int
                      /\ Hit(r) => N(r + 1) = N(r) + 1
                      /\ ~Hit(r) => N(r + 1) = N(r)
    BY Zenon
  <2>1. r * c \in Nat
    OBVIOUS
  <2>2. N(r) \in Int
    BY <2>1, PassedFacts
  <2>3. N(r + 1) = N(r) + IF Hit(r) THEN 1 ELSE 0
    BY PassedNext
  <2> HIDE DEF N, Hit
  <2>4. QED  BY <2>2, <2>3
<1>3. \A x \in Nat : Sel(x) = {r \in first .. first + x : Hit(r)}
  <2> HIDE DEF Hit
  <2> SUFFICES ASSUME NEW x \in Nat PROVE Sel(x) = {r \in first .. first + x : Hit(r)}
    BY Zenon
  <2>1. \A r \in first .. first + x : r \in Nat
    OBVIOUS
  <2>2. QED  BY <1>1, <2>1, Zenon DEF SelectedBy
<1> HIDE DEF Hit, N, Sel
<1>4. Counted(0)
  <2>1. first .. first + 0 = {first} /\ first + 0 + 1 = first + 1
    OBVIOUS
  <2>2. CASE Hit(first)
    <3>1. Sel(0) = {first}
      BY <1>3, <2>1, <2>2
    <3>2. IsFiniteSet(Sel(0)) /\ Cardinality(Sel(0)) = 1
      BY <3>1, FS_Singleton
    <3>3. QED  BY <1>2, <2>1, <2>2, <3>2
  <2>3. CASE ~Hit(first)
    <3>1. Sel(0) = {}
      BY <1>3, <2>1, <2>3
    <3>2. IsFiniteSet(Sel(0)) /\ Cardinality(Sel(0)) = 0
      BY <3>1, FS_EmptySet
    <3>3. QED  BY <1>2, <2>1, <2>3, <3>2
  <2>4. QED  BY <2>2, <2>3
<1>5. ASSUME NEW x \in Nat, Counted(x) PROVE Counted(x + 1)
  <2>1. PICK r : r = first + x + 1
    OBVIOUS
  <2>2. /\ r \in Nat /\ first + (x + 1) + 1 = r + 1 /\ first + (x + 1) = r
        /\ first .. r = (first .. first + x) \cup {r} /\ r \notin first .. first + x
    BY <2>1
  <2>3. Sel(x + 1) = {d \in first .. r : Hit(d)} /\ Sel(x) = {d \in first .. first + x : Hit(d)}
    BY <1>3, <2>2
  <2>4. r \notin Sel(x) /\ N(first) \in Int /\ N(r) \in Int
    BY <1>2, <2>2, <2>3
  <2>5. IsFiniteSet(Sel(x)) /\ Cardinality(Sel(x)) = N(r) - N(first)
    BY <1>5, <2>1
  <2>6. CASE Hit(r)
    <3>1. Sel(x + 1) = Sel(x) \cup {r}
      BY <2>2, <2>3, <2>6
    <3>2. IsFiniteSet(Sel(x + 1)) /\ Cardinality(Sel(x + 1)) = Cardinality(Sel(x)) + 1
      BY <2>4, <2>5, <3>1, FS_AddElement
    <3>3. N(r + 1) = N(r) + 1
      BY <1>2, <2>2, <2>6
    <3>4. QED  BY <2>2, <2>4, <2>5, <3>2, <3>3
  <2>7. CASE ~Hit(r)
    <3>1. Sel(x + 1) = Sel(x)
      BY <2>2, <2>3, <2>7
    <3>2. N(r + 1) = N(r)
      BY <1>2, <2>2, <2>7
    <3>3. QED  BY <2>2, <2>5, <3>1, <3>2
  <2>8. QED  BY <2>6, <2>7
<1> HIDE DEF Counted
<1>6. Bad = {}
  <2> SUFFICES ASSUME Bad # {} PROVE FALSE
    OBVIOUS
  <2>1. PICK x \in Bad : \A y \in Bad : x <= y
    <3>1. Bad \subseteq Nat
      OBVIOUS
    <3> HIDE DEF Bad
    <3>2. QED  BY <3>1, LeastNatural
  <2>2. x # 0 /\ x \in Nat /\ ~Counted(x)
    BY <1>4, <2>1
  <2>3. x - 1 \in Nat /\ x - 1 \notin Bad
    BY <2>1, <2>2
  <2>4. Counted(x - 1)
    BY <2>3
  <2>5. Counted((x - 1) + 1)
    BY <1>5, <2>3, <2>4
  <2>6. QED  BY <2>2, <2>5
<1>7. Counted(n)
  BY <1>6
<1>8. QED  BY <1>7 DEF Counted, Sel, N, CountIsPassed

(***************************************************************************)
(* Any run of consecutive requests replicates every shard equally often up *)
(* to one: for every number of shards, every number of replicas, every     *)
(* shuffle and every first request (workload_generator.cpp:139-165).       *)
(***************************************************************************)
THEOREM ReplicationIsBalanced ==
    ASSUME NEW k \in Nat, k > 0, NEW c \in 0 .. k, NEW p, Permutes(p, k),
           NEW first \in Nat, NEW n \in Nat
    PROVE  Balanced(first .. first + n, k, c, p)
<1> SUFFICES ASSUME NEW s \in 0 .. k - 1, NEW t \in 0 .. k - 1
             PROVE  Cardinality(SelectedBy(s, first .. first + n, k, c, p))
                      <= Cardinality(SelectedBy(t, first .. first + n, k, c, p)) + 1
  BY DEF Balanced
<1>1. PICK i \in 0 .. k - 1 : p[i] = s
  BY PermutesOnto
<1>2. PICK j \in 0 .. k - 1 : p[j] = t
  BY PermutesOnto
<1>3. PICK a : a = first * c
  OBVIOUS
<1>4. PICK b : b = (first + n + 1) * c
  OBVIOUS
<1>5. a \in Nat /\ b \in Nat
  BY <1>3, <1>4
<1>6. PICK ia : ia = Passed(i, k, a)
  OBVIOUS
<1>7. PICK ib : ib = Passed(i, k, b)
  OBVIOUS
<1>8. PICK ja : ja = Passed(j, k, a)
  OBVIOUS
<1>9. PICK jb : jb = Passed(j, k, b)
  OBVIOUS
<1>10. /\ ia \in Int /\ ia * k \in Int /\ a <= ia * k + i /\ ia * k + i < a + k
       /\ ja \in Int /\ ja * k \in Int /\ a <= ja * k + j /\ ja * k + j < a + k
  <2>1. ia \in Int /\ a <= ia * k + i /\ ia * k + i < a + k
    BY <1>5, <1>6, PassedFacts
  <2>2. ja \in Int /\ a <= ja * k + j /\ ja * k + j < a + k
    BY <1>5, <1>8, PassedFacts
  <2>3. QED  BY <2>1, <2>2
<1>11. /\ ib \in Int /\ ib * k \in Int /\ b <= ib * k + i /\ ib * k + i < b + k
       /\ jb \in Int /\ jb * k \in Int /\ b <= jb * k + j /\ jb * k + j < b + k
  <2>1. ib \in Int /\ b <= ib * k + i /\ ib * k + i < b + k
    BY <1>5, <1>7, PassedFacts
  <2>2. jb \in Int /\ b <= jb * k + j /\ jb * k + j < b + k
    BY <1>5, <1>9, PassedFacts
  <2>3. QED  BY <2>1, <2>2
<1>12. ib - ia <= (jb - ja) + 1
  <2>1. ib * k - ia * k < jb * k - ja * k + 2 * k
    BY <1>5, <1>10, <1>11
  <2>2. /\ (ib - ia) * k = ib * k - ia * k
        /\ (jb - ja + 1) * k = jb * k - ja * k + k
    BY <1>10, <1>11
  <2>3. (ib - ia) * k < (jb - ja + 1) * k + k
    BY <1>10, <1>11, <2>1, <2>2
  <2>4. QED  BY <1>10, <1>11, <2>3, Quotients
<1>13. Cardinality(SelectedBy(s, first .. first + n, k, c, p)) = ib - ia
  <2>1. CountIsPassed(i, first, n, k, c, p)
    BY SelectedCount
  <2>2. QED  BY <1>1, <1>3, <1>4, <1>6, <1>7, <2>1 DEF CountIsPassed
<1>14. Cardinality(SelectedBy(t, first .. first + n, k, c, p)) = jb - ja
  <2>1. CountIsPassed(j, first, n, k, c, p)
    BY SelectedCount
  <2>2. QED  BY <1>2, <1>3, <1>4, <1>8, <1>9, <2>1 DEF CountIsPassed
<1>15. QED  BY <1>12, <1>13, <1>14

\* In particular the instances that TLC enumerates are balanced
\* (workload_generator.cpp:155-163).
THEOREM ReplicasAreBalanced == SweepSpec => []ReplicasBalanced
<1>1. ReplicasBalanced
  <2> SUFFICES ASSUME NEW k \in 1 .. 6, NEW c \in 0 .. k, NEW first \in 0 .. k, NEW n \in 0 .. k,
                      NEW p, p = [i \in 0 .. k - 1 |-> k - 1 - i]
               PROVE  Balanced(first .. first + n, k, c, p)
    BY DEF ReplicasBalanced
  <2>1. Permutes(p, k)
    BY DEF Permutes
  <2>2. k \in Nat /\ k > 0 /\ first \in Nat /\ n \in Nat
    OBVIOUS
  <2>3. QED  BY <2>1, <2>2, ReplicationIsBalanced
<1>2. QED  BY <1>1, PTL
=============================================================================

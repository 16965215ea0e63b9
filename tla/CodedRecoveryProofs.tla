------------------------ MODULE CodedRecoveryProofs --------------------------
(***************************************************************************)
(* The path of a recovery, for every graph, every set of missing shards    *)
(* and every set of arrived parity shards.                                 *)
(*                                                                         *)
(* The first part is about the planner alone: its plans are topological,   *)
(* it finds a plan exactly when there is one, and it takes every graph the *)
(* generator draws.                                                        *)
(*                                                                         *)
(* The second part is about planner and decoder together, which rebuild    *)
(* the missing shards bit for bit: the plan is topological, so every       *)
(* source of the next operation is present; every present slot holds its   *)
(* encoded payload; and the XOR of a solved equation's sources is the      *)
(* payload of the one neighbour that is left out.                          *)
(***************************************************************************)
EXTENDS CodedRecovery, FiniteSetTheorems, TLAPS

\* The planner has validated its input and has not given up.
Planning == planner_pc \in {"scan", "recoverable"}

\* What has been released and what remains partition the missing shards, and
\* the producer map points at the operation that released a shard.
ProducerInv ==
    /\ Planning => /\ DOMAIN producing_operation = input.missing \ remaining
                   /\ Outputs = input.missing \ remaining
                   /\ \A s \in DOMAIN producing_operation :
                        /\ producing_operation[s] \in DOMAIN operations
                        /\ operations[producing_operation[s]].output = s
    /\ ~Planning => operations = <<>> /\ dependencies = <<>>
    /\ planner_pc = "start" => producing_operation = <<>>

\* Where an operation comes from: an arrived parity equation, solved for the
\* neighbour at one of its positions.
OperationInv ==
    \A n \in DOMAIN operations :
        \E p \in input.available : \E i \in DOMAIN Equation(graph, p) :
            operations[n] = [output  |-> Equation(graph, p)[i],
                             sources |-> SourcesOf(p, i)]

\* A stopping set among the missing shards is never broken into.
StoppingInv ==
    planner_pc \in {"scan", "recoverable", "unrecoverable"} =>
        \A S \in SUBSET input.missing :
            StoppingSet(graph, input.available, S) => S \subseteq remaining

\* A pass without progress has found every equation it visited stalled.
StalledInv ==
    /\ planner_pc = "scan" =>
         /\ remaining # {}
         /\ ~made_progress =>
              \A p \in input.available : p < cursor => ~TouchesOnce(graph, p, remaining)
    /\ planner_pc = "recoverable" => remaining = {}
    /\ planner_pc = "unrecoverable" =>
         remaining # {} /\ StoppingSet(graph, input.available, remaining)

PlannerInv ==
    /\ PlannerTypeOK
    /\ ProducerInv
    /\ OperationInv
    /\ PlanTopological
    /\ StoppingInv
    /\ StalledInv

-----------------------------------------------------------------------------
(***************************************************************************)
(* What validation establishes about an equation of an arrived parity      *)
(* shard (planner.cpp:14-53).                                              *)
(***************************************************************************)
LEMMA ValidEquationFacts ==
    ASSUME input \in Inputs, ValidInput, NEW p \in Parity(graph)
    PROVE  /\ graph.k \in Nat \ {0}
           /\ graph.m \in Nat \ {0}
           /\ p \in Nat
           /\ p >= graph.k
           /\ p < graph.k + graph.m
           /\ Equation(graph, p) \in Seq(Nat)
           /\ Equation(graph, p) # <<>>
           /\ \A i \in DOMAIN Equation(graph, p) :
                Equation(graph, p)[i] \in Systematic(graph)
           /\ \A i, j \in DOMAIN Equation(graph, p) :
                Equation(graph, p)[i] = Equation(graph, p)[j] => i = j
<1>1. /\ graph.k \in Nat \ {0}
      /\ graph.m \in Nat \ {0}
      /\ graph.eq \in [DOMAIN graph.eq -> Seq(Nat)]
  BY InputsAssumption DEF ValidInput, ValidateGraph, IsBipartiteGraph, graph
<1>2. p \in DOMAIN graph.eq /\ ValidEquation(graph, p)
  BY DEF ValidInput, ValidateGraph
<1>3. p \in Nat /\ p >= graph.k /\ p < graph.k + graph.m
  BY <1>1 DEF Parity
<1>4. Equation(graph, p) \in Seq(Nat)
  BY <1>1, <1>2 DEF Equation
<1>5. \A i \in DOMAIN Equation(graph, p) : Equation(graph, p)[i] \in Systematic(graph)
  BY <1>1, <1>2, <1>4 DEF ValidEquation, Equation, Systematic
<1>6. QED
  BY <1>1, <1>2, <1>3, <1>4, <1>5 DEF ValidEquation, Equation

(***************************************************************************)
(* The counting test of the inner loop (planner.cpp:98-110) finds an       *)
(* equation to solve exactly when the equation touches the remaining set   *)
(* once; the position it finds is then unique.                             *)
(***************************************************************************)
LEMMA SolvableIffTouchesOnce ==
    ASSUME input \in Inputs, ValidInput, NEW p \in input.available
    PROVE  /\ Solvable(p) <=> TouchesOnce(graph, p, remaining)
           /\ Solvable(p) => \E i \in DOMAIN Equation(graph, p) :
                                 /\ MissingPositions(p) = {i}
                                 /\ Neighbors(graph, p) \cap remaining
                                      = {Equation(graph, p)[i]}
<1> DEFINE E == Equation(graph, p)
           M == MissingPositions(p)
<1>1. p \in Parity(graph)
  BY DEF ValidInput
<1>2. /\ E \in Seq(Nat)
      /\ \A i, j \in DOMAIN E : E[i] = E[j] => i = j
  BY <1>1, ValidEquationFacts
<1>3. /\ M \subseteq DOMAIN E
      /\ \A i \in DOMAIN E : i \in M <=> E[i] \in remaining
  BY DEF MissingPositions
<1>4. Neighbors(graph, p) = {E[i] : i \in DOMAIN E}
  BY DEF Neighbors, Equation
<1>5. IsFiniteSet(M)
  <2>1. DOMAIN E = 1 .. Len(E) /\ Len(E) \in Nat
    BY <1>2
  <2>2. IsFiniteSet(1 .. Len(E))
    BY <2>1, FS_Interval
  <2>3. QED
    BY <1>3, <2>1, <2>2, FS_Subset
<1>6. Solvable(p) <=> \E i : M = {i}
  BY <1>5, FS_Singleton DEF Solvable
<1>7. ASSUME NEW i, M = {i}
      PROVE  i \in DOMAIN E /\ Neighbors(graph, p) \cap remaining = {E[i]}
  <2> HIDE DEF E, M
  <2>1. i \in DOMAIN E /\ E[i] \in remaining
    BY <1>3, <1>7
  <2>2. \A j \in DOMAIN E : E[j] \in remaining => j = i
    BY <1>3, <1>7
  <2>3. QED
    BY <1>4, <2>1, <2>2
<1>8. ASSUME TouchesOnce(graph, p, remaining)
      PROVE  \E i : M = {i}
  <2>1. PICK x \in remaining : Neighbors(graph, p) \cap remaining = {x}
    BY <1>8 DEF TouchesOnce
  <2> HIDE DEF E, M
  <2>2. PICK i \in DOMAIN E : E[i] = x
    BY <1>4, <2>1
  <2>3. \A j \in M : j = i
    BY <1>2, <1>3, <1>4, <2>1, <2>2
  <2>4. i \in M
    BY <1>3, <2>1, <2>2
  <2>5. QED
    BY <2>3, <2>4
<1>9. QED
  <2>1. Solvable(p) => TouchesOnce(graph, p, remaining)
    <3>1. SUFFICES ASSUME Solvable(p) PROVE TouchesOnce(graph, p, remaining)
      OBVIOUS
    <3>2. PICK i : M = {i}
      BY <1>6, <3>1
    <3>3. Neighbors(graph, p) \cap remaining = {E[i]}
      BY <1>7, <3>2
    <3>4. QED
      BY <3>3 DEF TouchesOnce
  <2>2. QED
    BY <1>6, <1>7, <1>8, <2>1

(***************************************************************************)
(* The source vector of an operation (planner.cpp:114-122): the parity     *)
(* shard once, and every neighbour but the released one exactly once.      *)
(***************************************************************************)
LEMMA SourcesFacts ==
    ASSUME input \in Inputs, ValidInput, NEW p \in Parity(graph),
           NEW i \in DOMAIN Equation(graph, p)
    PROVE  /\ SourcesOf(p, i) \in Seq(Nat)
           /\ DOMAIN SourcesOf(p, i) = DOMAIN Equation(graph, p)
           /\ 1 \in DOMAIN SourcesOf(p, i)
           /\ SourcesOf(p, i)[1] = p
           /\ \A n \in DOMAIN SourcesOf(p, i) \ {1} :
                SourcesOf(p, i)[n] \in Neighbors(graph, p) \ {Equation(graph, p)[i]}
           /\ \A s \in Neighbors(graph, p) \ {Equation(graph, p)[i]} :
                \E n \in DOMAIN SourcesOf(p, i) \ {1} : SourcesOf(p, i)[n] = s
           /\ \A n1, n2 \in DOMAIN SourcesOf(p, i) \ {1} :
                SourcesOf(p, i)[n1] = SourcesOf(p, i)[n2] => n1 = n2
<1> DEFINE E == Equation(graph, p)
           S == SourcesOf(p, i)
<1>1. /\ E \in Seq(Nat)
      /\ E # <<>>
      /\ p \in Nat
      /\ \A a, b \in DOMAIN E : E[a] = E[b] => a = b
  BY ValidEquationFacts
<1>2. Neighbors(graph, p) = {E[a] : a \in DOMAIN E}
  BY DEF Neighbors, Equation
<1>3. S = [j \in DOMAIN E |-> CASE j = 1           -> p
                               [] j > 1 /\ j <= i -> E[j - 1]
                               [] OTHER           -> E[j]]
  BY DEF SourcesOf
<1>4. i \in DOMAIN E
  OBVIOUS
<1> HIDE DEF E, S
<1>5. DOMAIN E = 1 .. Len(E) /\ Len(E) \in Nat \ {0}
  BY <1>1
<1>6. DOMAIN S = 1 .. Len(E) /\ 1 \in DOMAIN S /\ S[1] = p
  BY <1>3, <1>5
<1>7. \A n \in DOMAIN S \ {1} : S[n] = IF n <= i THEN E[n - 1] ELSE E[n]
  BY <1>3, <1>5, <1>6
<1>8. \A n \in DOMAIN S \ {1} :
        /\ (IF n <= i THEN n - 1 ELSE n) \in DOMAIN E \ {i}
        /\ S[n] = E[IF n <= i THEN n - 1 ELSE n]
  BY <1>4, <1>5, <1>6, <1>7
<1>9. S \in Seq(Nat)
  <2>1. \A n \in DOMAIN S : S[n] \in Nat
    BY <1>1, <1>5, <1>6, <1>8
  <2>2. S \in [1 .. Len(E) -> Nat]
    BY <1>3, <1>6, <2>1
  <2>3. QED
    BY <1>5, <2>2
<1>10. \A n \in DOMAIN S \ {1} : S[n] \in Neighbors(graph, p) \ {E[i]}
  BY <1>1, <1>2, <1>4, <1>8
<1>11. \A s \in Neighbors(graph, p) \ {E[i]} : \E n \in DOMAIN S \ {1} : S[n] = s
  <2>1. TAKE s \in Neighbors(graph, p) \ {E[i]}
  <2>2. PICK a \in DOMAIN E \ {i} : E[a] = s
    BY <1>2
  <2>3. CASE a < i
    <3>1. a + 1 \in DOMAIN S \ {1} /\ a + 1 <= i /\ (a + 1) - 1 = a
      BY <1>4, <1>5, <1>6, <2>3
    <3>2. S[a + 1] = s
      BY <1>7, <2>2, <3>1
    <3>3. QED
      BY <3>1, <3>2
  <2>4. CASE a > i
    <3>1. a \in DOMAIN S \ {1} /\ ~(a <= i)
      BY <1>4, <1>5, <1>6, <2>4
    <3>2. S[a] = s
      BY <1>7, <2>2, <3>1
    <3>3. QED
      BY <3>1, <3>2
  <2>5. QED
    BY <1>4, <1>5, <2>2, <2>3, <2>4
<1>12. \A n1, n2 \in DOMAIN S \ {1} : S[n1] = S[n2] => n1 = n2
  <2>1. SUFFICES ASSUME NEW n1 \in DOMAIN S \ {1}, NEW n2 \in DOMAIN S \ {1},
                        S[n1] = S[n2]
                 PROVE  n1 = n2
    OBVIOUS
  <2>2. (IF n1 <= i THEN n1 - 1 ELSE n1) = (IF n2 <= i THEN n2 - 1 ELSE n2)
    BY <1>1, <1>8, <2>1
  <2>3. QED
    BY <1>4, <1>5, <1>6, <1>8, <2>2
<1>13. QED
  BY <1>5, <1>6, <1>9, <1>10, <1>11, <1>12 DEF E, S

-----------------------------------------------------------------------------
(***************************************************************************)
(* The two steps that leave the plan alone.                                *)
(***************************************************************************)
LEMMA StartKeepsInv ==
    ASSUME PlannerInv, StartPlanning
    PROVE  PlannerInv'
<1> USE DEF PlannerInv
<1>1. planner_pc = "start" /\ operations = <<>> /\ dependencies = <<>>
  BY DEF StartPlanning, ProducerInv, Planning
<1>2. CASE ~ValidInput
  <2>1. /\ planner_pc' = "throw"
        /\ UNCHANGED <<input, remaining, operations, dependencies,
                       producing_operation, cursor, made_progress>>
    BY <1>2 DEF StartPlanning
  <2>2. PlannerTypeOK' /\ ProducerInv' /\ StoppingInv' /\ StalledInv'
    BY <1>1, <2>1 DEF PlannerTypeOK, ProducerInv, Planning, StoppingInv, StalledInv
  <2>3. OperationInv' /\ PlanTopological'
    BY <1>1, <2>1 DEF OperationInv, PlanTopological
  <2>4. QED
    BY <2>2, <2>3
<1>3. CASE ValidInput
  <2>1. /\ UNCHANGED <<input, operations, dependencies, producing_operation,
                       made_progress>>
        /\ remaining' = input.missing
        /\ cursor' = graph.k
        /\ planner_pc' = IF input.missing = {} THEN "recoverable" ELSE "scan"
    BY <1>3 DEF StartPlanning
  <2>2. /\ graph' = graph
        /\ ValidInput'
        /\ input \in Inputs
    BY <1>3, <2>1 DEF graph, ValidInput, PlannerTypeOK
  <2>3. graph.k \in Nat \ {0} /\ graph.m \in Nat \ {0}
    BY <1>3, <2>2, InputsAssumption
    DEF ValidInput, ValidateGraph, IsBipartiteGraph, graph
  <2>4. PlannerTypeOK'
    BY <2>1, <2>2, <2>3 DEF PlannerTypeOK
  <2>5. ProducerInv'
    <3>1. producing_operation = <<>>
      BY <1>1 DEF ProducerInv
    <3>2. QED
      BY <1>1, <2>1, <3>1 DEF ProducerInv, Planning, Outputs
  <2>6. OperationInv' /\ PlanTopological'
    BY <1>1, <2>1 DEF OperationInv, PlanTopological
  <2>7. StoppingInv'
    BY <2>1 DEF StoppingInv
  <2>8. StalledInv'
    <3>1. ASSUME NEW p \in input.available PROVE ~(p < graph.k)
      BY <1>3, <2>3, <3>1 DEF ValidInput, Parity
    <3>2. QED
      BY <2>1, <2>2, <3>1 DEF StalledInv
  <2>9. QED
    BY <2>4, <2>5, <2>6, <2>7, <2>8
<1>4. QED
  BY <1>2, <1>3

\* A skipped equation does not touch the remaining set exactly once.
LEMMA SkipKeepsInv ==
    ASSUME PlannerInv, SkipEquation
    PROVE  PlannerInv'
<1> USE DEF PlannerInv
<1>1. /\ UNCHANGED <<input, remaining, operations, dependencies,
                     producing_operation, made_progress, planner_pc>>
      /\ cursor' = cursor + 1
      /\ planner_pc = "scan"
      /\ cursor \in Parity(graph)
      /\ ~Solvable(cursor)
  BY DEF SkipEquation
<1>2. /\ input \in Inputs
      /\ ValidInput
      /\ ValidInput'
      /\ graph' = graph
      /\ cursor \in Nat
  BY <1>1 DEF PlannerTypeOK, graph, ValidInput
<1>3. PlannerTypeOK'
  <2>1. cursor + 1 \in graph.k .. graph.k + graph.m
    BY <1>1, <1>2, ValidEquationFacts
  <2>2. QED
    BY <1>1, <1>2, <2>1 DEF PlannerTypeOK
<1>4. ProducerInv' /\ PlanTopological' /\ StoppingInv'
  BY <1>1, <1>2 DEF ProducerInv, Planning, Outputs, PlanTopological, StoppingInv
<1>5. OperationInv'
  BY <1>1, <1>2 DEF OperationInv, SourcesOf
<1>6. StalledInv'
  <2>1. ASSUME NEW p \in input.available, p < cursor + 1, ~made_progress
        PROVE  ~TouchesOnce(graph, p, remaining)
    <3>1. p \in Nat
      BY <1>2, ValidEquationFacts DEF ValidInput
    <3>2. CASE p < cursor
      BY <1>1, <2>1, <3>2 DEF StalledInv
    <3>3. CASE p = cursor
      BY <1>1, <1>2, <3>3, SolvableIffTouchesOnce
    <3>4. QED
      BY <1>2, <2>1, <3>1, <3>2, <3>3
  <2>2. QED
    BY <1>1, <1>2, <2>1 DEF StalledInv
<1>7. QED
  BY <1>3, <1>4, <1>5, <1>6

\* The end of a pass: progress starts another one, a stalled pass has shown
\* that the remaining shards are a stopping set.
LEMMA EndPassKeepsInv ==
    ASSUME PlannerInv, EndPass
    PROVE  PlannerInv'
<1> USE DEF PlannerInv
<1>1. /\ UNCHANGED <<input, remaining, producing_operation>>
      /\ planner_pc = "scan"
      /\ cursor = graph.k + graph.m
  BY DEF EndPass
<1>2. /\ input \in Inputs
      /\ ValidInput
      /\ ValidInput'
      /\ graph' = graph
  BY <1>1 DEF PlannerTypeOK, graph, ValidInput
<1>3. graph.k \in Nat \ {0} /\ graph.m \in Nat \ {0}
  BY <1>2, InputsAssumption
  DEF ValidInput, ValidateGraph, IsBipartiteGraph, graph
<1>4. ASSUME NEW p \in input.available
      PROVE  p \in Nat /\ ~(p < graph.k) /\ p < graph.k + graph.m
  BY <1>2, <1>3, <1>4 DEF ValidInput, Parity
<1>5. CASE made_progress
  <2>1. /\ cursor' = graph.k
        /\ made_progress' = FALSE
        /\ UNCHANGED <<operations, dependencies, planner_pc>>
    BY <1>5 DEF EndPass
  <2>2. PlannerTypeOK'
    <3>1. graph.k \in graph.k .. graph.k + graph.m /\ graph.k \in Nat
      BY <1>3
    <3>2. made_progress' \in BOOLEAN
      BY <2>1
    <3>3. QED
      BY <1>1, <1>2, <2>1, <3>1, <3>2 DEF PlannerTypeOK
  <2>3. ProducerInv' /\ PlanTopological' /\ StoppingInv'
    BY <1>1, <1>2, <2>1 DEF ProducerInv, Planning, Outputs, PlanTopological, StoppingInv
  <2>4. OperationInv'
    BY <1>1, <1>2, <2>1 DEF OperationInv, SourcesOf
  <2>5. StalledInv'
    BY <1>1, <1>2, <1>4, <2>1 DEF StalledInv
  <2>6. QED
    BY <2>2, <2>3, <2>4, <2>5
<1>6. CASE ~made_progress
  <2>1. /\ planner_pc' = "unrecoverable"
        /\ operations' = <<>>
        /\ dependencies' = <<>>
        /\ UNCHANGED <<cursor, made_progress>>
    BY <1>6 DEF EndPass
  <2>2. PlannerTypeOK'
    BY <1>1, <1>2, <2>1 DEF PlannerTypeOK
  <2>3. ProducerInv' /\ PlanTopological' /\ OperationInv'
    BY <2>1 DEF ProducerInv, Planning, PlanTopological, OperationInv
  <2>4. StoppingInv'
    BY <1>1, <1>2, <2>1 DEF StoppingInv
  <2>5. StoppingSet(graph, input.available, remaining) /\ remaining # {}
    BY <1>1, <1>4, <1>6 DEF StalledInv, StoppingSet
  <2>6. StalledInv'
    BY <1>1, <1>2, <2>1, <2>5 DEF StalledInv
  <2>7. QED
    BY <2>2, <2>3, <2>4, <2>6
<1>7. QED
  BY <1>5, <1>6 DEF PlannerTypeOK

\* What a release does to the planner's state, with the position it solves for.
LEMMA ReleaseFacts ==
    ASSUME PlannerInv, ReleaseShard
    PROVE  \E i \in DOMAIN Equation(graph, cursor) :
             LET x == Equation(graph, cursor)[i]
             IN /\ Neighbors(graph, cursor) \cap remaining = {x}
                /\ x \in remaining
                /\ operations' = Append(operations, [output  |-> x,
                                                     sources |-> SourcesOf(cursor, i)])
                /\ dependencies' = Append(dependencies, DependenciesOf(cursor, i))
                /\ producing_operation' =
                     [s \in DOMAIN producing_operation \cup {x} |->
                        IF s \in DOMAIN producing_operation
                          THEN producing_operation[s]
                          ELSE Len(operations) + 1]
                /\ remaining' = remaining \ {x}
<1>1. input \in Inputs /\ ValidInput /\ cursor \in input.available
  BY DEF PlannerInv, PlannerTypeOK, ReleaseShard, Solvable
<1>2. PICK i \in DOMAIN Equation(graph, cursor) :
        /\ MissingPositions(cursor) = {i}
        /\ Neighbors(graph, cursor) \cap remaining = {Equation(graph, cursor)[i]}
  BY <1>1, SolvableIffTouchesOnce DEF ReleaseShard
<1>3. QED
  BY <1>2 DEF ReleaseShard

\* A release keeps every part of the invariant.
LEMMA ReleaseKeepsInv ==
    ASSUME PlannerInv, ReleaseShard
    PROVE  PlannerInv'
<1> USE DEF PlannerInv
<1>1. PICK i \in DOMAIN Equation(graph, cursor) :
        LET x == Equation(graph, cursor)[i]
        IN /\ Neighbors(graph, cursor) \cap remaining = {x}
           /\ x \in remaining
           /\ operations' = Append(operations, [output  |-> x,
                                                sources |-> SourcesOf(cursor, i)])
           /\ dependencies' = Append(dependencies, DependenciesOf(cursor, i))
           /\ producing_operation' =
                [s \in DOMAIN producing_operation \cup {x} |->
                   IF s \in DOMAIN producing_operation
                     THEN producing_operation[s]
                     ELSE Len(operations) + 1]
           /\ remaining' = remaining \ {x}
  BY ReleaseFacts
<1> DEFINE x  == Equation(graph, cursor)[i]
           S  == SourcesOf(cursor, i)
           op == [output |-> x, sources |-> S]
           D  == DependenciesOf(cursor, i)
           N  == Len(operations)
<1>2. /\ planner_pc = "scan"
      /\ cursor \in Parity(graph)
      /\ cursor \in input.available
      /\ made_progress' = TRUE
      /\ input' = input
      /\ IF remaining' = {}
           THEN planner_pc' = "recoverable" /\ cursor' = cursor
           ELSE cursor' = cursor + 1 /\ planner_pc' = planner_pc
  BY DEF ReleaseShard, Solvable
<1>3. /\ input \in Inputs
      /\ ValidInput
      /\ ValidInput'
      /\ graph' = graph
      /\ cursor \in Nat
      /\ remaining \subseteq input.missing
      /\ operations \in Seq(Operation)
      /\ dependencies \in Seq(SUBSET (Nat \ {0}))
      /\ producing_operation \in [DOMAIN producing_operation -> Nat \ {0}]
  BY <1>2 DEF PlannerTypeOK, graph, ValidInput
<1>4. /\ graph.k \in Nat /\ graph.m \in Nat
      /\ cursor >= graph.k /\ cursor < graph.k + graph.m
      /\ \A j \in DOMAIN Equation(graph, cursor) :
           Equation(graph, cursor)[j] \in Systematic(graph)
  BY <1>2, <1>3, ValidEquationFacts
<1>5. /\ S \in Seq(Nat)
      /\ 1 \in DOMAIN S /\ S[1] = cursor
      /\ \A n \in DOMAIN S \ {1} : S[n] \in Neighbors(graph, cursor) \ {x}
      /\ \A s \in Neighbors(graph, cursor) \ {x} :
           \E n \in DOMAIN S \ {1} : S[n] = s
  BY <1>2, <1>3, SourcesFacts
<1>6. Neighbors(graph, cursor) \subseteq Systematic(graph)
  BY <1>4 DEF Neighbors, Equation
<1>7. /\ x \in remaining
      /\ x \in input.missing
      /\ x \in Nat
      /\ Neighbors(graph, cursor) \cap remaining = {x}
      /\ remaining' = remaining \ {x}
      /\ operations' = Append(operations, op)
      /\ dependencies' = Append(dependencies, D)
      /\ producing_operation' =
           [s \in DOMAIN producing_operation \cup {x} |->
              IF s \in DOMAIN producing_operation
                THEN producing_operation[s] ELSE N + 1]
  BY <1>1, <1>3, <1>4 DEF Systematic
<1>8. D = {producing_operation[s] :
             s \in DOMAIN producing_operation \cap (Neighbors(graph, cursor) \ {x})}
  BY DEF DependenciesOf
<1>9. /\ DOMAIN producing_operation = input.missing \ remaining
      /\ Outputs = input.missing \ remaining
      /\ \A s \in DOMAIN producing_operation :
           /\ producing_operation[s] \in DOMAIN operations
           /\ operations[producing_operation[s]].output = s
  BY <1>2 DEF ProducerInv, Planning
<1>10. op = [output |-> x, sources |-> S]
  OBVIOUS
<1>11. /\ OperationInv
       /\ i \in DOMAIN Equation(graph, cursor)
       /\ x = Equation(graph, cursor)[i]
       /\ S = SourcesOf(cursor, i)
  OBVIOUS
<1> HIDE DEF x, S, op, D
<1>12. N \in Nat /\ DOMAIN operations = 1 .. N
  BY <1>3
<1>13. /\ Len(operations') = N + 1
       /\ DOMAIN operations' = 1 .. N + 1
       /\ \A j \in 1 .. N : operations'[j] = operations[j]
       /\ operations'[N + 1] = op
  BY <1>3, <1>7, <1>12
<1>14. op.output = x /\ op.sources = S /\ op \in Operation
  BY <1>5, <1>7, <1>10 DEF Operation
<1>15. PlannerTypeOK'
  <2>1. operations' \in Seq(Operation)
    BY <1>3, <1>7, <1>14
  <2>2. D \in SUBSET (Nat \ {0})
    BY <1>3, <1>8
  <2>3. dependencies' \in Seq(SUBSET (Nat \ {0}))
    BY <1>3, <1>7, <2>2
  <2>4. producing_operation' \in [DOMAIN producing_operation' -> Nat \ {0}]
    BY <1>3, <1>7, <1>12
  <2>5. made_progress' \in BOOLEAN
    BY <1>2
  <2>6. cursor' \in Nat /\ cursor' \in graph.k .. graph.k + graph.m
    BY <1>2, <1>3, <1>4
  <2>7. remaining' \subseteq input.missing
    BY <1>3, <1>7
  <2>8. planner_pc' \in {"scan", "recoverable"}
    BY <1>2
  <2>9. QED
    BY <1>2, <1>3, <2>1, <2>3, <2>4, <2>5, <2>6, <2>7, <2>8 DEF PlannerTypeOK
<1>16. ProducerInv'
  <2>1. Outputs' = Outputs \cup {x}
    BY <1>12, <1>13, <1>14 DEF Outputs
  <2>2. Outputs' = input'.missing \ remaining'
    BY <1>2, <1>3, <1>7, <1>9, <2>1
  <2>3. DOMAIN producing_operation' = input'.missing \ remaining'
    BY <1>2, <1>3, <1>7, <1>9
  <2>4. ASSUME NEW s \in DOMAIN producing_operation'
        PROVE  /\ producing_operation'[s] \in DOMAIN operations'
               /\ operations'[producing_operation'[s]].output = s
    <3>1. CASE s \in DOMAIN producing_operation
      BY <1>7, <1>9, <1>12, <1>13, <3>1
    <3>2. CASE s \notin DOMAIN producing_operation
      BY <1>7, <1>12, <1>13, <1>14, <2>4, <3>2
    <3>3. QED
      BY <3>1, <3>2
  <2>5. planner_pc' \in {"scan", "recoverable"}
    BY <1>2
  <2>6. QED
    BY <2>2, <2>3, <2>4, <2>5 DEF ProducerInv, Planning
<1>17. OperationInv'
  <2>1. ASSUME NEW n \in 1 .. N + 1
        PROVE  \E p \in input.available : \E j \in DOMAIN Equation(graph, p) :
                 operations'[n] = [output  |-> Equation(graph, p)[j],
                                   sources |-> SourcesOf(p, j)]
    <3>1. CASE n \in 1 .. N
      BY <1>11, <1>12, <1>13, <3>1 DEF OperationInv
    <3>2. CASE n = N + 1
      BY <1>2, <1>10, <1>11, <1>13, <3>2
    <3>3. QED
      BY <1>12, <2>1, <3>1, <3>2
  <2>2. \A p, j : SourcesOf(p, j)' = SourcesOf(p, j)
    BY <1>3 DEF SourcesOf
  <2>3. QED
    BY <1>2, <1>3, <1>13, <2>1, <2>2 DEF OperationInv
<1>18. PlanTopological'
  <2>1. Len(dependencies) = N
    BY DEF PlanTopological
  <2>2. /\ Len(dependencies') = N + 1
        /\ \A j \in 1 .. N : dependencies'[j] = dependencies[j]
        /\ dependencies'[N + 1] = D
    BY <1>3, <1>7, <1>12, <2>1
  <2>3. \A j \in 1 .. N : operations[j].output \in Outputs
    BY <1>12 DEF Outputs
  <2>4. \A j \in 1 .. N : operations[j].output # x
    BY <1>7, <1>9, <2>3
  <2>5. ASSUME NEW n \in 1 .. N + 1
        PROVE  /\ operations'[n].output \in input.missing
               /\ \A j \in 1 .. N + 1 :
                    operations'[j].output = operations'[n].output => j = n
    <3>1. operations'[n].output \in input.missing
      <4>1. CASE n \in 1 .. N
        BY <1>9, <1>13, <2>3, <4>1
      <4>2. CASE n = N + 1
        BY <1>7, <1>13, <1>14, <4>2
      <4>3. QED
        BY <1>12, <2>5, <4>1, <4>2
    <3>2. ASSUME NEW j \in 1 .. N + 1, operations'[j].output = operations'[n].output
          PROVE  j = n
      <4>1. CASE n \in 1 .. N /\ j \in 1 .. N
        BY <1>12, <1>13, <3>2, <4>1 DEF PlanTopological
      <4>2. CASE n \in 1 .. N /\ j = N + 1
        BY <1>13, <1>14, <2>4, <3>2, <4>2
      <4>3. CASE n = N + 1 /\ j \in 1 .. N
        BY <1>13, <1>14, <2>4, <3>2, <4>3
      <4>4. QED
        BY <1>12, <2>5, <3>2, <4>1, <4>2, <4>3
    <3>3. QED
      BY <3>1, <3>2
  <2>6. ASSUME NEW n \in 1 .. N + 1
        PROVE  /\ \A a \in DOMAIN operations'[n].sources :
                    \/ operations'[n].sources[a] \in input.available
                    \/ operations'[n].sources[a] \in Systematic(graph) \ input.missing
                    \/ \E j \in 1 .. n - 1 :
                         operations'[j].output = operations'[n].sources[a]
               /\ dependencies'[n] =
                    {j \in 1 .. n - 1 :
                       \E a \in DOMAIN operations'[n].sources :
                         operations'[n].sources[a] = operations'[j].output}
    <3>1. CASE n \in 1 .. N
      <4>1. /\ operations'[n] = operations[n]
            /\ dependencies'[n] = dependencies[n]
            /\ \A j \in 1 .. n - 1 : operations'[j] = operations[j]
        BY <1>12, <1>13, <2>2, <3>1
      <4>2. /\ \A a \in DOMAIN operations[n].sources :
                 \/ operations[n].sources[a] \in input.available
                 \/ operations[n].sources[a] \in Systematic(graph) \ input.missing
                 \/ \E j \in 1 .. n - 1 :
                      operations[j].output = operations[n].sources[a]
            /\ dependencies[n] =
                 {j \in 1 .. n - 1 :
                    \E a \in DOMAIN operations[n].sources :
                      operations[n].sources[a] = operations[j].output}
        BY <1>12, <3>1 DEF PlanTopological
      <4>3. {j \in 1 .. n - 1 :
               \E a \in DOMAIN operations[n].sources :
                 operations[n].sources[a] = operations[j].output}
            = {j \in 1 .. n - 1 :
                 \E a \in DOMAIN operations'[n].sources :
                   operations'[n].sources[a] = operations'[j].output}
        BY <4>1
      <4>4. QED
        BY <4>1, <4>2, <4>3
    <3>2. CASE n = N + 1
      <4>1. /\ operations'[n].sources = S
            /\ dependencies'[n] = D
            /\ n - 1 = N
            /\ \A j \in 1 .. N : operations'[j] = operations[j]
        BY <1>12, <1>13, <1>14, <2>2, <3>2
      <4>2. ASSUME NEW a \in DOMAIN S
            PROVE  \/ S[a] \in input.available
                   \/ S[a] \in Systematic(graph) \ input.missing
                   \/ \E j \in 1 .. N : operations'[j].output = S[a]
        <5>1. CASE a = 1
          BY <1>2, <1>5, <5>1
        <5>2. CASE a # 1
          <6>1. S[a] \in Systematic(graph) /\ S[a] \notin remaining
            BY <1>5, <1>6, <1>7, <4>2, <5>2
          <6>2. S[a] \in input.missing => S[a] \in Outputs
            BY <1>9, <6>1
          <6>3. S[a] \in Outputs => \E j \in 1 .. N : operations[j].output = S[a]
            BY <1>12 DEF Outputs
          <6>4. QED
            BY <4>1, <6>1, <6>2, <6>3
        <5>3. QED
          BY <5>1, <5>2
      <4>3. ASSUME NEW j \in 1 .. N
            PROVE  j \in D <=> \E a \in DOMAIN S : S[a] = operations[j].output
        <5> DEFINE y == operations[j].output
        <5>1. /\ y \in DOMAIN producing_operation
              /\ producing_operation[y] = j
          <6>1. y \in DOMAIN producing_operation
            BY <1>9, <2>3
          <6>2. /\ producing_operation[y] \in DOMAIN operations
                /\ operations[producing_operation[y]].output = y
            BY <1>9, <6>1
          <6>3. QED
            BY <1>12, <6>1, <6>2 DEF PlanTopological
        <5>2. y # cursor /\ y # x
          <6>1. y \in Systematic(graph)
            BY <1>3, <1>9, <5>1 DEF ValidInput
          <6>2. QED
            BY <1>4, <2>4, <6>1 DEF Systematic
        <5> HIDE DEF y
        <5>3. j \in D <=> y \in Neighbors(graph, cursor)
          <6>1. ASSUME j \in D PROVE y \in Neighbors(graph, cursor)
            <7>1. PICK s \in DOMAIN producing_operation \cap (Neighbors(graph, cursor) \ {x}) :
                    producing_operation[s] = j
              BY <1>8, <6>1
            <7>2. s = y
              BY <1>9, <7>1 DEF y
            <7>3. QED
              BY <7>1, <7>2
          <6>2. QED
            BY <1>8, <5>1, <5>2, <6>1
        <5>4. (\E a \in DOMAIN S : S[a] = y) <=> y \in Neighbors(graph, cursor)
          BY <1>5, <5>2
        <5>5. QED
          BY <5>3, <5>4 DEF y
      <4>4. D \subseteq 1 .. N
        BY <1>8, <1>9, <1>12
      <4>5. D = {j \in 1 .. N : \E a \in DOMAIN S : S[a] = operations'[j].output}
        <5>1. \A j \in 1 .. N :
                j \in D <=> \E a \in DOMAIN S : S[a] = operations'[j].output
          BY <4>1, <4>3
        <5>2. QED
          BY <4>4, <5>1
      <4>6. QED
        BY <4>1, <4>2, <4>5
    <3>3. QED
      BY <1>12, <2>6, <3>1, <3>2
  <2>7. QED
    BY <1>2, <1>3, <1>13, <2>2, <2>5, <2>6 DEF PlanTopological
<1>19. StoppingInv'
  <2>1. ASSUME NEW T \in SUBSET input.missing,
               StoppingSet(graph, input.available, T)
        PROVE  T \subseteq remaining \ {x}
    <3>1. T \subseteq remaining
      BY <1>2, <2>1 DEF StoppingInv
    <3>2. ~TouchesOnce(graph, cursor, T)
      BY <1>2, <2>1 DEF StoppingSet
    <3>3. x \notin T
      BY <1>7, <3>1, <3>2 DEF TouchesOnce
    <3>4. QED
      BY <3>1, <3>3
  <2>2. QED
    BY <1>2, <1>3, <1>7, <2>1 DEF StoppingInv
<1>20. StalledInv'
  BY <1>2 DEF StalledInv
<1>21. QED
  BY <1>15, <1>16, <1>17, <1>18, <1>19, <1>20

-----------------------------------------------------------------------------
LEMMA PlannerInvInitially == PlannerInit => PlannerInv
<1>1. SUFFICES ASSUME PlannerInit PROVE PlannerInv
  OBVIOUS
<1>2. PlannerTypeOK
  <2>1. <<>> \in Seq(Operation) /\ <<>> \in Seq(SUBSET (Nat \ {0}))
    OBVIOUS
  <2>2. <<>> \in [DOMAIN <<>> -> Nat \ {0}]
    OBVIOUS
  <2>3. made_progress \in BOOLEAN
    BY <1>1 DEF PlannerInit
  <2>4. QED
    BY <1>1, <2>1, <2>2, <2>3 DEF PlannerInit, PlannerTypeOK
<1>3. ProducerInv /\ OperationInv /\ PlanTopological
  BY <1>1 DEF PlannerInit, ProducerInv, Planning, OperationInv, PlanTopological
<1>4. StoppingInv /\ StalledInv
  BY <1>1 DEF PlannerInit, StoppingInv, StalledInv
<1>5. QED
  BY <1>2, <1>3, <1>4 DEF PlannerInv

LEMMA PlannerInvStutters ==
    ASSUME PlannerInv, UNCHANGED plannerVars
    PROVE  PlannerInv'
<1>1. PlannerTypeOK' /\ ProducerInv' /\ PlanTopological'
  BY DEF PlannerInv, plannerVars, PlannerTypeOK, ValidInput, graph, ProducerInv,
         Planning, Outputs, PlanTopological
<1>2. OperationInv' /\ StoppingInv' /\ StalledInv'
  BY DEF PlannerInv, plannerVars, OperationInv, SourcesOf, graph, StoppingInv,
         StalledInv
<1>3. QED
  BY <1>1, <1>2 DEF PlannerInv

\* One planner step preserves the invariant: one case per action.
LEMMA PlannerStepKeepsInv ==
    ASSUME PlannerInv, [PlannerNext]_plannerVars
    PROVE  PlannerInv'
BY StartKeepsInv, SkipKeepsInv, ReleaseKeepsInv, EndPassKeepsInv,
   PlannerInvStutters DEF PlannerNext

(***************************************************************************)
(* What CreatePlan returns: with no remaining shard every stopping set is  *)
(* empty; when it gives up, the remaining shards are a stopping set.       *)
(***************************************************************************)
LEMMA PlannerInvImpliesComplete == PlannerInv => PeelingComplete
<1>1. SUFFICES ASSUME PlannerInv PROVE PeelingComplete
  OBVIOUS
<1>2. CASE planner_pc = "recoverable"
  <2>1. remaining = {} /\ Outputs = input.missing
    BY <1>1, <1>2 DEF PlannerInv, StalledInv, ProducerInv, Planning
  <2>2. Peelable(graph, input.missing, input.available)
    BY <1>1, <1>2, <2>1 DEF PlannerInv, StoppingInv, Peelable
  <2>3. QED
    BY <1>2, <2>1, <2>2 DEF PeelingComplete
<1>3. CASE planner_pc = "unrecoverable"
  <2>1. /\ remaining # {}
        /\ StoppingSet(graph, input.available, remaining)
        /\ remaining \in SUBSET input.missing
        /\ operations = <<>>
    BY <1>1, <1>3 DEF PlannerInv, StalledInv, ProducerInv, Planning, PlannerTypeOK
  <2>2. ~Peelable(graph, input.missing, input.available)
    BY <2>1 DEF Peelable
  <2>3. QED
    BY <1>3, <2>1, <2>2 DEF PeelingComplete
<1>4. QED
  BY <1>2, <1>3 DEF PeelingComplete

\* The inductive invariant of the planner.
THEOREM PlannerInvariance == PlannerSpec => []PlannerInv
BY PlannerInvInitially, PlannerStepKeepsInv, PTL DEF PlannerSpec

\* The locals of CreatePlan keep their types, for every input.
THEOREM PlannerTypeCorrect == PlannerSpec => []PlannerTypeOK
<1>1. PlannerInv => PlannerTypeOK
  BY DEF PlannerInv
<1>2. QED
  BY <1>1, PlannerInvariance, PTL

\* For every input, the plan can be executed in order and its dependency
\* lists are exact.
THEOREM PlansAreTopological == PlannerSpec => []PlanTopological
<1>1. PlannerInv => PlanTopological
  BY DEF PlannerInv
<1>2. QED
  BY <1>1, PlannerInvariance, PTL

\* For every input, CreatePlan finds a plan exactly when the missing shards
\* contain no nonempty stopping set, and the plan rebuilds all of them.
THEOREM PeelingIsComplete == PlannerSpec => []PeelingComplete
BY PlannerInvImpliesComplete, PlannerInvariance, PTL

-----------------------------------------------------------------------------
(***************************************************************************)
(* The graphs of the generator.                                            *)
(***************************************************************************)

\* What a drawn graph looks like.
LEMMA DrawnGraphFacts ==
    ASSUME NEW k \in Nat, NEW m \in Nat, NEW degree, NEW g,
           g \in GenerateRegularGraph(k, m, degree)
    PROVE  /\ k # 0 /\ m # 0 /\ k + m <= MaxShardId + 1 /\ k <= MaxShardId
           /\ degree \in Nat \ {0}
           /\ g.k = k /\ g.m = m
           /\ DOMAIN g.eq = k .. k + m - 1
           /\ \A p \in k .. k + m - 1 :
                /\ g.eq[p] \in Seq(Nat)
                /\ DOMAIN g.eq[p] = 1 .. degree
                /\ Len(g.eq[p]) = degree
                /\ g.eq[p] # <<>>
                /\ \A i \in 1 .. degree : g.eq[p][i] \in 0 .. k - 1
                /\ \A i, j \in 1 .. degree : g.eq[p][i] = g.eq[p][j] => i = j
<1>1. /\ k # 0 /\ m # 0 /\ k <= MaxShardId /\ m <= (MaxShardId + 1) - k
      /\ degree \in 1 .. k
      /\ \E e \in [k .. k + m - 1 -> DrawnNeighbors(k, degree)] : g = [k |-> k, m |-> m, eq |-> e]
  BY DEF GenerateRegularGraph
<1>2. PICK e \in [k .. k + m - 1 -> DrawnNeighbors(k, degree)] : g = [k |-> k, m |-> m, eq |-> e]
  BY <1>1
<1>3. degree \in Nat \ {0}
  BY <1>1
<1>4. ASSUME NEW v \in DrawnNeighbors(k, degree)
      PROVE  /\ v \in Seq(Nat) /\ DOMAIN v = 1 .. degree /\ Len(v) = degree /\ v # <<>>
             /\ \A i \in 1 .. degree : v[i] \in 0 .. k - 1
             /\ \A i, j \in 1 .. degree : v[i] = v[j] => i = j
  <2>1. /\ v \in [1 .. degree -> 0 .. k - 1]
        /\ \A i, j \in 1 .. degree : v[i] = v[j] => i = j
    BY <1>4 DEF DrawnNeighbors
  <2>2. v \in [1 .. degree -> Nat]
    BY <2>1
  <2>3. v \in Seq(Nat) /\ DOMAIN v = 1 .. degree
    BY <1>3, <2>2
  <2>4. Len(v) = degree
    BY <1>3, <2>3
  <2>5. v # <<>>
    BY <1>3, <2>4
  <2> QED
    BY <2>1, <2>3, <2>4, <2>5
<1>5. k + m <= MaxShardId + 1
  BY <1>1, MaxShardIdAssumption
<1> QED
  BY <1>1, <1>2, <1>3, <1>4, <1>5

\* Validation accepts it.
LEMMA DrawnGraphIsValid ==
    ASSUME NEW k \in Nat, NEW m \in Nat, NEW degree, NEW g,
           g \in GenerateRegularGraph(k, m, degree)
    PROVE  ValidateGraph(g)
<1>1. /\ g.k = k /\ g.m = m /\ k # 0 /\ m # 0 /\ k <= MaxShardId
      /\ k + m <= MaxShardId + 1
      /\ DOMAIN g.eq = k .. k + m - 1
  BY DrawnGraphFacts
<1>2. Cardinality(k .. k + m - 1) = m
  BY <1>1, FS_Interval
<1>3. m <= (MaxShardId + 1) - k
  BY <1>1, MaxShardIdAssumption
<1>4. ASSUME NEW p \in k .. k + m - 1
      PROVE  ValidEquation(g, p)
  <2>1. /\ g.eq[p] # <<>>
        /\ DOMAIN g.eq[p] = 1 .. degree
        /\ \A i \in 1 .. degree : g.eq[p][i] \in 0 .. k - 1
        /\ \A i, j \in 1 .. degree : g.eq[p][i] = g.eq[p][j] => i = j
    BY DrawnGraphFacts
  <2>2. \A i \in 1 .. degree : g.eq[p][i] < k
    BY <2>1
  <2> QED
    BY <1>1, <2>1, <2>2 DEF ValidEquation
<1> QED
  BY <1>1, <1>2, <1>3, <1>4 DEF ValidateGraph, Parity

\* The encoder's graph type takes its conversion unless the last ID is used up.
LEMMA DrawnGraphConverts ==
    ASSUME NEW k \in Nat, NEW m \in Nat, NEW degree, NEW g,
           g \in GenerateRegularGraph(k, m, degree)
    PROVE  ValidateCodeGraph(ToCodeGraph(g)) /\ EncoderAccepts(ToCodeGraph(g))
             <=> k + m <= MaxShardId
<1> DEFINE c == ToCodeGraph(g)
<1>1. /\ g.k = k /\ g.m = m /\ k # 0 /\ m # 0
      /\ \A p \in k .. k + m - 1 :
           /\ g.eq[p] # <<>>
           /\ DOMAIN g.eq[p] = 1 .. degree
           /\ \A i \in 1 .. degree : g.eq[p][i] \in 0 .. k - 1
           /\ \A i, j \in 1 .. degree : g.eq[p][i] = g.eq[p][j] => i = j
  BY DrawnGraphFacts
<1>2. /\ c.k = k /\ c.m = m
      /\ c.equations = [i \in 1 .. m |-> [output |-> k + i - 1, sources |-> g.eq[k + i - 1]]]
  BY <1>1 DEF ToCodeGraph
<1>3. /\ DOMAIN c.equations = 1 .. m
      /\ \A i \in 1 .. m : /\ c.equations[i].output = k + i - 1
                           /\ c.equations[i].sources = g.eq[k + i - 1]
                           /\ k + i - 1 \in k .. k + m - 1
  BY <1>2
<1>4. Len(c.equations) = m
  BY <1>2
<1> HIDE DEF c
<1>5. k <= MaxShardId - m <=> k + m <= MaxShardId
  BY MaxShardIdAssumption
<1>6. ASSUME NEW i \in 1 .. m
      PROVE  /\ g.eq[k + i - 1] # <<>>
             /\ DOMAIN g.eq[k + i - 1] = 1 .. degree
             /\ \A n \in 1 .. degree : g.eq[k + i - 1][n] < k /\ g.eq[k + i - 1][n] < k + m
             /\ \A n, o \in 1 .. degree : g.eq[k + i - 1][n] = g.eq[k + i - 1][o] => n = o
  <2>1. PICK p \in k .. k + m - 1 : p = k + i - 1
    BY <1>3
  <2>2. \A n \in 1 .. degree : g.eq[p][n] \in 0 .. k - 1
    BY <1>1
  <2>3. \A n \in 1 .. degree : g.eq[p][n] < k /\ g.eq[p][n] < k + m
    BY <2>2
  <2> QED
    BY <1>1, <2>1, <2>3
<1>7. EncoderAccepts(c)
  BY <1>2, <1>3, <1>6 DEF EncoderAccepts
<1>8. ASSUME NEW i \in 1 .. m
      PROVE  LET e == c.equations[i]
             IN /\ e.output \in c.k .. c.k + c.m - 1
                /\ \A j \in DOMAIN c.equations : c.equations[j].output = e.output => j = i
                /\ e.sources # <<>>
                /\ \A n \in DOMAIN e.sources : e.sources[n] < c.k + c.m
                /\ \A n, o \in DOMAIN e.sources : e.sources[n] = e.sources[o] => n = o
  <2>1. \A j \in 1 .. m : k + j - 1 = k + i - 1 => j = i
    OBVIOUS
  <2>2. \A j \in DOMAIN c.equations : c.equations[j].output = c.equations[i].output => j = i
    BY <1>3, <2>1
  <2>3. c.equations[i].output \in c.k .. c.k + c.m - 1
    BY <1>2, <1>3
  <2>4. c.equations[i].sources = g.eq[k + i - 1]
    BY <1>3
  <2> DEFINE S == c.equations[i].sources
  <2>5. /\ S # <<>>
        /\ DOMAIN S = 1 .. degree
        /\ \A n \in 1 .. degree : S[n] < k + m
        /\ \A n, o \in 1 .. degree : S[n] = S[o] => n = o
    BY <1>6, <2>4
  <2> HIDE DEF S
  <2>6. /\ S # <<>>
        /\ \A n \in DOMAIN S : S[n] < c.k + c.m
        /\ \A n, o \in DOMAIN S : S[n] = S[o] => n = o
    BY <1>2, <2>5
  <2> QED
    BY <2>2, <2>3, <2>6 DEF S
<1>9. ValidateCodeGraph(c) <=> k <= MaxShardId - m
  BY <1>1, <1>2, <1>3, <1>4, <1>8 DEF ValidateCodeGraph
<1> QED
  BY <1>5, <1>7, <1>9 DEF c

\* CreatePlan throws only on an input it does not accept.
ThrowInv == planner_pc = "throw" => ~ValidInput

LEMMA ThrowsOnBadInput == PlannerSpec => []ThrowInv
<1>1. PlannerInit => ThrowInv
  BY DEF PlannerInit, ThrowInv
<1>2. ThrowInv /\ [PlannerNext]_plannerVars => ThrowInv'
  BY DEF ThrowInv, ValidInput, graph, PlannerNext, StartPlanning, SkipEquation, ReleaseShard,
         EndPass, plannerVars
<1> QED
  BY <1>1, <1>2, PTL DEF PlannerSpec

LEMMA PlannerInvImpliesServes == PlannerInv /\ ThrowInv => RegularGraphsServe
<1> SUFFICES ASSUME PlannerInv, ThrowInv,
                    NEW degree \in {Len(graph.eq[p]) : p \in DOMAIN graph.eq},
                    graph \in GenerateRegularGraph(graph.k, graph.m, degree)
             PROVE  /\ planner_pc = "throw" =>
                         \/ ~(input.missing \subseteq Systematic(graph))
                         \/ ~(input.available \subseteq Parity(graph))
                    /\ ValidateCodeGraph(ToCodeGraph(graph)) /\ EncoderAccepts(ToCodeGraph(graph))
                         <=> graph.k + graph.m <= MaxShardId
                    /\ \A n \in DOMAIN operations : Len(operations[n].sources) = degree
  BY DEF RegularGraphsServe
<1>1. input \in Inputs /\ graph.k \in Nat /\ graph.m \in Nat
  BY InputsAssumption DEF PlannerInv, PlannerTypeOK, IsBipartiteGraph, graph
<1>2. ValidateGraph(graph)
  BY <1>1, DrawnGraphIsValid
<1>3. ASSUME NEW n \in DOMAIN operations
      PROVE  Len(operations[n].sources) = degree
  <2>1. PICK p \in input.available : \E i \in DOMAIN Equation(graph, p) :
          operations[n] = [output |-> Equation(graph, p)[i], sources |-> SourcesOf(p, i)]
    BY DEF PlannerInv, OperationInv
  <2>2. PICK i \in DOMAIN Equation(graph, p) :
          operations[n] = [output |-> Equation(graph, p)[i], sources |-> SourcesOf(p, i)]
    BY <2>1
  <2>3. ValidInput
    BY <1>3 DEF PlannerInv, ProducerInv, Planning, PlannerTypeOK
  <2>4. p \in Parity(graph)
    BY <2>3 DEF ValidInput
  <2>5. DOMAIN Equation(graph, p) = 1 .. degree /\ degree \in Nat
    BY <1>1, <2>4, DrawnGraphFacts DEF Parity, Equation
  <2>6. SourcesOf(p, i) \in Seq(Nat) /\ DOMAIN SourcesOf(p, i) = 1 .. degree
    BY <1>1, <2>3, <2>4, <2>5, SourcesFacts
  <2>7. Len(SourcesOf(p, i)) = degree
    BY <2>5, <2>6
  <2> QED
    BY <2>2, <2>7
<1> QED
  BY <1>1, <1>2, <1>3, DrawnGraphConverts DEF ThrowInv, ValidInput

\* Whatever GenerateRegularGraph draws, the planner plans for it with `degree'
\* sources per operation, and the encoder takes it (graph_generator.cpp:31-37).
THEOREM DrawnGraphsServe == PlannerSpec => []RegularGraphsServe
BY PlannerInvImpliesServes, ThrowsOnBadInput, PlannerInvariance, PTL

-----------------------------------------------------------------------------
(***************************************************************************)
(* GF(2) arithmetic.                                                       *)
(***************************************************************************)

\* A parity shard encodes exactly its neighbours: they are distinct, so none
\* of them cancels out (codec.cpp:55-69).
LEMMA EncodedParityIsNeighbors ==
    ASSUME input \in Inputs, ValidInput, NEW p \in Parity(graph)
    PROVE  EncodedParity(graph, p) = Neighbors(graph, p)
<1> DEFINE E == Equation(graph, p)
           V == [i \in DOMAIN E |-> {E[i]}]
<1>1. \A i, j \in DOMAIN E : E[i] = E[j] => i = j
  BY ValidEquationFacts
<1>2. /\ EncodedParity(graph, p) = XorAll(V)
      /\ Neighbors(graph, p) = {E[i] : i \in DOMAIN E}
  BY DEF EncodedParity, Neighbors, Equation
<1> HIDE DEF E
<1>3. ASSUME NEW a \in DOMAIN E
      PROVE  Cardinality({i \in DOMAIN V : E[a] \in V[i]}) = 1
  <2>1. {i \in DOMAIN V : E[a] \in V[i]} = {a}
    BY <1>1, <1>3
  <2>2. QED
    BY <2>1, FS_Singleton
<1>4. UNION {V[i] : i \in DOMAIN V} = {E[i] : i \in DOMAIN E}
  OBVIOUS
<1>5. ASSUME NEW x \in {E[i] : i \in DOMAIN E}
      PROVE  Cardinality({i \in DOMAIN V : x \in V[i]}) % 2 = 1
  <2>1. PICK a \in DOMAIN E : x = E[a]
    BY <1>5
  <2>2. Cardinality({i \in DOMAIN V : x \in V[i]}) = 1
    BY <1>3, <2>1
  <2>3. QED
    BY <2>2
<1>6. QED
  BY <1>2, <1>4, <1>5 DEF XorAll

\* The XOR of the sources of a solved equation is the payload of the released
\* neighbour: every other neighbour occurs in the parity shard and once more.
LEMMA SolvedEquation ==
    ASSUME input \in Inputs, ValidInput, NEW p \in Parity(graph),
           NEW i \in DOMAIN Equation(graph, p),
           NEW V, DOMAIN V = DOMAIN SourcesOf(p, i),
           \A n \in DOMAIN V : V[n] = Encoded(graph, SourcesOf(p, i)[n])
    PROVE  XorAll(V) = {Equation(graph, p)[i]}
<1> DEFINE x == Equation(graph, p)[i]
           S == SourcesOf(p, i)
           Nb == Neighbors(graph, p)
<1>1. /\ 1 \in DOMAIN S
      /\ S[1] = p
      /\ \A n \in DOMAIN S \ {1} : S[n] \in Nb \ {x}
      /\ \A s \in Nb \ {x} : \E n \in DOMAIN S \ {1} : S[n] = s
      /\ \A n1, n2 \in DOMAIN S \ {1} : S[n1] = S[n2] => n1 = n2
  BY SourcesFacts
<1>2. /\ Nb \subseteq Systematic(graph)
      /\ p \notin Systematic(graph)
      /\ x \in Nb
  BY ValidEquationFacts DEF Neighbors, Equation, Systematic
<1>3. V[1] = Nb
  BY <1>1, <1>2, EncodedParityIsNeighbors DEF Encoded
<1>4. \A n \in DOMAIN V \ {1} : V[n] = {S[n]}
  BY <1>1, <1>2 DEF Encoded
<1>5. DOMAIN V = DOMAIN S
  OBVIOUS
<1> HIDE DEF x, S, Nb
<1>6. UNION {V[n] : n \in DOMAIN V} = Nb
  BY <1>1, <1>3, <1>4, <1>5
<1>7. Cardinality({n \in DOMAIN V : x \in V[n]}) = 1
  <2>1. {n \in DOMAIN V : x \in V[n]} = {1}
    BY <1>1, <1>2, <1>3, <1>4, <1>5
  <2>2. QED
    BY <2>1, FS_Singleton
<1>8. ASSUME NEW y \in Nb \ {x}
      PROVE  Cardinality({n \in DOMAIN V : y \in V[n]}) = 2
  <2>1. PICK a \in DOMAIN S \ {1} : S[a] = y
    BY <1>1, <1>8
  <2>2. {n \in DOMAIN V : y \in V[n]} = {1} \cup {a}
    BY <1>1, <1>3, <1>4, <1>5, <1>8, <2>1
  <2>3. IsFiniteSet({1}) /\ Cardinality({1}) = 1
    BY FS_Singleton
  <2>4. Cardinality({1} \cup {a}) = 2
    <3>1. Cardinality({1} \cup {a}) =
            IF a \in {1} THEN Cardinality({1}) ELSE Cardinality({1}) + 1
      BY <2>3, FS_AddElement
    <3>2. a \notin {1}
      BY <2>1
    <3>3. QED
      BY <2>3, <3>1, <3>2
  <2>5. QED
    BY <2>2, <2>4
<1>9. \A y \in Nb : (Cardinality({n \in DOMAIN V : y \in V[n]}) % 2 = 1) <=> (y = x)
  <2>1. ASSUME NEW y \in Nb
        PROVE  (Cardinality({n \in DOMAIN V : y \in V[n]}) % 2 = 1) <=> (y = x)
    <3>1. CASE y = x
      BY <1>7, <3>1
    <3>2. CASE y # x
      <4>1. Cardinality({n \in DOMAIN V : y \in V[n]}) = 2
        BY <1>8, <3>2
      <4>2. QED
        BY <3>2, <4>1
    <3>3. QED
      BY <3>1, <3>2
  <2>2. QED
    BY <2>1
<1>10. XorAll(V) = {y \in Nb : Cardinality({n \in DOMAIN V : y \in V[n]}) % 2 = 1}
  BY <1>6 DEF XorAll
<1>11. XorAll(V) = {x}
  BY <1>2, <1>9, <1>10
<1>12. QED
  BY <1>11 DEF x

-----------------------------------------------------------------------------
(***************************************************************************)
(* The inductive invariant of the composition.                             *)
(***************************************************************************)

\* What the decoder has so far: the arrived shards and the outputs of the
\* operations it has run.
Have == Arrived \cup {operations[n].output : n \in 1 .. next_op - 1}

\* The decoder works on the planner's plan, from the time it is submitted.
HandOffInv ==
    /\ codec_pc \in {"idle", "start", "run", "done", "throw"}
    /\ codec_pc = "idle" => slots = <<>> /\ next_op = 1
    /\ codec_pc = "start" => next_op = 1
    /\ codec_pc # "idle" =>
         /\ planner_pc \in {"recoverable", "unrecoverable"}
         /\ decode_plan = [operations |-> operations, dependencies |-> dependencies,
                           is_recoverable |-> planner_pc = "recoverable"]
         /\ next_op \in 1 .. Len(operations) + 1
    /\ planner_pc = "unrecoverable" => codec_pc \in {"idle", "start", "throw"}
    /\ planner_pc = "recoverable" => codec_pc # "throw"
    /\ codec_pc = "done" => next_op = Len(operations) + 1

\* Every slot it has holds the payload the shard was encoded with.
SlotsInv ==
    codec_pc # "idle" =>
        slots = [s \in Shards(graph) |->
                    IF s \in Have THEN Shard(Words, Encoded(graph, s)) ELSE NoShard]

RecoveryInv == PlannerInv /\ HandOffInv /\ SlotsInv

LEMMA RecoveryInvInitially == Init => RecoveryInv
BY PlannerInvInitially DEF Init, RecoveryInv, HandOffInv, SlotsInv, PlannerInit

\* The planner is done once its plan is submitted.
LEMMA PlanKeepsInv ==
    ASSUME RecoveryInv, Plan
    PROVE  RecoveryInv'
<1>1. PlannerInv'
  BY PlannerStepKeepsInv DEF RecoveryInv, Plan
<1>2. planner_pc \in {"start", "scan"}
  BY DEF Plan, PlannerNext, StartPlanning, SkipEquation, ReleaseShard, EndPass
<1>3. codec_pc = "idle" /\ UNCHANGED <<slots, next_op, codec_pc>>
  BY <1>2 DEF RecoveryInv, HandOffInv, Plan, codecVars
<1>4. HandOffInv' /\ SlotsInv'
  BY <1>3 DEF RecoveryInv, HandOffInv, SlotsInv
<1>5. QED
  BY <1>1, <1>4 DEF RecoveryInv

LEMMA SubmitKeepsInv ==
    ASSUME RecoveryInv, Submit
    PROVE  RecoveryInv'
<1>1. /\ UNCHANGED plannerVars
      /\ next_op' = 1
      /\ codec_pc' = "start"
      /\ planner_pc \in {"recoverable", "unrecoverable"}
      /\ decode_plan' = [operations |-> operations, dependencies |-> dependencies,
                         is_recoverable |-> planner_pc = "recoverable"]
      /\ slots' = ArrivedSlots
  BY DEF Submit, RecoveryInv, HandOffInv
<1>2. PlannerInv'
  BY <1>1, PlannerInvStutters DEF RecoveryInv
<1>3. /\ operations' = operations /\ dependencies' = dependencies
      /\ planner_pc' = planner_pc /\ input' = input
      /\ graph' = graph
      /\ Arrived' = Arrived
  BY <1>1 DEF plannerVars, graph, Arrived
<1>4. Len(operations) \in Nat
  BY DEF RecoveryInv, PlannerInv, PlannerTypeOK
<1>5. HandOffInv'
  BY <1>1, <1>3, <1>4 DEF HandOffInv
<1>6. Have' = Arrived
  BY <1>1, <1>3 DEF Have
<1>7. SlotsInv'
  BY <1>1, <1>3, <1>6 DEF SlotsInv, ArrivedSlots
<1>8. QED
  BY <1>2, <1>5, <1>7 DEF RecoveryInv

(***************************************************************************)
(* The next operation of a submitted plan passes every check of the        *)
(* decoder and computes the encoded payload of its output.                 *)
(***************************************************************************)
LEMMA NextOperationDecodes ==
    ASSUME RecoveryInv, codec_pc = "run", next_op \in DOMAIN operations
    PROVE  LET op == operations[next_op]
           IN /\ CanExecute(op)
              /\ op.output \in Shards(graph)
              /\ Decoded(op) = Shard(Words, Encoded(graph, op.output))
<1> DEFINE op == operations[next_op]
<1>1. /\ input \in Inputs
      /\ ValidInput
      /\ PlanTopological
      /\ OperationInv
      /\ operations \in Seq(Operation)
  BY DEF RecoveryInv, HandOffInv, PlannerInv, PlannerTypeOK
<1>2. slots = [s \in Shards(graph) |->
                 IF s \in Have THEN Shard(Words, Encoded(graph, s)) ELSE NoShard]
  BY DEF RecoveryInv, SlotsInv
<1>a. PICK p \in input.available : \E i \in DOMAIN Equation(graph, p) :
        op = [output |-> Equation(graph, p)[i], sources |-> SourcesOf(p, i)]
  BY <1>1 DEF OperationInv
<1>3. PICK i \in DOMAIN Equation(graph, p) :
        op = [output |-> Equation(graph, p)[i], sources |-> SourcesOf(p, i)]
  BY <1>a
<1> DEFINE x == Equation(graph, p)[i]
           S == SourcesOf(p, i)
<1>4. op.output = x /\ op.sources = S
  BY <1>3
<1>5. p \in Parity(graph)
  BY <1>1 DEF ValidInput
<1>6. /\ graph.k \in Nat \ {0} /\ graph.m \in Nat \ {0}
      /\ x \in Systematic(graph)
  BY <1>1, <1>5, ValidEquationFacts
<1>7. /\ S \in Seq(Nat)
      /\ 1 \in DOMAIN S
      /\ S[1] = p
  BY <1>1, <1>5, SourcesFacts
<1>8. /\ Systematic(graph) \subseteq Shards(graph)
      /\ Parity(graph) \subseteq Shards(graph)
      /\ Systematic(graph) \cap Parity(graph) = {}
  BY <1>6 DEF Systematic, Parity, Shards
<1>9. next_op \in Nat /\ DOMAIN operations = 1 .. Len(operations)
  BY <1>1
<1>10. /\ x \in input.missing
       /\ \A j \in DOMAIN operations : operations[j].output = x => j = next_op
       /\ \A n \in DOMAIN S :
            \/ S[n] \in input.available
            \/ S[n] \in Systematic(graph) \ input.missing
            \/ \E j \in 1 .. next_op - 1 : operations[j].output = S[n]
  BY <1>1, <1>4 DEF PlanTopological
<1>11. ASSUME NEW n \in DOMAIN S
       PROVE  S[n] \in Have
  BY <1>10, <1>11 DEF Have, Arrived
<1>12. Have \subseteq Shards(graph)
  <2>1. \A j \in DOMAIN operations : operations[j].output \in input.missing
    BY <1>1 DEF PlanTopological
  <2>2. 1 .. next_op - 1 \subseteq DOMAIN operations
    BY <1>9
  <2>3. QED
    BY <1>1, <1>8, <2>1, <2>2 DEF Have, Arrived, ValidInput
<1>13. x \notin Have
  <2>1. x \notin Arrived
    BY <1>1, <1>6, <1>8, <1>10 DEF Arrived, ValidInput
  <2>2. \A j \in 1 .. next_op - 1 : operations[j].output # x
    BY <1>9, <1>10
  <2>3. QED
    BY <2>1, <2>2 DEF Have
<1> HIDE DEF op, x, S
<1>14. ASSUME NEW n \in DOMAIN S
       PROVE  /\ S[n] \in DOMAIN slots
              /\ slots[S[n]] = Shard(Words, Encoded(graph, S[n]))
  BY <1>2, <1>11, <1>12, <1>14
<1>15. slots[x] = NoShard /\ x \in DOMAIN slots /\ x \in Shards(graph)
  BY <1>2, <1>6, <1>8, <1>13
<1>16. \A n \in DOMAIN S : /\ slots[S[n]].has_value
                           /\ slots[S[n]].words = Words
                           /\ slots[S[n]].payload = Encoded(graph, S[n])
  <2>1. ASSUME NEW w, NEW v
        PROVE  /\ Shard(w, v).has_value
               /\ Shard(w, v).words = w
               /\ Shard(w, v).payload = v
    BY DEF Shard
  <2>2. QED
    BY <1>14, <2>1
<1>17. CanExecute(op)
  <2>1. S # <<>>
    BY <1>7
  <2>2. ~slots[x].has_value
    BY <1>15 DEF NoShard
  <2>3. \A n \in DOMAIN S : Present(S[n])
    BY <1>14, <1>16 DEF Present
  <2>4. slots[S[1]].words # 0
    BY <1>7, <1>16, WordsAssumption
  <2>5. \A n \in DOMAIN S : slots[S[n]].words = slots[S[1]].words
    BY <1>7, <1>16
  <2>6. QED
    BY <1>4, <1>15, <2>1, <2>2, <2>3, <2>4, <2>5 DEF CanExecute
<1>18. Decoded(op) = Shard(Words, {x})
  <2> DEFINE V == [n \in DOMAIN S |-> slots[S[n]].payload]
  <2>1. DOMAIN V = DOMAIN S /\ \A n \in DOMAIN V : V[n] = Encoded(graph, S[n])
    BY <1>16
  <2> HIDE DEF V
  <2>2. XorAll(V) = {x}
    BY <1>1, <1>5, <2>1, SolvedEquation DEF S, x
  <2>3. slots[S[1]].words = Words
    BY <1>7, <1>16
  <2>4. QED
    BY <1>4, <2>2, <2>3 DEF Decoded, V
<1>19. Encoded(graph, x) = {x}
  BY <1>6 DEF Encoded
<1>20. QED
  BY <1>4, <1>15, <1>17, <1>18, <1>19 DEF op

\* A recoverable plan passes ValidatePlanShape.
LEMMA PlanShapeValid ==
    ASSUME RecoveryInv, codec_pc # "idle", planner_pc = "recoverable"
    PROVE  ValidatePlanShape(decode_plan)
<1>1. decode_plan = [operations |-> operations, dependencies |-> dependencies,
                     is_recoverable |-> planner_pc = "recoverable"]
  BY DEF RecoveryInv, HandOffInv
<1>2. /\ decode_plan.operations = operations
      /\ decode_plan.dependencies = dependencies
      /\ decode_plan.is_recoverable
  BY <1>1
<1>3. /\ operations \in Seq(Operation)
      /\ dependencies \in Seq(SUBSET (Nat \ {0}))
      /\ PlanTopological
  BY DEF RecoveryInv, PlannerInv, PlannerTypeOK
<1>4. DOMAIN dependencies = DOMAIN operations /\ DOMAIN operations \subseteq Nat
  BY <1>3 DEF PlanTopological
<1>5. ASSUME NEW n \in DOMAIN dependencies, NEW d \in dependencies[n]
      PROVE  d < n
  <2>1. d \in 1 .. n - 1
    BY <1>3, <1>4, <1>5 DEF PlanTopological
  <2>2. QED
    BY <1>4, <2>1
<1>6. QED
  BY <1>2, <1>3, <1>5 DEF ValidatePlanShape, PlanTopological

LEMMA DecodeKeepsInv ==
    ASSUME RecoveryInv, Decode
    PROVE  RecoveryInv'
<1>1. UNCHANGED plannerVars /\ codec_pc # "idle"
  BY DEF Decode, CodecNext, StartDecode, ExecuteOperation, ReturnDecoded
<1>2. PlannerInv'
  BY <1>1, PlannerInvStutters DEF RecoveryInv
<1>3. /\ operations' = operations /\ dependencies' = dependencies
      /\ planner_pc' = planner_pc /\ input' = input
      /\ graph' = graph
      /\ Arrived' = Arrived
  BY <1>1 DEF plannerVars, graph, Arrived
<1>4. /\ planner_pc \in {"recoverable", "unrecoverable"}
      /\ decode_plan = [operations |-> operations, dependencies |-> dependencies,
                        is_recoverable |-> planner_pc = "recoverable"]
      /\ next_op \in 1 .. Len(operations) + 1
      /\ operations \in Seq(Operation)
  BY <1>1 DEF RecoveryInv, HandOffInv, PlannerInv, PlannerTypeOK
<1>5. decode_plan.operations = operations /\ Len(operations) \in Nat
  BY <1>4
<1>6. CASE StartDecode
  <2>1. /\ codec_pc = "start" /\ next_op = 1 /\ next_op' = 1
        /\ UNCHANGED <<decode_plan, slots>>
        /\ codec_pc' = IF ValidatePlanShape(decode_plan) THEN "run" ELSE "throw"
    BY <1>6 DEF StartDecode, RecoveryInv, HandOffInv
  <2>2. planner_pc = "recoverable" => codec_pc' = "run"
    BY <1>1, <2>1, PlanShapeValid
  <2>3. planner_pc = "unrecoverable" => codec_pc' = "throw"
    BY <1>4, <2>1 DEF ValidatePlanShape
  <2>4. HandOffInv'
    BY <1>3, <1>4, <2>1, <2>2, <2>3 DEF HandOffInv
  <2>5. SlotsInv'
    <3>1. Have' = Have
      BY <1>3, <2>1 DEF Have
    <3>2. QED
      BY <1>1, <1>3, <2>1, <3>1 DEF RecoveryInv, SlotsInv
  <2>6. QED
    BY <1>2, <2>4, <2>5 DEF RecoveryInv
<1>7. CASE ExecuteOperation
  <2> DEFINE op == operations[next_op]
  <2>1. /\ codec_pc = "run" /\ next_op \in DOMAIN operations
        /\ decode_plan.operations[next_op] = op
        /\ next_op \in Nat
    BY <1>4, <1>5, <1>7 DEF ExecuteOperation
  <2>2. /\ CanExecute(op)
        /\ op.output \in Shards(graph)
        /\ Decoded(op) = Shard(Words, Encoded(graph, op.output))
    BY <2>1, NextOperationDecodes
  <2>3. /\ slots' = [slots EXCEPT ![op.output] = Decoded(op)]
        /\ next_op' = next_op + 1
        /\ codec_pc' = codec_pc
        /\ decode_plan' = decode_plan
    BY <1>7, <2>1, <2>2 DEF ExecuteOperation
  <2>4. planner_pc = "recoverable"
    BY <1>4, <2>1 DEF RecoveryInv, HandOffInv
  <2>5. HandOffInv'
    <3>1. next_op + 1 \in 1 .. Len(operations) + 1
      BY <1>4, <1>5, <2>1
    <3>2. QED
      BY <1>3, <1>4, <2>1, <2>3, <2>4, <3>1 DEF HandOffInv
  <2>6. Have' = Have \cup {op.output}
    <3>1. 1 .. (next_op + 1) - 1 = (1 .. next_op - 1) \cup {next_op}
      BY <1>4, <1>5, <2>1
    <3>2. {operations[n].output : n \in 1 .. (next_op + 1) - 1}
            = {operations[n].output : n \in 1 .. next_op - 1} \cup {op.output}
      BY <3>1
    <3>3. QED
      BY <1>3, <2>3, <3>2 DEF Have
  <2>7. SlotsInv'
    <3>1. slots = [s \in Shards(graph) |->
                     IF s \in Have THEN Shard(Words, Encoded(graph, s)) ELSE NoShard]
      BY <1>1 DEF RecoveryInv, SlotsInv
    <3> HIDE DEF op
    <3>2. slots' = [s \in Shards(graph) |->
                      IF s \in Have \cup {op.output}
                        THEN Shard(Words, Encoded(graph, s)) ELSE NoShard]
      BY <2>2, <2>3, <3>1
    <3>3. QED
      BY <1>3, <2>6, <3>2 DEF SlotsInv
  <2>8. QED
    BY <1>2, <2>5, <2>7 DEF RecoveryInv
<1>8. CASE ReturnDecoded
  <2>1. /\ codec_pc = "run" /\ next_op > Len(operations) /\ codec_pc' = "done"
        /\ UNCHANGED <<decode_plan, slots, next_op>>
    BY <1>5, <1>8 DEF ReturnDecoded
  <2>2. next_op = Len(operations) + 1
    BY <1>4, <1>5, <2>1
  <2>3. planner_pc = "recoverable"
    BY <1>4, <2>1 DEF RecoveryInv, HandOffInv
  <2>4. HandOffInv'
    BY <1>3, <1>4, <2>1, <2>2, <2>3 DEF HandOffInv
  <2>5. Have' = Have
    BY <1>3, <2>1 DEF Have
  <2>6. SlotsInv'
    BY <1>1, <1>3, <2>1, <2>5 DEF RecoveryInv, SlotsInv
  <2>7. QED
    BY <1>2, <2>4, <2>6 DEF RecoveryInv
<1>9. QED
  BY <1>6, <1>7, <1>8 DEF Decode, CodecNext

LEMMA RecoveryStepKeepsInv ==
    ASSUME RecoveryInv, [Next]_vars
    PROVE  RecoveryInv'
<1>1. CASE UNCHANGED vars
  <2>1. PlannerInv'
    BY <1>1, PlannerInvStutters DEF RecoveryInv, vars
  <2>2. HandOffInv' /\ SlotsInv'
    BY <1>1 DEF RecoveryInv, vars, plannerVars, codecVars, HandOffInv, SlotsInv,
                Have, Arrived, graph
  <2>3. QED
    BY <2>1, <2>2 DEF RecoveryInv
<1>2. QED
  BY <1>1, PlanKeepsInv, SubmitKeepsInv, DecodeKeepsInv DEF Next

\* The inductive invariant of planner and decoder together.
THEOREM RecoveryInvariance == Spec => []RecoveryInv
BY RecoveryInvInitially, RecoveryStepKeepsInv, PTL DEF Spec

LEMMA RecoveryInvImpliesBitExact == RecoveryInv => BitExactRecovery
<1>1. SUFFICES ASSUME RecoveryInv, codec_pc = "done",
                      NEW s \in Systematic(graph)
               PROVE  slots[s] = Shard(Words, {s})
  BY DEF BitExactRecovery
<1>2. /\ planner_pc = "recoverable"
      /\ next_op = Len(operations) + 1
      /\ operations \in Seq(Operation)
      /\ ValidInput
      /\ input \in Inputs
  BY <1>1 DEF RecoveryInv, HandOffInv, PlannerInv, PlannerTypeOK
<1>3. Outputs = input.missing
  BY <1>1, <1>2, PlannerInvImpliesComplete DEF RecoveryInv, PeelingComplete
<1>4. {operations[n].output : n \in 1 .. next_op - 1} = Outputs
  BY <1>2 DEF Outputs
<1>5. s \in Have
  BY <1>1, <1>3, <1>4 DEF Have, Arrived
<1>6. s \in Shards(graph)
  <2>1. graph.k \in Nat /\ graph.m \in Nat
    BY <1>2, InputsAssumption DEF IsBipartiteGraph, graph
  <2>2. QED
    BY <1>1, <2>1 DEF Systematic, Shards
<1>7. slots[s] = Shard(Words, Encoded(graph, s))
  BY <1>1, <1>5, <1>6 DEF RecoveryInv, SlotsInv
<1>8. QED
  BY <1>1, <1>7 DEF Encoded

\* For every graph and every pattern of missing and arrived shards, a decode
\* that returns has rebuilt every systematic shard exactly.
THEOREM RecoveryIsBitExact == Spec => []BitExactRecovery
BY RecoveryInvariance, RecoveryInvImpliesBitExact, PTL

\* The decoder never refuses a plan the planner calls recoverable.
THEOREM RecoverablePlansAlwaysExecute == Spec => []RecoverablePlansExecute
<1>1. RecoveryInv => RecoverablePlansExecute
  BY DEF RecoveryInv, HandOffInv, RecoverablePlansExecute
<1>2. QED
  BY <1>1, RecoveryInvariance, PTL
=============================================================================

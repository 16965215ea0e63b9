------------------------------- MODULE Planner -------------------------------
(***************************************************************************)
(* DecodePlanner::CreatePlan (src/coding/planner.cpp): the multi-erasure   *)
(* peeling planner, as a state machine that visits one parity equation per *)
(* step.  `remaining', `operations', `dependencies', `producing_operation' *)
(* and `made_progress' are the function's locals; `cursor' is the position *)
(* of the inner loop in the sorted map of equations.  Operation indices    *)
(* count from 1 here and from 0 in the code.                               *)
(***************************************************************************)
EXTENDS ErasureCode

CONSTANT Inputs     \* the arguments CreatePlan may be called with

ASSUME InputsAssumption ==
    \A in \in Inputs :
        /\ in = [graph |-> in.graph, missing |-> in.missing,
                 available |-> in.available]
        /\ IsBipartiteGraph(in.graph)
        /\ in.missing \in SUBSET Nat
        /\ in.available \in SUBSET Nat

VARIABLES
    input,                  \* [graph, missing, available]
    remaining,
    operations,
    dependencies,
    producing_operation,    \* the map from a released shard to its operation
    cursor,
    made_progress,
    planner_pc

plannerVars == <<input, remaining, operations, dependencies,
                 producing_operation, cursor, made_progress, planner_pc>>

graph == input.graph

ValidInput ==
    /\ ValidateGraph(graph)
    /\ input.missing \subseteq Systematic(graph)
    /\ input.available \subseteq Parity(graph)

PlannerInit ==
    /\ input \in Inputs
    /\ remaining = {}
    /\ operations = <<>>
    /\ dependencies = <<>>
    /\ producing_operation = <<>>
    /\ cursor = 0
    /\ made_progress = FALSE
    /\ planner_pc = "start"

\* Validation, then the first test of the outer loop.
StartPlanning ==
    /\ planner_pc = "start"
    /\ IF ValidInput
         THEN /\ remaining' = input.missing
              /\ cursor' = graph.k
              /\ planner_pc' = IF input.missing = {} THEN "recoverable" ELSE "scan"
         ELSE /\ planner_pc' = "throw"
              /\ UNCHANGED <<remaining, cursor>>
    /\ UNCHANGED <<input, operations, dependencies, producing_operation,
                   made_progress>>

\* The positions of equation p whose shard is still missing.
MissingPositions(p) == {i \in DOMAIN Equation(graph, p) :
                            Equation(graph, p)[i] \in remaining}

\* The parity shard, then the neighbours other than the one at position i.
SourcesOf(p, i) ==
    [j \in DOMAIN Equation(graph, p) |->
        CASE j = 1          -> p
          [] j > 1 /\ j <= i -> Equation(graph, p)[j - 1]
          [] OTHER          -> Equation(graph, p)[j]]

\* The operations that produce a neighbour of p other than the one at i.
DependenciesOf(p, i) ==
    {producing_operation[s] :
        s \in DOMAIN producing_operation
                \cap (Neighbors(graph, p) \ {Equation(graph, p)[i]})}

Solvable(p) ==
    /\ p \in input.available
    /\ Cardinality(MissingPositions(p)) = 1

SkipEquation ==
    /\ planner_pc = "scan"
    /\ cursor \in Parity(graph)
    /\ ~Solvable(cursor)
    /\ cursor' = cursor + 1
    /\ UNCHANGED <<input, remaining, operations, dependencies,
                   producing_operation, made_progress, planner_pc>>

\* A mutant of ReleaseShard: the released shard is not recorded as produced.
ReleaseShardUnrecorded ==
    /\ planner_pc = "scan"
    /\ cursor \in Parity(graph)
    /\ Solvable(cursor)
    /\ \E i \in MissingPositions(cursor) :
         LET released == Equation(graph, cursor)[i]
         IN /\ operations' = Append(operations, [output  |-> released,
                                                 sources |-> SourcesOf(cursor, i)])
            /\ dependencies' = Append(dependencies, DependenciesOf(cursor, i))
            /\ remaining' = remaining \ {released}
    /\ made_progress' = TRUE
    /\ IF remaining' = {}
         THEN planner_pc' = "recoverable" /\ cursor' = cursor
         ELSE cursor' = cursor + 1 /\ UNCHANGED planner_pc
    /\ UNCHANGED <<input, producing_operation>>

\* The equation has exactly one missing neighbour: emit the operation.
ReleaseShard ==
    /\ planner_pc = "scan"
    /\ cursor \in Parity(graph)
    /\ Solvable(cursor)
    /\ \E i \in MissingPositions(cursor) :
         LET released == Equation(graph, cursor)[i]
         IN /\ operations' = Append(operations, [output  |-> released,
                                                 sources |-> SourcesOf(cursor, i)])
            /\ dependencies' = Append(dependencies, DependenciesOf(cursor, i))
            /\ producing_operation' =
                 [s \in DOMAIN producing_operation \cup {released} |->
                    IF s \in DOMAIN producing_operation
                      THEN producing_operation[s]
                      ELSE Len(operations) + 1]
            /\ remaining' = remaining \ {released}
    /\ made_progress' = TRUE
    /\ IF remaining' = {}
         THEN planner_pc' = "recoverable" /\ cursor' = cursor
         ELSE cursor' = cursor + 1 /\ UNCHANGED planner_pc
    /\ UNCHANGED input

\* A mutant of EndPass: a stalled pass starts another one.
EndPassForever ==
    /\ planner_pc = "scan"
    /\ cursor = graph.k + graph.m
    /\ cursor' = graph.k
    /\ made_progress' = FALSE
    /\ UNCHANGED <<input, remaining, operations, dependencies,
                   producing_operation, planner_pc>>

\* The end of a pass over the equations: another pass, or give up.
EndPass ==
    /\ planner_pc = "scan"
    /\ cursor = graph.k + graph.m
    /\ \/ /\ made_progress
          /\ cursor' = graph.k
          /\ made_progress' = FALSE
          /\ UNCHANGED <<operations, dependencies, planner_pc>>
       \/ /\ ~made_progress
          /\ planner_pc' = "unrecoverable"
          /\ operations' = <<>>
          /\ dependencies' = <<>>
          /\ UNCHANGED <<cursor, made_progress>>
    /\ UNCHANGED <<input, remaining, producing_operation>>

PlannerNext == StartPlanning \/ SkipEquation \/ ReleaseShard \/ EndPass

PlannerSpec == PlannerInit /\ [][PlannerNext]_plannerVars

-----------------------------------------------------------------------------
Operation == [output : Nat, sources : Seq(Nat)]

\* The locals of CreatePlan have their types and the cursor stays within the
\* map of parity equations.
PlannerTypeOK ==
    /\ input \in Inputs
    /\ remaining \in SUBSET input.missing
    /\ operations \in Seq(Operation)
    /\ dependencies \in Seq(SUBSET (Nat \ {0}))
    /\ producing_operation \in [DOMAIN producing_operation -> Nat \ {0}]
    /\ cursor \in Nat
    /\ made_progress \in BOOLEAN
    /\ planner_pc \in {"start", "scan", "recoverable", "unrecoverable", "throw"}
    /\ planner_pc \in {"scan", "recoverable", "unrecoverable"} => ValidInput
    /\ planner_pc = "scan" => cursor \in graph.k .. graph.k + graph.m

Outputs == {operations[i].output : i \in DOMAIN operations}

(***************************************************************************)
(* Every plan that CreatePlan builds can be executed in order: operation i *)
(* reads only arrived parity shards, arrived systematic shards and outputs *)
(* of earlier operations, writes a missing shard nobody wrote before, and  *)
(* its dependency list names exactly the earlier operations it reads from  *)
(* (planner.cpp:108-132).                                                  *)
(***************************************************************************)
PlanTopological ==
    /\ Len(dependencies) = Len(operations)
    /\ \A i \in DOMAIN operations :
         LET op == operations[i]
         IN /\ op.output \in input.missing
            /\ \A j \in DOMAIN operations :
                 operations[j].output = op.output => j = i
            /\ \A n \in DOMAIN op.sources :
                 \/ op.sources[n] \in input.available
                 \/ op.sources[n] \in Systematic(graph) \ input.missing
                 \/ \E j \in 1 .. i - 1 : operations[j].output = op.sources[n]
            /\ dependencies[i] =
                 {j \in 1 .. i - 1 :
                    \E n \in DOMAIN op.sources : op.sources[n] = operations[j].output}

(***************************************************************************)
(* The greedy pass order loses nothing: CreatePlan returns a plan exactly  *)
(* when no nonempty set of missing shards stalls every arrived parity      *)
(* equation, and that plan rebuilds every missing shard; otherwise the     *)
(* returned plan is empty and unrecoverable (planner.cpp:90-144).          *)
(***************************************************************************)
PeelingComplete ==
    /\ planner_pc = "recoverable" =>
         /\ Peelable(graph, input.missing, input.available)
         /\ Outputs = input.missing
    /\ planner_pc = "unrecoverable" =>
         /\ ~Peelable(graph, input.missing, input.available)
         /\ operations = <<>>

(***************************************************************************)
(* Whatever the generator draws can be used: the planner takes it with     *)
(* every pattern of missing and arrived shards, the encoder's graph type   *)
(* takes it too, except that it allows one shard less in total, and every  *)
(* operation of a plan reads exactly `degree' shards, which is why the     *)
(* parameter sweep may look up one decode cost per degree before it runs   *)
(* (graph_generator.cpp:31-37, graph.cpp:23-26,                            *)
(* phase7_parameter_sweep.cpp:349-351, 476).                               *)
(***************************************************************************)
RegularGraphsServe ==
    \A degree \in {Len(graph.eq[p]) : p \in DOMAIN graph.eq} :
        graph \in GenerateRegularGraph(graph.k, graph.m, degree) =>
            /\ planner_pc = "throw" =>
                 \/ ~(input.missing \subseteq Systematic(graph))
                 \/ ~(input.available \subseteq Parity(graph))
            /\ LET c == ToCodeGraph(graph)
               IN ValidateCodeGraph(c) /\ EncoderAccepts(c) <=> graph.k + graph.m <= MaxShardId
            /\ \A i \in DOMAIN operations : Len(operations[i].sources) = degree
=============================================================================

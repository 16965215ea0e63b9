---------------------------- MODULE MCDeviceDecode ---------------------------
(***************************************************************************)
(* Four slots that hold shards of one or two words, an empty one or none,  *)
(* and plans of up to two operations, valid and malformed.                 *)
(***************************************************************************)
EXTENDS DeviceDecode, TLC

\* Sources that are missing, empty, repeated or out of range, and outputs that are
\* present, out of range or written twice, among the valid ones.
FirstOps == [output : {0, 1, 4},
             sources : {<<>>, <<1>>, <<1, 2>>, <<2, 1, 1>>, <<1, 4>>, <<3, 2>>}]
SecondOps == [output : {0, 1, 3}, sources : {<<>>, <<0>>, <<0, 2>>, <<1>>}]

OperationLists ==
    {<<>>} \cup {<<a>> : a \in FirstOps}
        \cup {<<a, b>> : a \in {op \in FirstOps : op.output = 0}, b \in SecondOps}

DependencyLists(n) ==
    CASE n = 0 -> {<<>>, <<{}>>}
      [] n = 1 -> {<<{}>>, <<{1}>>}
      [] n = 2 -> {<<{}, {1}>>, <<{}, {2}>>}

Plans ==
    UNION {{[operations |-> ops, dependencies |-> deps, is_recoverable |-> TRUE] :
            deps \in DependencyLists(Len(ops))} : ops \in OperationLists}
        \cup {[operations |-> <<>>, dependencies |-> <<>>, is_recoverable |-> FALSE]}

InitialSlots ==
    {(0 :> a) @@ (1 :> b) @@ (2 :> c) @@ (3 :> d) :
        a \in {NoShard},
        b \in {Shard(1, {1}), Shard(2, {1}), NoShard},
        c \in {Shard(1, {2}), Shard(0, {})},
        d \in {NoShard, Shard(1, {3})}}

MCCalls == [plan : Plans, shards : InitialSlots]
=============================================================================

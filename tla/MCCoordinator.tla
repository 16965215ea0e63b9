---------------------------- MODULE MCCoordinator ----------------------------
(***************************************************************************)
(* Small instances of the coordinator with its executor.                   *)
(***************************************************************************)
EXTENDS Coordinator, TLC

\* Two systematic shards and one parity shard that covers both.
OneParity == [k |-> 2, m |-> 1, eq |-> (2 :> <<0, 1>>)]
ThreeShards == 0 .. 2

\* A second, redundant parity shard: a recovery can start while two more
\* shards are still under way.
TwoParity == [k |-> 2, m |-> 2, eq |-> (2 :> <<0, 1>>) @@ (3 :> <<1, 0>>)]
FourShards == 0 .. 3
=============================================================================

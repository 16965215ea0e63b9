-------------------------- MODULE MCParameterSweep ---------------------------
(***************************************************************************)
(* Two requests with two systematic shards and one parity shard of degree  *)
(* two, one recovery slot and a queue for both, so that recoveries win at  *)
(* once or behind another one, or are not worth it.  One of the lists of   *)
(* shard sizes has a size without a measured cost, one has a repetition.   *)
(***************************************************************************)
EXTENDS ParameterSweep, TLC

MCGraph == [k |-> 2, m |-> 1, eq |-> (2 :> <<1, 0>>)]
MCShardSizeLists == {<<16, 64>>, <<64, 256>>, <<16, 16>>}
MCDecodeCosts == (<<2, 16>> :> 1) @@ (<<2, 64>> :> 3)
MCDraws == {-1, 1, 3}
MCReplicaDraws == {-1, 4}
=============================================================================

------------------------------ MODULE MCExecutor -----------------------------
(***************************************************************************)
(* The executor with two workers and three requests, so that it fills up.  *)
(* There are no queue slots beyond the two workers, CUDA calls may fail,   *)
(* and a caller may stage a shard whose ID is out of range.                *)
(***************************************************************************)
EXTENDS ExecutorClients, TLC

MCShardIds == {0, 1}
MCSubmissions == {[outputs |-> {}, shards |-> {0}]}
=============================================================================

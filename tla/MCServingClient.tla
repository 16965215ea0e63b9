--------------------------- MODULE MCServingClient ---------------------------
(***************************************************************************)
(* Small instances of the serving client: a transport that delivers on one *)
(* thread, and one worker.                                                 *)
(***************************************************************************)
EXTENDS ServingClient, TLC

OneParity == [k |-> 2, m |-> 1, eq |-> (2 :> <<0, 1>>)]
ThreeShards == 0 .. 2
=============================================================================

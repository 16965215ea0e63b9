-------------------------- MODULE MCTransportSmoke ---------------------------
(***************************************************************************)
(* Two requests: six producers whose connections come in any order, with   *)
(* rebuilt, natural and repeated handoffs mixed in both queues.            *)
(***************************************************************************)
EXTENDS TransportSmoke
=============================================================================

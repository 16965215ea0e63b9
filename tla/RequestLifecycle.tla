-------------------------- MODULE RequestLifecycle ---------------------------
(***************************************************************************)
(* What RecoveryCoordinator promises about a request, whatever threads,    *)
(* queues and callbacks do behind it: it is started once, it collects      *)
(* shards while it is pending, and it ends exactly once: naturally at the  *)
(* very arrival that completes its systematic shards, or by a recovery for *)
(* which the shards it had collected were sufficient.                      *)
(***************************************************************************)
EXTENDS ErasureCode

CONSTANTS Requests, Graph

VARIABLES
    outcome,    \* "none", "Pending", or how the request ended
    received    \* the shards the request collected while it was pending

Sufficient(r) ==
    Peelable(Graph, Systematic(Graph) \ received[r], received[r] \cap Parity(Graph))

Init ==
    /\ outcome = [r \in Requests |-> "none"]
    /\ received = [r \in Requests |-> {}]

Start(r) ==
    /\ outcome[r] = "none"
    /\ outcome' = [outcome EXCEPT ![r] = "Pending"]
    /\ UNCHANGED received

Receive(r) ==
    /\ outcome[r] = "Pending"
    /\ \E s \in Shards(Graph) \ received[r] :
         received' = [received EXCEPT ![r] = @ \cup {s}]
    /\ outcome' = [outcome EXCEPT ![r] =
                     IF Systematic(Graph) \subseteq received'[r]
                       THEN "NaturalComplete" ELSE "Pending"]

\* A recovery is only ever started on sufficient shards, and then succeeds or fails.
EndRecovery(r) ==
    /\ outcome[r] = "Pending"
    /\ Sufficient(r)
    /\ \E end \in {"Recovered", "Failed"} : outcome' = [outcome EXCEPT ![r] = end]
    /\ UNCHANGED received

Next == \E r \in Requests : Start(r) \/ Receive(r) \/ EndRecovery(r)

Spec == Init /\ [][Next]_<<outcome, received>>
=============================================================================

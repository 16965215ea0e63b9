------------------------- MODULE MCClusterSimulator --------------------------
(***************************************************************************)
(* Two requests with two systematic shards (0, 1) and one parity shard (2) *)
(* that covers both.  A profile is how a request's shards arrive, relative *)
(* to its start.  The later traces let a second Run meet the jobs that a   *)
(* first one has left in the queue.                                        *)
(***************************************************************************)
EXTENDS ClusterSimulator, TLC

MCGraph == [k |-> 2, m |-> 1, eq |-> (2 :> <<0, 1>>)]
MCServiceTimes == {0, 1, 3}
MCWaitCosts == {-1, 2, 5}

Profiles == {
    {<<0, 0>>, <<0, 2>>, <<3, 1>>},             \* a straggler, recoverable at once
    {<<0, 1>>, <<1, 2>>, <<2, 0>>},             \* recoverable at the second instant
    {<<1, 0>>, <<1, 1>>, <<1, 2>>, <<2, 0>>},   \* complete at once, then a duplicate
    {<<0, 0>>, <<1, 1>>, <<1, 2>>},             \* parity together with the last shard
    {<<0, 2>>, <<1, 0>>, <<1, 1>>},             \* parity first, then all at one instant
    {<<0, 2>>, <<1, 0>>, <<2, 0>>, <<3, 1>>} }  \* parity first, a duplicate in between

Events(r, start, profile) ==
    {[time |-> start + a[1], request |-> r, shard |-> a[2], start |-> start] : a \in profile}

\* Traces Run refuses: a shard missing, an unknown shard, a negative time, two
\* starts of one request, an arrival before the start.
Refused == {
    Events(1, 0, {<<0, 0>>, <<0, 2>>}),
    Events(1, 0, {<<0, 0>>, <<1, 7>>}),
    Events(1, -1, {<<0, 0>>, <<1, 1>>}),
    Events(1, 0, {<<0, 0>>}) \cup Events(1, 1, {<<1, 1>>}),
    Events(1, 1, {<<-1, 0>>, <<0, 1>>}) }

MCWorkloads ==
    {Events(1, base, p) \cup Events(2, base + gap, q) :
        p, q \in Profiles, base \in {0, 3}, gap \in 0 .. 1}
        \cup Refused
=============================================================================

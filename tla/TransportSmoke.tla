--------------------------- MODULE TransportSmoke ----------------------------
(***************************************************************************)
(* scripts/transport_smoke.py: producers send shards over TCP to a         *)
(* coordinator thread, which rebuilds a missing shard from the parity      *)
(* shard and hands both systematic shards of a request on, over TCP, to a  *)
(* consumer thread; main waits for the consumer to have everything,        *)
(* compares, and shuts both servers down.                                  *)
(*                                                                         *)
(* A server's listener is the queue of the connections it has not          *)
(* accepted: connecting succeeds before the server accepts, a connection   *)
(* carries one frame, and the servers take one at a time.  Payloads are    *)
(* sets of the original shards that are XORed together.  The delays before *)
(* the sends can come out in any order.                                    *)
(***************************************************************************)
EXTENDS Integers, Sequences, FiniteSets

CONSTANTS
    Requests

ASSUME SmokeAssumption == IsFiniteSet(Requests) /\ Requests # {}

VARIABLES
    unsent,             \* the shards whose producers have not sent
    coordinator_queue,  \* connections waiting for the coordinator
    consumer_queue,     \* connections waiting for the consumer
    listening,          \* the servers whose listener is open
    coordinator_pc,     \* "accept", "forward" or "ended"
    forwarding,         \* the shards the coordinator still has to hand on
    slots,              \* Coordinator.shards: by request and shard
    consumer_pc,        \* "accept" or "ended"
    payloads,           \* Consumer.payloads
    main_pc,            \* "send", "poll", "close", "join", "close_consumer",
                        \* "join_consumer" or "ended"
    failed,             \* main raised RuntimeError
    deadline_passed,    \* the five seconds are over
    join_timed_out      \* a server thread took longer than two seconds

coordinatorVars == <<coordinator_pc, forwarding, slots>>
consumerVars == <<consumer_pc, payloads>>
mainVars == <<main_pc, failed, deadline_passed, join_timed_out>>
smokeVars == <<unsent, coordinator_queue, consumer_queue, listening, coordinatorVars,
               consumerVars, mainVars>>

Key == Requests \X {0, 1}
Xor(a, b) == (a \ b) \cup (b \ a)

\* What the producers send: shard 2 is the parity of the other two.
Payload(r, s) ==
    IF s = 2 THEN Xor({<<r, 0>>}, {<<r, 1>>}) ELSE {<<r, s>>}

expected == [key \in Key |-> Payload(key[1], key[2])]

Frame(r, s, payload) == [request |-> r, shard |-> s, close |-> FALSE, payload |-> payload]
CloseFrame == [close |-> TRUE]

SmokeInit ==
    /\ unsent = Requests \X {0, 1, 2}
    /\ coordinator_queue = <<>>
    /\ consumer_queue = <<>>
    /\ listening = {"coordinator", "consumer"}
    /\ coordinator_pc = "accept"
    /\ forwarding = <<>>
    /\ slots = <<>>
    /\ consumer_pc = "accept"
    /\ payloads = <<>>
    /\ main_pc = "send"
    /\ failed = FALSE
    /\ deadline_passed = FALSE
    /\ join_timed_out = FALSE

-----------------------------------------------------------------------------
SendShard(r, s) ==
    /\ <<r, s>> \in unsent
    /\ unsent' = unsent \ {<<r, s>>}
    /\ coordinator_queue' = Append(coordinator_queue, Frame(r, s, Payload(r, s)))
    /\ UNCHANGED <<consumer_queue, listening, coordinatorVars, consumerVars, mainVars>>

-----------------------------------------------------------------------------
\* Python's dict.setdefault.
SetDefault(map, key, value) ==
    [x \in DOMAIN map \cup {key} |-> IF x \in DOMAIN map THEN map[x] ELSE value]

\* _accept: keep the first copy, rebuild shard 1 if 0 and the parity are there.
Accepted(r, s, payload) ==
    LET stored == SetDefault(slots, <<r, s>>, payload)
    IN IF <<r, 0>> \in DOMAIN stored /\ <<r, 2>> \in DOMAIN stored
         THEN SetDefault(stored, <<r, 1>>, Xor(stored[<<r, 0>>], stored[<<r, 2>>]))
         ELSE stored

\* Every arrival after which a request is complete hands it on, again if need be.
CoordinatorAccept ==
    /\ coordinator_pc = "accept"
    /\ "coordinator" \in listening
    /\ coordinator_queue # <<>>
    /\ coordinator_queue' = Tail(coordinator_queue)
    /\ LET frame == Head(coordinator_queue)
       IN IF frame.close
            THEN coordinator_pc' = "ended" /\ UNCHANGED <<forwarding, slots>>
            ELSE /\ slots' = Accepted(frame.request, frame.shard, frame.payload)
                 /\ IF {frame.request} \X {0, 1} \subseteq DOMAIN slots'
                      THEN /\ coordinator_pc' = "forward"
                           /\ forwarding' = <<<<frame.request, 0>>, <<frame.request, 1>>>>
                      ELSE UNCHANGED <<coordinator_pc, forwarding>>
    /\ UNCHANGED <<unsent, consumer_queue, listening, consumerVars, mainVars>>

\* Connect to the consumer and send one shard; a refused connection ends the thread.
CoordinatorForward ==
    /\ coordinator_pc = "forward"
    /\ IF "consumer" \in listening
         THEN LET key == Head(forwarding)
              IN /\ consumer_queue' =
                      Append(consumer_queue, Frame(key[1], key[2], slots[key]))
                 /\ forwarding' = Tail(forwarding)
                 /\ coordinator_pc' = IF Len(forwarding) = 1 THEN "accept" ELSE "forward"
         ELSE coordinator_pc' = "ended" /\ UNCHANGED <<consumer_queue, forwarding>>
    /\ UNCHANGED <<unsent, coordinator_queue, listening, slots, consumerVars, mainVars>>

ConsumerAccept ==
    /\ consumer_pc = "accept"
    /\ "consumer" \in listening
    /\ consumer_queue # <<>>
    /\ consumer_queue' = Tail(consumer_queue)
    /\ LET frame == Head(consumer_queue)
       IN IF frame.close
            THEN consumer_pc' = "ended" /\ UNCHANGED payloads
            ELSE /\ payloads' = [key \in DOMAIN payloads \cup {<<frame.request, frame.shard>>} |->
                                   IF key = <<frame.request, frame.shard>>
                                     THEN frame.payload ELSE payloads[key]]
                 /\ UNCHANGED consumer_pc
    /\ UNCHANGED <<unsent, coordinator_queue, listening, coordinatorVars, mainVars>>

\* A server whose listener was closed under it accepts nothing any more.
ListenerGone ==
    \/ /\ coordinator_pc = "accept" /\ "coordinator" \notin listening
       /\ coordinator_pc' = "ended"
       /\ UNCHANGED <<unsent, coordinator_queue, consumer_queue, listening, forwarding, slots,
                      consumerVars, mainVars>>
    \/ /\ consumer_pc = "accept" /\ "consumer" \notin listening
       /\ consumer_pc' = "ended"
       /\ UNCHANGED <<unsent, coordinator_queue, consumer_queue, listening, coordinatorVars,
                      payloads, mainVars>>

-----------------------------------------------------------------------------
(***************************************************************************)
(* main.  All producers have finished when the thread pool's block ends.   *)
(***************************************************************************)
ProducersDone ==
    /\ main_pc = "send"
    /\ unsent = {}
    /\ main_pc' = "poll"
    /\ UNCHANGED <<unsent, coordinator_queue, consumer_queue, listening, coordinatorVars,
                   consumerVars, failed, deadline_passed, join_timed_out>>

\* The polling loop is over, and the payloads are compared.
Compare ==
    /\ main_pc = "poll"
    /\ failed' = (payloads # expected)
    /\ main_pc' = "close"
    /\ UNCHANGED <<unsent, coordinator_queue, consumer_queue, listening, coordinatorVars,
                   consumerVars, join_timed_out>>

AllReceived ==
    /\ Cardinality(DOMAIN payloads) >= Cardinality(Key)
    /\ Compare
    /\ UNCHANGED deadline_passed

DeadlinePasses ==
    /\ Compare
    /\ deadline_passed' = TRUE

CloseCoordinator ==
    /\ main_pc = "close"
    /\ coordinator_queue' = Append(coordinator_queue, CloseFrame)
    /\ main_pc' = "join"
    /\ UNCHANGED <<unsent, consumer_queue, listening, coordinatorVars, consumerVars,
                   failed, deadline_passed, join_timed_out>>

\* join has returned: close the listener.
CloseListener(server, next_pc) ==
    /\ listening' = listening \ {server}
    /\ main_pc' = next_pc
    /\ UNCHANGED <<unsent, coordinator_queue, consumer_queue, coordinatorVars, consumerVars,
                   failed, deadline_passed>>

\* A mutant of JoinCoordinator: the thread is not waited for.
JoinCoordinatorAtOnce ==
    /\ main_pc = "join"
    /\ CloseListener("coordinator", "close_consumer")
    /\ UNCHANGED join_timed_out

JoinCoordinator ==
    /\ main_pc = "join"
    /\ coordinator_pc = "ended"
    /\ CloseListener("coordinator", "close_consumer")
    /\ UNCHANGED join_timed_out

\* A mutant of CloseConsumer: the consumer is not told to end.
CloseConsumerSilently ==
    /\ main_pc = "close_consumer"
    /\ main_pc' = "join_consumer"
    /\ UNCHANGED <<unsent, coordinator_queue, consumer_queue, listening, coordinatorVars,
                   consumerVars, failed, deadline_passed, join_timed_out>>

CloseConsumer ==
    /\ main_pc = "close_consumer"
    /\ consumer_queue' = Append(consumer_queue, CloseFrame)
    /\ main_pc' = "join_consumer"
    /\ UNCHANGED <<unsent, coordinator_queue, listening, coordinatorVars, consumerVars,
                   failed, deadline_passed, join_timed_out>>

JoinConsumer ==
    /\ main_pc = "join_consumer"
    /\ consumer_pc = "ended"
    /\ CloseListener("consumer", "ended")
    /\ UNCHANGED join_timed_out

JoinTimesOut ==
    /\ \/ /\ main_pc = "join" /\ coordinator_pc # "ended"
          /\ CloseListener("coordinator", "close_consumer")
       \/ /\ main_pc = "join_consumer" /\ consumer_pc # "ended"
          /\ CloseListener("consumer", "ended")
    /\ join_timed_out' = TRUE

Main ==
    ProducersDone \/ AllReceived \/ CloseCoordinator \/ JoinCoordinator
        \/ CloseConsumer \/ JoinConsumer

Producers == \E r \in Requests, s \in {0, 1, 2} : SendShard(r, s)

SmokeNext ==
    \/ Producers \/ CoordinatorAccept \/ CoordinatorForward \/ ConsumerAccept
    \/ ListenerGone \/ Main \/ DeadlinePasses \/ JoinTimesOut

\* Threads are scheduled; nobody counts on a timeout.
SmokeSpec ==
    /\ SmokeInit /\ [][SmokeNext]_smokeVars
    /\ WF_smokeVars(Producers)
    /\ WF_smokeVars(CoordinatorAccept \/ CoordinatorForward)
    /\ WF_smokeVars(ConsumerAccept)
    /\ WF_smokeVars(ListenerGone)
    /\ WF_smokeVars(Main)

-----------------------------------------------------------------------------
(***************************************************************************)
(* The smoke test's verdict is about the transport and not about its own   *)
(* shutdown: whatever the consumer has is the original bytes, rebuilt or   *)
(* not and however often handed on; main only fails after its deadline;    *)
(* and unless a join timed out, the servers have, when main ends, handed   *)
(* on and received everything, because the coordinator has drained its     *)
(* queue before the consumer is told to end                                *)
(* (transport_smoke.py:94-119, 175-182).                                   *)
(***************************************************************************)
HandoffComplete ==
    /\ \A key \in DOMAIN payloads : payloads[key] = expected[key]
    /\ failed => deadline_passed
    /\ main_pc = "ended" /\ ~join_timed_out =>
         payloads = expected /\ coordinator_queue = <<>> /\ consumer_queue = <<>>

(***************************************************************************)
(* The run ends, and so do both server threads, without the help of the    *)
(* timeouts: nobody waits for a frame that does not come, although the     *)
(* coordinator connects to the consumer while it holds its lock            *)
(* (transport_smoke.py:62-76, 94-126, 172-182).                            *)
(***************************************************************************)
SmokeEnds ==
    <>(main_pc = "ended" /\ coordinator_pc = "ended" /\ consumer_pc = "ended")
=============================================================================

----------------------------- MODULE SmokeProofs -----------------------------
(***************************************************************************)
(* The smoke test of module TransportSmoke, for every set of requests: its *)
(* verdict is about the transport (HandoffComplete).                       *)
(*                                                                         *)
(* The inductive invariant follows every shard on its way: unsent, waiting *)
(* for the coordinator, in its slots; and every systematic shard of a      *)
(* complete request further on: being handed on, waiting for the consumer, *)
(* received.  The close frames come last in their queues, the consumer's   *)
(* as long as no join has timed out.                                       *)
(***************************************************************************)
EXTENDS TransportSmoke, TLAPS, FiniteSetTheorems

Shard == Requests \X {0, 1, 2}
ShardFrame(x) == Frame(x[1], x[2], Payload(x[1], x[2]))
ShardFrames == {ShardFrame(x) : x \in Shard}
KeyFrames == {ShardFrame(x) : x \in Key}

AfterClose == {"join", "close_consumer", "join_consumer", "ended"}
AfterJoin == {"close_consumer", "join_consumer", "ended"}
MainPcs == {"send", "poll", "close"} \cup AfterClose

SmokeTypeInv ==
    /\ unsent \subseteq Shard
    /\ coordinator_queue \in Seq(ShardFrames \cup {CloseFrame})
    /\ consumer_queue \in Seq(KeyFrames \cup {CloseFrame})
    /\ listening \subseteq {"coordinator", "consumer"}
    /\ coordinator_pc \in {"accept", "forward", "ended"}
    /\ forwarding \in Seq(Key)
    /\ slots = [x \in DOMAIN slots |-> Payload(x[1], x[2])] /\ DOMAIN slots \subseteq Shard
    /\ consumer_pc \in {"accept", "ended"}
    /\ payloads = [key \in DOMAIN payloads |-> expected[key]] /\ DOMAIN payloads \subseteq Key
    /\ main_pc \in MainPcs
    /\ failed \in BOOLEAN /\ deadline_passed \in BOOLEAN /\ join_timed_out \in BOOLEAN

Holds(q, f) == \E i \in 1 .. Len(q) : q[i] = f

\* No shard is lost on its way to the coordinator,
ShardInv ==
    \A x \in Shard :
        x \in unsent \/ Holds(coordinator_queue, ShardFrame(x)) \/ x \in DOMAIN slots

CompleteRequest(r) == <<r, 0>> \in DOMAIN slots /\ <<r, 1>> \in DOMAIN slots

\* nor one of a complete request on its way to the consumer.
HandoffInv ==
    \A key \in Key :
        CompleteRequest(key[1]) =>
            \/ Holds(forwarding, key)
            \/ Holds(consumer_queue, ShardFrame(key))
            \/ key \in DOMAIN payloads

ForwardInv ==
    /\ coordinator_pc = "forward" => forwarding # <<>>
    /\ coordinator_pc = "accept" => forwarding = <<>>
    /\ \A i \in 1 .. Len(forwarding) : forwarding[i] \in DOMAIN slots

CloseInv ==
    /\ main_pc # "send" => unsent = {}
    /\ \A i \in 1 .. Len(coordinator_queue) :
         coordinator_queue[i] = CloseFrame =>
             main_pc \in AfterClose /\ i = Len(coordinator_queue)
    /\ ~join_timed_out =>
         \A i \in 1 .. Len(consumer_queue) :
             consumer_queue[i] = CloseFrame =>
                 main_pc \in {"join_consumer", "ended"} /\ i = Len(consumer_queue)

EndInv ==
    /\ "coordinator" \notin listening => main_pc \in AfterJoin
    /\ "consumer" \notin listening => main_pc = "ended"
    /\ ~join_timed_out =>
         /\ main_pc \in AfterJoin => coordinator_pc = "ended"
         /\ main_pc = "ended" => consumer_pc = "ended"
         /\ coordinator_pc = "ended" =>
              main_pc \in AfterClose /\ coordinator_queue = <<>> /\ forwarding = <<>>
         /\ consumer_pc = "ended" =>
              main_pc \in {"join_consumer", "ended"} /\ consumer_queue = <<>>

SmokeInv ==
    /\ SmokeTypeInv /\ ShardInv /\ HandoffInv /\ ForwardInv /\ CloseInv /\ EndInv
    /\ failed => deadline_passed

-----------------------------------------------------------------------------
(***************************************************************************)
(* Appending to a queue keeps what it holds, in place.                     *)
(***************************************************************************)
LEMMA AppendFacts ==
    ASSUME NEW T, NEW q \in Seq(T), NEW f \in T
    PROVE  /\ Append(q, f) \in Seq(T)
           /\ Len(Append(q, f)) = Len(q) + 1 /\ Len(q) \in Nat
           /\ \A i \in 1 .. Len(q) : Append(q, f)[i] = q[i]
           /\ Append(q, f)[Len(q) + 1] = f
           /\ Holds(Append(q, f), f)
           /\ \A g : Holds(q, g) => Holds(Append(q, f), g)
<1>1. /\ Append(q, f) \in Seq(T)
      /\ Len(Append(q, f)) = Len(q) + 1 /\ Len(q) \in Nat
      /\ \A i \in 1 .. Len(q) : Append(q, f)[i] = q[i]
      /\ Append(q, f)[Len(q) + 1] = f
  OBVIOUS
<1>2. QED  BY <1>1 DEF Holds

(***************************************************************************)
(* Taking the first frame of a queue keeps the others, one place further   *)
(* to the front.                                                           *)
(***************************************************************************)
LEMMA TailFacts ==
    ASSUME NEW T, NEW q \in Seq(T), q # <<>>
    PROVE  /\ Tail(q) \in Seq(T) /\ Head(q) \in T /\ Head(q) = q[1]
           /\ Len(q) \in Nat /\ Len(q) > 0 /\ Len(Tail(q)) = Len(q) - 1
           /\ \A i \in 1 .. Len(q) - 1 : Tail(q)[i] = q[i + 1]
           /\ \A g : Holds(q, g) /\ g # Head(q) => Holds(Tail(q), g)
<1>1. /\ Tail(q) \in Seq(T) /\ Head(q) \in T /\ Head(q) = q[1]
      /\ Len(q) \in Nat /\ Len(q) > 0 /\ Len(Tail(q)) = Len(q) - 1
      /\ \A i \in 1 .. Len(q) - 1 : Tail(q)[i] = q[i + 1]
  OBVIOUS
<1>2. ASSUME NEW g, Holds(q, g), g # Head(q)
      PROVE  Holds(Tail(q), g)
  <2>1. PICK i \in 1 .. Len(q) : q[i] = g
    BY <1>2 DEF Holds
  <2>2. i - 1 \in 1 .. Len(q) - 1
    BY <2>1, <1>1, <1>2
  <2>3. Tail(q)[i - 1] = g
    BY <2>1, <2>2, <1>1
  <2>4. QED  BY <2>2, <2>3, <1>1 DEF Holds
<1>3. QED  BY <1>1, <1>2

(***************************************************************************)
(* What a shard's frame is, and that it is not a close frame.              *)
(***************************************************************************)
LEMMA FrameShape ==
    /\ CloseFrame.close = TRUE
    /\ \A x \in Shard :
         /\ x = <<x[1], x[2]>> /\ x[1] \in Requests /\ x[2] \in {0, 1, 2}
         /\ ShardFrame(x).close = FALSE
         /\ ShardFrame(x).request = x[1]
         /\ ShardFrame(x).shard = x[2]
         /\ ShardFrame(x).payload = Payload(x[1], x[2])
         /\ ShardFrame(x) # CloseFrame
<1>1. CloseFrame.close = TRUE
  BY DEF CloseFrame
<1>2. ASSUME NEW x \in Shard
      PROVE  /\ x = <<x[1], x[2]>> /\ x[1] \in Requests /\ x[2] \in {0, 1, 2}
             /\ ShardFrame(x).close = FALSE
             /\ ShardFrame(x).request = x[1]
             /\ ShardFrame(x).shard = x[2]
             /\ ShardFrame(x).payload = Payload(x[1], x[2])
  BY DEF Shard, ShardFrame, Frame
<1>3. \A x \in Shard : ShardFrame(x) # CloseFrame
  BY <1>1, <1>2
<1>4. QED  BY <1>1, <1>2, <1>3

LEMMA FrameKinds ==
    /\ Key \subseteq Shard
    /\ KeyFrames \subseteq ShardFrames
    /\ \A f \in ShardFrames :
         /\ f.close = FALSE /\ f # CloseFrame
         /\ <<f.request, f.shard>> \in Shard
         /\ f = ShardFrame(<<f.request, f.shard>>)
         /\ f.payload = Payload(f.request, f.shard)
    /\ \A f \in KeyFrames : <<f.request, f.shard>> \in Key
    /\ \A x, y \in Shard : ShardFrame(x) = ShardFrame(y) => x = y
<1>1. Key \subseteq Shard
  BY DEF Key, Shard
<1>2. KeyFrames \subseteq ShardFrames
  BY <1>1 DEF KeyFrames, ShardFrames
<1>3. ASSUME NEW f \in ShardFrames
      PROVE  /\ f.close = FALSE /\ f # CloseFrame
             /\ <<f.request, f.shard>> \in Shard
             /\ f = ShardFrame(<<f.request, f.shard>>)
             /\ f.payload = Payload(f.request, f.shard)
  <2>1. PICK x \in Shard : f = ShardFrame(x)
    BY DEF ShardFrames
  <2>2. x = <<f.request, f.shard>>
    BY <2>1, FrameShape
  <2>3. QED  BY <2>1, <2>2, FrameShape
<1>4. ASSUME NEW f \in KeyFrames
      PROVE  <<f.request, f.shard>> \in Key
  <2>1. PICK x \in Key : f = ShardFrame(x)
    BY DEF KeyFrames
  <2>2. x = <<f.request, f.shard>>
    BY <2>1, <1>1, FrameShape
  <2>3. QED  BY <2>1, <2>2
<1>5. \A x, y \in Shard : ShardFrame(x) = ShardFrame(y) => x = y
  BY FrameShape
<1>6. QED  BY <1>1, <1>2, <1>3, <1>4, <1>5

(***************************************************************************)
(* The XOR of shard 0 and the parity shard is shard 1.                     *)
(***************************************************************************)
LEMMA RebuiltShard ==
    ASSUME NEW r
    PROVE  Xor(Payload(r, 0), Payload(r, 2)) = Payload(r, 1)
<1>1. \A a, b : a # b => Xor({a}, Xor({a}, {b})) = {b}
  BY DEF Xor
<1>2. <<r, 0>> # <<r, 1>>
  OBVIOUS
<1>3. /\ Payload(r, 0) = {<<r, 0>>} /\ Payload(r, 1) = {<<r, 1>>}
      /\ Payload(r, 2) = Xor({<<r, 0>>}, {<<r, 1>>})
  BY DEF Payload
<1>4. Xor({<<r, 0>>}, Xor({<<r, 0>>}, {<<r, 1>>})) = {<<r, 1>>}
  BY <1>1, <1>2, Zenon
<1>5. QED  BY <1>3, <1>4, Zenon

(***************************************************************************)
(* _accept keeps the slots right, whichever shard comes: the shard is      *)
(* there afterwards, and no slot of another request changes.               *)
(***************************************************************************)
LEMMA AcceptedFacts ==
    ASSUME slots = [x \in DOMAIN slots |-> Payload(x[1], x[2])], DOMAIN slots \subseteq Shard,
           NEW r \in Requests, NEW s \in {0, 1, 2}
    PROVE  LET new == Accepted(r, s, Payload(r, s))
           IN /\ new = [x \in DOMAIN new |-> Payload(x[1], x[2])]
              /\ DOMAIN new \subseteq Shard
              /\ DOMAIN slots \subseteq DOMAIN new
              /\ <<r, s>> \in DOMAIN new
              /\ \A x \in DOMAIN new : x[1] # r => x \in DOMAIN slots
<1> DEFINE stored == SetDefault(slots, <<r, s>>, Payload(r, s))
           new == Accepted(r, s, Payload(r, s))
<1>1. /\ DOMAIN stored = DOMAIN slots \cup {<<r, s>>}
      /\ stored = [x \in DOMAIN stored |-> Payload(x[1], x[2])]
      /\ DOMAIN stored \subseteq Shard
  BY DEF SetDefault, Shard
<1> HIDE DEF stored
<1>2. CASE <<r, 0>> \in DOMAIN stored /\ <<r, 2>> \in DOMAIN stored
  <2>1. new = SetDefault(stored, <<r, 1>>, Xor(stored[<<r, 0>>], stored[<<r, 2>>]))
    BY <1>2 DEF Accepted, stored
  <2>2. stored[<<r, 0>>] = Payload(r, 0) /\ stored[<<r, 2>>] = Payload(r, 2)
    BY <1>1, <1>2
  <2>3. new = SetDefault(stored, <<r, 1>>, Payload(r, 1))
    BY <2>1, <2>2, RebuiltShard
  <2>4. /\ DOMAIN new = DOMAIN stored \cup {<<r, 1>>}
        /\ new = [x \in DOMAIN new |-> Payload(x[1], x[2])]
    <3> HIDE DEF new
    <3> QED  BY <2>3, <1>1 DEF SetDefault
  <2>5. <<r, 1>> \in Shard
    BY DEF Shard
  <2> HIDE DEF new
  <2>6. QED  BY <2>4, <2>5, <1>1 DEF new
<1>3. CASE ~(<<r, 0>> \in DOMAIN stored /\ <<r, 2>> \in DOMAIN stored)
  <2>1. new = stored
    BY <1>3 DEF Accepted, stored
  <2>2. QED  BY <2>1, <1>1
<1>4. QED  BY <1>2, <1>3

-----------------------------------------------------------------------------
LEMMA SmokeInvInit == SmokeInit => SmokeInv
<1> SUFFICES ASSUME SmokeInit PROVE SmokeInv
  OBVIOUS
<1> USE DEF SmokeInit
<1>1. SmokeTypeInv
  <2>1. DOMAIN slots = {} /\ DOMAIN payloads = {}
    OBVIOUS
  <2>2. slots = [x \in DOMAIN slots |-> Payload(x[1], x[2])]
    BY <2>1
  <2>3. payloads = [key \in DOMAIN payloads |-> expected[key]]
    BY <2>1
  <2>4. /\ coordinator_queue \in Seq(ShardFrames \cup {CloseFrame})
        /\ consumer_queue \in Seq(KeyFrames \cup {CloseFrame})
        /\ forwarding \in Seq(Key)
    OBVIOUS
  <2>5. QED  BY <2>1, <2>2, <2>3, <2>4 DEF SmokeTypeInv, Shard, MainPcs
<1>2. ShardInv
  BY DEF ShardInv, Shard
<1>3. HandoffInv
  BY DEF HandoffInv, CompleteRequest
<1>4. ForwardInv
  BY DEF ForwardInv
<1>5. CloseInv
  BY DEF CloseInv
<1>6. EndInv
  BY DEF EndInv, AfterJoin
<1>7. QED  BY <1>1, <1>2, <1>3, <1>4, <1>5, <1>6 DEF SmokeInv

LEMMA SendShardPreserves ==
    ASSUME SmokeInv, NEW r \in Requests, NEW s \in {0, 1, 2}, SendShard(r, s)
    PROVE  SmokeInv'
<1> USE DEF SmokeInv
<1> DEFINE f == ShardFrame(<<r, s>>)
<1>1. f = Frame(r, s, Payload(r, s)) /\ <<r, s>> \in Shard /\ f \in ShardFrames
  BY DEF ShardFrame, Shard, ShardFrames
<1>2. f # CloseFrame
  BY <1>1, FrameShape
<1> HIDE DEF f
<1>3. /\ coordinator_queue' = Append(coordinator_queue, f)
      /\ <<r, s>> \in unsent /\ unsent' = unsent \ {<<r, s>>}
      /\ UNCHANGED <<consumer_queue, listening, coordinator_pc, forwarding, slots, consumer_pc,
                     payloads, main_pc, failed, deadline_passed, join_timed_out>>
  BY <1>1 DEF SendShard, coordinatorVars, consumerVars, mainVars
<1>4. coordinator_queue \in Seq(ShardFrames \cup {CloseFrame}) /\ f \in ShardFrames \cup {CloseFrame}
  BY <1>1 DEF SmokeTypeInv
<1>5. /\ coordinator_queue' \in Seq(ShardFrames \cup {CloseFrame})
      /\ Len(coordinator_queue') = Len(coordinator_queue) + 1 /\ Len(coordinator_queue) \in Nat
      /\ \A i \in 1 .. Len(coordinator_queue) : coordinator_queue'[i] = coordinator_queue[i]
      /\ coordinator_queue'[Len(coordinator_queue) + 1] = f
      /\ Holds(coordinator_queue', f)
      /\ \A g : Holds(coordinator_queue, g) => Holds(coordinator_queue', g)
  <2>1. /\ Append(coordinator_queue, f) \in Seq(ShardFrames \cup {CloseFrame})
        /\ Len(Append(coordinator_queue, f)) = Len(coordinator_queue) + 1
        /\ Len(coordinator_queue) \in Nat
        /\ \A i \in 1 .. Len(coordinator_queue) :
             Append(coordinator_queue, f)[i] = coordinator_queue[i]
        /\ Append(coordinator_queue, f)[Len(coordinator_queue) + 1] = f
        /\ Holds(Append(coordinator_queue, f), f)
        /\ \A g : Holds(coordinator_queue, g) => Holds(Append(coordinator_queue, f), g)
    <3>1. PICK T : T = ShardFrames \cup {CloseFrame}
      OBVIOUS
    <3>2. coordinator_queue \in Seq(T) /\ f \in T
      BY <3>1, <1>4
    <3>3. QED  BY <3>1, <3>2, AppendFacts
  <2>2. QED  BY <2>1, <1>3, Zenon
<1>6. main_pc = "send"
  BY <1>3 DEF CloseInv
<1>7. SmokeTypeInv'
  BY <1>3, <1>5 DEF SmokeTypeInv
<1>8. ShardInv'
  <2> SUFFICES ASSUME NEW x \in Shard
               PROVE  \/ x \in unsent' \/ Holds(coordinator_queue', ShardFrame(x))
                      \/ x \in DOMAIN slots
    BY <1>3 DEF ShardInv
  <2>1. CASE x = <<r, s>>
    BY <2>1, <1>5 DEF f
  <2>2. CASE x # <<r, s>>
    BY <2>2, <1>3, <1>5 DEF ShardInv
  <2>3. QED  BY <2>1, <2>2
<1>9. HandoffInv'
  BY <1>3 DEF HandoffInv, CompleteRequest, Holds
<1>10. ForwardInv'
  BY <1>3 DEF ForwardInv
<1>11. CloseInv'
  BY <1>2, <1>3, <1>5, <1>6 DEF CloseInv, AfterClose
<1>12. EndInv'
  BY <1>3, <1>6 DEF EndInv, AfterClose, AfterJoin
<1>13. QED  BY <1>3, <1>7, <1>8, <1>9, <1>10, <1>11, <1>12

(***************************************************************************)
(* The coordinator takes the close frame: it is the last one, so nothing   *)
(* is left in the queue.                                                   *)
(***************************************************************************)
LEMMA CoordinatorClosePreserves ==
    ASSUME SmokeInv, CoordinatorAccept, Head(coordinator_queue).close
    PROVE  SmokeInv'
<1> USE DEF SmokeInv
<1> DEFINE q == coordinator_queue
<1>1. /\ q \in Seq(ShardFrames \cup {CloseFrame}) /\ q # <<>>
  BY DEF SmokeTypeInv, CoordinatorAccept
<1>2. /\ Tail(q) \in Seq(ShardFrames \cup {CloseFrame})
      /\ Head(q) \in ShardFrames \cup {CloseFrame} /\ Head(q) = q[1]
      /\ Len(q) \in Nat /\ Len(q) > 0 /\ Len(Tail(q)) = Len(q) - 1
      /\ \A g : Holds(q, g) /\ g # Head(q) => Holds(Tail(q), g)
  BY <1>1, TailFacts, Zenon
<1>3. Head(q) = CloseFrame
  BY <1>2, FrameKinds
<1>4. main_pc \in AfterClose /\ Len(q) = 1
  <2>1. 1 \in 1 .. Len(q) /\ q[1] = CloseFrame
    BY <1>2, <1>3
  <2>2. QED  BY <2>1 DEF CloseInv
<1>5. Tail(q) = <<>>
  <2>1. Len(Tail(q)) = 0
    BY <1>2, <1>4
  <2>2. QED  BY <2>1, <1>2
<1>6. /\ q' = <<>> /\ coordinator_pc' = "ended" /\ coordinator_pc = "accept"
      /\ UNCHANGED <<unsent, consumer_queue, listening, forwarding, slots, consumer_pc,
                     payloads, main_pc, failed, deadline_passed, join_timed_out>>
  BY <1>5 DEF CoordinatorAccept, consumerVars, mainVars
<1>7. SmokeTypeInv'
  BY <1>6 DEF SmokeTypeInv
<1>8. ShardInv'
  <2> SUFFICES ASSUME NEW x \in Shard
               PROVE  x \in unsent \/ x \in DOMAIN slots
    BY <1>6 DEF ShardInv
  <2>1. ~Holds(q, ShardFrame(x))
    BY <1>2, <1>3, <1>4, FrameShape DEF Holds
  <2>2. QED  BY <2>1 DEF ShardInv
<1>9. HandoffInv'
  BY <1>6 DEF HandoffInv, CompleteRequest, Holds
<1>10. ForwardInv'
  BY <1>6 DEF ForwardInv
<1>11. CloseInv'
  BY <1>6 DEF CloseInv
<1>12. EndInv'
  BY <1>4, <1>6 DEF EndInv, ForwardInv, AfterClose, AfterJoin
<1>13. QED  BY <1>6, <1>7, <1>8, <1>9, <1>10, <1>11, <1>12

(***************************************************************************)
(* The coordinator takes a shard.                                          *)
(***************************************************************************)
LEMMA CoordinatorShardPreserves ==
    ASSUME SmokeInv, CoordinatorAccept, ~Head(coordinator_queue).close
    PROVE  SmokeInv'
<1> USE DEF SmokeInv
<1> DEFINE q == coordinator_queue
           f == Head(q)
           x0 == <<f.request, f.shard>>
<1>1. /\ q \in Seq(ShardFrames \cup {CloseFrame}) /\ q # <<>>
  BY DEF SmokeTypeInv, CoordinatorAccept
<1>2. /\ Tail(q) \in Seq(ShardFrames \cup {CloseFrame})
      /\ Head(q) \in ShardFrames \cup {CloseFrame} /\ Head(q) = q[1]
      /\ Len(q) \in Nat /\ Len(q) > 0 /\ Len(Tail(q)) = Len(q) - 1
      /\ \A i \in 1 .. Len(q) - 1 : Tail(q)[i] = q[i + 1]
      /\ \A g : Holds(q, g) /\ g # Head(q) => Holds(Tail(q), g)
  BY <1>1, TailFacts, Zenon
<1>3. f \in ShardFrames
  BY <1>2, FrameShape
<1>4. /\ x0 \in Shard /\ f = ShardFrame(x0) /\ f.payload = Payload(f.request, f.shard)
      /\ f.request \in Requests /\ f.shard \in {0, 1, 2}
  BY <1>3, FrameKinds DEF Shard
<1>5. /\ q' = Tail(q) /\ coordinator_pc = "accept"
      /\ slots' = Accepted(f.request, f.shard, f.payload)
      /\ IF {f.request} \X {0, 1} \subseteq DOMAIN slots'
           THEN coordinator_pc' = "forward" /\ forwarding' = <<<<f.request, 0>>, <<f.request, 1>>>>
           ELSE UNCHANGED <<coordinator_pc, forwarding>>
      /\ UNCHANGED <<unsent, consumer_queue, listening, consumer_pc,
                     payloads, main_pc, failed, deadline_passed, join_timed_out>>
  BY DEF CoordinatorAccept, consumerVars, mainVars
<1> HIDE DEF f
<1>6. /\ slots' = [x \in DOMAIN slots' |-> Payload(x[1], x[2])]
      /\ DOMAIN slots' \subseteq Shard
      /\ DOMAIN slots \subseteq DOMAIN slots'
      /\ x0 \in DOMAIN slots'
      /\ \A x \in DOMAIN slots' : x[1] # f.request => x \in DOMAIN slots
  <2>1. slots = [x \in DOMAIN slots |-> Payload(x[1], x[2])] /\ DOMAIN slots \subseteq Shard
    BY DEF SmokeTypeInv
  <2>2. slots' = Accepted(f.request, f.shard, Payload(f.request, f.shard))
    BY <1>4, <1>5
  <2>3. QED  BY <2>1, <2>2, <1>4, AcceptedFacts, Zenon
<1>7. /\ forwarding = <<>>
      /\ forwarding' \in Seq(Key)
      /\ coordinator_pc' \in {"accept", "forward"}
  <2>1. forwarding = <<>>
    BY <1>5 DEF ForwardInv
  <2>2. <<f.request, 0>> \in Key /\ <<f.request, 1>> \in Key
    BY <1>4 DEF Key
  <2>3. <<<<f.request, 0>>, <<f.request, 1>>>> \in Seq(Key) /\ forwarding \in Seq(Key)
    BY <2>2 DEF SmokeTypeInv
  <2>4. QED  BY <2>1, <2>3, <1>5
<1>8. SmokeTypeInv'
  BY <1>2, <1>5, <1>6, <1>7 DEF SmokeTypeInv
<1>9. ShardInv'
  <2> SUFFICES ASSUME NEW x \in Shard
               PROVE  x \in unsent \/ Holds(q', ShardFrame(x)) \/ x \in DOMAIN slots'
    BY <1>5 DEF ShardInv
  <2>1. CASE x = x0
    BY <2>1, <1>6
  <2>2. CASE x # x0
    <3>1. ShardFrame(x) # f
      BY <2>2, <1>4, FrameKinds
    <3>2. Holds(q, ShardFrame(x)) => Holds(q', ShardFrame(x))
      BY <3>1, <1>2, <1>5 DEF f
    <3>3. QED  BY <3>2, <1>6 DEF ShardInv
  <2>3. QED  BY <2>1, <2>2
<1>10. HandoffInv'
  <2> SUFFICES ASSUME NEW key \in Key, CompleteRequest(key[1])'
               PROVE  \/ Holds(forwarding', key)
                      \/ Holds(consumer_queue, ShardFrame(key))
                      \/ key \in DOMAIN payloads
    BY <1>5 DEF HandoffInv
  <2>1. CASE key[1] = f.request
    <3>1. {f.request} \X {0, 1} \subseteq DOMAIN slots'
      BY <2>1 DEF CompleteRequest
    <3>2. forwarding' = <<<<f.request, 0>>, <<f.request, 1>>>>
      BY <3>1, <1>5
    <3>3. key = <<f.request, 0>> \/ key = <<f.request, 1>>
      BY <2>1 DEF Key
    <3>4. QED  BY <3>2, <3>3 DEF Holds
  <2>2. CASE key[1] # f.request
    <3>1. CompleteRequest(key[1])
      BY <2>2, <1>6 DEF CompleteRequest
    <3>2. ~Holds(forwarding, key)
      BY <1>7 DEF Holds
    <3>3. QED  BY <3>1, <3>2 DEF HandoffInv
  <2>3. QED  BY <2>1, <2>2
<1>11. ForwardInv'
  <2>1. CASE {f.request} \X {0, 1} \subseteq DOMAIN slots'
    <3>1. forwarding' = <<<<f.request, 0>>, <<f.request, 1>>>> /\ coordinator_pc' = "forward"
      BY <2>1, <1>5
    <3>2. <<f.request, 0>> \in DOMAIN slots' /\ <<f.request, 1>> \in DOMAIN slots'
      BY <2>1
    <3>3. QED  BY <3>1, <3>2 DEF ForwardInv
  <2>2. CASE ~({f.request} \X {0, 1} \subseteq DOMAIN slots')
    BY <2>2, <1>5, <1>7 DEF ForwardInv
  <2>3. QED  BY <2>1, <2>2
<1>12. CloseInv'
  <2>1. ASSUME NEW i \in 1 .. Len(q'), q'[i] = CloseFrame
        PROVE  main_pc \in AfterClose /\ i = Len(q')
    <3>1. i + 1 \in 1 .. Len(q) /\ q[i + 1] = CloseFrame
      BY <2>1, <1>2, <1>5
    <3>2. main_pc \in AfterClose /\ i + 1 = Len(q)
      BY <3>1 DEF CloseInv
    <3>3. QED  BY <3>2, <1>2, <1>5
  <2>2. QED  BY <2>1, <1>5 DEF CloseInv
<1>13. EndInv'
  BY <1>5, <1>7 DEF EndInv
<1>14. QED  BY <1>5, <1>8, <1>9, <1>10, <1>11, <1>12, <1>13

(***************************************************************************)
(* The coordinator hands a shard on.  As long as no join has timed out, it *)
(* does so before the consumer is told to end.                             *)
(***************************************************************************)
LEMMA ForwardPreserves ==
    ASSUME SmokeInv, CoordinatorForward, "consumer" \in listening
    PROVE  SmokeInv'
<1> USE DEF SmokeInv
<1>1. forwarding \in Seq(Key) /\ forwarding # <<>>
  BY DEF SmokeTypeInv, ForwardInv, CoordinatorForward
<1>2. /\ Tail(forwarding) \in Seq(Key)
      /\ Head(forwarding) \in Key /\ Head(forwarding) = forwarding[1]
      /\ Len(forwarding) \in Nat /\ Len(forwarding) > 0
      /\ Len(Tail(forwarding)) = Len(forwarding) - 1
      /\ \A i \in 1 .. Len(forwarding) - 1 : Tail(forwarding)[i] = forwarding[i + 1]
      /\ \A g : Holds(forwarding, g) /\ g # Head(forwarding) => Holds(Tail(forwarding), g)
  BY <1>1, TailFacts, Zenon
<1>3. PICK sent : sent = Head(forwarding)
  OBVIOUS
<1>4. sent \in Key /\ sent \in DOMAIN slots /\ sent \in Shard
  BY <1>2, <1>3, FrameKinds DEF ForwardInv
<1>5. slots[sent] = Payload(sent[1], sent[2])
  BY <1>4 DEF SmokeTypeInv
<1>6. PICK f : f = ShardFrame(sent)
  OBVIOUS
<1>7. /\ consumer_queue' = Append(consumer_queue, f)
      /\ forwarding' = Tail(forwarding)
      /\ coordinator_pc' = IF Len(forwarding) = 1 THEN "accept" ELSE "forward"
      /\ coordinator_pc = "forward"
      /\ UNCHANGED <<unsent, coordinator_queue, listening, slots, consumer_pc, payloads, main_pc,
                     failed, deadline_passed, join_timed_out>>
  BY <1>3, <1>5, <1>6 DEF CoordinatorForward, ShardFrame, consumerVars, mainVars
<1>8. f # CloseFrame
  BY <1>4, <1>6, FrameShape
<1>9. /\ consumer_queue' \in Seq(KeyFrames \cup {CloseFrame})
      /\ Len(consumer_queue') = Len(consumer_queue) + 1 /\ Len(consumer_queue) \in Nat
      /\ \A i \in 1 .. Len(consumer_queue) : consumer_queue'[i] = consumer_queue[i]
      /\ consumer_queue'[Len(consumer_queue) + 1] = f
      /\ Holds(consumer_queue', f)
      /\ \A g : Holds(consumer_queue, g) => Holds(consumer_queue', g)
  <2>1. PICK T : T = KeyFrames \cup {CloseFrame}
    OBVIOUS
  <2>2. consumer_queue \in Seq(T) /\ f \in T
    BY <2>1, <1>4, <1>6 DEF SmokeTypeInv, KeyFrames
  <2>3. QED  BY <2>1, <2>2, <1>7, AppendFacts
<1>10. SmokeTypeInv'
  BY <1>2, <1>7, <1>9 DEF SmokeTypeInv
<1>11. ShardInv'
  BY <1>7 DEF ShardInv, Holds
<1>12. HandoffInv'
  <2> SUFFICES ASSUME NEW key \in Key, CompleteRequest(key[1])
               PROVE  \/ Holds(forwarding', key)
                      \/ Holds(consumer_queue', ShardFrame(key))
                      \/ key \in DOMAIN payloads
    BY <1>7 DEF HandoffInv, CompleteRequest
  <2>1. CASE key = sent
    BY <2>1, <1>6, <1>9
  <2>2. CASE key # sent
    <3>1. Holds(forwarding, key) => Holds(forwarding', key)
      BY <2>2, <1>2, <1>3, <1>7
    <3>2. QED  BY <3>1, <1>9 DEF HandoffInv
  <2>3. QED  BY <2>1, <2>2
<1>13. ForwardInv'
  <2>1. forwarding' # <<>> <=> Len(forwarding) # 1
    BY <1>2, <1>7
  <2>2. \A i \in 1 .. Len(forwarding') : forwarding'[i] \in DOMAIN slots
    <3> SUFFICES ASSUME NEW i \in 1 .. Len(forwarding') PROVE forwarding'[i] \in DOMAIN slots
      OBVIOUS
    <3>1. i \in 1 .. Len(forwarding) - 1 /\ i + 1 \in 1 .. Len(forwarding)
      BY <1>2, <1>7
    <3>2. forwarding'[i] = forwarding[i + 1]
      BY <3>1, <1>2, <1>7
    <3>3. QED  BY <3>1, <3>2 DEF ForwardInv
  <2>3. QED  BY <2>1, <2>2, <1>7 DEF ForwardInv
<1>14. CloseInv'
  <2>1. ASSUME ~join_timed_out, NEW i \in 1 .. Len(consumer_queue'),
               consumer_queue'[i] = CloseFrame
        PROVE  FALSE
    <3>1. i \in 1 .. Len(consumer_queue) /\ consumer_queue[i] = CloseFrame
      BY <2>1, <1>8, <1>9
    <3>2. main_pc \in AfterJoin
      BY <3>1, <2>1 DEF CloseInv, AfterJoin
    <3>3. QED  BY <3>2, <2>1, <1>7 DEF EndInv
  <2>2. QED  BY <2>1, <1>7 DEF CloseInv
<1>15. EndInv'
  <2>1. ~join_timed_out => consumer_pc # "ended"
    BY <1>7 DEF EndInv, AfterJoin
  <2>2. coordinator_pc' # "ended"
    BY <1>7
  <2>3. QED  BY <2>1, <2>2, <1>7 DEF EndInv
<1>16. QED  BY <1>7, <1>10, <1>11, <1>12, <1>13, <1>14, <1>15

(***************************************************************************)
(* The consumer's listener is gone: a join has timed out.                  *)
(***************************************************************************)
LEMMA RefusedPreserves ==
    ASSUME SmokeInv, CoordinatorForward, "consumer" \notin listening
    PROVE  SmokeInv'
<1> USE DEF SmokeInv
<1>1. /\ coordinator_pc = "forward" /\ coordinator_pc' = "ended"
      /\ UNCHANGED <<unsent, coordinator_queue, consumer_queue, listening, forwarding, slots,
                     consumer_pc, payloads, main_pc, failed, deadline_passed, join_timed_out>>
  BY DEF CoordinatorForward, consumerVars, mainVars
<1>2. join_timed_out
  BY <1>1 DEF EndInv, AfterJoin, SmokeTypeInv
<1>3. SmokeTypeInv'
  BY <1>1 DEF SmokeTypeInv
<1>4. ShardInv' /\ HandoffInv'
  BY <1>1 DEF ShardInv, HandoffInv, CompleteRequest, Holds
<1>5. ForwardInv' /\ CloseInv'
  BY <1>1 DEF ForwardInv, CloseInv
<1>6. EndInv'
  BY <1>1, <1>2 DEF EndInv
<1>7. QED  BY <1>1, <1>3, <1>4, <1>5, <1>6

(***************************************************************************)
(* The consumer takes the close frame.                                     *)
(***************************************************************************)
LEMMA ConsumerClosePreserves ==
    ASSUME SmokeInv, ConsumerAccept, Head(consumer_queue).close
    PROVE  SmokeInv'
<1> USE DEF SmokeInv
<1> DEFINE q == consumer_queue
<1>1. /\ q \in Seq(KeyFrames \cup {CloseFrame}) /\ q # <<>>
  BY DEF SmokeTypeInv, ConsumerAccept
<1>2. /\ Tail(q) \in Seq(KeyFrames \cup {CloseFrame})
      /\ Head(q) \in KeyFrames \cup {CloseFrame} /\ Head(q) = q[1]
      /\ Len(q) \in Nat /\ Len(q) > 0 /\ Len(Tail(q)) = Len(q) - 1
      /\ \A i \in 1 .. Len(q) - 1 : Tail(q)[i] = q[i + 1]
      /\ \A g : Holds(q, g) /\ g # Head(q) => Holds(Tail(q), g)
  BY <1>1, TailFacts, Zenon
<1>3. Head(q) = CloseFrame
  BY <1>2, FrameKinds
<1>4. /\ q' = Tail(q) /\ consumer_pc' = "ended" /\ consumer_pc = "accept"
      /\ UNCHANGED <<unsent, coordinator_queue, listening, coordinator_pc, forwarding, slots,
                     payloads, main_pc, failed, deadline_passed, join_timed_out>>
  BY DEF ConsumerAccept, coordinatorVars, mainVars
<1>5. ~join_timed_out => main_pc \in {"join_consumer", "ended"} /\ q' = <<>>
  <2> SUFFICES ASSUME ~join_timed_out
               PROVE  main_pc \in {"join_consumer", "ended"} /\ q' = <<>>
    OBVIOUS
  <2>1. 1 \in 1 .. Len(q) /\ q[1] = CloseFrame
    BY <1>2, <1>3
  <2>2. main_pc \in {"join_consumer", "ended"} /\ 1 = Len(q)
    BY <2>1 DEF CloseInv
  <2>3. Len(Tail(q)) = 0
    <3>1. Len(Tail(q)) = Len(q) - 1 /\ Len(q) = 1
      BY <1>2, <2>2
    <3>2. QED  BY <3>1
  <2>4. QED  BY <2>2, <2>3, <1>2, <1>4
<1>6. SmokeTypeInv'
  BY <1>2, <1>4 DEF SmokeTypeInv
<1>7. ShardInv'
  BY <1>4 DEF ShardInv, Holds
<1>8. HandoffInv'
  <2> SUFFICES ASSUME NEW key \in Key, CompleteRequest(key[1])
               PROVE  \/ Holds(forwarding, key)
                      \/ Holds(q', ShardFrame(key))
                      \/ key \in DOMAIN payloads
    BY <1>4 DEF HandoffInv, CompleteRequest
  <2>1. ShardFrame(key) # Head(q)
    BY <1>3, FrameShape, FrameKinds
  <2>2. Holds(q, ShardFrame(key)) => Holds(q', ShardFrame(key))
    BY <2>1, <1>2, <1>4
  <2>3. QED  BY <2>2 DEF HandoffInv
<1>9. ForwardInv'
  BY <1>4 DEF ForwardInv
<1>10. CloseInv'
  <2>1. ~join_timed_out => \A i \in 1 .. Len(q') : q'[i] # CloseFrame
    BY <1>5
  <2>2. QED  BY <2>1, <1>4 DEF CloseInv
<1>11. EndInv'
  BY <1>4, <1>5 DEF EndInv
<1>12. QED  BY <1>4, <1>6, <1>7, <1>8, <1>9, <1>10, <1>11

(***************************************************************************)
(* The consumer takes a shard, for the first time or again.                *)
(***************************************************************************)
LEMMA ConsumerShardPreserves ==
    ASSUME SmokeInv, ConsumerAccept, ~Head(consumer_queue).close
    PROVE  SmokeInv'
<1> USE DEF SmokeInv
<1> DEFINE q == consumer_queue
           f == Head(q)
           key0 == <<f.request, f.shard>>
<1>1. /\ q \in Seq(KeyFrames \cup {CloseFrame}) /\ q # <<>>
  BY DEF SmokeTypeInv, ConsumerAccept
<1>2. /\ Tail(q) \in Seq(KeyFrames \cup {CloseFrame})
      /\ Head(q) \in KeyFrames \cup {CloseFrame} /\ Head(q) = q[1]
      /\ Len(q) \in Nat /\ Len(q) > 0 /\ Len(Tail(q)) = Len(q) - 1
      /\ \A i \in 1 .. Len(q) - 1 : Tail(q)[i] = q[i + 1]
      /\ \A g : Holds(q, g) /\ g # Head(q) => Holds(Tail(q), g)
  BY <1>1, TailFacts, Zenon
<1>3. f \in KeyFrames
  BY <1>2, FrameShape
<1>4. /\ key0 \in Key /\ f = ShardFrame(key0)
      /\ f.payload = expected[key0]
  <2>1. key0 \in Key /\ f = ShardFrame(key0) /\ f.payload = Payload(f.request, f.shard)
    BY <1>3, FrameKinds
  <2>2. QED  BY <2>1 DEF expected
<1>5. /\ q' = Tail(q) /\ consumer_pc = "accept" /\ consumer_pc' = "accept"
      /\ payloads' = [key \in DOMAIN payloads \cup {key0} |->
                        IF key = key0 THEN f.payload ELSE payloads[key]]
      /\ UNCHANGED <<unsent, coordinator_queue, listening, coordinator_pc, forwarding, slots,
                     main_pc, failed, deadline_passed, join_timed_out>>
  BY DEF ConsumerAccept, coordinatorVars, mainVars
<1> HIDE DEF f
<1>6. /\ DOMAIN payloads' = DOMAIN payloads \cup {key0}
      /\ payloads' = [key \in DOMAIN payloads' |-> expected[key]]
  <2>1. \A key \in DOMAIN payloads : payloads[key] = expected[key]
    BY DEF SmokeTypeInv
  <2>2. QED  BY <2>1, <1>4, <1>5
<1>7. SmokeTypeInv'
  BY <1>2, <1>4, <1>5, <1>6 DEF SmokeTypeInv, expected
<1>8. ShardInv'
  BY <1>5 DEF ShardInv, Holds
<1>9. HandoffInv'
  <2> SUFFICES ASSUME NEW key \in Key, CompleteRequest(key[1])
               PROVE  \/ Holds(forwarding, key)
                      \/ Holds(q', ShardFrame(key))
                      \/ key \in DOMAIN payloads'
    BY <1>5 DEF HandoffInv, CompleteRequest
  <2>1. CASE key = key0
    BY <2>1, <1>6
  <2>2. CASE key # key0
    <3>1. ShardFrame(key) # f
      BY <2>2, <1>4, FrameKinds
    <3>2. Holds(q, ShardFrame(key)) => Holds(q', ShardFrame(key))
      BY <3>1, <1>2, <1>5 DEF f
    <3>3. QED  BY <3>2, <1>6 DEF HandoffInv
  <2>3. QED  BY <2>1, <2>2
<1>10. ForwardInv'
  BY <1>5 DEF ForwardInv
<1>11. CloseInv'
  <2>1. ASSUME ~join_timed_out, NEW i \in 1 .. Len(q'), q'[i] = CloseFrame
        PROVE  main_pc \in {"join_consumer", "ended"} /\ i = Len(q')
    <3>1. i + 1 \in 1 .. Len(q) /\ q[i + 1] = CloseFrame
      BY <2>1, <1>2, <1>5
    <3>2. main_pc \in {"join_consumer", "ended"} /\ i + 1 = Len(q)
      BY <3>1, <2>1 DEF CloseInv
    <3>3. QED  BY <3>2, <1>2, <1>5
  <2>2. QED  BY <2>1, <1>5 DEF CloseInv
<1>12. EndInv'
  BY <1>5 DEF EndInv
<1>13. QED  BY <1>5, <1>7, <1>8, <1>9, <1>10, <1>11, <1>12

(***************************************************************************)
(* A server ends because its listener was closed under it: after a join    *)
(* that timed out.                                                         *)
(***************************************************************************)
LEMMA ListenerGonePreserves ==
    ASSUME SmokeInv, ListenerGone
    PROVE  SmokeInv'
<1> USE DEF SmokeInv
<1>1. /\ join_timed_out
      /\ coordinator_pc' \in {coordinator_pc, "ended"} /\ consumer_pc' \in {consumer_pc, "ended"}
      /\ UNCHANGED <<unsent, coordinator_queue, consumer_queue, listening, forwarding, slots,
                     payloads, main_pc, failed, deadline_passed, join_timed_out>>
  BY DEF ListenerGone, coordinatorVars, consumerVars, mainVars, EndInv, SmokeTypeInv
<1>2. SmokeTypeInv'
  BY <1>1 DEF SmokeTypeInv
<1>3. ShardInv' /\ HandoffInv'
  BY <1>1 DEF ShardInv, HandoffInv, CompleteRequest, Holds
<1>4. ForwardInv' /\ CloseInv'
  BY <1>1 DEF ForwardInv, CloseInv
<1>5. EndInv'
  BY <1>1 DEF EndInv
<1>6. QED  BY <1>1, <1>2, <1>3, <1>4, <1>5

-----------------------------------------------------------------------------
(***************************************************************************)
(* Comparing once as many keys have arrived as there are keys succeeds.    *)
(***************************************************************************)
LEMMA FullPayloads ==
    ASSUME SmokeTypeInv, Cardinality(DOMAIN payloads) >= Cardinality(Key)
    PROVE  payloads = expected
<1>1. IsFiniteSet(Key)
  <2>1. IsFiniteSet({0, 1})
    <3>1. IsFiniteSet({} \cup {0})
      BY FS_EmptySet, FS_AddElement, Zenon
    <3>2. IsFiniteSet(({} \cup {0}) \cup {1})
      BY <3>1, FS_AddElement, Zenon
    <3>3. ({} \cup {0}) \cup {1} = {0, 1}
      OBVIOUS
    <3>4. QED  BY <3>2, <3>3
  <2>2. QED  BY <2>1, SmokeAssumption, FS_Product DEF Key
<1>2. /\ DOMAIN payloads \subseteq Key
      /\ payloads = [key \in DOMAIN payloads |-> expected[key]]
  BY DEF SmokeTypeInv
<1>3. DOMAIN payloads = Key
  BY <1>1, <1>2, FS_Subset, FS_CardinalityType
<1>4. expected = [key \in Key |-> expected[key]]
  BY DEF expected
<1>5. QED  BY <1>2, <1>3, <1>4

LEMMA MainPreserves ==
    ASSUME SmokeInv, Main \/ DeadlinePasses
    PROVE  SmokeInv'
<1> USE DEF SmokeInv
<1>1. CASE ProducersDone
  <2>1. /\ main_pc = "send" /\ unsent = {} /\ main_pc' = "poll"
        /\ UNCHANGED <<unsent, coordinator_queue, consumer_queue, listening, coordinator_pc,
                       forwarding, slots, consumer_pc, payloads, failed, deadline_passed,
                       join_timed_out>>
    BY <1>1 DEF ProducersDone, coordinatorVars, consumerVars
  <2>2. SmokeTypeInv'
    BY <2>1 DEF SmokeTypeInv, MainPcs
  <2>3. ShardInv' /\ HandoffInv'
    BY <2>1 DEF ShardInv, HandoffInv, CompleteRequest, Holds
  <2>4. ForwardInv' /\ CloseInv'
    BY <2>1 DEF ForwardInv, CloseInv, AfterClose
  <2>5. EndInv'
    BY <2>1 DEF EndInv, AfterJoin, AfterClose
  <2>6. QED  BY <2>1, <2>2, <2>3, <2>4, <2>5
<1>2. CASE AllReceived \/ DeadlinePasses
  <2>1. /\ main_pc = "poll" /\ main_pc' = "close"
        /\ failed' \in BOOLEAN /\ deadline_passed' \in BOOLEAN
        /\ UNCHANGED <<unsent, coordinator_queue, consumer_queue, listening, coordinator_pc,
                       forwarding, slots, consumer_pc, payloads, join_timed_out>>
    BY <1>2 DEF AllReceived, DeadlinePasses, Compare, coordinatorVars, consumerVars, SmokeTypeInv
  <2>2. failed' => deadline_passed'
    <3>1. CASE AllReceived
      <4>1. payloads = expected
        BY <3>1, FullPayloads DEF AllReceived
      <4>2. QED  BY <3>1, <4>1 DEF AllReceived, Compare
    <3>2. CASE DeadlinePasses
      BY <3>2 DEF DeadlinePasses
    <3>3. QED  BY <3>1, <3>2, <1>2
  <2>3. SmokeTypeInv'
    BY <2>1 DEF SmokeTypeInv, MainPcs
  <2>4. ShardInv' /\ HandoffInv'
    BY <2>1 DEF ShardInv, HandoffInv, CompleteRequest, Holds
  <2>5. ForwardInv' /\ CloseInv'
    BY <2>1 DEF ForwardInv, CloseInv, AfterClose
  <2>6. EndInv'
    BY <2>1 DEF EndInv, AfterJoin, AfterClose
  <2>7. QED  BY <2>2, <2>3, <2>4, <2>5, <2>6
<1>3. CASE CloseCoordinator
  <2> DEFINE q == coordinator_queue
  <2>1. /\ main_pc = "close" /\ main_pc' = "join" /\ q' = Append(q, CloseFrame)
        /\ UNCHANGED <<unsent, consumer_queue, listening, coordinator_pc,
                       forwarding, slots, consumer_pc, payloads, failed, deadline_passed,
                       join_timed_out>>
    BY <1>3 DEF CloseCoordinator, coordinatorVars, consumerVars
  <2>2. /\ q' \in Seq(ShardFrames \cup {CloseFrame})
        /\ Len(q') = Len(q) + 1 /\ Len(q) \in Nat
        /\ \A i \in 1 .. Len(q) : q'[i] = q[i]
        /\ \A g : Holds(q, g) => Holds(q', g)
    <3>1. PICK T : T = ShardFrames \cup {CloseFrame}
      OBVIOUS
    <3>2. q \in Seq(T) /\ CloseFrame \in T
      BY <3>1 DEF SmokeTypeInv
    <3>3. QED  BY <3>1, <3>2, <2>1, AppendFacts
  <2>3. SmokeTypeInv'
    BY <2>1, <2>2 DEF SmokeTypeInv, MainPcs, AfterClose
  <2>4. ShardInv'
    BY <2>1, <2>2 DEF ShardInv
  <2>5. HandoffInv'
    BY <2>1 DEF HandoffInv, CompleteRequest, Holds
  <2>6. ForwardInv'
    BY <2>1 DEF ForwardInv
  <2>7. CloseInv'
    <3>1. ASSUME NEW i \in 1 .. Len(q'), q'[i] = CloseFrame
          PROVE  i = Len(q')
      <4>1. ~(i \in 1 .. Len(q))
        BY <3>1, <2>1, <2>2 DEF CloseInv, AfterClose
      <4>2. QED  BY <4>1, <2>2
    <3>2. QED  BY <3>1, <2>1 DEF CloseInv, AfterClose
  <2>8. EndInv'
    BY <2>1 DEF EndInv, AfterJoin, AfterClose
  <2>9. QED  BY <2>1, <2>3, <2>4, <2>5, <2>6, <2>7, <2>8
<1>4. CASE JoinCoordinator
  <2>1. /\ main_pc = "join" /\ main_pc' = "close_consumer" /\ coordinator_pc = "ended"
        /\ listening' = listening \ {"coordinator"}
        /\ UNCHANGED <<unsent, coordinator_queue, consumer_queue, coordinator_pc,
                       forwarding, slots, consumer_pc, payloads, failed, deadline_passed,
                       join_timed_out>>
    BY <1>4 DEF JoinCoordinator, CloseListener, coordinatorVars, consumerVars
  <2>2. SmokeTypeInv'
    BY <2>1 DEF SmokeTypeInv, MainPcs, AfterClose
  <2>3. ShardInv' /\ HandoffInv'
    BY <2>1 DEF ShardInv, HandoffInv, CompleteRequest, Holds
  <2>4. ForwardInv' /\ CloseInv'
    BY <2>1 DEF ForwardInv, CloseInv, AfterClose
  <2>5. EndInv'
    BY <2>1 DEF EndInv, AfterJoin, AfterClose
  <2>6. QED  BY <2>1, <2>2, <2>3, <2>4, <2>5
<1>5. CASE CloseConsumer
  <2> DEFINE q == consumer_queue
  <2>1. /\ main_pc = "close_consumer" /\ main_pc' = "join_consumer" /\ q' = Append(q, CloseFrame)
        /\ UNCHANGED <<unsent, coordinator_queue, listening, coordinator_pc,
                       forwarding, slots, consumer_pc, payloads, failed, deadline_passed,
                       join_timed_out>>
    BY <1>5 DEF CloseConsumer, coordinatorVars, consumerVars
  <2>2. /\ q' \in Seq(KeyFrames \cup {CloseFrame})
        /\ Len(q') = Len(q) + 1 /\ Len(q) \in Nat
        /\ \A i \in 1 .. Len(q) : q'[i] = q[i]
        /\ \A g : Holds(q, g) => Holds(q', g)
    <3>1. PICK T : T = KeyFrames \cup {CloseFrame}
      OBVIOUS
    <3>2. q \in Seq(T) /\ CloseFrame \in T
      BY <3>1 DEF SmokeTypeInv
    <3>3. QED  BY <3>1, <3>2, <2>1, AppendFacts
  <2>3. SmokeTypeInv'
    BY <2>1, <2>2 DEF SmokeTypeInv, MainPcs, AfterClose
  <2>4. ShardInv'
    BY <2>1 DEF ShardInv, Holds
  <2>5. HandoffInv'
    <3> SUFFICES ASSUME NEW key \in Key, CompleteRequest(key[1])
                 PROVE  \/ Holds(forwarding, key)
                        \/ Holds(q', ShardFrame(key))
                        \/ key \in DOMAIN payloads
      BY <2>1 DEF HandoffInv, CompleteRequest
    <3>1. QED  BY <2>2 DEF HandoffInv
  <2>6. ForwardInv'
    BY <2>1 DEF ForwardInv
  <2>7. CloseInv'
    <3>1. ASSUME ~join_timed_out, NEW i \in 1 .. Len(q'), q'[i] = CloseFrame
          PROVE  i = Len(q')
      <4>1. ~(i \in 1 .. Len(q))
        BY <3>1, <2>1, <2>2 DEF CloseInv
      <4>2. QED  BY <4>1, <2>2
    <3>2. QED  BY <3>1, <2>1 DEF CloseInv, AfterClose
  <2>8. EndInv'
    BY <2>1 DEF EndInv, AfterJoin, AfterClose
  <2>9. QED  BY <2>1, <2>3, <2>4, <2>5, <2>6, <2>7, <2>8
<1>6. CASE JoinConsumer
  <2>1. /\ main_pc = "join_consumer" /\ main_pc' = "ended" /\ consumer_pc = "ended"
        /\ listening' = listening \ {"consumer"}
        /\ UNCHANGED <<unsent, coordinator_queue, consumer_queue, coordinator_pc,
                       forwarding, slots, consumer_pc, payloads, failed, deadline_passed,
                       join_timed_out>>
    BY <1>6 DEF JoinConsumer, CloseListener, coordinatorVars, consumerVars
  <2>2. SmokeTypeInv'
    BY <2>1 DEF SmokeTypeInv, MainPcs, AfterClose
  <2>3. ShardInv' /\ HandoffInv'
    BY <2>1 DEF ShardInv, HandoffInv, CompleteRequest, Holds
  <2>4. ForwardInv' /\ CloseInv'
    BY <2>1 DEF ForwardInv, CloseInv, AfterClose
  <2>5. EndInv'
    BY <2>1 DEF EndInv, AfterJoin, AfterClose
  <2>6. QED  BY <2>1, <2>2, <2>3, <2>4, <2>5
<1>7. QED  BY <1>1, <1>2, <1>3, <1>4, <1>5, <1>6 DEF Main

LEMMA JoinTimesOutPreserves ==
    ASSUME SmokeInv, JoinTimesOut
    PROVE  SmokeInv'
<1> USE DEF SmokeInv
<1>1. /\ join_timed_out'
      /\ \/ /\ main_pc = "join" /\ main_pc' = "close_consumer"
            /\ listening' = listening \ {"coordinator"}
         \/ /\ main_pc = "join_consumer" /\ main_pc' = "ended"
            /\ listening' = listening \ {"consumer"}
      /\ UNCHANGED <<unsent, coordinator_queue, consumer_queue, coordinator_pc, forwarding, slots,
                     consumer_pc, payloads, failed, deadline_passed>>
  BY DEF JoinTimesOut, CloseListener, coordinatorVars, consumerVars
<1>2. join_timed_out' = TRUE
  BY DEF JoinTimesOut
<1>3. SmokeTypeInv'
  BY <1>1, <1>2 DEF SmokeTypeInv, MainPcs, AfterClose
<1>4. ShardInv' /\ HandoffInv'
  BY <1>1 DEF ShardInv, HandoffInv, CompleteRequest, Holds
<1>5. ForwardInv' /\ CloseInv'
  BY <1>1 DEF ForwardInv, CloseInv, AfterClose
<1>6. EndInv'
  BY <1>1 DEF EndInv, AfterJoin
<1>7. QED  BY <1>1, <1>3, <1>4, <1>5, <1>6

-----------------------------------------------------------------------------
(***************************************************************************)
(* SmokeInv is an invariant of the smoke test, for every set of requests.  *)
(***************************************************************************)
THEOREM SmokeInvariance == SmokeSpec => []SmokeInv
<1>1. SmokeInit => SmokeInv
  BY SmokeInvInit
<1>2. SmokeInv /\ [SmokeNext]_smokeVars => SmokeInv'
  <2> SUFFICES ASSUME SmokeInv, [SmokeNext]_smokeVars PROVE SmokeInv'
    OBVIOUS
  <2>1. CASE Producers
    BY <2>1, SendShardPreserves DEF Producers
  <2>2. CASE CoordinatorAccept
    BY <2>2, CoordinatorClosePreserves, CoordinatorShardPreserves
  <2>3. CASE CoordinatorForward
    BY <2>3, ForwardPreserves, RefusedPreserves
  <2>4. CASE ConsumerAccept
    BY <2>4, ConsumerClosePreserves, ConsumerShardPreserves
  <2>5. CASE ListenerGone
    BY <2>5, ListenerGonePreserves
  <2>6. CASE Main \/ DeadlinePasses
    BY <2>6, MainPreserves
  <2>7. CASE JoinTimesOut
    BY <2>7, JoinTimesOutPreserves
  <2>8. CASE UNCHANGED smokeVars
    <3>1. UNCHANGED <<unsent, coordinator_queue, consumer_queue, listening, coordinator_pc,
                      forwarding, slots, consumer_pc, payloads, main_pc, failed,
                      deadline_passed, join_timed_out>>
      BY <2>8 DEF smokeVars, coordinatorVars, consumerVars, mainVars
    <3>2. QED  BY <3>1 DEF SmokeInv, SmokeTypeInv, ShardInv, HandoffInv, CompleteRequest, Holds,
                           ForwardInv, CloseInv, EndInv
  <2>9. QED
    BY <2>1, <2>2, <2>3, <2>4, <2>5, <2>6, <2>7, <2>8 DEF SmokeNext
<1>3. QED  BY <1>1, <1>2, PTL DEF SmokeSpec

(***************************************************************************)
(* When main has ended without a timeout both queues are empty, so every   *)
(* shard is in the slots and every key with the consumer.                  *)
(***************************************************************************)
LEMMA SmokeInvImplies == SmokeInv => HandoffComplete
<1> SUFFICES ASSUME SmokeInv PROVE HandoffComplete
  OBVIOUS
<1> USE DEF SmokeInv
<1>1. \A key \in DOMAIN payloads : payloads[key] = expected[key]
  BY DEF SmokeTypeInv
<1>2. ASSUME main_pc = "ended", ~join_timed_out
      PROVE  payloads = expected /\ coordinator_queue = <<>> /\ consumer_queue = <<>>
  <2>1. /\ coordinator_queue = <<>> /\ consumer_queue = <<>> /\ forwarding = <<>>
        /\ unsent = {}
    BY <1>2 DEF EndInv, CloseInv, AfterJoin
  <2>2. \A f : ~Holds(<<>>, f)
    BY DEF Holds
  <2>3. Shard \subseteq DOMAIN slots
    BY <2>1, <2>2 DEF ShardInv
  <2>4. Key \subseteq DOMAIN payloads
    <3> SUFFICES ASSUME NEW key \in Key PROVE key \in DOMAIN payloads
      OBVIOUS
    <3>1. <<key[1], 0>> \in Shard /\ <<key[1], 1>> \in Shard
      BY DEF Key, Shard
    <3>2. CompleteRequest(key[1])
      BY <3>1, <2>3 DEF CompleteRequest
    <3>3. QED  BY <3>2, <2>1, <2>2 DEF HandoffInv
  <2>5. DOMAIN payloads = Key
    BY <2>4 DEF SmokeTypeInv
  <2>6. payloads = [key \in Key |-> expected[key]]
    BY <2>5 DEF SmokeTypeInv
  <2>7. QED  BY <2>1, <2>6 DEF expected
<1>3. QED  BY <1>1, <1>2 DEF HandoffComplete

(***************************************************************************)
(* The smoke test's verdict is about the transport, for every set of       *)
(* requests: HandoffComplete (transport_smoke.py:94-119, 175-182).         *)
(***************************************************************************)
THEOREM SmokeVerdict == SmokeSpec => []HandoffComplete
  BY SmokeInvariance, SmokeInvImplies, PTL

=============================================================================

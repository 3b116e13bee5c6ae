---------------------------- MODULE PacketBuffer ----------------------------
(***************************************************************************)
(* The store-carry-forward buffer of a router (geonet/packet_buffer.cpp).  *)
(* A packet waits until the next indication flushes the buffer; flushing a *)
(* packet may put it back (greedy forwarding without progress).            *)
(***************************************************************************)
EXTENDS Queues

CONSTANTS
  Ids,              \* packets
  Length,           \* bytes of each packet
  Capacity,         \* m_capacity
  Lifetimes,        \* lifetime bytes of the packets
  TickMs,           \* milliseconds per tick
  AgeCap            \* bound: ticks beyond every lifetime, where ages stop

LT == INSTANCE Lifetime WITH raw <- 0, stay <- 0, Stays <- {}

PacketBufferAssumption ==
  /\ Length \in [Ids -> Nat \ {0}] /\ Capacity \in Nat
  /\ TickMs \in Nat \ {0}
  /\ Lifetimes \subseteq 0..255
  /\ AgeCap \in Nat /\ \A l \in Lifetimes : LT!Decode(l) < AgeCap * TickMs

VARIABLES
  nodes,            \* m_nodes: packet, lifetime byte, ticks since it was pushed
  stored,           \* m_stored
  arrived,          \* history: the packets in the order they were first pushed
  sent              \* history: the packets in the order they were passed on

vars == <<nodes, stored, arrived, sent>>

Node(id, l) == [id |-> id, life |-> l, age |-> 0]
Bytes(s) ==
  LET sum[i \in 0..Len(s)] == IF i = 0 THEN 0 ELSE sum[i - 1] + Length[s[i].id]
  IN  sum[Len(s)]
Packets(s) == [i \in DOMAIN s |-> s[i].id]

\* Expiry::is_expired: at the very instant of its expiry a packet is alive.
is_expired(n) == LT!Decode(n.life) < n.age * TickMs
Alive(n) == ~is_expired(n)
AliveIn(s) == Kept(s, {n \in ToSet(s) : Alive(n)})
DeadIn(s) == Kept(s, {n \in ToSet(s) : is_expired(n)})

\* drop: the heads that go to make room for bytes more bytes.
Heads(ns, st, bytes) ==
  CHOOSE k \in 0..Len(ns) :
    /\ k = Len(ns) \/ Capacity - (st - Bytes(SubSeq(ns, 1, k))) >= bytes
    /\ \A j \in 0..(k - 1) : Capacity - (st - Bytes(SubSeq(ns, 1, j))) < bytes

\* push: <<nodes, bytes>> with n at the end, if it fits into an empty buffer.
PushAll(b, n) ==                                     \* seeded fault
  LET live == AliveIn(b[1])
  IN  IF Bytes(live) + Length[n.id] <= Capacity
      THEN <<Append(live, n), Bytes(live) + Length[n.id]>>
      ELSE IF Length[n.id] <= Capacity THEN <<<<n>>, Length[n.id]>> ELSE <<<<>>, 0>>
Push(b, n) ==
  LET live  == AliveIn(b[1])
      bytes == b[2] - Bytes(DeadIn(b[1]))
      k     == Heads(live, bytes, Length[n.id])
      rest  == SubSeq(live, k + 1, Len(live))
      left  == bytes - Bytes(SubSeq(live, 1, k))
  IN  IF Capacity - left >= Length[n.id]
      THEN <<Append(rest, n), left + Length[n.id]>>
      ELSE <<rest, left>>

-----------------------------------------------------------------------------
Init == nodes = <<>> /\ stored = 0 /\ arrived = <<>> /\ sent = <<>>

push(id, l) ==
  /\ id \notin ToSet(arrived)
  /\ LET b == Push(<<nodes, stored>>, Node(id, l)) IN nodes' = b[1] /\ stored' = b[2]
  /\ arrived' = Append(arrived, id)
  /\ UNCHANGED sent

(***************************************************************************)
(* flush: the nodes are swapped out first; those that are alive are        *)
(* charged their queueing time and processed in turn, which puts the stuck *)
(* ones back.                                                              *)
(***************************************************************************)
Rests == UNION {LT!ReduceLifetime(nodes[i].life, nodes[i].age * TickMs) : i \in DOMAIN nodes}
Charged == {f \in [DOMAIN nodes -> Rests] :
              \A i \in DOMAIN nodes : f[i] \in LT!ReduceLifetime(nodes[i].life, nodes[i].age * TickMs)}

\* The places of the packets of S that are alive, in their order.
Processed(S) ==
  Kept([i \in DOMAIN nodes |-> i], {i \in DOMAIN nodes : Alive(nodes[i]) /\ nodes[i].id \in S})

FlushInPlace(stuck) ==                               \* seeded fault
  /\ nodes # <<>>
  /\ sent' = sent \o Packets(Kept(nodes, {n \in ToSet(nodes) : Alive(n) /\ n.id \notin stuck}))
  /\ UNCHANGED <<nodes, stored, arrived>>
flush(stuck) ==
  /\ nodes # <<>>
  /\ \E rest \in Charged :
       LET back == Processed(stuck)
           out  == Processed(Ids \ stuck)
           pushed[j \in 0..Len(back)] ==
             IF j = 0 THEN <<<<>>, 0>> ELSE Push(pushed[j - 1], Node(nodes[back[j]].id, rest[back[j]]))
       IN  /\ nodes' = pushed[Len(back)][1] /\ stored' = pushed[Len(back)][2]
           /\ sent' = sent \o [j \in DOMAIN out |-> nodes[out[j]].id]
  /\ UNCHANGED arrived

Tick ==
  /\ nodes' = [i \in DOMAIN nodes |-> [nodes[i] EXCEPT !.age = IF @ < AgeCap THEN @ + 1 ELSE @]]
  /\ UNCHANGED <<stored, arrived, sent>>

Flush == \E stuck \in SUBSET {nodes[i].id : i \in DOMAIN nodes} : flush(stuck)

Next ==
  \/ \E id \in Ids, l \in Lifetimes : push(id, l)
  \/ Flush
  \/ Tick

Spec == Init /\ [][Next]_vars

-----------------------------------------------------------------------------
TypeOK ==
  /\ \A i \in DOMAIN nodes : nodes[i] \in [id : Ids, life : 0..255, age : 0..AgeCap]
  /\ stored \in Nat
  /\ arrived \in Seq(Ids) /\ sent \in Seq(Ids)

(***************************************************************************)
(* The byte count follows every push, head drop, expiry and re-entrant     *)
(* push of a flush, and never exceeds the capacity: free() is unsigned and *)
(* would wrap around.                                                      *)
(***************************************************************************)
Accounting == stored = Bytes(nodes) /\ stored <= Capacity

(***************************************************************************)
(* Whatever is flushed, put back or dropped, a packet is in one place: it  *)
(* is not passed on twice, nor both passed on and kept.                    *)
(***************************************************************************)
AtMostOnce == IsInjective(Packets(nodes) \o sent)

(***************************************************************************)
(* The buffer keeps the order of arrival: packets that are put back stay   *)
(* ahead of those that arrive later.                                       *)
(***************************************************************************)
Position(id) == CHOOSE i \in DOMAIN arrived : arrived[i] = id
OldestFirst == \A i, j \in DOMAIN nodes : i < j => Position(nodes[i].id) < Position(nodes[j].id)

(***************************************************************************)
(* No more is dropped than needed: a packet that a push threw out alive    *)
(* would not have fitted with those behind it and the new one.             *)
(***************************************************************************)
Thrown(i) == Alive(nodes[i]) /\ \A j \in DOMAIN nodes' : nodes'[j].id # nodes[i].id
LeastDropped ==
  [][arrived' # arrived =>
       \A i \in DOMAIN nodes : Thrown(i) =>
         Bytes(AliveIn(SubSeq(nodes, i, Len(nodes)))) + Length[Last(arrived')] > Capacity]_vars
=============================================================================

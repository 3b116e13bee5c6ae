------------------------------- MODULE Router -------------------------------
(***************************************************************************)
(* GeoNetworking routers (geonet/router.cpp) in a radio network: requests, *)
(* beacons, duplicate detection, the forwarding algorithms, store-carry-   *)
(* forward and contention, and passing packets up.                         *)
(*                                                                         *)
(* The buffers and the table are used as their own modules describe them   *)
(* (PacketBuffer, CbfPacketBuffer, LocationTable): expiry is an action     *)
(* here, and a contention timer may run out at any time.  Stations do not  *)
(* move.  A frame is one station's copy of a transmission.                 *)
(***************************************************************************)
EXTENDS Integers, Sequences, SequencesExt, FiniteSets

CONSTANTS
  Routers,
  HeardBy,            \* router -> the routers that can hear it
  Inside,           \* the routers within the destination area
  Dist,             \* router -> distance to the centre of the area
  Accurate,         \* the routers whose position is accurate (PAI)
  Packets,          \* requests: source address and sequence number
  Source,           \* packet -> its source
  SingleHop,        \* the packets requested as single-hop broadcasts
  Carried,          \* the packets with store-carry-forward set
  HopLimit,         \* hop limit of GeoBroadcasts
  AreaAlgorithm,    \* itsGnAreaForwardingAlgorithm: "SIMPLE", "CBF", "Advanced"
  NonAreaAlgorithm, \* itsGnNonAreaForwardingAlgorithm: "Greedy", "CBF"
  Sector,           \* <<sender, forwarder, router>>: within the sectorial area
  DPLLength,        \* itsGnDPLLength
  MemoryCapacity,   \* vanetzaGbcMemoryCapacity
  CbfMaxCounter,    \* vanetzaCbfMaxCounter
  Beaconing,        \* the routers that send beacons (vanetzaDisableBeaconing)
  Lossy,            \* may frames be lost and buffered packets expire?
  Forgetful,        \* may entries of the location table expire?
  RateLimited       \* may a packet data rate exceed its limit?

RouterAssumption ==
  /\ HeardBy \in [Routers -> SUBSET Routers] /\ \A r \in Routers : r \notin HeardBy[r]
  /\ Inside \subseteq Routers /\ Accurate \subseteq Routers /\ Beaconing \subseteq Routers
  /\ Dist \in [Routers -> Nat] /\ \A r, s \in Routers : Dist[r] = Dist[s] => r = s
  /\ Source \in [Packets -> Routers] /\ SingleHop \subseteq Packets /\ Carried \subseteq Packets
  /\ HopLimit \in Nat \ {0} /\ DPLLength \in Nat \ {0}
  /\ MemoryCapacity \in Nat /\ CbfMaxCounter \in Nat \ {0}

VARIABLES
  local,            \* router -> its state, see Booted
  air,              \* frames under way
  requested,        \* packets requested so far
  up,               \* history: router -> packet -> times passed up (2: more than once)
  down              \* history: router -> packet -> times passed down (3: more than twice)

vars == <<local, air, requested, up, down>>

Broadcast == "broadcast"
Beacon == "beacon"

\* known, nbr: stations with an entry, and those marked as neighbours; dpl:
\* duplicate packet list per source; memory: m_gbc_memory; scf:
\* m_bc_forward_buffer; cbf: m_cbf_buffer; out: what the current handler sends.
Booted == [known |-> {}, nbr |-> {}, dpl |-> [s \in Routers |-> <<>>], memory |-> <<>>,
           scf |-> <<>>, cbf |-> {}, out |-> <<>>]

\* A packet on its way through the router.  from: the sender of the received
\* frame, none at the source; to: the destination of that frame.
Pending(p, hop, from, to) == [p |-> p, hop |-> hop, from |-> from, to |-> to, stage |-> "select"]

-----------------------------------------------------------------------------
(***************************************************************************)
(* Forwarding: each operator takes the state s of router r and a pending   *)
(* packet, and returns the state after it.                                 *)
(***************************************************************************)
Send(s, it, dest) == [s EXCEPT !.out = Append(@, [p |-> it.p, hop |-> it.hop, dest |-> dest])]
Store(s, it, stage) == [s EXCEPT !.scf = Append(@, [it EXCEPT !.stage = stage])]
InCbf(s, p) == {c \in s.cbf : c.p = p}
Cancel(s, p) == [s EXCEPT !.cbf = @ \ InCbf(s, p)]
Contend(s, it, mute) ==
  [s EXCEPT !.cbf = @ \cup {[p |-> it.p, hop |-> it.hop, from |-> it.from, counter |-> 1, mute |-> mute]}]

\* Contending counters: 0 unless the packet is buffered.
counter(s, p) ==
  IF InCbf(s, p) = {} THEN 0 ELSE (CHOOSE c \in InCbf(s, p) : TRUE).counter

GreedyDrops(r, s, it) ==                                     \* seeded fault
  LET closer == {n \in s.nbr : Dist[n] < Dist[r]} IN
  IF closer # {} THEN Send(s, it, CHOOSE n \in closer : \A m \in closer : Dist[n] <= Dist[m])
  ELSE s
greedy_forwarding(r, s, it) ==
  LET closer == {n \in s.nbr : Dist[n] < Dist[r]} IN
  IF closer # {} THEN Send(s, it, CHOOSE n \in closer : \A m \in closer : Dist[n] <= Dist[m])
  ELSE IF it.p \in Carried THEN Store(s, it, "greedy")
  ELSE Send(s, it, Broadcast)

non_area_contention_based_forwarding(r, s, it) ==
  IF it.from = {} THEN Send(s, it, Broadcast)
  ELSE IF InCbf(s, it.p) # {} THEN Cancel(s, it.p)
  ELSE IF \A f \in it.from : f \in s.known \cap Accurate => Dist[f] > Dist[r]
  THEN Contend(s, it, FALSE)
  ELSE s

area_contention_based_forwarding(r, s, it) ==
  IF it.from = {} THEN Send(s, it, Broadcast)
  ELSE IF InCbf(s, it.p) # {} THEN Cancel(s, it.p)
  ELSE IF counter(s, it.p) >= CbfMaxCounter THEN s
  ELSE Contend(s, it, FALSE)

\* Is the router outside the sector of the one it got the buffered packet from?
outside_sectorial_contention_area(r, s, sender, forwarder) ==
  {sender, forwarder} \subseteq s.known => <<sender, forwarder, r>> \notin Sector

area_advanced_forwarding(r, s, it) ==
  IF it.from = {} THEN Send(s, it, Broadcast)
  ELSE IF InCbf(s, it.p) # {}
  THEN LET c == CHOOSE x \in InCbf(s, it.p) : TRUE IN
       IF \/ c.counter >= CbfMaxCounter
          \/ \E a \in c.from, b \in it.from : ~outside_sectorial_contention_area(r, s, a, b)
       THEN Cancel(s, it.p)
       ELSE [Cancel(s, it.p) EXCEPT !.cbf = @ \cup {[c EXCEPT !.counter = @ + 1]}]
  ELSE IF it.to = r
  THEN LET g     == greedy_forwarding(r, s, it)
           alone == g.out # s.out /\ Last(g.out).dest = Broadcast
       IN  Contend(g, it, alone)
  ELSE Contend(s, it, FALSE)

forwarding_algorithm_selection(r, s, it) ==
  IF r \in Inside
  THEN IF AreaAlgorithm = "SIMPLE" THEN Send(s, it, Broadcast)
       ELSE IF AreaAlgorithm = "CBF" THEN area_contention_based_forwarding(r, s, it)
       ELSE area_advanced_forwarding(r, s, it)
  ELSE IF \E f \in it.from : f \in s.known \cap Accurate \cap Inside THEN s
  ELSE IF NonAreaAlgorithm = "Greedy" THEN greedy_forwarding(r, s, it)
  ELSE non_area_contention_based_forwarding(r, s, it)

\* PacketBuffer::flush: everything is taken out and processed in its order.
Resume(r, s, it) ==
  IF it.stage = "shb" THEN Send(s, it, Broadcast)
  ELSE IF it.stage = "greedy" THEN greedy_forwarding(r, s, it)
  ELSE forwarding_algorithm_selection(r, s, it)
flush_broadcast_forwarding_buffer(r, s) ==
  FoldLeft(LAMBDA t, it : Resume(r, t, it), [s EXCEPT !.scf = <<>>], s.scf)

CarryOrForward(r, s, it) ==
  IF it.p \in Carried /\ s.nbr = {}
  THEN Store(s, it, IF it.p \in SingleHop THEN "shb" ELSE "select")
  ELSE IF it.p \in SingleHop THEN Send(s, it, Broadcast)
  ELSE forwarding_algorithm_selection(r, s, it)

-----------------------------------------------------------------------------
(***************************************************************************)
(* Reception.                                                              *)
(***************************************************************************)
Heard(s, f) == [s EXCEPT !.known = @ \cup {f.from}, !.nbr = @ \cup {f.from}]

Detects(r) == IF r \in Inside THEN AreaAlgorithm = "SIMPLE" ELSE NonAreaAlgorithm = "Greedy"
Listed(l, p) == IF Len(l) < DPLLength THEN Append(l, p) ELSE Append(Tail(l), p)
detect_duplicate_packet(r, s, p) == Detects(r) /\ p \in ToSet(s.dpl[Source[p]])

\* The entry of the source: created if there is none, then not a neighbour.
Learn(r, s, p) ==
  LET so == Source[p] IN
  [s EXCEPT !.known = @ \cup {so},
            !.nbr = IF so \in s.known THEN @ ELSE @ \ {so},
            !.dpl[so] = IF Detects(r) THEN Listed(@, p) ELSE @]

remember(l, p) ==
  IF p \in ToSet(l) THEN Append(Remove(l, p), p)
  ELSE Append(IF Len(l) >= MemoryCapacity THEN Tail(l) ELSE l, p)

ForgetMemory(r, s, p) == <<r \in Inside, s>>                 \* seeded fault
\* decide_pass_up: the decision and the state after it.
decide_pass_up(r, s, p) ==
  IF MemoryCapacity = 0 \/ r \notin Inside THEN <<r \in Inside, s>>
  ELSE <<p \notin ToSet(s.memory), [s EXCEPT !.memory = remember(@, p)]>>

ForwardSameHop(f, limited) ==                                \* seeded fault
  IF f.hop <= 1 \/ limited THEN {} ELSE {Pending(f.p, f.hop, {f.from}, f.dest)}
\* The copy to forward, none if its hops are used up or a data rate is exceeded.
ForwardingDuplicate(f, limited) ==
  IF f.hop <= 1 \/ limited THEN {} ELSE {Pending(f.p, f.hop - 1, {f.from}, f.dest)}

\* process_extended of a GeoBroadcast that is no duplicate: the pass up
\* decision and the state after it.
Process(r, s, f, limited) ==
  LET learnt == Learn(r, s, f.p)
      copies == ForwardingDuplicate(f, limited)
      fwd    == IF copies = {} THEN learnt
                ELSE CarryOrForward(r, learnt, CHOOSE c \in copies : TRUE)
  IN  decide_pass_up(r, fwd, f.p)

-----------------------------------------------------------------------------
Init ==
  /\ local = [r \in Routers |-> Booted]
  /\ air = {} /\ requested = {}
  /\ up = [r \in Routers |-> [p \in Packets |-> 0]]
  /\ down = [r \in Routers |-> [p \in Packets |-> 0]]

Frames(r, o) == {[p |-> o.p, hop |-> o.hop, from |-> r, dest |-> o.dest, to |-> n] :
                   n \in {m \in HeardBy[r] : o.dest \in {Broadcast, m}}}

Cap(n, most) == IF n < most THEN n ELSE most
Times(out, p) == Cardinality({i \in DOMAIN out : out[i].p = p})

\* What the handler has put into out goes to the link layer.
PassDown(r, s, rest) ==
  /\ local' = [local EXCEPT ![r] = [s EXCEPT !.out = <<>>]]
  /\ air' = rest \cup UNION {Frames(r, s.out[i]) : i \in DOMAIN s.out}
  /\ down' = [down EXCEPT ![r] = [p \in Packets |-> Cap(@[p] + Times(s.out, p), 3)]]

PassUp(r, p, passed) == up' = [up EXCEPT ![r][p] = IF passed THEN Cap(@ + 1, 2) ELSE @]

request(p) ==
  LET r == Source[p] IN
  /\ p \notin requested
  /\ requested' = requested \cup {p}
  /\ PassDown(r, CarryOrForward(r, local[r],
                   Pending(p, IF p \in SingleHop THEN 1 ELSE HopLimit, {}, Broadcast)), air)
  /\ UNCHANGED up

on_beacon_timer_expired(r) ==
  /\ r \in Beaconing
  /\ air' = air \cup Frames(r, [p |-> Beacon, hop |-> 1, dest |-> Broadcast])
  /\ UNCHANGED <<local, requested, up, down>>

\* The link layer hands frame f to router f.to.
IndicateBeacon(f) ==
  /\ f.p = Beacon
  /\ PassDown(f.to, Heard(flush_broadcast_forwarding_buffer(f.to, local[f.to]), f), air \ {f})
  /\ UNCHANGED <<requested, up>>

IndicateSingleHop(f) ==
  /\ f.p \in SingleHop
  /\ PassDown(f.to, Heard(flush_broadcast_forwarding_buffer(f.to, local[f.to]), f), air \ {f})
  /\ PassUp(f.to, f.p, TRUE)
  /\ UNCHANGED requested

IndicateGeoBroadcast(f) ==
  LET r == f.to
      s == flush_broadcast_forwarding_buffer(r, local[r])
  IN  /\ f.p \in Packets \ SingleHop
      /\ \E limited \in IF RateLimited THEN BOOLEAN ELSE {FALSE} :
           LET dup    == detect_duplicate_packet(r, s, f.p)
               result == IF dup THEN <<FALSE, s>> ELSE Process(r, s, f, limited)
           IN  PassDown(r, result[2], air \ {f}) /\ PassUp(r, f.p, result[1])
      /\ UNCHANGED requested

\* A contention timer runs out; a mute packet is not sent.
CbfTimeout(r, c) ==
  /\ c \in local[r].cbf
  /\ PassDown(r, LET s == Cancel(local[r], c.p)
                 IN  IF c.mute THEN s ELSE Send(s, c, Broadcast), air)
  /\ UNCHANGED <<requested, up>>

Lose(f) == Lossy /\ air' = air \ {f} /\ UNCHANGED <<local, requested, up, down>>

\* The lifetime of a buffered packet runs out.
Outlived(r) ==
  /\ Lossy
  /\ \/ \E i \in DOMAIN local[r].scf : local' = [local EXCEPT ![r].scf = RemoveAt(@, i)]
     \/ \E c \in local[r].cbf : local' = [local EXCEPT ![r].cbf = @ \ {c}]
  /\ UNCHANGED <<air, requested, up, down>>

\* An entry of the location table expires, with its duplicate packet list.
Expire(r, n) ==
  /\ Forgetful /\ n \in local[r].known
  /\ local' = [local EXCEPT ![r].known = @ \ {n}, ![r].nbr = @ \ {n}, ![r].dpl[n] = <<>>]
  /\ UNCHANGED <<air, requested, up, down>>

Timeout == \E r \in Routers : \E c \in local[r].cbf : CbfTimeout(r, c)
Beacons == \E r \in Routers : on_beacon_timer_expired(r)

Next ==
  \/ \E p \in Packets : request(p)
  \/ Beacons
  \/ \E f \in air : IndicateBeacon(f)
  \/ \E f \in air : IndicateSingleHop(f)
  \/ \E f \in air : IndicateGeoBroadcast(f)
  \/ Timeout
  \/ \E f \in air : Lose(f)
  \/ \E r \in Routers : Outlived(r)
  \/ \E r, n \in Routers : Expire(r, n)

Spec == Init /\ [][Next]_vars

(***************************************************************************)
(* The beacon timer is rescheduled whenever it fires, contention timers    *)
(* run out and, unless frames may be lost, what is sent is received.       *)
(***************************************************************************)
Receive(f) == IndicateBeacon(f) \/ IndicateSingleHop(f) \/ IndicateGeoBroadcast(f)
AnyFrame == [p : Packets \cup {Beacon}, hop : 1..HopLimit, from : Routers, dest : Routers \cup {Broadcast}, to : Routers]
Fairness ==
  /\ \A r \in Routers : WF_vars(on_beacon_timer_expired(r))
  /\ \A r \in Routers : WF_vars(\E c \in local[r].cbf : CbfTimeout(r, c))
  /\ \A r, n \in Routers : \A k \in Packets \cup {Beacon} :
       WF_vars(\E f \in air : f.to = r /\ f.from = n /\ f.p = k /\ (Receive(f) \/ Lose(f)))
FairSpec == Spec /\ Fairness

-----------------------------------------------------------------------------
TypeOK ==
  /\ \A r \in Routers :
       /\ local[r].nbr \subseteq local[r].known /\ local[r].known \subseteq Routers
       /\ local[r].out = <<>>
       /\ \A s \in Routers : local[r].dpl[s] \in Seq(Packets) /\ Len(local[r].dpl[s]) <= DPLLength
       /\ local[r].memory \in Seq(Packets) /\ Len(local[r].memory) <= MemoryCapacity
       /\ \A c, d \in local[r].cbf : c.p = d.p => c = d
  /\ air \subseteq AnyFrame

(***************************************************************************)
(* No copy of a packet is further from its source than its hop limit       *)
(* allows, in the air or in a buffer: a router that is n hops away sends   *)
(* it with at most HopLimit - n hops left.                                 *)
(***************************************************************************)
Around(p) ==
  LET ball[n \in Nat] == IF n = 0 THEN {Source[p]}
                         ELSE ball[n - 1] \cup UNION {HeardBy[r] : r \in ball[n - 1]}
  IN  ball
ReachBounded ==
  /\ \A f \in air : f.p \in Packets \ SingleHop => f.from \in Around(f.p)[HopLimit - f.hop]
  /\ \A r \in Routers :
       /\ \A c \in local[r].cbf : r \in Around(c.p)[HopLimit - c.hop]
       /\ \A i \in DOMAIN local[r].scf : LET it == local[r].scf[i] IN
            it.p \notin SingleHop => r \in Around(it.p)[HopLimit - it.hop]

(***************************************************************************)
(* Where duplicates are detected, a router sends a packet once, from       *)
(* whichever buffer it leaves, and the source, which takes the first echo  *)
(* of its own packet for a new one, at most twice.                         *)
(***************************************************************************)
SentOnce == \A r \in Routers, p \in Packets : down[r][p] <= IF r = Source[p] THEN 2 ELSE 1

(***************************************************************************)
(* No packet is passed up twice, whichever copies of it arrive.            *)
(***************************************************************************)
PassedUpOnce == \A r \in Routers, p \in Packets : up[r][p] <= 1

(***************************************************************************)
(* A flood ends: from some time on no copy of a packet is under way or     *)
(* contends any more.                                                      *)
(***************************************************************************)
Quiet == (\A f \in air : f.p = Beacon) /\ \A r \in Routers : local[r].cbf = {}
FloodEnds == <>[]Quiet

(***************************************************************************)
(* A packet that is requested gets to every router in the area, over       *)
(* routers outside that do not know their neighbours yet.                  *)
(***************************************************************************)
Delivered ==
  \A p \in Packets \ SingleHop :
    p \in requested ~> \A r \in Inside \ {Source[p]} : up[r][p] > 0
=============================================================================

---------------------------- MODULE FlowControl -----------------------------
(***************************************************************************)
(* The gatekeeper of decentralised congestion control (dcc/flow_control)   *)
(* with the transmit rate control it asks: the interval of a DCC state     *)
(* machine (StateMachineBudget) for the profiles DP1 to DP3 and bursts     *)
(* (BurstBudget) for DP0, or one interval for all of them.                 *)
(*                                                                         *)
(* There is a queue for each profile, as each maps onto an access category *)
(* of its own (DP0 to DP3 in falling priority).                            *)
(***************************************************************************)
EXTENDS Queues

CONSTANTS
  Packets,
  Profile,          \* packet -> DCC profile
  Lifetime,         \* packet -> lifetime
  Bursty,           \* BurstyTransmitRateControl, else SingleReactive
  Intervals,        \* the transmission intervals of the state machine
  QueueLength,      \* m_queue_length, 0: unlimited
  BurstMessages, BurstDuration, BurstPeriod,
  Punctual,         \* are triggers never late?
  Rescheduling,     \* does the user call reschedule?
  LastRequest,      \* bound on the time of requests
  MaxTime           \* bound on the time

FlowControlAssumption ==
  /\ Profile \in [Packets -> 0..3] /\ Lifetime \in [Packets -> Nat]
  /\ Intervals \subseteq Nat \ {0} /\ Intervals # {}
  /\ QueueLength \in Nat /\ LastRequest \in Nat /\ MaxTime \in Nat
  /\ BurstMessages \in Nat \ {0} /\ BurstDuration \in Nat \ {0} /\ BurstPeriod \in Nat
  /\ BurstDuration < BurstPeriod

VARIABLES
  now,
  fc,               \* the state of FlowControl and of its rate control, see Created
  interval,         \* transmission interval of the state machine
  log,              \* history: the packets transmitted, in this order
  dropped           \* history: the packets dropped

vars == <<now, fc, interval, log, dropped>>

\* queues; triggers: the times for which trigger() is scheduled; last: the last
\* transmission of the state machine's budget; burst: m_messages.
Created == [queues |-> [ac \in 0..3 |-> <<>>], triggers |-> <<>>, last |-> {}, burst |-> <<>>]

-----------------------------------------------------------------------------
(***************************************************************************)
(* Rate control.                                                           *)
(***************************************************************************)
fsm_delay(s) == IF s.last = {} THEN 0 ELSE LET next == (CHOOSE t \in s.last : TRUE) + interval IN
                IF next < now THEN 0 ELSE next - now

Over(b) == b # <<>> /\ Head(b) + BurstPeriod < now
burst_delay(s) ==
  LET b == s.burst IN
  IF b = <<>> \/ Over(b) \/ (Head(b) + BurstDuration > now /\ Len(b) < BurstMessages) THEN 0
  ELSE Head(b) + BurstPeriod - now

InBurst(p) == Bursty /\ Profile[p] = 0
delay(s, p) == IF InBurst(p) THEN burst_delay(s) ELSE fsm_delay(s)

\* A finished burst is cleared by delay(), which every transmission calls first;
\* the circular buffer overwrites its first element when it is full.
Noted(b) ==
  LET current == IF Over(b) THEN <<>> ELSE b
  IN  Append(IF Len(current) = BurstMessages THEN Tail(current) ELSE current, now)
notify(s, p) == IF InBurst(p) THEN [s EXCEPT !.burst = Noted(@)] ELSE [s EXCEPT !.last = {now}]

-----------------------------------------------------------------------------
(***************************************************************************)
(* FlowControl.                                                            *)
(***************************************************************************)
transmit(s, p) == [notify(s, p) EXCEPT !.log = Append(@, p)]

drop_expired(s) ==
  LET late == {e \in UNION {ToSet(s.queues[ac]) : ac \in 0..3} : e.expiry < now}
  IN  [s EXCEPT !.queues = [ac \in 0..3 |-> Kept(s.queues[ac], ToSet(s.queues[ac]) \ late)],
                !.dropped = @ \cup {e.p : e \in late}]

empty(s) == \A ac \in 0..3 : s.queues[ac] = <<>>

\* nothing of equal or higher priority is queued, and the rate allows it
transmit_immediately(s, p) ==
  (\A ac \in 0..3 : ac <= Profile[p] => s.queues[ac] = <<>>) /\ delay(s, p) = 0

\* the queue whose first packet may go first, the one with the higher priority
\* of several: none if all are empty
next_queue(s) ==
  LET wait(ac) == delay(s, Head(s.queues[ac]).p)
      full == {ac \in 0..3 : s.queues[ac] # <<>>}
  IN  {ac \in full : \A other \in full : wait(ac) < wait(other) \/ (wait(ac) = wait(other) /\ ac <= other)}

Scheduled(q, t) == Behind(q, {x \in ToSet(q) : x <= t}, t)
schedule_trigger(s, p) == [s EXCEPT !.triggers = Scheduled(@, now + delay(s, p))]

EnqueueUnscheduled(s, p) ==                                  \* seeded fault
  LET ac == Profile[p] IN
  [s EXCEPT !.queues[ac] = Append(@, [p |-> p, expiry |-> now + Lifetime[p]])]
\* How many packets have to give way to p.
Overflow(q) == IF QueueLength > 0 /\ Len(q) >= QueueLength THEN Len(q) - QueueLength + 1 ELSE 0
enqueue(s, p) ==
  LET ac  == Profile[p]
      n   == Overflow(s.queues[ac])
      out == {s.queues[ac][i].p : i \in 1..n}
      q   == Append(SubSeq(s.queues[ac], n + 1, Len(s.queues[ac])), [p |-> p, expiry |-> now + Lifetime[p]])
      s2  == [s EXCEPT !.queues[ac] = q, !.dropped = @ \cup out]
  IN  IF empty(s) THEN schedule_trigger(s2, p) ELSE s2

TransmitNewest(s) ==                                         \* seeded fault
  LET next == next_queue(s) IN
  IF next = {} THEN s
  ELSE LET ac == CHOOSE a \in next : TRUE
       IN  transmit([s EXCEPT !.queues[ac] = Front(@)], Last(s.queues[ac]).p)
\* dequeue, notify and transmit
TransmitNext(s) ==
  LET next == next_queue(s) IN
  IF next = {} THEN s
  ELSE LET ac == CHOOSE a \in next : TRUE
       IN  transmit([s EXCEPT !.queues[ac] = Tail(@)], Head(s.queues[ac]).p)
ScheduleNext(s) ==
  LET next == next_queue(s) IN
  IF next = {} THEN s
  ELSE LET ac == CHOOSE a \in next : TRUE IN schedule_trigger(s, Head(s.queues[ac]).p)

-----------------------------------------------------------------------------
\* The only element of states is the new state.
Becomes(states) ==
  \E s \in states :
    /\ fc' = [queues |-> s.queues, triggers |-> s.triggers, last |-> s.last, burst |-> s.burst]
    /\ log' = s.log /\ dropped' = s.dropped
State == [queues |-> fc.queues, triggers |-> fc.triggers, last |-> fc.last, burst |-> fc.burst,
          log |-> log, dropped |-> dropped]

Init ==
  /\ now = 0 /\ interval \in Intervals
  /\ fc = Created
  /\ log = <<>> /\ dropped = {}

Queued == {e.p : e \in UNION {ToSet(fc.queues[ac]) : ac \in 0..3}}
Sent == ToSet(log)
Fresh == Packets \ (Queued \cup Sent \cup dropped)

request(p) ==
  /\ p \in Fresh /\ now <= LastRequest
  /\ Becomes({IF transmit_immediately(s, p) THEN transmit(s, p) ELSE enqueue(s, p) : s \in {drop_expired(State)}})
  /\ UNCHANGED <<now, interval>>

TriggerOnce ==                                               \* seeded fault
  /\ fc.triggers # <<>> /\ Head(fc.triggers) <= now
  /\ Becomes({TransmitNext(s) : s \in {drop_expired([State EXCEPT !.triggers = Tail(@)])}})
  /\ UNCHANGED <<now, interval>>
trigger ==
  /\ fc.triggers # <<>> /\ Head(fc.triggers) <= now
  /\ Becomes({ScheduleNext(t) : t \in {TransmitNext(s) : s \in {drop_expired([State EXCEPT !.triggers = Tail(@)])}}})
  /\ UNCHANGED <<now, interval>>

reschedule ==
  /\ Rescheduling /\ next_queue(State) # {}
  /\ Becomes({ScheduleNext([State EXCEPT !.triggers = <<>>])})
  /\ UNCHANGED <<now, interval>>

\* The channel load has changed (StateMachine::update).
update ==
  /\ interval' \in Intervals /\ interval' # interval
  /\ UNCHANGED <<now, fc, log, dropped>>

Tick ==
  /\ now < MaxTime /\ now' = now + 1
  /\ IF Punctual /\ fc.triggers # <<>> THEN Head(fc.triggers) > now ELSE TRUE
  /\ UNCHANGED <<fc, interval, log, dropped>>

Next == (\E p \in Packets : request(p)) \/ trigger \/ reschedule \/ update \/ Tick

Spec == Init /\ [][Next]_vars
\* Time goes on, and the runtime calls what is due.
FairSpec == Spec /\ WF_vars(Tick) /\ WF_vars(trigger)

-----------------------------------------------------------------------------
TypeOK ==
  /\ now \in 0..MaxTime /\ interval \in Intervals
  /\ \A ac \in 0..3 : \A i \in DOMAIN fc.queues[ac] : Profile[fc.queues[ac][i].p] = ac
  /\ \A ac \in 0..3 : QueueLength > 0 => Len(fc.queues[ac]) <= QueueLength
  /\ Len(fc.burst) <= BurstMessages

(***************************************************************************)
(* A queue never waits in vain: as long as a packet is queued, a trigger   *)
(* is scheduled, although only the first packet schedules one and packets  *)
(* expire under it.                                                        *)
(***************************************************************************)
NoStall == Queued # {} => fc.triggers # <<>>

(***************************************************************************)
(* Every packet is in one place: queued, transmitted or dropped, and       *)
(* transmitted at most once.                                               *)
(***************************************************************************)
OnePlace ==
  /\ Queued \cap Sent = {} /\ Queued \cap dropped = {} /\ Sent \cap dropped = {}
  /\ \A i, j \in DOMAIN log : log[i] = log[j] => i = j

(***************************************************************************)
(* Within a profile packets leave in the order in which they came: as long *)
(* as a packet is queued, one that came after it or is still to come is    *)
(* neither transmitted nor put before it.  Neither what is transmitted at  *)
(* once nor what a trigger takes from the queue overtakes it, whatever     *)
(* expires between them or has to give way in a full queue.                *)
(***************************************************************************)
\* q is queued, and p of its profile has come after it or is still to come.
Ahead(q, p) ==
  LET queue == fc.queues[Profile[q]] IN
  /\ Profile[p] = Profile[q]
  /\ \E i \in DOMAIN queue : /\ queue[i].p = q
                             /\ p \in Fresh \/ \E j \in DOMAIN queue : i < j /\ queue[j].p = p
InOrder == [][\A p, q \in Packets : Ahead(q, p) /\ q \in Queued' => Ahead(q, p)' \/ p \in dropped']_vars

(***************************************************************************)
(* Nothing is transmitted after its lifetime: a packet that is transmitted *)
(* from a queue has not expired.                                           *)
(***************************************************************************)
NeverTooLate ==
  [][\A ac \in 0..3 : \A i \in DOMAIN fc.queues[ac] : LET e == fc.queues[ac][i] IN
       e.p \in ToSet(log') => now <= e.expiry]_vars

(***************************************************************************)
(* Every packet that is accepted is transmitted or dropped in the end.     *)
(***************************************************************************)
EveryPacketLeaves == \A p \in Packets : p \in Queued ~> p \in Sent \cup dropped
=============================================================================

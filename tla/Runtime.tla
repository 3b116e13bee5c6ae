------------------------------ MODULE Runtime -------------------------------
(***************************************************************************)
(* The event loop of socktap: ManualRuntime (common/manual_runtime.cpp),   *)
(* the TimeTrigger that drives it from the io_service, and the callbacks   *)
(* that live in it: beacons and single-hop requests of the Router, the     *)
(* Repeater, the CAM timer and the position updates of RouterContext.      *)
(*                                                                         *)
(* Handing a packet to the link layer triggers the runtime again           *)
(* (dcc_passthrough.cpp), so callbacks run inside callbacks.  Each thread  *)
(* has a stack of calls that are not finished yet; every action runs the   *)
(* topmost one up to the next call of trigger().                           *)
(***************************************************************************)
EXTENDS Queues

CONSTANTS
  Threads,            \* the threads that use the runtime
  Io,                 \* the thread of io_service::run
  PositionPeriod,     \* one second
  BeaconPeriod,       \* itsGnBeaconServiceRetransmitTimer
  Jitters,            \* jitter added to it, up to itsGnBeaconServiceMaxJitter
  CamInterval,        \* periodicity of CAMs, 0: none
  Repetitions,        \* repetitions of the requests: interval and maximum
  MinInterval,        \* itsGnMinPacketRepetitionInterval
  Beaconing,          \* ~vanetzaDisableBeaconing
  RequireFix,         \* require_position_fix
  Accuracies,         \* the possible position accuracy indicators
  Resets,             \* may the runtime be reset?
  MaxRequests,        \* bound on the requests
  MaxClock            \* bound on the time

RuntimeAssumption ==
  /\ Io \in Threads
  /\ PositionPeriod \in Nat \ {0} /\ BeaconPeriod \in Nat \ {0} /\ MinInterval \in Nat \ {0}
  /\ CamInterval \in Nat /\ MaxRequests \in Nat /\ MaxClock \in Nat
  /\ Jitters \subseteq Nat /\ Jitters # {}
  /\ Repetitions \subseteq [interval : Nat, maximum : Nat]
  /\ Accuracies \subseteq BOOLEAN /\ Accuracies # {}

VARIABLES
  clock,              \* the system clock
  rt,                 \* the state the threads share, see Started
  stack,              \* thread -> calls under way, the innermost one last
  requests            \* requests made so far

vars == <<clock, rt, stack, requests>>

-----------------------------------------------------------------------------
(***************************************************************************)
(* ManualRuntime.  The operators take and return a state s: that of the    *)
(* runtime (now, queue), the io timer (armed), whether packets may flow,   *)
(* and the stack of the thread.  Positions themselves are left out.        *)
(***************************************************************************)
Scope(cb) == IF cb.kind = "beacon" THEN "router" ELSE
             IF cb.kind = "repeat" THEN "repeater" ELSE
             IF cb.kind = "cam" THEN "application" ELSE "none"

\* ordered_non_unique: behind those with the same deadline
Insert(q, e) == Behind(q, {x \in ToSet(q) : x.at <= e.at}, e)
schedule(s, d, cb) == [s EXCEPT !.queue = Insert(@, [at |-> s.now + d, cb |-> cb])]
CancelFirst(s, scope) ==                                     \* seeded fault
  IF s.queue # <<>> /\ Scope(Head(s.queue).cb) = scope THEN [s EXCEPT !.queue = Tail(@)] ELSE s
cancel(s, scope) == [s EXCEPT !.queue = Kept(@, {x \in ToSet(@) : Scope(x.cb) # scope})]

Push(s, frame) == [s EXCEPT !.stack = Append(@, frame)]
Pop(s) == [s EXCEPT !.stack = Front(@)]

\* TimeTrigger::schedule up to the first callback
Triggered(s) == Push([s EXCEPT !.now = clock], [f |-> "trigger"])

-----------------------------------------------------------------------------
(***************************************************************************)
(* The router and its users.                                               *)
(***************************************************************************)
BeaconCb == [kind |-> "beacon", rep |-> {}]
CamCb == [kind |-> "cam", rep |-> {}]
PositionCb == [kind |-> "position", rep |-> {}]
RepeatCb(rep) == [kind |-> "repeat", rep |-> {rep}]

reset_beacon_timer(s, jitter) == schedule(cancel(s, "router"), BeaconPeriod + jitter, BeaconCb)

\* The link layer gets the packet, and the beacon timer is reset, once the
\* nested trigger is through.
pass_down(s) ==
  LET sending == Push(s, [f |-> "pass_down"])
  IN  IF s.flow THEN Triggered(sending) ELSE sending

has_further_repetition(rep) == rep.left > 0 /\ rep.interval > 0 /\ rep.left >= rep.interval
decrement_by_one(rep) ==
  [rep EXCEPT !.left = IF rep.left > 0 /\ rep.interval > 0 /\ rep.left > rep.interval
                       THEN rep.left - rep.interval ELSE 0]
\* Repeater::add
add(s, rep) == IF has_further_repetition(rep) THEN schedule(s, rep.interval, RepeatCb(rep)) ELSE s

\* Router::request of a single-hop broadcast; rep: its repetition, if any
request(s, rep) ==
  IF \E r \in rep : r.interval < MinInterval THEN s
  ELSE pass_down(IF rep = {} THEN s ELSE add(s, CHOOSE r \in rep : TRUE))

-----------------------------------------------------------------------------
\* After main(): RouterContext has set its position and sent its first beacon
\* without a link layer, and armed the timer; the CAM timer came after that.
Started(jitter) ==
  LET s == [now |-> 0, queue |-> <<>>, armed |-> {}, flow |-> TRUE, stack |-> <<>>]
      router == schedule(schedule(s, PositionPeriod, PositionCb), BeaconPeriod + jitter, BeaconCb)
      armed == [router EXCEPT !.armed = {Head(router.queue).at}]
  IN  IF CamInterval = 0 THEN armed ELSE schedule(armed, CamInterval, CamCb)

WithStack(t) == [now |-> rt.now, queue |-> rt.queue, armed |-> rt.armed, flow |-> rt.flow, stack |-> stack[t]]
Becomes(t, s) ==
  /\ rt' = [now |-> s.now, queue |-> s.queue, armed |-> s.armed, flow |-> s.flow]
  /\ stack' = [stack EXCEPT ![t] = s.stack]

Init ==
  /\ clock = 0 /\ requests = 0
  /\ \E jitter \in Jitters, pai \in Accuracies : LET s == Started(jitter) IN
       rt = [now |-> s.now, queue |-> s.queue, armed |-> s.armed, flow |-> RequireFix => pai]
  /\ stack = [t \in Threads |-> <<>>]

Idle(t) == stack[t] = <<>>
In(t, f) == stack[t] # <<>> /\ Last(stack[t]).f = f

\* The callback that thread t calls next, from the loop of trigger() or that
\* of reset(), and the state once it is taken off the queue.
Callbacks(t) ==
  IF In(t, "trigger") /\ rt.queue # <<>> /\ Head(rt.queue).at <= rt.now THEN {Head(rt.queue)}
  ELSE IF In(t, "reset") /\ Last(stack[t]).rest # <<>> THEN {Head(Last(stack[t]).rest)}
  ELSE {}
Taken(t) ==
  IF In(t, "trigger") THEN [WithStack(t) EXCEPT !.queue = Tail(@)]
  ELSE [WithStack(t) EXCEPT !.stack[Len(stack[t])].rest = Tail(@)]

on_beacon_timer_expired(t) ==
  \E e \in Callbacks(t) :
    /\ e.cb.kind = "beacon"
    /\ Becomes(t, IF Beaconing THEN pass_down(Taken(t)) ELSE Taken(t))
    /\ UNCHANGED <<clock, requests>>

\* CamApplication::on_timer
on_timer(t) ==
  \E e \in Callbacks(t) :
    /\ e.cb.kind = "cam"
    /\ Becomes(t, request(schedule(Taken(t), CamInterval, CamCb), {}))
    /\ UNCHANGED <<clock, requests>>

\* Repeater::trigger: a step less and the delay of the trigger off the maximum
Reduced(s, e, rep) == LET less == decrement_by_one(rep) IN [less EXCEPT !.left = @ - (s.now - e.at)]
Repeat(t) ==
  \E e \in Callbacks(t) : \E rep \in e.cb.rep :
    LET s == Taken(t)
        next == Reduced(s, e, rep)
    IN  /\ Becomes(t, request(s, IF has_further_repetition(next) THEN {next} ELSE {}))
        /\ UNCHANGED <<clock, requests>>

update_position_vector(t) ==
  \E e \in Callbacks(t), pai \in Accuracies :
    /\ e.cb.kind = "position"
    /\ Becomes(t, Triggered(Push(schedule(Taken(t), PositionPeriod, PositionCb),
                                 [f |-> "position", pai |-> pai])))
    /\ UNCHANGED <<clock, requests>>

\* The link layer has the packet.
PassedDown(t) ==
  /\ In(t, "pass_down")
  /\ \E jitter \in Jitters : Becomes(t, reset_beacon_timer(Pop(WithStack(t)), jitter))
  /\ UNCHANGED <<clock, requests>>

update_packet_flow(t) ==
  /\ In(t, "position")
  /\ Becomes(t, [Pop(WithStack(t)) EXCEPT !.flow = RequireFix => Last(stack[t]).pai])
  /\ UNCHANGED <<clock, requests>>

Armed(s) == IF s.queue = <<>> THEN {} ELSE {Head(s.queue).at}
\* Nothing is due any more: TimeTrigger::schedule arms the io timer.
Rearm(t) ==
  /\ In(t, "trigger") /\ Callbacks(t) = {}
  /\ LET s == WithStack(t) IN Becomes(t, [Pop(s) EXCEPT !.armed = Armed(s)])
  /\ UNCHANGED <<clock, requests>>

on_timeout ==
  /\ Idle(Io) /\ \E at \in rt.armed : at <= clock
  /\ Becomes(Io, Triggered([WithStack(Io) EXCEPT !.armed = {}]))
  /\ UNCHANGED <<clock, requests>>

\* RouterContext::indicate brings the clock up to date before the router
\* handles a packet, and again after that.
indicate ==
  /\ Idle(Io)
  /\ Becomes(Io, Triggered(Push(WithStack(Io), [f |-> "indicate"])))
  /\ UNCHANGED <<clock, requests>>
Indicated ==
  /\ In(Io, "indicate")
  /\ Becomes(Io, Triggered(Pop(WithStack(Io))))
  /\ UNCHANGED <<clock, requests>>

\* An application requests a transmission (Application::request): on the io
\* thread, or from Mqtt::on_message on that of the MQTT client.
Request(t) ==
  /\ Idle(t) /\ requests < MaxRequests
  /\ requests' = requests + 1
  /\ \/ Becomes(t, request(WithStack(t), {}))
     \/ \E r \in Repetitions :
          Becomes(t, request(WithStack(t),
            {[interval |-> r.interval, left |-> r.maximum, until |-> rt.now + r.maximum]}))
  /\ UNCHANGED clock

\* ManualRuntime::reset calls every callback once.
reset ==
  /\ Resets /\ Idle(Io)
  /\ Becomes(Io, Push([WithStack(Io) EXCEPT !.now = clock, !.queue = <<>>],
                      [f |-> "reset", rest |-> rt.queue]))
  /\ UNCHANGED <<clock, requests>>
ResetDone ==
  /\ In(Io, "reset") /\ Callbacks(Io) = {}
  /\ Becomes(Io, Pop(WithStack(Io)))
  /\ UNCHANGED <<clock, requests>>

Tick == clock < MaxClock /\ clock' = clock + 1 /\ UNCHANGED <<rt, stack, requests>>

Next ==
  \/ \E t \in Threads :
       \/ on_beacon_timer_expired(t)
       \/ on_timer(t)
       \/ Repeat(t)
       \/ update_position_vector(t)
       \/ PassedDown(t)
       \/ update_packet_flow(t)
       \/ Rearm(t)
       \/ Request(t)
  \/ on_timeout
  \/ indicate
  \/ Indicated
  \/ reset
  \/ ResetDone
  \/ Tick

Spec == Init /\ [][Next]_vars

-----------------------------------------------------------------------------
TypeOK ==
  /\ rt.now \in 0..MaxClock /\ clock \in 0..MaxClock
  /\ Cardinality(rt.armed) <= 1
  /\ \A i, j \in DOMAIN rt.queue : i < j => rt.queue[i].at <= rt.queue[j].at
  /\ requests \in 0..MaxRequests

(***************************************************************************)
(* The beacon timer is never lost and never doubled, although callbacks    *)
(* that reset it run inside each other: at most one beacon is scheduled at *)
(* any time, one as soon as no packet is being passed down.                *)
(***************************************************************************)
Outstanding(scope) == Cardinality({i \in DOMAIN rt.queue : Scope(rt.queue[i].cb) = scope})
Under(f) == \E t \in Threads : \E i \in DOMAIN stack[t] : stack[t][i].f = f
Sending == Under("pass_down")
Resetting == Under("reset")
OneBeacon ==
  /\ Outstanding("router") <= 1
  /\ Beaconing /\ ~Sending /\ ~Resetting => Outstanding("router") = 1

(***************************************************************************)
(* CAMs and position updates reschedule themselves before they trigger the *)
(* runtime again: exactly one of each is scheduled, however deep callbacks *)
(* are nested.                                                             *)
(***************************************************************************)
TimersKept ==
  ~Resetting =>
  /\ Outstanding("application") = (IF CamInterval = 0 THEN 0 ELSE 1)
  /\ Outstanding("none") = 1

(***************************************************************************)
(* Whenever the io thread waits, its timer is set for the first callback   *)
(* or earlier: nothing that is scheduled waits for a packet to arrive.     *)
(* Only the first CAM, scheduled by main() without arming the timer, may   *)
(* have to wait for the first position update.                             *)
(***************************************************************************)
ArmedInTime ==
  (\A t \in Threads : Idle(t)) /\ rt.queue # <<>>
    => \E at \in rt.armed : at <= Head(rt.queue).at \/ at <= PositionPeriod

(***************************************************************************)
(* No repetition is scheduled beyond the maximum of its request, however   *)
(* late the earlier ones were triggered.                                   *)
(***************************************************************************)
RepetitionWithinMaximum ==
  \A i \in DOMAIN rt.queue : \A rep \in rt.queue[i].cb.rep : rt.queue[i].at <= rep.until

(***************************************************************************)
(* "All calls to Runtime and objects using the same Runtime have to be     *)
(* invoked from same thread!" (runtime.hpp): no two threads are inside.    *)
(***************************************************************************)
SameThread == \A t, u \in Threads : ~Idle(t) /\ ~Idle(u) => t = u
=============================================================================

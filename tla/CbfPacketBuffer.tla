-------------------------- MODULE CbfPacketBuffer --------------------------
(***************************************************************************)
(* The packet buffer of contention based forwarding                        *)
(* (geonet/cbf_packet_buffer.cpp) with its counters (cbf_counter.cpp) and  *)
(* the one callback it keeps at the runtime.                               *)
(*                                                                         *)
(* Time is relative: a timer holds the ticks left to its expiry and the    *)
(* ticks since its start, the callback the ticks left to its deadline.     *)
(* Timers with equal expiry are ordered by insertion in the code; here any *)
(* of them may be the first.                                               *)
(***************************************************************************)
EXTENDS Integers, Sequences, FiniteSets, FiniteSetsExt

CONSTANTS
  Ids,              \* packet identifiers: source address and sequence number
  Length,           \* bytes of each packet
  Capacity,         \* m_capacity_bytes
  Timeouts,         \* contention timeouts of the router, in ticks
  Lifetimes,        \* lifetime bytes of arriving packets
  TickMs,           \* milliseconds per tick
  MaxStep,          \* ticks the runtime may be triggered late
  Fading,           \* vanetzaFadingCbfCounter
  FadeTicks,        \* vanetzaFadingCbfCounterLifetime
  MaxCounter,       \* vanetzaCbfMaxCounter: the router updates below it
  MaxCount          \* bound: a counter is not counted beyond it

BufferAssumption ==
  /\ Length \in [Ids -> Nat \ {0}]
  /\ Capacity \in Nat
  /\ Timeouts \subseteq Nat \ {0}
  /\ Lifetimes \subseteq 0..255
  /\ TickMs \in Nat \ {0} /\ MaxStep \in Nat \ {0}
  /\ Fading \in BOOLEAN /\ FadeTicks \in Nat /\ MaxCounter \in Nat \ {0} /\ MaxCount \in Nat \ {0}

VARIABLES
  packets,          \* m_packets, the oldest packet first
  timers,           \* m_timers: identifier -> [left, age]
  life,             \* identifier -> lifetime byte of the buffered packet
  stored,           \* m_stored_bytes
  count,            \* the counter of each identifier, 0 if there is none
  fade,             \* ticks left until the counter expires
  wake,             \* the deadline of the scheduled flush: {} or {ticks left}
  handed            \* packets handed over (flush, fetch) in the last step

vars == <<packets, timers, life, stored, count, fade, wake, handed>>

LT == INSTANCE Lifetime WITH raw <- 0, stay <- 0, Stays <- {}

Timer(timeout) == [left |-> timeout, age |-> 0]
Buffered == DOMAIN timers
Without(f, S) == [id \in DOMAIN f \ S |-> f[id]]
With(f, id, v) == [i \in DOMAIN f \cup {id} |-> IF i = id THEN v ELSE f[i]]
Bytes(S) == MapThenSumSet(LAMBDA id : Length[id], S)
Elements(s) == {s[i] : i \in DOMAIN s}
Remaining(s, S) ==
  LET kept[n \in 0..Len(s)] ==
        IF n = 0 THEN <<>> ELSE IF s[n] \in S THEN kept[n - 1] ELSE Append(kept[n - 1], s[n])
  IN  kept[Len(s)]

\* The timers at the front of the multimap tm.
Earliest(tm) == {id \in DOMAIN tm : \A o \in DOMAIN tm : tm[id].left <= tm[o].left}

\* schedule_timer: the deadline of the flush is the expiry of the first timer.
schedule_timer(tm) == {tm[id].left : id \in Earliest(tm)}

-----------------------------------------------------------------------------
(***************************************************************************)
(* Counters.  Contending counters live as long as the packet is buffered;  *)
(* fading ones expire after FadeTicks, whether or not it is.  An expired   *)
(* fading counter is hidden until drop_expired (called by add) removes it; *)
(* one that is refreshed before keeps its value.                           *)
(***************************************************************************)
Expired(left) == left < 0

CounterRemove(cnt, fd, S) ==
  IF Fading THEN <<cnt, fd>>
  ELSE <<[id \in Ids |-> IF id \in S THEN 0 ELSE cnt[id]], fd>>

CounterAdd(cnt, fd, id) ==
  IF ~Fading THEN <<[cnt EXCEPT ![id] = 1], fd>>
  ELSE LET refreshed == [fd EXCEPT ![id] = FadeTicks]
       IN  <<[i \in Ids |-> IF Expired(refreshed[i]) THEN 0
                            ELSE IF i = id THEN cnt[i] + 1 ELSE cnt[i]], refreshed>>

CounterForgets(cnt, fd, id) == <<cnt, fd>>            \* seeded fault
CounterIncrement(cnt, fd, id) ==
  <<[cnt EXCEPT ![id] = @ + 1],
    IF Fading /\ (cnt[id] = 0 \/ Expired(fd[id])) THEN [fd EXCEPT ![id] = FadeTicks] ELSE fd>>

counter(id) == IF Fading /\ Expired(fade[id]) THEN 0 ELSE count[id]

-----------------------------------------------------------------------------
Init ==
  /\ packets = <<>> /\ timers = <<>> /\ life = <<>> /\ stored = 0
  /\ count = [id \in Ids |-> 0] /\ fade = [id \in Ids |-> -1]
  /\ wake = {} /\ handed = {}

HeadDropUncounted(bytes) ==                          \* seeded fault
  CHOOSE n \in 0..Len(packets) :
    /\ n = Len(packets) \/ stored - Bytes(Elements(SubSeq(packets, 1, n))) <= Capacity
    /\ \A k \in 0..(n - 1) : stored - Bytes(Elements(SubSeq(packets, 1, k))) > Capacity
\* The number of packets at the head that add drops for bytes more bytes.
HeadDrop(bytes) ==
  CHOOSE n \in 0..Len(packets) :
    /\ n = Len(packets) \/ stored + bytes - Bytes(Elements(SubSeq(packets, 1, n))) <= Capacity
    /\ \A k \in 0..(n - 1) : stored + bytes - Bytes(Elements(SubSeq(packets, 1, k))) > Capacity

(***************************************************************************)
(* add.  The flush is rescheduled when the first timer is not the one it   *)
(* was before.  When that one was dropped, its iterator dangles: the new   *)
(* timer may have got its node, in which case the comparison misses the    *)
(* change.                                                                 *)
(***************************************************************************)
Rescheduled(dropped, id, first) ==
  LET kept == Without(timers, dropped) IN
  IF timers = <<>> THEN {TRUE}
  ELSE IF first \notin dropped THEN {timers[first].left > id.left}
  ELSE IF \E o \in DOMAIN kept : kept[o].left <= id.left THEN {TRUE} ELSE BOOLEAN

add(id, timeout, lt) ==
  LET dropped == Elements(SubSeq(packets, 1, HeadDrop(Length[id])))
      kept    == Without(timers, dropped)
      tm      == With(kept, id, Timer(timeout))
      cr      == CounterRemove(count, fade, dropped)
      ca      == CounterAdd(cr[1], cr[2], id)
  IN  /\ id \notin Buffered       \* every caller has looked for it before
      /\ count[id] < MaxCount
      /\ packets' = Append(SubSeq(packets, HeadDrop(Length[id]) + 1, Len(packets)), id)
      /\ timers' = tm
      /\ life' = With(Without(life, dropped), id, lt)
      /\ stored' = stored + Length[id] - Bytes(dropped)
      /\ count' = ca[1] /\ fade' = ca[2]
      /\ \E first \in IF timers = <<>> THEN {id} ELSE Earliest(timers) :
           \E changed \in Rescheduled(dropped, Timer(timeout), first) :
             wake' = IF changed THEN schedule_timer(tm) ELSE wake
      /\ handed' = {}

\* remove_timer: reschedules if the erased timer was the first of several.
RemoveTimerLast(tm, id) ==                           \* seeded fault
  IF DOMAIN tm = {id} THEN {wake} ELSE {{}}
remove_timer(tm, id) ==
  IF DOMAIN tm = {id} \/ id \notin Earliest(tm) THEN {wake}
  ELSE {schedule_timer(Without(tm, {id}))}
         \cup (IF Earliest(tm) = {id} THEN {} ELSE {wake})

\* The packet leaves the buffer, which is what remove and fetch share.
TakeOut(id) ==
  /\ id \in Buffered
  /\ packets' = Remaining(packets, {id})
  /\ timers' = Without(timers, {id})
  /\ life' = Without(life, {id})
  /\ stored' = stored - Length[id]
  /\ LET c == CounterRemove(count, fade, {id}) IN count' = c[1] /\ fade' = c[2]
  /\ wake' \in remove_timer(timers, id)

remove(id) == TakeOut(id) /\ handed' = {}

\* reduce_lifetime: does the packet outlive its time in the buffer?
Valid(id, age) == age * TickMs < LT!Decode(life[id])

fetch(id) ==
  /\ TakeOut(id)
  /\ handed' = {i \in {id} : Valid(id, timers[id].age)}

\* update: the packet is charged its queueing time and gets a new timer, but
\* the flush stays where it is scheduled.
update(id, timeout) ==
  /\ id \in Buffered /\ counter(id) < MaxCounter /\ count[id] < MaxCount
  /\ \E l \in LT!ReduceLifetime(life[id], timers[id].age * TickMs) :
       life' = [life EXCEPT ![id] = l]
  /\ timers' = [timers EXCEPT ![id] = Timer(timeout)]
  /\ LET c == CounterIncrement(count, fade, id) IN count' = c[1] /\ fade' = c[2]
  /\ handed' = {}
  /\ UNCHANGED <<packets, stored, wake>>

(***************************************************************************)
(* The runtime is triggered d ticks later: when the deadline of the flush  *)
(* has passed, flush takes out the timers that have expired by now.        *)
(***************************************************************************)
Later(d) == [id \in Buffered |-> [left |-> timers[id].left - d, age |-> timers[id].age + d]]
Faded(d) == [id \in Ids |-> IF Fading /\ count[id] > 0 /\ fade[id] >= 0 THEN fade[id] - d ELSE fade[id]]

Due(tm) == {id \in DOMAIN tm : tm[id].left <= 0}

FlushKeepsTimers(tm, fd) ==                          \* seeded fault
  /\ timers' = tm /\ fade' = fd
  /\ handed' = {id \in Due(tm) : Valid(id, tm[id].age)}
  /\ stored' = stored - Bytes(Due(tm))
  /\ packets' = Remaining(packets, Due(tm))
  /\ wake' = schedule_timer(tm)
  /\ UNCHANGED <<life, count>>
flush(tm, fd) ==
  LET due  == Due(tm)
      rest == Without(tm, due)
      c    == CounterRemove(count, fd, due)
  IN  /\ packets' = Remaining(packets, due)
      /\ timers' = rest
      /\ life' = Without(life, due)
      /\ stored' = stored - Bytes(due)
      /\ count' = c[1] /\ fade' = c[2]
      /\ handed' = {id \in due : Valid(id, tm[id].age)}
      /\ wake' = schedule_timer(rest)

trigger(d) ==
  \/ /\ \E w \in wake : w - d <= 0
     /\ flush(Later(d), Faded(d))
  \/ /\ \A w \in wake : w - d > 0
     /\ timers' = Later(d) /\ fade' = Faded(d)
     /\ wake' = {w - d : w \in wake}
     /\ handed' = {}
     /\ UNCHANGED <<packets, life, stored, count>>

Trigger == \E d \in 1..MaxStep : trigger(d)

Next ==
  \/ \E id \in Ids, t \in Timeouts, l \in Lifetimes : add(id, t, l)
  \/ \E id \in Ids : remove(id)
  \/ \E id \in Ids : fetch(id)
  \/ \E id \in Ids, t \in Timeouts : update(id, t)
  \/ Trigger

Spec == Init /\ [][Next]_vars

\* The runtime is triggered again and again (time_trigger.cpp).
FairSpec == Spec /\ WF_vars(Trigger)

-----------------------------------------------------------------------------
TypeOK ==
  /\ packets \in Seq(Ids)
  /\ Buffered \subseteq Ids /\ DOMAIN life = Buffered
  /\ \A id \in Buffered : timers[id].left \in Int /\ timers[id].age \in Nat /\ life[id] \in 0..255
  /\ stored \in Int /\ wake \subseteq Int /\ handed \subseteq Ids
  /\ count \in [Ids -> Nat] /\ fade \in [Ids -> Int]

(***************************************************************************)
(* List, timers and byte count agree after every operation, whichever      *)
(* packets were dropped, overheard, fetched or flushed (the assertions of  *)
(* the code compare only the two sizes).                                   *)
(***************************************************************************)
Accounting ==
  /\ Elements(packets) = Buffered /\ Len(packets) = Cardinality(Buffered)
  /\ stored = Bytes(Buffered)

(***************************************************************************)
(* The buffer never sleeps on a packet: while one is buffered, a flush is  *)
(* scheduled at the runtime.                                               *)
(***************************************************************************)
FlushPending == Buffered # {} => wake # {}

(***************************************************************************)
(* Head drop keeps the buffer within its capacity, except for a single     *)
(* packet that is too large by itself.                                     *)
(***************************************************************************)
CapacityKept == stored <= Capacity \/ Len(packets) = 1

(***************************************************************************)
(* A contending counter exists exactly as long as its packet is buffered.  *)
(***************************************************************************)
CountsContending == ~Fading => \A id \in Ids : count[id] > 0 <=> id \in Buffered

(***************************************************************************)
(* A packet that contends is counted: its counter does not fade before it  *)
(* leaves, however often its timer is updated.  The router stops           *)
(* forwarding on this count.                                               *)
(***************************************************************************)
ContendingIsCounted == \A id \in Buffered : counter(id) >= 1

(***************************************************************************)
(* A packet is late only by what update and the dangling iterator of add   *)
(* can cause: the flush never comes later than the longest timeout after   *)
(* now.                                                                    *)
(***************************************************************************)
FlushWithinTimeout ==
  \A w \in wake : \E t \in Timeouts : w <= t

\* What runs check: the books of the buffer, and its flush.
BufferIsSound == TypeOK /\ Accounting /\ CapacityKept /\ CountsContending
FlushInTime == FlushPending /\ FlushWithinTimeout

(***************************************************************************)
(* Every packet leaves the buffer.                                         *)
(***************************************************************************)
EveryPacketLeaves == \A id \in Ids : id \in Buffered ~> id \notin Buffered

(***************************************************************************)
(* The buffer implements the contention it is meant for.                   *)
(***************************************************************************)
C == INSTANCE Contention WITH contending <- Buffered
ContentionSpec == C!Spec
=============================================================================

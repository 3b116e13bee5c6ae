----------------------------- MODULE DccProofs ------------------------------
(***************************************************************************)
(* Congestion control for all values of its constants: FlowControl for all *)
(* packets, profiles, lifetimes, queue lengths and intervals, and the      *)
(* state machines of DccStates for all channel loads, windows of any       *)
(* lengths and any limits of the gradual machine.                          *)
(*                                                                         *)
(* The operators of FlowControl take a state and return one, so that the   *)
(* invariant is stated of such a state: Good says that a packet is in one  *)
(* place and that the queues keep to their profiles and limits, Waits that *)
(* a trigger is scheduled while a packet is queued.  Waits is kept by      *)
(* every operator but TransmitNext, whose caller schedules the next one.   *)
(***************************************************************************)
EXTENDS FlowControl, SequenceTheorems, FiniteSetTheorems, WellFoundedInduction, TLAPS

CONSTANTS Loads, N_samples_up, N_samples_down, Limits      \* DccStates
VARIABLES loads, state, substate, current, odd             \* DccStates

States == INSTANCE DccStates

\* A set of natural numbers that is not empty has a least element.
LEMMA LeastElement ==
  ASSUME NEW T, T \subseteq Nat, T # {}
  PROVE  \E x \in T : \A y \in T : x <= y
  <1>1. PICK x \in T : \A y \in T : ~(<<y, x>> \in OpToRel(<, Nat))
    BY NatLessThanWellFounded, WFMin, Zenon
  <1>2. \A y \in T : ~(y < x)
    BY <1>1 DEF OpToRel
  <1> QED
    BY <1>2

\* Induction up to n, with a set in the place of a predicate.
LEMMA UpTo ==
  ASSUME NEW n \in Nat, NEW T, 0 \in T, \A k \in 1..n : k - 1 \in T => k \in T
  PROVE  0..n \subseteq T
  <1> DEFINE Bad == {k \in 0..n : k \notin T}
  <1> SUFFICES ASSUME Bad # {} PROVE FALSE
    OBVIOUS
  <1>1. PICK k \in Bad : \A y \in Bad : k <= y
    <2>1. Bad \subseteq Nat
      OBVIOUS
    <2> HIDE DEF Bad
    <2> QED
      BY <2>1, LeastElement
  <1>2. k \in 1..n /\ k \notin T
    OBVIOUS
  <1>3. k - 1 \in 0..n /\ ~(k <= k - 1)
    BY <1>2
  <1>4. k - 1 \notin Bad
    <2> HIDE DEF Bad
    <2> QED
      BY <1>1, <1>3
  <1> QED
    BY <1>2, <1>3, <1>4

(***************************************************************************)
(* Kept.  f holds what is kept of the first 0, 1 .. n elements.            *)
(***************************************************************************)
KeptUpTo(f, n, q, S) ==
  \A i \in 0..n : f[i] = IF i = 0 THEN <<>> ELSE IF q[i] \in S THEN Append(f[i - 1], q[i]) ELSE f[i - 1]

LEMMA KeptExists ==
  ASSUME NEW V, NEW q \in Seq(V), NEW S
  PROVE  \E f \in [0..Len(q) -> Seq(V)] : KeptUpTo(f, Len(q), q, S)
  <1> DEFINE T == {n \in 0..Len(q) : \E f \in [0..n -> Seq(V)] : KeptUpTo(f, n, q, S)}
  <1>1. 0 \in T
    <2> DEFINE f == [i \in 0..0 |-> <<>>]
    <2>1. f \in [0..0 -> Seq(V)] /\ KeptUpTo(f, 0, q, S)
      BY DEF KeptUpTo
    <2>2. 0 \in 0..Len(q)
      OBVIOUS
    <2> HIDE DEF f
    <2> QED
      BY <2>1, <2>2
  <1>2. ASSUME NEW n \in 1..Len(q), n - 1 \in T
        PROVE  n \in T
    <2>1. PICK f \in [0..(n - 1) -> Seq(V)] : KeptUpTo(f, n - 1, q, S)
      BY <1>2
    <2>2. n \in Nat /\ n - 1 \in 0..(n - 1) /\ n \notin 0..(n - 1) /\ 0..n = 0..(n - 1) \cup {n} /\ n # 0
      OBVIOUS
    <2> DEFINE last == IF q[n] \in S THEN Append(f[n - 1], q[n]) ELSE f[n - 1]
               g == [i \in 0..n |-> IF i = n THEN last ELSE f[i]]
    <2>3. last \in Seq(V)
      <3>1. f[n - 1] \in Seq(V) /\ q[n] \in V
        BY <2>2
      <3> QED
        BY <3>1
    <2>4. g \in [0..n -> Seq(V)]
      BY <2>2, <2>3
    <2>5. ASSUME NEW i \in 0..n
          PROVE  g[i] = IF i = 0 THEN <<>> ELSE IF q[i] \in S THEN Append(g[i - 1], q[i]) ELSE g[i - 1]
      <3>1. CASE i = n
        <4>1. g[n] = last /\ g[n - 1] = f[n - 1]
          BY <2>2
        <4> HIDE DEF g
        <4> QED
          BY <2>2, <3>1, <4>1
      <3>2. CASE i # n
        <4>1. i \in 0..(n - 1) /\ (i # 0 => i - 1 \in 0..(n - 1) /\ i - 1 # n)
          BY <3>2
        <4>2. g[i] = f[i] /\ (i # 0 => g[i - 1] = f[i - 1])
          BY <3>2, <4>1
        <4> HIDE DEF g
        <4> QED
          BY <2>1, <4>1, <4>2 DEF KeptUpTo
      <3> QED
        BY <3>1, <3>2
    <2>6. KeptUpTo(g, n, q, S)
      <3> HIDE DEF g
      <3> QED
        BY <2>5 DEF KeptUpTo
    <2> HIDE DEF g
    <2> QED
      BY <1>2, <2>4, <2>6
  <1>3. Len(q) \in Nat
    OBVIOUS
  <1>4. 0..Len(q) \subseteq T
    <2> HIDE DEF T
    <2> QED
      BY <1>1, <1>2, <1>3, UpTo
  <1>5. Len(q) \in T
    <2> HIDE DEF T
    <2> QED
      BY <1>3, <1>4
  <1> QED
    BY <1>5

\* h says where the elements that are kept, r, come from.
From(r, n, q, S, h) ==
  /\ h \in [1..Len(r) -> 1..n]
  /\ \A k \in 1..Len(r) : r[k] = q[h[k]] /\ q[h[k]] \in S
  /\ \A j, k \in 1..Len(r) : j < k => h[j] < h[k]
  /\ \A i \in 1..n : q[i] \in S => \E k \in 1..Len(r) : h[k] = i

LEMMA KeptIs ==
  ASSUME NEW V, NEW q \in Seq(V), NEW S
  PROVE  Kept(q, S) \in Seq(V) /\ \E h : From(Kept(q, S), Len(q), q, S, h)
  <1> DEFINE N == Len(q)
             P(f) == f = [i \in 0..Len(q) |-> IF i = 0 THEN <<>>
                            ELSE IF q[i] \in S THEN Append(f[i - 1], q[i]) ELSE f[i - 1]]
             kept == CHOOSE f : P(f)
  <1>0. N \in Nat
    OBVIOUS
  <1>1. PICK f \in [0..N -> Seq(V)] : KeptUpTo(f, N, q, S)
    BY KeptExists
  <1>2. P(f)
    BY <1>1 DEF KeptUpTo
  <1>3. P(kept)
    <2> HIDE DEF P
    <2> QED
      BY <1>2, Zenon
  <1>4. Kept(q, S) = kept[N]
    BY DEF Kept
  <1>5. \A i \in 0..N : kept[i] = IF i = 0 THEN <<>>
                           ELSE IF q[i] \in S THEN Append(kept[i - 1], q[i]) ELSE kept[i - 1]
    <2> HIDE DEF kept
    <2> QED
      BY <1>3
  <1> HIDE DEF kept, P
  <1> DEFINE T == {n \in 0..N : kept[n] \in Seq(V) /\ \E h : From(kept[n], n, q, S, h)}
  <1>6. 0 \in T
    <2>1. kept[0] = <<>> /\ 0 \in 0..N
      BY <1>0, <1>5
    <2>2. From(<<>>, 0, q, S, <<>>)
      BY DEF From
    <2>3. From(kept[0], 0, q, S, <<>>)
      BY <2>1, <2>2
    <2>4. kept[0] \in Seq(V)
      BY <2>1
    <2> HIDE DEF N
    <2> QED
      BY <2>1, <2>3, <2>4
  <1>7. ASSUME NEW n \in 1..N, n - 1 \in T
        PROVE  n \in T
    <2> DEFINE r == kept[n - 1]
    <2>1. n \in 0..N /\ n # 0 /\ n - 1 \in Nat /\ n \in Nat
      BY <1>0
    <2>2. kept[n] = IF q[n] \in S THEN Append(r, q[n]) ELSE r
      BY <1>5, <2>1
    <2>3. r \in Seq(V) /\ Len(r) \in Nat
      BY <1>7
    <2>4. PICK h : From(r, n - 1, q, S, h)
      BY <1>7
    <2>5. q[n] \in V
      BY <1>7
    <2> HIDE DEF r
    <2>6. CASE q[n] \notin S
      <3>1. From(r, n, q, S, h)
        BY <2>1, <2>4, <2>6 DEF From
      <3> QED
        BY <2>1, <2>2, <2>3, <2>6, <3>1
    <2>7. CASE q[n] \in S
      <3> DEFINE m == Len(r) + 1
                 s == Append(r, q[n])
                 g == [k \in 1..m |-> IF k = m THEN n ELSE h[k]]
      <3>1. s \in Seq(V) /\ Len(s) = m /\ s[m] = q[n] /\ \A k \in 1..Len(r) : s[k] = r[k]
        BY <2>3, <2>5
      <3>2. m \in Nat /\ \A k \in 1..m : k = m \/ k \in 1..Len(r)
        BY <2>3
      <3>3. /\ h \in [1..Len(r) -> 1..(n - 1)]
            /\ \A k \in 1..Len(r) : r[k] = q[h[k]] /\ q[h[k]] \in S
            /\ \A j, k \in 1..Len(r) : j < k => h[j] < h[k]
            /\ \A i \in 1..(n - 1) : q[i] \in S => \E k \in 1..Len(r) : h[k] = i
        BY <2>4 DEF From
      <3>4. g[m] = n /\ \A k \in 1..Len(r) : g[k] = h[k] /\ h[k] \in 1..(n - 1)
        BY <2>3, <3>3
      <3>5. g \in [1..m -> 1..n]
        BY <2>1, <3>2, <3>3
      <3> HIDE DEF g, s
      <3>6. \A k \in 1..m : s[k] = q[g[k]] /\ q[g[k]] \in S
        BY <2>7, <3>1, <3>2, <3>3, <3>4
      <3>7. \A j, k \in 1..m : j < k => g[j] < g[k]
        <4> SUFFICES ASSUME NEW j \in 1..m, NEW k \in 1..m, j < k
                     PROVE  g[j] < g[k]
          OBVIOUS
        <4>1. j \in 1..Len(r) /\ g[j] = h[j] /\ h[j] \in 1..(n - 1)
          BY <2>3, <3>4
        <4>2. CASE k = m
          BY <2>1, <3>4, <4>1, <4>2
        <4>3. CASE k \in 1..Len(r)
          BY <3>3, <3>4, <4>1, <4>3
        <4> QED
          BY <3>2, <4>2, <4>3
      <3>8. \A i \in 1..n : q[i] \in S => \E k \in 1..m : g[k] = i
        <4> SUFFICES ASSUME NEW i \in 1..n, q[i] \in S
                     PROVE  \E k \in 1..m : g[k] = i
          OBVIOUS
        <4>1. CASE i = n
          BY <2>3, <3>4, <4>1
        <4>2. CASE i \in 1..(n - 1)
          <5>1. PICK k \in 1..Len(r) : h[k] = i
            BY <3>3, <4>2
          <5> QED
            BY <2>3, <3>4, <5>1
        <4> QED
          BY <4>1, <4>2
      <3>9. From(s, n, q, S, g)
        BY <3>1, <3>5, <3>6, <3>7, <3>8 DEF From
      <3>10. kept[n] = s
        BY <2>2, <2>7 DEF s
      <3> HIDE DEF m
      <3> QED
        BY <2>1, <3>1, <3>9, <3>10
    <2> QED
      BY <2>6, <2>7
  <1>8. 0..N \subseteq T
    <2> HIDE DEF T, N
    <2> QED
      BY <1>0, <1>6, <1>7, UpTo
  <1>9. N \in T
    <2> HIDE DEF T
    <2> QED
      BY <1>0, <1>8
  <1> QED
    BY <1>4, <1>9

-----------------------------------------------------------------------------
(***************************************************************************)
(* The invariant, of the state s that the operators take and return.       *)
(***************************************************************************)
Entry == [p : Packets, expiry : Nat]
Record == [queues : [0..3 -> Seq(Entry)], triggers : Seq(Int), last : SUBSET Nat, burst : Seq(Nat),
           log : Seq(Packets), dropped : SUBSET Packets]

\* A queue has packets of its profile, each once, that have not gone.
Placed(s) ==
  \A ac \in 0..3 :
    /\ \A i \in 1..Len(s.queues[ac]) :
         /\ Profile[s.queues[ac][i].p] = ac /\ s.queues[ac][i].p \notin s.dropped
         /\ \A k \in 1..Len(s.log) : s.log[k] # s.queues[ac][i].p
    /\ \A i, j \in 1..Len(s.queues[ac]) : s.queues[ac][i].p = s.queues[ac][j].p => i = j
SentOnce(s) ==
  /\ \A k \in 1..Len(s.log) : s.log[k] \notin s.dropped
  /\ \A j, k \in 1..Len(s.log) : s.log[j] = s.log[k] => j = k
Limited(s) ==
  /\ \A ac \in 0..3 : QueueLength > 0 => Len(s.queues[ac]) <= QueueLength
  /\ Len(s.burst) <= BurstMessages
Good(s) == s \in Record /\ Placed(s) /\ SentOnce(s) /\ Limited(s)
Waits(s) == (\E ac \in 0..3 : s.queues[ac] # <<>>) => s.triggers # <<>>

Clocked == now \in Nat /\ interval \in Nat
FlowInv ==
  /\ now \in 0..MaxTime /\ interval \in Intervals
  /\ fc \in [queues : [0..3 -> Seq(Entry)], triggers : Seq(Int), last : SUBSET Nat, burst : Seq(Nat)]
  /\ Good(State) /\ Waits(State)

\* p is new to s.
NewTo(s, p) ==
  /\ p \in Packets /\ p \notin s.dropped
  /\ \A k \in 1..Len(s.log) : s.log[k] # p
  /\ \A ac \in 0..3 : \A i \in 1..Len(s.queues[ac]) : s.queues[ac][i].p # p

-----------------------------------------------------------------------------
(***************************************************************************)
(* Rate control.                                                           *)
(***************************************************************************)
LEMMA DelayType ==
  ASSUME FlowControlAssumption, Clocked, NEW s \in Record, NEW p
  PROVE  delay(s, p) \in Nat
  <1>1. fsm_delay(s) \in Nat
    <2>1. CASE s.last = {}
      BY <2>1 DEF fsm_delay
    <2>2. CASE s.last # {}
      <3>1. PICK l \in s.last : l = CHOOSE x \in s.last : TRUE
        BY <2>2
      <3>2. l \in Nat
        BY <3>1 DEF Record
      <3>3. fsm_delay(s) = LET next == l + interval IN IF next < now THEN 0 ELSE next - now
        BY <2>2, <3>1 DEF fsm_delay
      <3>4. CASE l + interval < now
        BY <3>3, <3>4
      <3>5. CASE ~(l + interval < now)
        <4>1. fsm_delay(s) = l + interval - now
          BY <3>2, <3>3, <3>5 DEF Clocked
        <4>2. l + interval - now \in Nat
          BY <3>2, <3>5 DEF Clocked
        <4> QED
          BY <4>1, <4>2
      <3> QED
        BY <3>4, <3>5
    <2> QED
      BY <2>1, <2>2
  <1>2. burst_delay(s) \in Nat
    <2>1. CASE s.burst = <<>> \/ Over(s.burst)
      BY <2>1 DEF burst_delay
    <2>2. CASE s.burst # <<>> /\ ~Over(s.burst)
      <3> DEFINE h == Head(s.burst)
      <3>1. h \in Nat
        BY <2>2 DEF Record
      <3>2. BurstPeriod \in Nat
        BY DEF FlowControlAssumption
      <3> HIDE DEF h
      <3>3. ~(h + BurstPeriod < now)
        BY <2>2 DEF Over, h
      <3>4. burst_delay(s) = 0 \/ burst_delay(s) = h + BurstPeriod - now
        BY DEF burst_delay, h
      <3> QED
        BY <3>1, <3>2, <3>3, <3>4 DEF Clocked
    <2> QED
      BY <2>1, <2>2
  <1> QED
    BY <1>1, <1>2 DEF delay

\* What notify leaves alone.
LEMMA NotifyIs ==
  ASSUME FlowControlAssumption, Clocked, NEW s \in Record, Len(s.burst) <= BurstMessages, NEW p
  PROVE  /\ notify(s, p) \in Record /\ Len(notify(s, p).burst) <= BurstMessages
         /\ notify(s, p).queues = s.queues /\ notify(s, p).triggers = s.triggers
         /\ notify(s, p).log = s.log /\ notify(s, p).dropped = s.dropped
  <1>1. CASE ~InBurst(p)
    <2>1. notify(s, p) = [s EXCEPT !.last = {now}]
      BY <1>1 DEF notify
    <2> QED
      BY <2>1 DEF Record, Clocked
  <1>2. CASE InBurst(p)
    <2> DEFINE b == Noted(s.burst)
    <2>1. notify(s, p) = [s EXCEPT !.burst = b]
      BY <1>2 DEF notify
    <2>2. b \in Seq(Nat) /\ Len(b) <= BurstMessages
      <3> DEFINE c == IF Over(s.burst) THEN <<>> ELSE s.burst
                 d == IF Len(c) = BurstMessages THEN Tail(c) ELSE c
      <3>1. BurstMessages \in Nat /\ BurstMessages > 0
        BY DEF FlowControlAssumption
      <3>2. c \in Seq(Nat) /\ Len(c) <= BurstMessages
        BY <3>1 DEF Record
      <3>3. d \in Seq(Nat) /\ Len(d) < BurstMessages
        <4> HIDE DEF c
        <4>1. CASE Len(c) = BurstMessages
          <5>1. c # <<>>
            BY <3>1, <4>1
          <5>2. Tail(c) \in Seq(Nat) /\ Len(Tail(c)) = Len(c) - 1
            BY <3>2, <5>1
          <5> QED
            BY <3>1, <3>2, <4>1, <5>2
        <4> QED
          BY <3>1, <3>2, <4>1
      <3>4. b = Append(d, now)
        BY DEF Noted
      <3> HIDE DEF d, b
      <3> QED
        BY <3>1, <3>3, <3>4 DEF Clocked
    <2> HIDE DEF b
    <2> QED
      BY <2>1, <2>2 DEF Record
  <1> QED
    BY <1>1, <1>2

-----------------------------------------------------------------------------
(***************************************************************************)
(* The operations of FlowControl.                                          *)
(***************************************************************************)
LEMMA TransmitGood ==
  ASSUME FlowControlAssumption, Clocked, NEW s, Good(s), NEW p, NewTo(s, p)
  PROVE  /\ Good(transmit(s, p))
         /\ transmit(s, p).queues = s.queues /\ transmit(s, p).triggers = s.triggers
         /\ transmit(s, p).log = Append(s.log, p) /\ transmit(s, p).dropped = s.dropped
  <1> DEFINE n == notify(s, p)
             t == transmit(s, p)
  <1>1. /\ n \in Record /\ Len(n.burst) <= BurstMessages /\ n.queues = s.queues
        /\ n.triggers = s.triggers /\ n.log = s.log /\ n.dropped = s.dropped
    BY NotifyIs DEF Good, Limited
  <1>2. t = [n EXCEPT !.log = Append(@, p)]
    BY DEF transmit
  <1> HIDE DEF n, t
  <1>3. /\ t \in Record /\ t.queues = s.queues /\ t.triggers = s.triggers
        /\ t.log = Append(s.log, p) /\ t.dropped = s.dropped /\ t.burst = n.burst
    <2>1. p \in Packets /\ n.log \in Seq(Packets)
      BY <1>1 DEF Record, NewTo
    <2>2. Append(n.log, p) \in Seq(Packets)
      BY <2>1
    <2>3. t = [n EXCEPT !.log = Append(n.log, p)]
      BY <1>2
    <2> DEFINE l == Append(n.log, p)
    <2> HIDE DEF l
    <2>4. t = [n EXCEPT !.log = l] /\ l \in Seq(Packets)
      BY <2>2, <2>3 DEF l
    <2>5. /\ t \in Record /\ t.queues = n.queues /\ t.triggers = n.triggers
          /\ t.log = l /\ t.dropped = n.dropped /\ t.burst = n.burst
      BY <1>1, <2>4 DEF Record
    <2> QED
      BY <1>1, <2>5 DEF l
  <1>4. /\ s.log \in Seq(Packets) /\ Len(s.log) \in Nat /\ Len(t.log) = Len(s.log) + 1
        /\ t.log[Len(s.log) + 1] = p /\ \A k \in 1..Len(s.log) : t.log[k] = s.log[k]
    BY <1>3 DEF Good, Record, NewTo
  <1>5. \A k \in 1..Len(t.log) : k \in 1..Len(s.log) \/ k = Len(s.log) + 1
    BY <1>4
  <1>6. Placed(t)
    <2>1. ASSUME NEW ac \in 0..3, NEW i \in 1..Len(s.queues[ac])
          PROVE  /\ Profile[s.queues[ac][i].p] = ac /\ s.queues[ac][i].p \notin s.dropped
                 /\ \A k \in 1..Len(t.log) : t.log[k] # s.queues[ac][i].p
      <3>1. /\ Profile[s.queues[ac][i].p] = ac /\ s.queues[ac][i].p \notin s.dropped
            /\ \A k \in 1..Len(s.log) : s.log[k] # s.queues[ac][i].p
        BY DEF Good, Placed
      <3>2. s.queues[ac][i].p # p
        BY DEF NewTo
      <3> QED
        BY <1>4, <1>5, <3>1, <3>2
    <2>2. \A ac \in 0..3 : \A i, j \in 1..Len(s.queues[ac]) :
            s.queues[ac][i].p = s.queues[ac][j].p => i = j
      BY DEF Good, Placed
    <2> QED
      <3> SUFFICES ASSUME NEW ac \in 0..3
                   PROVE  /\ \A i \in 1..Len(t.queues[ac]) : LET e == t.queues[ac][i].p IN
                               Profile[e] = ac /\ e \notin t.dropped /\ \A k \in 1..Len(t.log) : t.log[k] # e
                          /\ \A i, j \in 1..Len(t.queues[ac]) : t.queues[ac][i].p = t.queues[ac][j].p => i = j
        BY DEF Placed
      <3>1. t.queues[ac] = s.queues[ac] /\ t.dropped = s.dropped
        BY <1>3
      <3>2. \A i \in 1..Len(t.queues[ac]) : t.queues[ac][i] = s.queues[ac][i] /\ i \in 1..Len(s.queues[ac])
        BY <3>1
      <3>3. \A i, j \in 1..Len(t.queues[ac]) : t.queues[ac][i].p = t.queues[ac][j].p => i = j
        BY <2>2, <3>1
      <3>4. ASSUME NEW i \in 1..Len(t.queues[ac])
            PROVE  /\ Profile[t.queues[ac][i].p] = ac /\ t.queues[ac][i].p \notin t.dropped
                   /\ \A k \in 1..Len(t.log) : t.log[k] # t.queues[ac][i].p
        BY <2>1, <3>1, <3>2
      <3> QED
        BY <3>3, <3>4
  <1>7. SentOnce(t)
    <2>1. \A k \in 1..Len(t.log) : t.log[k] \notin t.dropped
      BY <1>3, <1>4, <1>5 DEF Good, SentOnce, NewTo
    <2>2. \A j, k \in 1..Len(t.log) : t.log[j] = t.log[k] => j = k
      <3> SUFFICES ASSUME NEW j \in 1..Len(t.log), NEW k \in 1..Len(t.log), t.log[j] = t.log[k]
                   PROVE  j = k
        OBVIOUS
      <3>1. CASE j \in 1..Len(s.log) /\ k \in 1..Len(s.log)
        BY <1>4, <3>1 DEF Good, SentOnce
      <3>2. CASE j = Len(s.log) + 1 /\ k \in 1..Len(s.log)
        BY <1>4, <3>2 DEF NewTo
      <3>3. CASE k = Len(s.log) + 1 /\ j \in 1..Len(s.log)
        BY <1>4, <3>3 DEF NewTo
      <3>4. CASE j = Len(s.log) + 1 /\ k = Len(s.log) + 1
        BY <3>4
      <3> QED
        BY <1>5, <3>1, <3>2, <3>3, <3>4
    <2> QED
      BY <2>1, <2>2 DEF SentOnce
  <1>8. Limited(t)
    BY <1>1, <1>3 DEF Good, Limited
  <1> QED
    BY <1>3, <1>6, <1>7, <1>8 DEF Good, t

\* What is kept is no longer than the queue.
LEMMA KeptLength ==
  ASSUME NEW r, NEW n \in Nat, NEW q, NEW S, NEW h, Len(r) \in Nat, From(r, n, q, S, h)
  PROVE  Len(r) <= n
  <1> DEFINE T == {k \in Nat : k \in 1..Len(r) => h[k] >= k}
  <1>1. h \in [1..Len(r) -> 1..n] /\ \A j, k \in 1..Len(r) : j < k => h[j] < h[k]
    BY DEF From
  <1>2. 0 \in T
    OBVIOUS
  <1>3. ASSUME NEW k \in 1..Len(r), k - 1 \in T
        PROVE  k \in T
    <2>1. CASE k = 1
      BY <1>1, <2>1
    <2>2. CASE k # 1
      <3>1. k - 1 \in 1..Len(r) /\ k - 1 < k
        BY <2>2
      <3>2. h[k - 1] >= k - 1 /\ h[k - 1] < h[k] /\ h[k - 1] \in Nat /\ h[k] \in Nat
        BY <1>1, <1>3, <3>1
      <3> QED
        BY <3>2
    <2> QED
      BY <2>1, <2>2
  <1>4. 0..Len(r) \subseteq T
    <2> HIDE DEF T
    <2> QED
      BY <1>2, <1>3, UpTo
  <1>5. CASE Len(r) = 0
    BY <1>5
  <1>6. CASE Len(r) # 0
    <2>1. Len(r) \in 1..Len(r) /\ Len(r) \in T
      BY <1>4, <1>6
    <2>2. h[Len(r)] >= Len(r) /\ h[Len(r)] \in 1..n
      BY <1>1, <2>1
    <2> QED
      BY <2>2
  <1> QED
    BY <1>5, <1>6

\* d is s without what has expired: what is left is in time and was there, in
\* its order, what is not left is dropped, and nothing else is.
Without(s, d) ==
  /\ d.triggers = s.triggers /\ d.log = s.log
  /\ \A ac \in 0..3 : \A i \in 1..Len(d.queues[ac]) :
       /\ now <= d.queues[ac][i].expiry
       /\ \E k \in 1..Len(s.queues[ac]) : d.queues[ac][i] = s.queues[ac][k]
  /\ \A ac \in 0..3 : \A k \in 1..Len(s.queues[ac]) :
       s.queues[ac][k].p \in d.dropped \/ \E i \in 1..Len(d.queues[ac]) : d.queues[ac][i] = s.queues[ac][k]
  /\ \A ac \in 0..3 : \A k, l \in 1..Len(s.queues[ac]) : k < l =>
       \/ s.queues[ac][k].p \in d.dropped \/ s.queues[ac][l].p \in d.dropped
       \/ \E i, j \in 1..Len(d.queues[ac]) : i < j /\ d.queues[ac][i] = s.queues[ac][k] /\ d.queues[ac][j] = s.queues[ac][l]
  /\ \A x \in d.dropped : x \in s.dropped \/ \E ac \in 0..3 : \E k \in 1..Len(s.queues[ac]) : s.queues[ac][k].p = x
  /\ s.dropped \subseteq d.dropped

LEMMA DropGood ==
  ASSUME FlowControlAssumption, Clocked, NEW s, Good(s), NEW d, d = drop_expired(s)
  PROVE  Good(d) /\ Without(s, d)
  <1> DEFINE late == {e \in UNION {ToSet(s.queues[ac]) : ac \in 0..3} : e.expiry < now}
             Q == [ac \in 0..3 |-> Kept(s.queues[ac], ToSet(s.queues[ac]) \ late)]
             D == s.dropped \cup {e.p : e \in late}
  <1>1. d = [s EXCEPT !.queues = Q, !.dropped = D]
    BY DEF drop_expired
  <1>2. /\ s.queues \in [0..3 -> Seq(Entry)] /\ s.log \in Seq(Packets) /\ s.dropped \subseteq Packets
        /\ s \in Record
    BY DEF Good, Record
  <1>3. \A ac \in 0..3 : Len(s.queues[ac]) \in Nat /\ \A k \in 1..Len(s.queues[ac]) : s.queues[ac][k] \in Entry
    BY <1>2
  <1>4. \A e : e \in late <=> \E ac \in 0..3 : \E k \in 1..Len(s.queues[ac]) : e = s.queues[ac][k] /\ e.expiry < now
    BY <1>2 DEF ToSet
  <1> HIDE DEF late
  <1>5. \A x : x \in D <=> x \in s.dropped \/ \E ac \in 0..3 : \E k \in 1..Len(s.queues[ac]) :
                              x = s.queues[ac][k].p /\ s.queues[ac][k].expiry < now
    BY <1>4
  <1>6. D \subseteq Packets
    <2>1. \A ac \in 0..3 : \A k \in 1..Len(s.queues[ac]) : s.queues[ac][k].p \in Packets
      BY <1>3 DEF Entry
    <2> SUFFICES ASSUME NEW x \in D
                 PROVE  x \in Packets
      OBVIOUS
    <2> HIDE DEF D
    <2>2. x \in s.dropped \/ \E ac \in 0..3 : \E k \in 1..Len(s.queues[ac]) : x = s.queues[ac][k].p
      BY <1>5
    <2> QED
      BY <1>2, <2>1, <2>2
  <1>7. \A ac \in 0..3 : Q[ac] \in Seq(Entry) /\ \E h : From(Q[ac], Len(s.queues[ac]), s.queues[ac], ToSet(s.queues[ac]) \ late, h)
    BY <1>2, KeptIs
  <1>8. ASSUME NEW ac \in 0..3
        PROVE  /\ Len(Q[ac]) \in Nat /\ Len(Q[ac]) <= Len(s.queues[ac])
               /\ \A i \in 1..Len(Q[ac]) : now <= Q[ac][i].expiry /\ \E k \in 1..Len(s.queues[ac]) : Q[ac][i] = s.queues[ac][k]
               /\ \A k \in 1..Len(s.queues[ac]) : s.queues[ac][k].p \in D \/ \E i \in 1..Len(Q[ac]) : Q[ac][i] = s.queues[ac][k]
               /\ \A i, j \in 1..Len(Q[ac]) : Q[ac][i].p = Q[ac][j].p => i = j
               /\ \A k, l \in 1..Len(s.queues[ac]) : k < l =>
                    \/ s.queues[ac][k].p \in D \/ s.queues[ac][l].p \in D
                    \/ \E i, j \in 1..Len(Q[ac]) : i < j /\ Q[ac][i] = s.queues[ac][k] /\ Q[ac][j] = s.queues[ac][l]
    <2> DEFINE q == s.queues[ac]
               r == Q[ac]
               S == ToSet(q) \ late
    <2>1. PICK h : From(r, Len(q), q, S, h)
      BY <1>7
    <2>2. r \in Seq(Entry) /\ Len(r) \in Nat /\ Len(q) \in Nat /\ \A k \in 1..Len(q) : q[k] \in Entry
      <3>1. r \in Seq(Entry)
        BY <1>7
      <3> HIDE DEF r
      <3> QED
        BY <1>3, <3>1
    <2>3. \A k \in 1..Len(q) : q[k] \in S <=> now <= q[k].expiry
      <3> SUFFICES ASSUME NEW k \in 1..Len(q)
                   PROVE  q[k] \in S <=> now <= q[k].expiry
        OBVIOUS
      <3>1. q[k] \in ToSet(q)
        BY <2>2 DEF ToSet
      <3>2. q[k] \in late <=> q[k].expiry < now
        BY <1>4
      <3>3. q[k].expiry \in Nat /\ now \in Nat
        BY <2>2 DEF Entry, Clocked
      <3> HIDE DEF q
      <3> QED
        BY <3>1, <3>2, <3>3
    <2>4. \A i, j \in 1..Len(q) : q[i].p = q[j].p => i = j
      BY DEF Good, Placed
    <2>5. \A k \in 1..Len(q) : ~(now <= q[k].expiry) => q[k].p \in D
      <3> SUFFICES ASSUME NEW k \in 1..Len(q), ~(now <= q[k].expiry)
                   PROVE  q[k].p \in D
        OBVIOUS
      <3>1. q[k].expiry \in Nat /\ now \in Nat
        BY <2>2 DEF Entry, Clocked
      <3>2. q[k].expiry < now
        BY <3>1
      <3> QED
        BY <1>5, <3>2
    <2> HIDE DEF q, r, S, D
    <2>6. /\ h \in [1..Len(r) -> 1..Len(q)]
          /\ \A k \in 1..Len(r) : r[k] = q[h[k]] /\ q[h[k]] \in S
          /\ \A j, k \in 1..Len(r) : j < k => h[j] < h[k]
          /\ \A i \in 1..Len(q) : q[i] \in S => \E k \in 1..Len(r) : h[k] = i
      BY <2>1 DEF From
    <2>7. Len(r) <= Len(q)
      BY <2>1, <2>2, KeptLength
    <2>8. \A i \in 1..Len(r) : now <= r[i].expiry /\ \E k \in 1..Len(q) : r[i] = q[k]
      BY <2>3, <2>6
    <2>9. \A k \in 1..Len(q) : q[k].p \in D \/ \E i \in 1..Len(r) : r[i] = q[k]
      BY <2>3, <2>5, <2>6
    <2>10. \A i, j \in 1..Len(r) : r[i].p = r[j].p => i = j
      <3> SUFFICES ASSUME NEW i \in 1..Len(r), NEW j \in 1..Len(r), r[i].p = r[j].p, i # j
                   PROVE  FALSE
        OBVIOUS
      <3>1. h[i] = h[j] /\ h[i] \in Nat
        BY <2>4, <2>6
      <3>2. i < j \/ j < i
        BY <2>2
      <3>3. h[i] < h[j] \/ h[j] < h[i]
        BY <2>6, <3>2
      <3> QED
        BY <3>1, <3>3
    <2>11. ASSUME NEW k \in 1..Len(q), NEW l \in 1..Len(q), k < l
           PROVE  q[k].p \in D \/ q[l].p \in D \/ \E i, j \in 1..Len(r) : i < j /\ r[i] = q[k] /\ r[j] = q[l]
      <3> SUFFICES ASSUME q[k].p \notin D, q[l].p \notin D
                   PROVE  \E i, j \in 1..Len(r) : i < j /\ r[i] = q[k] /\ r[j] = q[l]
        OBVIOUS
      <3>1. q[k] \in S /\ q[l] \in S
        BY <2>3, <2>5
      <3>2. PICK i \in 1..Len(r) : h[i] = k
        BY <2>6, <3>1
      <3>3. PICK j \in 1..Len(r) : h[j] = l
        BY <2>6, <3>1
      <3>4. i # j /\ ~(j < i)
        BY <2>2, <2>6, <2>11, <3>2, <3>3
      <3>5. i < j
        BY <2>2, <3>4
      <3> QED
        BY <2>6, <3>2, <3>3, <3>5
    <2> QED
      BY <2>2, <2>7, <2>8, <2>9, <2>10, <2>11 DEF q, r
  <1>9. Q \in [0..3 -> Seq(Entry)]
    BY <1>7
  <1> HIDE DEF Q, D
  <1>10. /\ d \in Record /\ d.queues = Q /\ d.dropped = D /\ d.triggers = s.triggers
         /\ d.log = s.log /\ d.burst = s.burst
    BY <1>1, <1>2, <1>6, <1>9 DEF Record
  <1>11. Placed(d)
    <2>1. ASSUME NEW ac \in 0..3, NEW i \in 1..Len(Q[ac])
          PROVE  /\ Profile[Q[ac][i].p] = ac /\ Q[ac][i].p \notin D
                 /\ \A k \in 1..Len(s.log) : s.log[k] # Q[ac][i].p
      <3>1. PICK k \in 1..Len(s.queues[ac]) : Q[ac][i] = s.queues[ac][k] /\ now <= Q[ac][i].expiry
        BY <1>8
      <3>2. /\ Profile[s.queues[ac][k].p] = ac /\ s.queues[ac][k].p \notin s.dropped
            /\ \A l \in 1..Len(s.log) : s.log[l] # s.queues[ac][k].p
        BY DEF Good, Placed
      <3>3. Q[ac][i].p \notin D
        <4> SUFFICES ASSUME NEW other \in 0..3, NEW l \in 1..Len(s.queues[other]),
                            Q[ac][i].p = s.queues[other][l].p, s.queues[other][l].expiry < now
                     PROVE  FALSE
          BY <1>5, <3>1, <3>2
        <4>1. other = ac
          <5>1. Profile[s.queues[other][l].p] = other
            BY DEF Good, Placed
          <5> QED
            BY <3>1, <3>2, <5>1
        <4>2. l = k
          BY <3>1, <4>1 DEF Good, Placed
        <4>3. s.queues[ac][k].expiry \in Nat /\ now \in Nat
          BY <1>3 DEF Entry, Clocked
        <4> QED
          BY <3>1, <4>1, <4>2, <4>3
      <3> QED
        BY <3>1, <3>2, <3>3
    <2> SUFFICES ASSUME NEW ac \in 0..3
                 PROVE  /\ \A i \in 1..Len(Q[ac]) : LET p == Q[ac][i].p IN
                             Profile[p] = ac /\ p \notin D /\ \A k \in 1..Len(s.log) : s.log[k] # p
                        /\ \A i, j \in 1..Len(Q[ac]) : Q[ac][i].p = Q[ac][j].p => i = j
      BY <1>10 DEF Placed
    <2> QED
      BY <1>8, <2>1
  <1>12. SentOnce(d)
    <2>1. ASSUME NEW k \in 1..Len(s.log)
          PROVE  s.log[k] \notin D
      <3>1. s.log[k] \notin s.dropped
        BY DEF Good, SentOnce
      <3>2. \A ac \in 0..3 : \A l \in 1..Len(s.queues[ac]) : s.log[k] # s.queues[ac][l].p
        BY DEF Good, Placed
      <3> QED
        BY <1>5, <3>1, <3>2
    <2> QED
      BY <1>10, <2>1 DEF Good, SentOnce
  <1>13. Limited(d)
    <2>1. \A ac \in 0..3 : QueueLength > 0 => Len(Q[ac]) <= QueueLength
      <3> SUFFICES ASSUME NEW ac \in 0..3, QueueLength > 0
                   PROVE  Len(Q[ac]) <= QueueLength
        OBVIOUS
      <3>1. Len(s.queues[ac]) <= QueueLength /\ Len(s.queues[ac]) \in Nat /\ QueueLength \in Nat
        BY <1>3 DEF Good, Limited, FlowControlAssumption
      <3> QED
        BY <1>8, <3>1
    <2> QED
      BY <1>10, <2>1 DEF Good, Limited
  <1>14. \A x \in D : x \in s.dropped \/ \E ac \in 0..3 : \E k \in 1..Len(s.queues[ac]) : s.queues[ac][k].p = x
    BY <1>5
  <1> QED
    <2>1. Good(d)
      BY <1>10, <1>11, <1>12, <1>13 DEF Good
    <2>2. s.dropped \subseteq D
      BY <1>5
    <2>3. Without(s, d)
      BY <1>8, <1>10, <1>14, <2>2 DEF Without
    <2> QED
      BY <2>1, <2>3

\* Behind adds one element.
LEMMA BehindIs ==
  ASSUME NEW V, NEW q \in Seq(V), NEW S, NEW e \in V
  PROVE  Behind(q, S, e) \in Seq(V) /\ Len(Behind(q, S, e)) = Len(q) + 1
  <1> DEFINE I == {i \in DOMAIN q : q[i] \in S}
             c == Cardinality(I)
             a == SubSeq(q, 1, (c + 1) - 1)
             b == SubSeq(q, c + 1, Len(q))
  <1>1. Len(q) \in Nat /\ DOMAIN q = 1..Len(q)
    OBVIOUS
  <1>2. c \in 0..Len(q)
    <2>1. I \subseteq 1..Len(q)
      BY <1>1
    <2>2. IsFiniteSet(1..Len(q)) /\ Cardinality(1..Len(q)) = Len(q)
      BY <1>1, FS_Interval
    <2>3. IsFiniteSet(I) /\ Cardinality(I) <= Cardinality(1..Len(q))
      BY <2>1, <2>2, FS_Subset
    <2>4. Cardinality(I) \in Nat
      BY <2>3, FS_CardinalityType
    <2> QED
      BY <1>1, <2>2, <2>3, <2>4
  <1>3. Behind(q, S, e) = a \o <<e>> \o b
    <2>1. Behind(q, S, e) = InsertAt(q, c + 1, e)
      BY DEF Behind
    <2> HIDE DEF c
    <2>2. InsertAt(q, c + 1, e) = SubSeq(q, 1, (c + 1) - 1) \o <<e>> \o SubSeq(q, c + 1, Len(q))
      BY DEF InsertAt
    <2> QED
      BY <2>1, <2>2
  <1> HIDE DEF c
  <1>4. a \in Seq(V) /\ b \in Seq(V) /\ <<e>> \in Seq(V) /\ Len(a) = c /\ Len(b) = Len(q) - c
    <2>1. (c + 1) - 1 = c /\ c \in Nat /\ c <= Len(q)
      BY <1>1, <1>2
    <2>2. SubSeq(q, 1, c) \in Seq(V) /\ Len(SubSeq(q, 1, c)) = c
      BY <1>1, <2>1
    <2>3. SubSeq(q, c + 1, Len(q)) \in Seq(V) /\ Len(SubSeq(q, c + 1, Len(q))) = Len(q) - c
      <3>1. \A i \in (c + 1)..Len(q) : q[i] \in V
        BY <1>1, <2>1
      <3>2. /\ SubSeq(q, c + 1, Len(q)) \in Seq(V)
            /\ Len(SubSeq(q, c + 1, Len(q))) = IF c + 1 <= Len(q) THEN Len(q) - (c + 1) + 1 ELSE 0
        <4>1. c + 1 \in Int /\ Len(q) \in Int
          BY <1>1, <2>1
        <4> QED
          BY <3>1, <4>1, SubSeqProperties
      <3> DEFINE l == Len(q)
                 rest == SubSeq(q, c + 1, Len(q))
      <3>3. l \in Nat /\ c \in Nat /\ c <= l /\ Len(rest) = IF c + 1 <= l THEN l - (c + 1) + 1 ELSE 0
        BY <1>1, <2>1, <3>2
      <3> HIDE DEF l, rest
      <3>4. Len(rest) = l - c
        BY <3>3
      <3> QED
        BY <3>2, <3>4 DEF l, rest
    <2> QED
      BY <2>1, <2>2, <2>3
  <1> HIDE DEF a, b
  <1>5. a \o <<e>> \in Seq(V) /\ Len(a \o <<e>>) = c + 1
    BY <1>2, <1>4
  <1>6. (a \o <<e>>) \o b \in Seq(V) /\ Len((a \o <<e>>) \o b) = c + 1 + (Len(q) - c)
    BY <1>2, <1>4, <1>5
  <1> QED
    BY <1>1, <1>2, <1>3, <1>6

LEMMA ScheduleGood ==
  ASSUME FlowControlAssumption, Clocked, NEW s, Good(s), NEW p, NEW t, t = schedule_trigger(s, p)
  PROVE  /\ Good(t) /\ t.triggers # <<>> /\ t.queues = s.queues /\ t.log = s.log /\ t.dropped = s.dropped
  <1> DEFINE q == s.triggers
             when == now + delay(s, p)
             S == {x \in ToSet(q) : x <= when}
             new == Scheduled(q, when)
  <1>1. q \in Seq(Int) /\ Len(q) \in Nat /\ DOMAIN q = 1..Len(q) /\ s \in Record
    BY DEF Good, Record
  <1>2. when \in Nat
    <2>1. delay(s, p) \in Nat
      BY <1>1, DelayType
    <2> QED
      BY <2>1 DEF Clocked
  <1>5. t = [s EXCEPT !.triggers = new]
    BY DEF schedule_trigger
  <1> HIDE DEF when
  <1>6. new \in Seq(Int) /\ new # <<>>
    <2>1. new \in Seq(Int) /\ Len(new) = Len(q) + 1
      <3>1. new = Behind(q, S, when)
        BY DEF Scheduled
      <3>2. when \in Int
        BY <1>2
      <3> HIDE DEF new, S, q
      <3> QED
        BY <1>1, <3>1, <3>2, BehindIs
    <2> HIDE DEF new, q
    <2>2. Len(new) # 0
      BY <1>1, <2>1
    <2> QED
      BY <2>1, <2>2
  <1> HIDE DEF new
  <1>7. /\ t \in Record /\ t.triggers = new /\ t.queues = s.queues /\ t.log = s.log /\ t.dropped = s.dropped
        /\ t.burst = s.burst
    BY <1>1, <1>5, <1>6 DEF Record
  <1> QED
    BY <1>6, <1>7 DEF Good, Placed, SentOnce, Limited

\* p is the last of its queue in t; those before it have moved up by n, and what
\* gave way is dropped.
Enqueued(s, t, p, n) ==
  LET ac == Profile[p] IN
  /\ Len(t.queues[ac]) = Len(s.queues[ac]) - n + 1 /\ t.queues[ac][Len(s.queues[ac]) - n + 1].p = p
  /\ \A i \in 1..(Len(s.queues[ac]) - n) : t.queues[ac][i] = s.queues[ac][i + n]
  /\ \A i \in 1..Len(s.queues[ac]) : i <= n => s.queues[ac][i].p \in t.dropped
  /\ \A other \in 0..3 : other # ac => t.queues[other] = s.queues[other]

LEMMA EnqueueGood ==
  ASSUME FlowControlAssumption, Clocked, NEW s, Good(s), Waits(s), NEW p, NewTo(s, p),
         NEW t, t = enqueue(s, p)
  PROVE  /\ Good(t) /\ Waits(t) /\ t.log = s.log /\ s.dropped \subseteq t.dropped
         /\ \E n \in 0..Len(s.queues[Profile[p]]) : Enqueued(s, t, p, n)
  <1> DEFINE ac == Profile[p]
             old == s.queues[ac]
             n == Overflow(old)
             rest == SubSeq(old, n + 1, Len(old))
             e == [p |-> p, expiry |-> now + Lifetime[p]]
             q == Append(rest, e)
             out == {old[i].p : i \in 1..n}
             s2 == [s EXCEPT !.queues[ac] = q, !.dropped = @ \cup out]
  <1>1. /\ s \in Record /\ s.queues \in [0..3 -> Seq(Entry)] /\ s.dropped \subseteq Packets /\ s.log \in Seq(Packets)
        /\ ac \in 0..3 /\ old \in Seq(Entry) /\ Len(old) \in Nat /\ QueueLength \in Nat /\ Lifetime[p] \in Nat /\ p \in Packets
    BY DEF Good, Record, NewTo, FlowControlAssumption
  <1>2. e \in Entry
    BY <1>1 DEF Entry, Clocked
  <1>3. n \in 0..Len(old) /\ (QueueLength > 0 => Len(old) - n + 1 <= QueueLength)
    <2> HIDE DEF old
    <2>1. CASE QueueLength > 0 /\ Len(old) >= QueueLength
      BY <1>1, <2>1 DEF Overflow
    <2>2. CASE ~(QueueLength > 0 /\ Len(old) >= QueueLength)
      BY <1>1, <2>2 DEF Overflow
    <2> QED
      BY <2>1, <2>2
  <1>4. t = IF empty(s) THEN schedule_trigger(s2, p) ELSE s2
    BY DEF enqueue
  <1> HIDE DEF e, n, old
  <1>5. /\ rest \in Seq(Entry) /\ Len(rest) = Len(old) - n
        /\ \A i \in 1..(Len(old) - n) : rest[i] = old[i + n]
    BY <1>1, <1>3
  <1> HIDE DEF rest
  <1>6. /\ q \in Seq(Entry) /\ Len(q) = Len(old) - n + 1 /\ q[Len(old) - n + 1] = e
        /\ \A i \in 1..(Len(old) - n) : q[i] = old[i + n]
    <2>1. n \in Nat /\ Len(rest) \in Nat
      BY <1>1, <1>3, <1>5
    <2>2. /\ q \in Seq(Entry) /\ Len(q) = Len(rest) + 1 /\ q[Len(rest) + 1] = e
          /\ \A i \in 1..Len(rest) : q[i] = rest[i]
      BY <1>2, <1>5
    <2> HIDE DEF q
    <2> QED
      BY <1>5, <2>2
  <1> HIDE DEF q
  <1>7. \A i \in 1..Len(old) : old[i].p \in Packets
    <2>1. \A i \in 1..Len(old) : old[i] \in Entry
      BY <1>1
    <2> QED
      BY <2>1 DEF Entry
  <1>8. out \subseteq Packets
    BY <1>1, <1>3, <1>7
  <1> HIDE DEF ac
  <1>9. s2 = [s EXCEPT !.queues = [s.queues EXCEPT ![ac] = q], !.dropped = s.dropped \cup out]
    BY <1>1 DEF Record
  <1> DEFINE Q == [s.queues EXCEPT ![ac] = q]
             D == s.dropped \cup out
  <1>10. Q \in [0..3 -> Seq(Entry)] /\ D \subseteq Packets
    BY <1>1, <1>6, <1>8
  <1>11. /\ Q[ac] = q /\ \A other \in 0..3 : other # ac => Q[other] = s.queues[other]
    BY <1>1
  <1> HIDE DEF Q
  <1>12. /\ \A i \in 1..Len(old) : /\ Profile[old[i].p] = ac /\ old[i].p \notin s.dropped /\ old[i].p # p
                                   /\ \A k \in 1..Len(s.log) : s.log[k] # old[i].p
         /\ \A i, j \in 1..Len(old) : old[i].p = old[j].p => i = j
         /\ Profile[p] = ac /\ e.p = p
    <2>1. /\ \A other \in 0..3 : \A i \in 1..Len(s.queues[other]) :
               /\ Profile[s.queues[other][i].p] = other /\ s.queues[other][i].p \notin s.dropped
               /\ \A k \in 1..Len(s.log) : s.log[k] # s.queues[other][i].p
          /\ \A other \in 0..3 : \A i, j \in 1..Len(s.queues[other]) :
               s.queues[other][i].p = s.queues[other][j].p => i = j
      BY DEF Good, Placed
    <2>2. \A other \in 0..3 : \A i \in 1..Len(s.queues[other]) : s.queues[other][i].p # p
      BY DEF NewTo
    <2>3. e.p = p /\ old = s.queues[ac] /\ Profile[p] = ac
      BY DEF e, old, ac
    <2>4. /\ \A i \in 1..Len(old) : /\ Profile[old[i].p] = ac /\ old[i].p \notin s.dropped
                                     /\ \A k \in 1..Len(s.log) : s.log[k] # old[i].p
          /\ \A i, j \in 1..Len(old) : old[i].p = old[j].p => i = j
      BY <1>1, <2>1, Zenon DEF old
    <2>5. \A i \in 1..Len(old) : old[i].p # p
      BY <1>1, <2>2, Zenon DEF old
    <2> QED
      BY <2>3, <2>4, <2>5, Zenon
  <1>13. \A x \in out : \E i \in 1..n : i \in 1..Len(old) /\ x = old[i].p
    BY <1>1, <1>3
  <1>14. \A x : x \in D => x \in s.dropped \/ x \in out
    OBVIOUS
  <1>d. \A i \in 1..Len(old) : i <= n => old[i].p \in D
    BY <1>1, <1>3
  <1> HIDE DEF out, D
  <1>15. p \notin D
    BY <1>12, <1>13, <1>14 DEF NewTo
  <1>16. ASSUME NEW other \in 0..3, NEW i \in 1..Len(Q[other])
         PROVE  /\ Profile[Q[other][i].p] = other /\ Q[other][i].p \notin D
                /\ \A k \in 1..Len(s.log) : s.log[k] # Q[other][i].p
    <2>1. CASE other # ac
      <3>1. /\ Profile[s.queues[other][i].p] = other /\ s.queues[other][i].p \notin s.dropped
            /\ \A k \in 1..Len(s.log) : s.log[k] # s.queues[other][i].p
        BY <1>11, <2>1 DEF Good, Placed
      <3>2. s.queues[other][i].p \notin out
        BY <1>12, <1>13, <2>1, <3>1
      <3> QED
        BY <1>11, <1>14, <2>1, <3>1, <3>2
    <2>2. CASE other = ac
      <3>1. i \in 1..(Len(old) - n + 1)
        BY <1>6, <1>11, <2>2
      <3>2. CASE i = Len(old) - n + 1
        <4>1. Q[other][i].p = p
          BY <1>6, <1>11, <1>12, <2>2, <3>2
        <4> QED
          BY <1>12, <1>15, <2>2, <4>1 DEF NewTo
      <3>3. CASE i # Len(old) - n + 1
        <4>1. i \in 1..(Len(old) - n) /\ i + n \in 1..Len(old) /\ \A j \in 1..n : j # i + n
          <5> DEFINE l == Len(old)
          <5>1. l \in Nat /\ n \in 0..l /\ i \in 1..(l - n + 1) /\ i # l - n + 1
            BY <1>1, <1>3, <3>1, <3>3
          <5> HIDE DEF l
          <5>2. i \in 1..(l - n) /\ i + n \in 1..l /\ \A j \in 1..n : j # i + n
            BY <5>1
          <5> QED
            BY <5>2 DEF l
        <4>2. Q[other][i] = old[i + n]
          BY <1>6, <1>11, <2>2, <4>1
        <4>3. old[i + n].p \notin out
          BY <1>12, <1>13, <4>1
        <4> QED
          BY <1>12, <1>14, <2>2, <4>1, <4>2, <4>3
      <3> QED
        BY <3>2, <3>3
    <2> QED
      BY <2>1, <2>2
  <1>17. ASSUME NEW other \in 0..3, NEW i \in 1..Len(Q[other]), NEW j \in 1..Len(Q[other]),
                Q[other][i].p = Q[other][j].p
         PROVE  i = j
    <2>1. CASE other # ac
      BY <1>11, <1>17, <2>1 DEF Good, Placed
    <2>2. CASE other = ac
      <3> DEFINE m == Len(old) - n
      <3>a. m \in Nat
        BY <1>1, <1>3
      <3>b. Len(q) = m + 1
        BY <1>6
      <3>c. Q[other] = q
        BY <1>11, <2>2
      <3>0. m \in Nat /\ Len(q) = m + 1 /\ Q[other] = q
        BY <3>a, <3>b, <3>c, Zenon
      <3>1. m \in Nat /\ i \in 1..(m + 1) /\ j \in 1..(m + 1) /\ q[i].p = q[j].p
        <4> HIDE DEF m
        <4> QED
          BY <1>17, <3>0
      <3>2. \A k \in 1..m : k + n \in 1..Len(old) /\ q[k].p = old[k + n].p
        <4> SUFFICES ASSUME NEW k \in 1..m
                     PROVE  k + n \in 1..Len(old) /\ q[k].p = old[k + n].p
          OBVIOUS
        <4>1. k + n \in 1..Len(old)
          BY <1>1, <1>3
        <4> QED
          BY <1>6, <4>1
      <3>3. q[m + 1].p = p
        BY <1>6, <1>12
      <3> HIDE DEF m
      <3>4. CASE i = m + 1 /\ j # m + 1
        BY <1>12, <3>1, <3>2, <3>3, <3>4
      <3>5. CASE j = m + 1 /\ i # m + 1
        BY <1>12, <3>1, <3>2, <3>3, <3>5
      <3>6. CASE i # m + 1 /\ j # m + 1
        <4>1. i \in 1..m /\ j \in 1..m
          BY <3>1, <3>6
        <4>2. i + n = j + n
          BY <1>12, <3>1, <3>2, <4>1
        <4> QED
          BY <1>1, <1>3, <4>2
      <3> QED
        BY <3>4, <3>5, <3>6
    <2> QED
      BY <2>1, <2>2
  <1>18. s2 = [s EXCEPT !.queues = Q, !.dropped = D]
    BY <1>9 DEF Q, D
  <1> HIDE DEF s2
  <1>19. /\ s2 \in Record /\ s2.queues = Q /\ s2.dropped = D /\ s2.log = s.log /\ s2.triggers = s.triggers
         /\ s2.burst = s.burst
    BY <1>1, <1>10, <1>18 DEF Record
  <1>20. Placed(s2)
    <2> SUFFICES ASSUME NEW other \in 0..3
                 PROVE  /\ \A i \in 1..Len(Q[other]) :
                             /\ Profile[Q[other][i].p] = other /\ Q[other][i].p \notin D
                             /\ \A k \in 1..Len(s.log) : s.log[k] # Q[other][i].p
                        /\ \A i, j \in 1..Len(Q[other]) : Q[other][i].p = Q[other][j].p => i = j
      BY <1>19 DEF Placed
    <2>1. \A i, j \in 1..Len(Q[other]) : Q[other][i].p = Q[other][j].p => i = j
      BY <1>17
    <2> QED
      BY <1>16, <2>1
  <1>21. SentOnce(s2)
    <2>1. ASSUME NEW k \in 1..Len(s.log)
          PROVE  s.log[k] \notin D
      BY <1>12, <1>13, <1>14 DEF Good, SentOnce
    <2> QED
      BY <1>19, <2>1 DEF Good, SentOnce
  <1>22. Limited(s2)
    <2>1. \A other \in 0..3 : QueueLength > 0 => Len(Q[other]) <= QueueLength
      BY <1>3, <1>6, <1>11 DEF Good, Limited
    <2> QED
      BY <1>19, <2>1 DEF Good, Limited
  <1>23. Good(s2)
    BY <1>19, <1>20, <1>21, <1>22 DEF Good
  <1>24. s.dropped \subseteq D
    BY DEF D
  <1>25. ASSUME empty(s)
         PROVE  Good(t) /\ Waits(t) /\ t.log = s.log /\ s.dropped \subseteq t.dropped
    <2>1. t = schedule_trigger(s2, p)
      BY <1>4, <1>25
    <2>2. Good(t) /\ t.triggers # <<>> /\ t.queues = s2.queues /\ t.log = s2.log /\ t.dropped = s2.dropped
      BY <1>23, <2>1, ScheduleGood
    <2> QED
      BY <1>19, <1>24, <2>2 DEF Waits
  <1>26. ASSUME ~empty(s)
         PROVE  Good(t) /\ Waits(t) /\ t.log = s.log /\ s.dropped \subseteq t.dropped
    <2>1. t = s2
      BY <1>4, <1>26
    <2>2. s.triggers # <<>>
      BY <1>26 DEF Waits, empty
    <2> QED
      BY <1>19, <1>23, <1>24, <2>1, <2>2 DEF Waits
  <1>27. t.queues = Q /\ t.dropped = D
    <2>1. CASE empty(s)
      <3>1. t = schedule_trigger(s2, p)
        BY <1>4, <2>1
      <3> QED
        BY <1>19, <1>23, <3>1, ScheduleGood
    <2> QED
      BY <1>4, <1>19, <2>1
  <1>28. Enqueued(s, t, p, n)
    <2>1. /\ Len(t.queues[ac]) = Len(old) - n + 1 /\ t.queues[ac][Len(old) - n + 1].p = p
          /\ \A i \in 1..(Len(old) - n) : t.queues[ac][i] = old[i + n]
          /\ \A i \in 1..Len(old) : i <= n => old[i].p \in t.dropped
          /\ \A other \in 0..3 : other # ac => t.queues[other] = s.queues[other]
      BY <1>d, <1>6, <1>11, <1>12, <1>27
    <2> QED
      BY <2>1 DEF Enqueued, old, ac
  <1>29. n \in 0..Len(s.queues[Profile[p]])
    BY <1>3 DEF old, ac
  <1> QED
    BY <1>25, <1>26, <1>28, <1>29

\* If packets are queued, one of them is next.
LEMMA SomeoneIsNext ==
  ASSUME FlowControlAssumption, Clocked, NEW s, Good(s)
  PROVE  /\ \A ac \in next_queue(s) : ac \in 0..3 /\ s.queues[ac] # <<>>
         /\ (\E ac \in 0..3 : s.queues[ac] # <<>>) => next_queue(s) # {}
  <1> DEFINE full == {ac \in 0..3 : s.queues[ac] # <<>>}
             W == [ac \in 0..3 |-> delay(s, Head(s.queues[ac]).p)]
  <1>1. s \in Record
    BY DEF Good
  <1>2. \A ac \in 0..3 : W[ac] \in Nat
    BY <1>1, DelayType
  <1>3. next_queue(s) = {ac \in full : \A other \in full : W[ac] < W[other] \/ (W[ac] = W[other] /\ ac <= other)}
    BY DEF next_queue
  <1> HIDE DEF W
  <1>4. ASSUME full # {}
        PROVE  next_queue(s) # {}
    <2> DEFINE times == {W[ac] : ac \in full}
    <2>1. times \subseteq Nat /\ times # {}
      BY <1>2, <1>4
    <2> HIDE DEF times
    <2>2. PICK w \in times : \A x \in times : w <= x
      BY <2>1, LeastElement
    <2> DEFINE first == {ac \in full : W[ac] = w}
    <2>3. first \subseteq Nat /\ first # {}
      BY <2>2 DEF times
    <2> HIDE DEF first
    <2>4. PICK ac \in first : \A x \in first : ac <= x
      BY <2>3, LeastElement
    <2>5. ac \in full /\ W[ac] = w
      BY <2>4 DEF first
    <2>6. ASSUME NEW other \in full
          PROVE  W[ac] < W[other] \/ (W[ac] = W[other] /\ ac <= other)
      <3>1. W[other] \in Nat /\ w \in Nat /\ w <= W[other]
        BY <1>2, <2>1, <2>2 DEF times
      <3>2. CASE W[other] = w
        BY <2>4, <2>5, <3>2 DEF first
      <3>3. CASE W[other] # w
        BY <2>5, <3>1, <3>3
      <3> QED
        BY <3>2, <3>3
    <2> QED
      BY <1>3, <2>5, <2>6
  <1> QED
    BY <1>3, <1>4

\* t is s without the first packet of a queue, which has been transmitted.
Popped(s, t, ac) ==
  /\ t.log = Append(s.log, s.queues[ac][1].p)
  /\ Len(t.queues[ac]) = Len(s.queues[ac]) - 1
  /\ \A i \in 1..(Len(s.queues[ac]) - 1) : t.queues[ac][i] = s.queues[ac][i + 1]
  /\ \A other \in 0..3 : other # ac => t.queues[other] = s.queues[other]

LEMMA TransmitNextGood ==
  ASSUME FlowControlAssumption, Clocked, NEW s, Good(s), NEW t, t = TransmitNext(s)
  PROVE  /\ Good(t) /\ t.triggers = s.triggers /\ t.dropped = s.dropped
         /\ t = s \/ \E ac \in 0..3 : 1 \in 1..Len(s.queues[ac]) /\ Popped(s, t, ac)
  <1>1. CASE next_queue(s) = {}
    BY <1>1 DEF TransmitNext
  <1>2. CASE next_queue(s) # {}
    <2> DEFINE ac == CHOOSE a \in next_queue(s) : TRUE
               old == s.queues[ac]
               u == [s EXCEPT !.queues[ac] = Tail(@)]
               p == Head(old).p
               Q == [s.queues EXCEPT ![ac] = Tail(old)]
    <2>1. ac \in next_queue(s)
      BY <1>2
    <2>2. ac \in 0..3 /\ old # <<>>
      BY <2>1, SomeoneIsNext
    <2>3. t = transmit(u, p)
      BY <1>2 DEF TransmitNext
    <2> HIDE DEF ac
    <2>4. s \in Record /\ s.queues \in [0..3 -> Seq(Entry)]
      BY DEF Good, Record
    <2>5. /\ old \in Seq(Entry) /\ Len(old) \in Nat /\ 1 \in 1..Len(old) /\ p = old[1].p
          /\ Tail(old) \in Seq(Entry) /\ Len(Tail(old)) = Len(old) - 1
          /\ \A i \in 1..(Len(old) - 1) : Tail(old)[i] = old[i + 1]
      <3>1. old \in Seq(Entry)
        BY <2>2, <2>4
      <3> HIDE DEF old
      <3> QED
        BY <2>2, <3>1
    <2>6. u = [s EXCEPT !.queues = Q]
      BY <2>4 DEF Record
    <2>7. Q \in [0..3 -> Seq(Entry)] /\ Q[ac] = Tail(old) /\ \A other \in 0..3 : other # ac => Q[other] = s.queues[other]
      BY <2>2, <2>4, <2>5
    <2> HIDE DEF u, Q, p
    <2>8. /\ u \in Record /\ u.queues = Q /\ u.triggers = s.triggers /\ u.log = s.log /\ u.dropped = s.dropped
          /\ u.burst = s.burst
      BY <2>4, <2>6, <2>7 DEF Record
    <2>9. ASSUME NEW other \in 0..3, NEW i \in 1..Len(Q[other])
          PROVE  \E k \in 1..Len(s.queues[other]) : Q[other][i] = s.queues[other][k] /\ (other = ac => k = i + 1)
      <3>1. CASE other # ac
        BY <2>7, <3>1
      <3>2. CASE other = ac
        <4>0. Len(Q[other]) = Len(old) - 1 /\ Len(old) \in Nat
          BY <2>5, <2>7, <3>2
        <4>1. i \in 1..(Len(old) - 1) /\ i + 1 \in 1..Len(old)
          <5> HIDE DEF old
          <5> QED
            BY <4>0
        <4> QED
          BY <2>5, <2>7, <3>2, <4>1
      <3> QED
        BY <3>1, <3>2
    <2>10. Good(u)
      <3>1. \A other \in 0..3 : \A i \in 1..Len(Q[other]) :
              /\ Profile[Q[other][i].p] = other /\ Q[other][i].p \notin s.dropped
              /\ \A k \in 1..Len(s.log) : s.log[k] # Q[other][i].p
        <4> SUFFICES ASSUME NEW other \in 0..3, NEW i \in 1..Len(Q[other])
                     PROVE  /\ Profile[Q[other][i].p] = other /\ Q[other][i].p \notin s.dropped
                            /\ \A k \in 1..Len(s.log) : s.log[k] # Q[other][i].p
          OBVIOUS
        <4>1. PICK k \in 1..Len(s.queues[other]) : Q[other][i] = s.queues[other][k]
          BY <2>9
        <4> QED
          BY <4>1 DEF Good, Placed
      <3>2. ASSUME NEW other \in 0..3, NEW i \in 1..Len(Q[other]), NEW j \in 1..Len(Q[other]), Q[other][i].p = Q[other][j].p
            PROVE  i = j
        <4>1. CASE other # ac
          BY <2>7, <3>2, <4>1 DEF Good, Placed
        <4>2. CASE other = ac
          <5>1. PICK k \in 1..Len(old) : Q[other][i] = old[k] /\ k = i + 1
            BY <2>9, <4>2
          <5>2. PICK l \in 1..Len(old) : Q[other][j] = old[l] /\ l = j + 1
            BY <2>9, <4>2
          <5>3. k = l
            BY <2>2, <3>2, <5>1, <5>2 DEF Good, Placed
          <5> QED
            BY <5>1, <5>2, <5>3
        <4> QED
          BY <4>1, <4>2
      <3>3. \A other \in 0..3 : QueueLength > 0 => Len(Q[other]) <= QueueLength
        <4> SUFFICES ASSUME NEW other \in 0..3, QueueLength > 0
                     PROVE  Len(Q[other]) <= QueueLength
          OBVIOUS
        <4>1. Len(s.queues[other]) <= QueueLength /\ QueueLength \in Nat
          BY DEF Good, Limited, FlowControlAssumption
        <4>2. CASE other # ac
          BY <2>7, <4>1, <4>2
        <4>3. CASE other = ac
          <5>1. Len(Q[other]) = Len(old) - 1 /\ Len(old) \in Nat /\ Len(old) <= QueueLength
            BY <2>5, <2>7, <4>1, <4>3
          <5> HIDE DEF old
          <5> QED
            BY <4>1, <5>1
        <4> QED
          BY <4>2, <4>3
      <3>4. Placed(u)
        <4> SUFFICES ASSUME NEW other \in 0..3
                     PROVE  /\ \A i \in 1..Len(Q[other]) : LET x == Q[other][i].p IN
                                 Profile[x] = other /\ x \notin s.dropped /\ \A k \in 1..Len(s.log) : s.log[k] # x
                            /\ \A i, j \in 1..Len(Q[other]) : Q[other][i].p = Q[other][j].p => i = j
          BY <2>8 DEF Placed
        <4> QED
          BY <3>1, <3>2
      <3> QED
        BY <2>8, <3>3, <3>4 DEF Good, SentOnce, Limited
    <2>11. NewTo(u, p)
      <3>1. /\ p \in Packets /\ p \notin s.dropped /\ Profile[p] = ac /\ \A k \in 1..Len(s.log) : s.log[k] # p
        <4>1. old[1] \in Entry
          BY <2>5
        <4> QED
          BY <2>2, <2>5, <4>1 DEF Good, Placed, Entry
      <3>2. ASSUME NEW other \in 0..3, NEW i \in 1..Len(Q[other])
            PROVE  Q[other][i].p # p
        <4>1. PICK k \in 1..Len(s.queues[other]) : Q[other][i] = s.queues[other][k] /\ (other = ac => k = i + 1)
          BY <2>9
        <4>2. Profile[s.queues[other][k].p] = other
          BY DEF Good, Placed
        <4>3. CASE other # ac
          BY <3>1, <4>1, <4>2, <4>3
        <4>4. CASE other = ac
          <5>1. k # 1
            BY <4>1, <4>4
          <5> QED
            BY <2>2, <2>5, <4>1, <4>4, <5>1 DEF Good, Placed
        <4> QED
          BY <4>3, <4>4
      <3> QED
        BY <2>8, <3>1, <3>2 DEF NewTo
    <2>12. /\ Good(t) /\ t.triggers = u.triggers /\ t.log = Append(u.log, p) /\ t.dropped = u.dropped
           /\ t.queues = u.queues
      BY <2>3, <2>10, <2>11, TransmitGood
    <2>13. Popped(s, t, ac)
      BY <2>5, <2>7, <2>8, <2>12 DEF Popped
    <2> QED
      BY <2>2, <2>5, <2>8, <2>12, <2>13
  <1> QED
    BY <1>1, <1>2

LEMMA ScheduleNextGood ==
  ASSUME FlowControlAssumption, Clocked, NEW s, Good(s), NEW t, t = ScheduleNext(s)
  PROVE  Good(t) /\ Waits(t) /\ t.log = s.log /\ t.dropped = s.dropped /\ t.queues = s.queues
  <1>1. CASE next_queue(s) = {}
    BY <1>1, SomeoneIsNext DEF ScheduleNext, Waits
  <1>2. CASE next_queue(s) # {}
    <2> DEFINE ac == CHOOSE a \in next_queue(s) : TRUE
    <2>1. t = schedule_trigger(s, Head(s.queues[ac]).p)
      BY <1>2 DEF ScheduleNext
    <2> HIDE DEF ac
    <2>2. Good(t) /\ t.triggers # <<>> /\ t.log = s.log /\ t.dropped = s.dropped /\ t.queues = s.queues
      BY <2>1, ScheduleGood
    <2> QED
      BY <2>2 DEF Waits
  <1> QED
    BY <1>1, <1>2

\* Dropping what has expired does not make p an old one, nor a queue of an empty one.
LEMMA DropIsNew ==
  ASSUME FlowControlAssumption, Clocked, NEW s, Good(s), NEW p, NewTo(s, p), NEW d, d = drop_expired(s)
  PROVE  NewTo(d, p)
  <1>1. Without(s, d)
    BY DropGood
  <1>2. d.log = s.log
    BY <1>1 DEF Without
  <1>3. p \notin d.dropped
    BY <1>1 DEF Without, NewTo
  <1>4. ASSUME NEW ac \in 0..3, NEW i \in 1..Len(d.queues[ac])
        PROVE  d.queues[ac][i].p # p
    <2>1. \E k \in 1..Len(s.queues[ac]) : d.queues[ac][i] = s.queues[ac][k]
      BY <1>1 DEF Without
    <2> QED
      BY <2>1 DEF NewTo
  <1> QED
    BY <1>2, <1>3, <1>4 DEF NewTo

LEMMA DropWaits ==
  ASSUME FlowControlAssumption, Clocked, NEW s, Good(s), Waits(s), NEW d, d = drop_expired(s)
  PROVE  Waits(d)
  <1>0. Good(d) /\ Without(s, d)
    BY DropGood
  <1>1. /\ d.triggers = s.triggers /\ Good(d)
        /\ \A ac \in 0..3 : \A i \in 1..Len(d.queues[ac]) :
             \E k \in 1..Len(s.queues[ac]) : d.queues[ac][i] = s.queues[ac][k]
    BY <1>0 DEF Without
  <1>2. ASSUME NEW ac \in 0..3, d.queues[ac] # <<>>
        PROVE  s.queues[ac] # <<>>
    <2> DEFINE q == d.queues[ac]
    <2>1. q \in Seq(Entry) /\ s.queues[ac] \in Seq(Entry)
      BY <1>1 DEF Good, Record
    <2>2. 1 \in 1..Len(q)
      <3>1. q \in Seq(Entry) /\ q # <<>>
        BY <1>2, <2>1
      <3> HIDE DEF q
      <3> QED
        BY <3>1
    <2>3. \E k \in 1..Len(s.queues[ac]) : d.queues[ac][1] = s.queues[ac][k]
      BY <1>1, <2>2
    <2> QED
      BY <2>3
  <1> QED
    BY <1>1, <1>2 DEF Waits

-----------------------------------------------------------------------------
(***************************************************************************)
(* The order within a profile.  Follows is Ahead of a state s: q is        *)
(* queued, and p of its profile came after it or is still to come.  The    *)
(* operations are orderly: what follows q does so as long as q is queued.  *)
(***************************************************************************)
Within(s, q) == \E ac \in 0..3 : \E i \in 1..Len(s.queues[ac]) : s.queues[ac][i].p = q
After(s, q, p) ==
  \E ac \in 0..3 : \E i, j \in 1..Len(s.queues[ac]) : i < j /\ s.queues[ac][i].p = q /\ s.queues[ac][j].p = p
Follows(s, q, p) == Within(s, q) /\ (After(s, q, p) \/ (NewTo(s, p) /\ Profile[p] = Profile[q]))
Orderly(s, t) == \A p, q \in Packets : Follows(s, q, p) /\ Within(t, q) => Follows(t, q, p) \/ p \in t.dropped

\* A good state has no packet both in a queue and dropped.
LEMMA WithinIs ==
  ASSUME NEW s, Good(s), NEW q, Within(s, q)
  PROVE  q \notin s.dropped
  BY DEF Within, Good, Placed

\* What a log is not, it is not after another packet was transmitted.
LEMMA AppendedTo ==
  ASSUME NEW l \in Seq(Packets), NEW x \in Packets, NEW p, p # x, \A k \in 1..Len(l) : l[k] # p
  PROVE  \A k \in 1..Len(Append(l, x)) : Append(l, x)[k] # p
  OBVIOUS

LEMMA SameOrderly ==
  ASSUME NEW s, NEW t, t.queues = s.queues, t.log = s.log, t.dropped = s.dropped
  PROVE  Orderly(s, t)
  <1> SUFFICES ASSUME NEW p \in Packets, NEW q \in Packets, Follows(s, q, p)
               PROVE  Follows(t, q, p)
    BY DEF Orderly
  <1>1. Within(s, q) => Within(t, q)
    BY DEF Within
  <1>2. After(s, q, p) => After(t, q, p)
    BY DEF After
  <1>3. NewTo(s, p) => NewTo(t, p)
    BY DEF NewTo
  <1> QED
    BY <1>1, <1>2, <1>3 DEF Follows

LEMMA ChainOrderly ==
  ASSUME NEW s, NEW d, NEW t, Orderly(s, d), Orderly(d, t), d.dropped \subseteq t.dropped,
         \A q \in Packets : Within(s, q) /\ Within(t, q) => Within(d, q)
  PROVE  Orderly(s, t)
  <1> SUFFICES ASSUME NEW p \in Packets, NEW q \in Packets, Follows(s, q, p), Within(t, q)
               PROVE  Follows(t, q, p) \/ p \in t.dropped
    BY DEF Orderly
  <1>1. Within(d, q)
    BY DEF Follows
  <1>2. Follows(d, q, p) \/ p \in d.dropped
    BY <1>1 DEF Orderly
  <1> QED
    BY <1>2 DEF Orderly

LEMMA DropOrderly ==
  ASSUME FlowControlAssumption, Clocked, NEW s, Good(s), NEW d, d = drop_expired(s)
  PROVE  Orderly(s, d) /\ \A q : Within(d, q) => Within(s, q)
  <1>1. Good(d) /\ Without(s, d)
    BY DropGood
  <1>2. \A q : Within(d, q) => Within(s, q)
    <2> SUFFICES ASSUME NEW q, NEW ac \in 0..3, NEW i \in 1..Len(d.queues[ac]), d.queues[ac][i].p = q
                 PROVE  Within(s, q)
      BY DEF Within
    <2>1. PICK k \in 1..Len(s.queues[ac]) : d.queues[ac][i] = s.queues[ac][k]
      BY <1>1 DEF Without
    <2> QED
      BY <2>1 DEF Within
  <1>3. ASSUME NEW p \in Packets, NEW q \in Packets, Follows(s, q, p), Within(d, q)
        PROVE  Follows(d, q, p) \/ p \in d.dropped
    <2>1. q \notin d.dropped
      BY <1>1, <1>3, WithinIs
    <2>2. NewTo(s, p) => NewTo(d, p)
      BY DropIsNew
    <2>3. ASSUME After(s, q, p), p \notin d.dropped
          PROVE  After(d, q, p)
      <3>1. PICK ac \in 0..3 : \E k, l \in 1..Len(s.queues[ac]) :
                                 k < l /\ s.queues[ac][k].p = q /\ s.queues[ac][l].p = p
        BY <2>3 DEF After
      <3>2. PICK k, l \in 1..Len(s.queues[ac]) : k < l /\ s.queues[ac][k].p = q /\ s.queues[ac][l].p = p
        BY <3>1
      <3>3. \E i, j \in 1..Len(d.queues[ac]) : i < j /\ d.queues[ac][i] = s.queues[ac][k] /\ d.queues[ac][j] = s.queues[ac][l]
        <4>1. \A a \in 0..3 : \A e, f \in 1..Len(s.queues[a]) : e < f =>
                \/ s.queues[a][e].p \in d.dropped \/ s.queues[a][f].p \in d.dropped
                \/ \E i, j \in 1..Len(d.queues[a]) : i < j /\ d.queues[a][i] = s.queues[a][e] /\ d.queues[a][j] = s.queues[a][f]
          BY <1>1 DEF Without
        <4>2. \/ s.queues[ac][k].p \in d.dropped \/ s.queues[ac][l].p \in d.dropped
              \/ \E i, j \in 1..Len(d.queues[ac]) : i < j /\ d.queues[ac][i] = s.queues[ac][k] /\ d.queues[ac][j] = s.queues[ac][l]
          BY <3>2, <4>1
        <4>3. s.queues[ac][k].p \notin d.dropped /\ s.queues[ac][l].p \notin d.dropped
          BY <2>1, <2>3, <3>2
        <4> QED
          BY <4>2, <4>3
      <3>4. PICK i, j \in 1..Len(d.queues[ac]) : i < j /\ d.queues[ac][i] = s.queues[ac][k] /\ d.queues[ac][j] = s.queues[ac][l]
        BY <3>3
      <3>5. d.queues[ac][i].p = q /\ d.queues[ac][j].p = p
        BY <3>2, <3>4
      <3> QED
        BY <3>4, <3>5 DEF After
    <2> QED
      BY <1>3, <2>2, <2>3 DEF Follows
  <1> QED
    BY <1>2, <1>3 DEF Orderly

\* x is transmitted at once, as nothing of its profile is queued.
LEMMA TransmitOrderly ==
  ASSUME NEW s, Good(s), NEW x, NewTo(s, x), Profile[x] \in 0..3, s.queues[Profile[x]] = <<>>,
         NEW t, t.queues = s.queues, t.log = Append(s.log, x), t.dropped = s.dropped
  PROVE  Orderly(s, t)
  <1> SUFFICES ASSUME NEW p \in Packets, NEW q \in Packets, Follows(s, q, p)
               PROVE  Follows(t, q, p)
    BY DEF Orderly
  <1>1. Within(t, q)
    BY DEF Follows, Within
  <1>2. CASE After(s, q, p)
    <2>1. After(t, q, p)
      BY <1>2 DEF After
    <2> QED
      BY <1>1, <2>1 DEF Follows
  <1>3. CASE NewTo(s, p) /\ Profile[p] = Profile[q]
    <2>1. p # x
      <3>1. PICK ac \in 0..3 : \E i \in 1..Len(s.queues[ac]) : s.queues[ac][i].p = q
        BY DEF Follows, Within
      <3>2. Profile[q] = ac
        BY <3>1 DEF Good, Placed
      <3>3. s.queues[ac] # <<>>
        BY <3>1
      <3> QED
        BY <1>3, <3>2, <3>3
    <2>2. NewTo(t, p)
      BY <1>3, <2>1, AppendedTo DEF NewTo, Good, Record
    <2> QED
      BY <1>1, <1>3, <2>2 DEF Follows
  <1> QED
    BY <1>2, <1>3 DEF Follows

\* x comes behind what is queued, and what gives way is dropped.
LEMMA EnqueueOrderly ==
  ASSUME NEW s, Good(s), NEW x, NewTo(s, x), Profile[x] \in 0..3, NEW t, Good(t), t.log = s.log,
         NEW n \in 0..Len(s.queues[Profile[x]]), Enqueued(s, t, x, n)
  PROVE  Orderly(s, t)
  <1> DEFINE ac == Profile[x]
             old == s.queues[ac]
             l == Len(old)
  <1>1. /\ Len(t.queues[ac]) = l - n + 1 /\ t.queues[ac][l - n + 1].p = x
        /\ \A i \in 1..(l - n) : t.queues[ac][i] = old[i + n]
        /\ \A i \in 1..l : i <= n => old[i].p \in t.dropped
        /\ \A other \in 0..3 : other # ac => t.queues[other] = s.queues[other]
    BY DEF Enqueued
  <1>2. l \in Nat /\ n \in 0..l /\ ac \in 0..3
    BY DEF Good, Record
  <1>3. \A q : \A i \in 1..l : old[i].p = q /\ q \notin t.dropped =>
          i - n \in 1..(l - n) /\ t.queues[ac][i - n].p = q
    <2> SUFFICES ASSUME NEW q, NEW i \in 1..l, old[i].p = q, q \notin t.dropped
                 PROVE  i - n \in 1..(l - n) /\ t.queues[ac][i - n].p = q
      OBVIOUS
    <2>1. ~(i <= n)
      BY <1>1
    <2> HIDE DEF l, old, ac
    <2>2. i - n \in 1..(l - n) /\ (i - n) + n = i
      BY <1>2, <2>1
    <2> QED
      BY <1>1, <2>2
  <1> HIDE DEF l
  <1>4. \A i : i \in 1..(l - n) => i \in 1..(l - n + 1) /\ i < l - n + 1 /\ l - n + 1 \in 1..(l - n + 1)
    BY <1>2
  <1> SUFFICES ASSUME NEW p \in Packets, NEW q \in Packets, Follows(s, q, p), Within(t, q), p \notin t.dropped
               PROVE  Follows(t, q, p)
    BY DEF Orderly
  <1>5. q \notin t.dropped
    BY WithinIs
  <1>6. ASSUME After(s, q, p)
        PROVE  After(t, q, p)
    <2>1. PICK a \in 0..3 : \E i, j \in 1..Len(s.queues[a]) : i < j /\ s.queues[a][i].p = q /\ s.queues[a][j].p = p
      BY <1>6 DEF After
    <2>2. PICK i, j \in 1..Len(s.queues[a]) : i < j /\ s.queues[a][i].p = q /\ s.queues[a][j].p = p
      BY <2>1
    <2>3. CASE a # ac
      BY <1>1, <2>2, <2>3 DEF After
    <2>4. CASE a = ac
      <3>1. i \in 1..l /\ j \in 1..l
        BY <2>4 DEF l
      <3>2. /\ i - n \in 1..(l - n) /\ t.queues[ac][i - n].p = q
            /\ j - n \in 1..(l - n) /\ t.queues[ac][j - n].p = p
        BY <1>3, <1>5, <2>2, <2>4, <3>1
      <3>3. i - n < j - n
        BY <1>2, <2>2, <3>1
      <3>4. i - n \in 1..Len(t.queues[ac]) /\ j - n \in 1..Len(t.queues[ac])
        BY <1>1, <1>4, <3>2
      <3> QED
        BY <1>2, <3>2, <3>3, <3>4 DEF After
    <2> QED
      BY <2>3, <2>4
  <1>7. ASSUME NewTo(s, p), Profile[p] = Profile[q], p = x
        PROVE  After(t, q, p)
    <2>1. PICK a \in 0..3 : \E i \in 1..Len(s.queues[a]) : s.queues[a][i].p = q
      BY DEF Follows, Within
    <2>2. PICK i \in 1..Len(s.queues[a]) : s.queues[a][i].p = q
      BY <2>1
    <2>3. a = ac
      BY <1>7, <2>2 DEF Good, Placed
    <2>4. i \in 1..l /\ old[i].p = q
      BY <2>2, <2>3 DEF l
    <2>5. i - n \in 1..(l - n) /\ t.queues[ac][i - n].p = q
      BY <1>3, <1>5, <2>4
    <2>6. /\ i - n \in 1..Len(t.queues[ac]) /\ i - n < l - n + 1 /\ l - n + 1 \in 1..Len(t.queues[ac])
          /\ t.queues[ac][l - n + 1].p = p
      BY <1>1, <1>4, <1>7, <2>5
    <2> QED
      BY <1>2, <2>5, <2>6 DEF After
  <1>8. ASSUME NewTo(s, p), p # x
        PROVE  NewTo(t, p)
    <2>1. ASSUME NEW a \in 0..3, NEW i \in 1..Len(t.queues[a])
          PROVE  t.queues[a][i].p # p
      <3>1. CASE a # ac
        BY <1>1, <1>8, <3>1 DEF NewTo
      <3>2. CASE a = ac /\ i = l - n + 1
        BY <1>1, <1>8, <3>2
      <3>3. CASE a = ac /\ i # l - n + 1
        <4>0. i \in 1..(l - n + 1)
          BY <1>1, <3>3
        <4>1. i \in 1..(l - n) /\ i + n \in 1..l
          BY <1>2, <3>3, <4>0
        <4>2. t.queues[a][i] = old[i + n] /\ i + n \in 1..Len(s.queues[ac])
          BY <1>1, <3>3, <4>1 DEF l
        <4> QED
          BY <1>2, <1>8, <4>2 DEF NewTo
      <3> QED
        BY <3>1, <3>2, <3>3
    <2> QED
      BY <1>8, <2>1 DEF NewTo
  <1> QED
    BY <1>6, <1>7, <1>8 DEF Follows

\* What is queued in t was queued in s, apart from x.
LEMMA EnqueuedWithin ==
  ASSUME NEW s, Good(s), NEW x, Profile[x] \in 0..3, NEW t,
         NEW n \in 0..Len(s.queues[Profile[x]]), Enqueued(s, t, x, n), NEW q, q # x, Within(t, q)
  PROVE  Within(s, q)
  <1> DEFINE ac == Profile[x]
             l == Len(s.queues[ac])
  <1>1. /\ Len(t.queues[ac]) = l - n + 1 /\ t.queues[ac][l - n + 1].p = x
        /\ \A i \in 1..(l - n) : t.queues[ac][i] = s.queues[ac][i + n]
        /\ \A other \in 0..3 : other # ac => t.queues[other] = s.queues[other]
    BY DEF Enqueued
  <1>2. l \in Nat /\ n \in 0..l
    BY DEF Good, Record
  <1>3. PICK a \in 0..3 : \E i \in 1..Len(t.queues[a]) : t.queues[a][i].p = q
    BY DEF Within
  <1>4. PICK i \in 1..Len(t.queues[a]) : t.queues[a][i].p = q
    BY <1>3
  <1>5. CASE a # ac
    BY <1>1, <1>4, <1>5 DEF Within
  <1>6. CASE a = ac
    <2>1. i # l - n + 1
      BY <1>1, <1>4, <1>6
    <2>2. i \in 1..(l - n + 1)
      BY <1>1, <1>6
    <2> HIDE DEF l
    <2>3. i \in 1..(l - n) /\ i + n \in 1..l
      BY <1>2, <2>1, <2>2
    <2>4. s.queues[ac][i + n].p = q
      BY <1>1, <1>4, <1>6, <2>3
    <2>5. i + n \in 1..Len(s.queues[ac])
      BY <2>3 DEF l
    <2> QED
      BY <2>4, <2>5 DEF Within
  <1> QED
    BY <1>5, <1>6

\* The first packet of a queue is transmitted.
LEMMA NextOrderly ==
  ASSUME NEW s, Good(s), NEW ac \in 0..3, 1 \in 1..Len(s.queues[ac]), NEW t, Good(t), t.dropped = s.dropped,
         Popped(s, t, ac)
  PROVE  Orderly(s, t) /\ \A q : Within(t, q) => Within(s, q)
  <1> DEFINE old == s.queues[ac]
             x == old[1].p
             l == Len(old)
  <1>1. /\ l \in Nat /\ 1 \in 1..l /\ s.log \in Seq(Packets) /\ x \in Packets
    <2>1. s.queues[ac] \in Seq(Entry) /\ s.log \in Seq(Packets)
      BY DEF Good, Record
    <2>2. old[1] \in Entry
      BY <2>1
    <2> QED
      BY <2>1, <2>2 DEF Entry
  <1>2. /\ Len(t.queues[ac]) = l - 1 /\ \A i \in 1..(l - 1) : t.queues[ac][i] = old[i + 1]
        /\ \A other \in 0..3 : other # ac => t.queues[other] = s.queues[other]
    BY DEF Popped
  <1>g. t.log = Append(s.log, x)
    BY DEF Popped
  <1> HIDE DEF x
  <1> HIDE DEF l
  <1>3. \A a \in 0..3 : \A i \in 1..Len(t.queues[a]) : \E k \in 1..Len(s.queues[a]) : t.queues[a][i] = s.queues[a][k]
    <2> SUFFICES ASSUME NEW a \in 0..3, NEW i \in 1..Len(t.queues[a])
                 PROVE  \E k \in 1..Len(s.queues[a]) : t.queues[a][i] = s.queues[a][k]
      OBVIOUS
    <2>1. CASE a # ac
      BY <1>2, <2>1
    <2>2. CASE a = ac
      <3>0. i \in 1..(l - 1)
        BY <1>2, <2>2
      <3>1. i + 1 \in 1..l
        BY <1>1, <3>0
      <3> QED
        BY <1>2, <2>2, <3>0, <3>1 DEF l
    <2> QED
      BY <2>1, <2>2
  <1>4. ASSUME NEW q, Within(t, q)
        PROVE  Within(s, q)
    <2>1. PICK a \in 0..3 : \E i \in 1..Len(t.queues[a]) : t.queues[a][i].p = q
      BY <1>4 DEF Within
    <2>2. PICK k \in 1..Len(s.queues[a]) : s.queues[a][k].p = q
      BY <1>3, <2>1
    <2> QED
      BY <2>2 DEF Within
  <1>5. ASSUME NEW p \in Packets, NEW q \in Packets, Follows(s, q, p), Within(t, q)
        PROVE  Follows(t, q, p)
    <2>0. ASSUME NEW y, NewTo(s, y)
          PROVE  NewTo(t, y)
      <3>a. /\ \A k \in 1..Len(s.log) : s.log[k] # y
            /\ \A a \in 0..3 : \A i \in 1..Len(s.queues[a]) : s.queues[a][i].p # y
        BY <2>0 DEF NewTo
      <3>1. y # x
        BY <1>1, <3>a DEF x
      <3>2. \A k \in 1..Len(t.log) : t.log[k] # y
        BY <1>1, <1>g, <3>a, <3>1, AppendedTo
      <3>3. ASSUME NEW a \in 0..3, NEW i \in 1..Len(t.queues[a])
            PROVE  t.queues[a][i].p # y
        BY <1>3, <3>a
      <3> QED
        BY <2>0, <3>2, <3>3 DEF NewTo
    <2>1. q # x
      <3> SUFFICES ASSUME q = x
                   PROVE  FALSE
        OBVIOUS
      <3>1. \E k \in 1..Len(t.log) : t.log[k] = q
        <4> DEFINE g == Append(s.log, x)
        <4>1. Len(g) = Len(s.log) + 1 /\ Len(s.log) \in Nat /\ g[Len(s.log) + 1] = x
          BY <1>1
        <4>2. t.log = g
          BY <1>g
        <4> HIDE DEF g
        <4>3. Len(s.log) + 1 \in 1..Len(g)
          BY <4>1
        <4> QED
          BY <4>1, <4>2, <4>3
      <3> QED
        <4>1. PICK a \in 0..3 : \E i \in 1..Len(t.queues[a]) : t.queues[a][i].p = q
          BY <1>5 DEF Within
        <4>2. \A i \in 1..Len(t.queues[a]) : \A k \in 1..Len(t.log) : t.log[k] # t.queues[a][i].p
          BY DEF Good, Placed
        <4> QED
          BY <3>1, <4>1, <4>2
    <2>2. ASSUME After(s, q, p)
          PROVE  After(t, q, p)
      <3>1. PICK a \in 0..3 : \E i, j \in 1..Len(s.queues[a]) : i < j /\ s.queues[a][i].p = q /\ s.queues[a][j].p = p
        BY <2>2 DEF After
      <3>2. PICK i, j \in 1..Len(s.queues[a]) : i < j /\ s.queues[a][i].p = q /\ s.queues[a][j].p = p
        BY <3>1
      <3>3. CASE a # ac
        BY <1>2, <3>2, <3>3 DEF After
      <3>4. CASE a = ac
        <4>1. i # 1 /\ i \in 1..l /\ j \in 1..l
          BY <2>1, <3>2, <3>4 DEF l, x
        <4> DEFINE b == i - 1
                   c == j - 1
        <4>2. b \in 1..(l - 1) /\ c \in 1..(l - 1) /\ b < c /\ b + 1 = i /\ c + 1 = j
          BY <1>1, <3>2, <4>1
        <4> HIDE DEF b, c
        <4>3. t.queues[ac][b].p = q /\ t.queues[ac][c].p = p
          BY <1>2, <3>2, <3>4, <4>2
        <4>4. b \in 1..Len(t.queues[ac]) /\ c \in 1..Len(t.queues[ac])
          BY <1>2, <4>2
        <4> QED
          BY <4>2, <4>3, <4>4 DEF After
      <3> QED
        BY <3>3, <3>4
    <2> QED
      BY <1>5, <2>0, <2>2 DEF Follows
  <1> QED
    BY <1>4, <1>5 DEF Orderly

-----------------------------------------------------------------------------
(***************************************************************************)
(* The actions.  s is the state that the operators work on.                *)
(***************************************************************************)
LEMMA StateIs ==
  ASSUME FlowInv
  PROVE  /\ State \in Record /\ State.queues = fc.queues /\ State.triggers = fc.triggers /\ State.last = fc.last
         /\ State.burst = fc.burst /\ State.log = log /\ State.dropped = dropped
         /\ fc.queues \in [0..3 -> Seq(Entry)] /\ fc.triggers \in Seq(Int) /\ log \in Seq(Packets)
  BY DEF FlowInv, Good, Record, State

\* Becomes({s}) makes s the state.
LEMMA BecomesOne ==
  ASSUME NEW s, s \in Record, Becomes({s})
  PROVE  /\ State' = s /\ log' = s.log /\ dropped' = s.dropped /\ fc'.queues = s.queues
         /\ fc' \in [queues : [0..3 -> Seq(Entry)], triggers : Seq(Int), last : SUBSET Nat, burst : Seq(Nat)]
  <1>1. /\ fc' = [queues |-> s.queues, triggers |-> s.triggers, last |-> s.last, burst |-> s.burst]
        /\ log' = s.log /\ dropped' = s.dropped
    BY DEF Becomes
  <1> QED
    BY <1>1 DEF State, Record

\* What a packet that is queued is, and one that is fresh.
LEMMA QueuedIs ==
  ASSUME FlowInv
  PROVE  /\ \A x : x \in Queued <=> \E ac \in 0..3 : \E k \in 1..Len(fc.queues[ac]) : x = fc.queues[ac][k].p
         /\ \A x : x \in Sent <=> \E k \in 1..Len(log) : x = log[k]
         /\ \A p \in Fresh : NewTo(State, p)
  <1>1. /\ \A x : x \in Queued <=> \E ac \in 0..3 : \E k \in 1..Len(fc.queues[ac]) : x = fc.queues[ac][k].p
        /\ \A x : x \in Sent <=> \E k \in 1..Len(log) : x = log[k]
    <2>1. \A ac \in 0..3 : \A e : e \in ToSet(fc.queues[ac]) <=> \E k \in 1..Len(fc.queues[ac]) : e = fc.queues[ac][k]
      <3> SUFFICES ASSUME NEW ac \in 0..3
                   PROVE  \A e : e \in ToSet(fc.queues[ac]) <=> \E k \in 1..Len(fc.queues[ac]) : e = fc.queues[ac][k]
        OBVIOUS
      <3>1. fc.queues[ac] \in Seq(Entry)
        BY StateIs
      <3> QED
        BY <3>1 DEF ToSet
    <2>2. \A x : x \in Sent <=> \E k \in 1..Len(log) : x = log[k]
      BY StateIs DEF Sent, ToSet
    <2>3. \A x : x \in Queued <=> \E ac \in 0..3 : \E e \in ToSet(fc.queues[ac]) : x = e.p
      BY DEF Queued
    <2>4. \A x : x \in Queued <=> \E ac \in 0..3 : \E k \in 1..Len(fc.queues[ac]) : x = fc.queues[ac][k].p
      BY <2>1, <2>3
    <2> QED
      BY <2>2, <2>4
  <1>2. ASSUME NEW p \in Fresh
        PROVE  NewTo(State, p)
    BY <1>1, StateIs DEF Fresh, NewTo
  <1> QED
    BY <1>1, <1>2

LEMMA InvClocked ==
  ASSUME FlowControlAssumption, FlowInv
  PROVE  Clocked
  BY DEF FlowControlAssumption, FlowInv, Clocked

\* A good state that the operators return keeps the invariant.
LEMMA InvNext ==
  ASSUME NEW t, Good(t), Waits(t), State' = t, now' \in 0..MaxTime, interval' \in Intervals,
         fc' \in [queues : [0..3 -> Seq(Entry)], triggers : Seq(Int), last : SUBSET Nat, burst : Seq(Nat)]
  PROVE  FlowInv'
  <1>1. Good(State') /\ Waits(State')
    OBVIOUS
  <1> QED
    BY <1>1 DEF FlowInv, Entry

LEMMA RequestStep ==
  ASSUME FlowControlAssumption, FlowInv, NEW p \in Packets, request(p)
  PROVE  FlowInv' /\ (log' = log \/ log' = Append(log, p)) /\ Orderly(State, State')
  <1> DEFINE d == drop_expired(State)
             t == IF transmit_immediately(d, p) THEN transmit(d, p) ELSE enqueue(d, p)
  <1>1. Good(State) /\ Waits(State) /\ Clocked /\ NewTo(State, p)
    BY InvClocked, QueuedIs DEF FlowInv, request
  <1>2. /\ Good(d) /\ d.log = log
        /\ Orderly(State, d) /\ \A q : Within(d, q) => Within(State, q)
    <2>1. Good(d) /\ Without(State, d)
      BY <1>1, DropGood
    <2>2. Orderly(State, d) /\ \A q : Within(d, q) => Within(State, q)
      BY <1>1, DropOrderly
    <2> HIDE DEF d
    <2> QED
      BY <2>1, <2>2, StateIs DEF Without
  <1>3. Waits(d) /\ NewTo(d, p)
    BY <1>1, DropWaits, DropIsNew
  <1>4. t \in {IF transmit_immediately(s, p) THEN transmit(s, p) ELSE enqueue(s, p) : s \in {drop_expired(State)}}
    OBVIOUS
  <1>5. Becomes({t})
    BY DEF request
  <1> HIDE DEF d
  <1>6. CASE transmit_immediately(d, p)
    <2>1. t = transmit(d, p)
      BY <1>6
    <2>2. Good(t) /\ t.queues = d.queues /\ t.triggers = d.triggers /\ t.log = Append(d.log, p) /\ t.dropped = d.dropped
      BY <1>1, <1>2, <1>3, <2>1, TransmitGood
    <2> HIDE DEF t
    <2>3. Waits(t)
      BY <1>3, <2>2 DEF Waits
    <2>4. /\ State' = t /\ log' = t.log /\ dropped' = t.dropped
          /\ fc' \in [queues : [0..3 -> Seq(Entry)], triggers : Seq(Int), last : SUBSET Nat, burst : Seq(Nat)]
      BY <1>5, <2>2, BecomesOne DEF Good
    <2>5. FlowInv'
      <3>1. now' \in 0..MaxTime /\ interval' \in Intervals
        BY DEF request, FlowInv
      <3> QED
        BY <2>2, <2>3, <2>4, <3>1, InvNext
    <2>6. d.queues[Profile[p]] = <<>> /\ Profile[p] \in 0..3
      BY <1>6 DEF transmit_immediately, FlowControlAssumption
    <2>7. Orderly(State, t)
      <3>1. Orderly(d, t)
        BY <1>2, <1>3, <2>2, <2>6, TransmitOrderly
      <3>2. \A q \in Packets : Within(State, q) /\ Within(t, q) => Within(d, q)
        BY <2>2 DEF Within
      <3> QED
        BY <1>2, <2>2, <3>1, <3>2, ChainOrderly
    <2> QED
      BY <1>2, <2>2, <2>4, <2>5, <2>7
  <1>7. CASE ~transmit_immediately(d, p)
    <2>1. t = enqueue(d, p)
      BY <1>7
    <2>2. /\ Good(t) /\ Waits(t) /\ t.log = d.log /\ d.dropped \subseteq t.dropped
          /\ \E n \in 0..Len(d.queues[Profile[p]]) : Enqueued(d, t, p, n)
      BY <1>1, <1>2, <1>3, <2>1, EnqueueGood
    <2> HIDE DEF t
    <2>3. /\ State' = t /\ log' = t.log /\ dropped' = t.dropped
          /\ fc' \in [queues : [0..3 -> Seq(Entry)], triggers : Seq(Int), last : SUBSET Nat, burst : Seq(Nat)]
      BY <1>5, <2>2, BecomesOne DEF Good
    <2>4. FlowInv'
      <3>1. now' \in 0..MaxTime /\ interval' \in Intervals
        BY DEF request, FlowInv
      <3> QED
        BY <2>2, <2>3, <3>1, InvNext
    <2>5. Orderly(State, t)
      <3>1. PICK n \in 0..Len(d.queues[Profile[p]]) : Enqueued(d, t, p, n)
        BY <2>2
      <3>2. Profile[p] \in 0..3
        BY DEF FlowControlAssumption
      <3>3. Orderly(d, t)
        BY <1>2, <1>3, <2>2, <3>1, <3>2, EnqueueOrderly
      <3>4. ASSUME NEW q \in Packets, Within(State, q), Within(t, q)
            PROVE  Within(d, q)
        <4>1. q # p
          BY <1>1, <3>4 DEF Within, NewTo
        <4> QED
          BY <1>2, <2>2, <3>1, <3>2, <3>4, <4>1, EnqueuedWithin
      <3> QED
        BY <1>2, <2>2, <3>3, <3>4, ChainOrderly
    <2> QED
      BY <1>2, <2>2, <2>3, <2>4, <2>5
  <1> QED
    BY <1>6, <1>7

LEMMA TriggerStep ==
  ASSUME FlowControlAssumption, FlowInv, trigger
  PROVE  /\ FlowInv'
         /\ log' = log \/ \E ac \in 0..3 : \E k \in 1..Len(fc.queues[ac]) :
                            log' = Append(log, fc.queues[ac][k].p) /\ now <= fc.queues[ac][k].expiry
         /\ Orderly(State, State')
  <1> DEFINE s == [State EXCEPT !.triggers = Tail(@)]
             d == drop_expired(s)
             u == TransmitNext(d)
             t == ScheduleNext(u)
  <1>1. Good(State) /\ Clocked
    BY InvClocked DEF FlowInv
  <1>2. Good(s) /\ s.queues = fc.queues /\ s.log = log /\ s.dropped = dropped
    <2>1. State.triggers \in Seq(Int) /\ State.triggers # <<>>
      BY StateIs DEF trigger
    <2>2. Tail(State.triggers) \in Seq(Int)
      BY <2>1
    <2> DEFINE q == Tail(State.triggers)
    <2>3. s = [State EXCEPT !.triggers = q]
      OBVIOUS
    <2> HIDE DEF q, s
    <2>4. /\ s \in Record /\ s.queues = State.queues /\ s.log = State.log /\ s.dropped = State.dropped
          /\ s.burst = State.burst
      BY <2>2, <2>3, StateIs DEF Record, q
    <2>5. Good(s)
      BY <1>1, <2>4 DEF Good, Placed, SentOnce, Limited
    <2> QED
      BY <2>4, <2>5, StateIs
  <1> HIDE DEF s
  <1>3. Good(d) /\ Without(s, d)
    BY <1>1, <1>2, DropGood
  <1>4. Becomes({t})
    BY DEF trigger, s
  <1> HIDE DEF d
  <1>5. /\ Good(u) /\ u.dropped = d.dropped
        /\ u = d \/ \E ac \in 0..3 : 1 \in 1..Len(d.queues[ac]) /\ Popped(d, u, ac)
    BY <1>1, <1>3, TransmitNextGood
  <1>o. Orderly(State, s) /\ Orderly(s, d) /\ \A q : Within(d, q) => Within(s, q)
    <2>1. Orderly(s, d) /\ \A q : Within(d, q) => Within(s, q)
      BY <1>1, <1>2, DropOrderly DEF d
    <2>2. State.queues = s.queues /\ State.log = s.log /\ State.dropped = s.dropped
      BY <1>2, StateIs
    <2> QED
      BY <2>1, <2>2, SameOrderly
  <1> HIDE DEF u
  <1>v. Orderly(d, u) /\ \A q : Within(u, q) => Within(d, q)
    <2>1. CASE u = d
      BY <2>1, SameOrderly
    <2>2. CASE u # d
      BY <1>3, <1>5, <2>2, NextOrderly
    <2> QED
      BY <2>1, <2>2
  <1>6. Good(t) /\ Waits(t) /\ t.log = u.log /\ t.dropped = u.dropped /\ t.queues = u.queues
    BY <1>1, <1>5, ScheduleNextGood
  <1> HIDE DEF t
  <1>7. /\ State' = t /\ log' = t.log
        /\ fc' \in [queues : [0..3 -> Seq(Entry)], triggers : Seq(Int), last : SUBSET Nat, burst : Seq(Nat)]
    BY <1>4, <1>6, BecomesOne DEF Good
  <1>8. now' \in 0..MaxTime /\ interval' \in Intervals
    BY DEF trigger, FlowInv
  <1>9. FlowInv'
    BY <1>6, <1>7, <1>8, InvNext
  <1>10. d.log = log
    BY <1>2, <1>3 DEF Without
  <1>11. ASSUME NEW ac \in 0..3, 1 \in 1..Len(d.queues[ac])
         PROVE  \E k \in 1..Len(fc.queues[ac]) : d.queues[ac][1] = fc.queues[ac][k] /\ now <= fc.queues[ac][k].expiry
    <2>1. now <= d.queues[ac][1].expiry /\ \E k \in 1..Len(s.queues[ac]) : d.queues[ac][1] = s.queues[ac][k]
      BY <1>3, <1>11 DEF Without
    <2> QED
      BY <1>2, <2>1
  <1>l. u.log = d.log \/ \E ac \in 0..3 : 1 \in 1..Len(d.queues[ac]) /\ u.log = Append(d.log, d.queues[ac][1].p)
    BY <1>5 DEF Popped
  <1>12. Orderly(State, t)
    <2>1. Orderly(u, t)
      BY <1>6, SameOrderly
    <2>2. \A q : Within(t, q) <=> Within(u, q)
      BY <1>6 DEF Within
    <2>3. Orderly(d, t)
      BY <1>v, <1>6, <2>1, <2>2, ChainOrderly
    <2>4. s.dropped \subseteq d.dropped /\ d.dropped \subseteq t.dropped
      BY <1>3, <1>5, <1>6 DEF Without
    <2>5. Orderly(s, t)
      BY <1>o, <1>v, <2>2, <2>3, <2>4, ChainOrderly
    <2>6. \A q : Within(t, q) => Within(s, q)
      BY <1>o, <1>v, <2>2
    <2> QED
      BY <1>o, <2>4, <2>5, <2>6, ChainOrderly
  <1> QED
    BY <1>l, <1>6, <1>7, <1>9, <1>10, <1>11, <1>12

LEMMA RescheduleStep ==
  ASSUME FlowControlAssumption, FlowInv, reschedule
  PROVE  FlowInv' /\ log' = log /\ Orderly(State, State')
  <1> DEFINE s == [State EXCEPT !.triggers = <<>>]
             t == ScheduleNext(s)
  <1>1. Good(State) /\ Clocked
    BY InvClocked DEF FlowInv
  <1>2. Good(s) /\ s.log = log /\ s.queues = State.queues /\ s.dropped = State.dropped
    <2>1. /\ s \in Record /\ s.queues = State.queues /\ s.log = State.log /\ s.dropped = State.dropped
          /\ s.burst = State.burst
      <3>1. <<>> \in Seq(Int)
        OBVIOUS
      <3> DEFINE q == <<>>
      <3>2. s = [State EXCEPT !.triggers = q] /\ q \in Seq(Int)
        BY <3>1
      <3> HIDE DEF q, s
      <3> QED
        BY <3>2, StateIs DEF Record
    <2> HIDE DEF s
    <2>2. Good(s)
      BY <1>1, <2>1 DEF Good, Placed, SentOnce, Limited
    <2> QED
      BY <2>1, <2>2, StateIs
  <1>3. Becomes({t})
    BY DEF reschedule
  <1> HIDE DEF s
  <1>4. Good(t) /\ Waits(t) /\ t.log = s.log /\ t.queues = s.queues /\ t.dropped = s.dropped
    BY <1>1, <1>2, ScheduleNextGood
  <1> HIDE DEF t
  <1>5. /\ State' = t /\ log' = t.log
        /\ fc' \in [queues : [0..3 -> Seq(Entry)], triggers : Seq(Int), last : SUBSET Nat, burst : Seq(Nat)]
    BY <1>3, <1>4, BecomesOne DEF Good
  <1>6. now' \in 0..MaxTime /\ interval' \in Intervals
    BY DEF reschedule, FlowInv
  <1>7. Orderly(State, t)
    BY <1>2, <1>4, StateIs, SameOrderly
  <1> QED
    BY <1>2, <1>4, <1>5, <1>6, <1>7, InvNext

LEMMA OtherStep ==
  ASSUME FlowControlAssumption, FlowInv, update \/ Tick \/ UNCHANGED vars
  PROVE  FlowInv' /\ log' = log /\ Orderly(State, State')
  <1>1. log' = log /\ dropped' = dropped /\ fc' = fc /\ now' \in 0..MaxTime /\ interval' \in Intervals
    <2>1. CASE update
      BY <2>1 DEF update, FlowInv
    <2>2. CASE Tick
      BY <2>2 DEF Tick, FlowInv, FlowControlAssumption
    <2>3. CASE UNCHANGED vars
      BY <2>3 DEF vars, FlowInv
    <2> QED
      BY <2>1, <2>2, <2>3
  <1>2. State' = State
    BY <1>1 DEF State
  <1>3. Orderly(State, State')
    BY <1>2, SameOrderly
  <1> QED
    BY <1>1, <1>2, <1>3 DEF FlowInv, Entry

LEMMA FlowStep ==
  ASSUME FlowControlAssumption, FlowInv, [Next]_vars
  PROVE  FlowInv'
  <1>1. ASSUME NEW p \in Packets, request(p) PROVE FlowInv'
    BY <1>1, RequestStep
  <1> QED
    BY <1>1, TriggerStep, RescheduleStep, OtherStep DEF Next

LEMMA FlowStarts ==
  ASSUME FlowControlAssumption, Init
  PROVE  FlowInv
  <1>1. /\ now \in 0..MaxTime /\ interval \in Intervals
        /\ fc \in [queues : [0..3 -> Seq(Entry)], triggers : Seq(Int), last : SUBSET Nat, burst : Seq(Nat)]
    BY DEF Init, Created, FlowControlAssumption
  <1>2. State = [queues |-> [ac \in 0..3 |-> <<>>], triggers |-> <<>>, last |-> {}, burst |-> <<>>, log |-> <<>>, dropped |-> {}]
    BY DEF Init, Created, State
  <1>3. State \in Record /\ \A ac \in 0..3 : State.queues[ac] = <<>>
    BY <1>2 DEF Record
  <1>4. Placed(State) /\ SentOnce(State) /\ Waits(State)
    BY <1>2 DEF Placed, SentOnce, Waits
  <1>5. Limited(State)
    BY <1>2 DEF Limited, FlowControlAssumption
  <1> QED
    BY <1>1, <1>3, <1>4, <1>5 DEF FlowInv, Good

THEOREM FlowHolds == FlowControlAssumption => (Spec => []FlowInv)
  <1> SUFFICES ASSUME FlowControlAssumption
               PROVE  Spec => []FlowInv
    OBVIOUS
  <1>1. Init => FlowInv
    BY FlowStarts
  <1>2. FlowInv /\ [Next]_vars => FlowInv'
    BY FlowStep
  <1> QED
    BY <1>1, <1>2, PTL DEF Spec

\* TypeOK: the queues keep to their limits and profiles.
THEOREM TypeHolds == FlowControlAssumption => (Spec => []TypeOK)
  <1>1. ASSUME FlowInv
        PROVE  TypeOK
    <2>1. Good(State) /\ State.queues = fc.queues /\ State.burst = fc.burst
      BY <1>1, StateIs DEF FlowInv
    <2>2. \A ac \in 0..3 : fc.queues[ac] \in Seq(Entry)
      BY <1>1, StateIs
    <2>3. \A ac \in 0..3 : \A i \in DOMAIN fc.queues[ac] : Profile[fc.queues[ac][i].p] = ac
      <3> SUFFICES ASSUME NEW ac \in 0..3
                   PROVE  \A i \in DOMAIN fc.queues[ac] : Profile[fc.queues[ac][i].p] = ac
        OBVIOUS
      <3>1. DOMAIN fc.queues[ac] = 1..Len(fc.queues[ac])
        BY <2>2
      <3> QED
        BY <2>1, <3>1 DEF Good, Placed
    <2>4. (\A ac \in 0..3 : QueueLength > 0 => Len(fc.queues[ac]) <= QueueLength) /\ Len(fc.burst) <= BurstMessages
      BY <2>1 DEF Good, Limited
    <2> QED
      BY <1>1, <2>3, <2>4 DEF FlowInv, TypeOK
  <1> QED
    BY <1>1, FlowHolds, PTL

\* A queue never waits in vain: a trigger is scheduled as long as a packet waits.
THEOREM NeverStalls == FlowControlAssumption => (Spec => []NoStall)
  <1>1. ASSUME FlowInv
        PROVE  NoStall
    <2>1. Waits(State) /\ State.queues = fc.queues /\ State.triggers = fc.triggers
      BY <1>1, StateIs DEF FlowInv
    <2>2. ASSUME NEW ac \in 0..3, NEW k \in 1..Len(fc.queues[ac])
          PROVE  fc.queues[ac] # <<>>
      OBVIOUS
    <2> QED
      BY <1>1, <2>1, <2>2, QueuedIs DEF NoStall, Waits
  <1> QED
    BY <1>1, FlowHolds, PTL

\* Every packet is in one place, and it is transmitted at most once.
THEOREM PlacesHold == FlowControlAssumption => (Spec => []OnePlace)
  <1>1. ASSUME FlowInv
        PROVE  OnePlace
    <2>1. Good(State) /\ State.queues = fc.queues /\ State.log = log /\ State.dropped = dropped /\ log \in Seq(Packets)
      BY <1>1, StateIs DEF FlowInv
    <2>2. /\ \A x : x \in Queued => x \notin dropped /\ x \notin Sent
          /\ \A x : x \in Sent => x \notin dropped
      <3>1. /\ \A x : x \in Queued <=> \E ac \in 0..3 : \E k \in 1..Len(fc.queues[ac]) : x = fc.queues[ac][k].p
            /\ \A x : x \in Sent <=> \E k \in 1..Len(log) : x = log[k]
        BY <1>1, QueuedIs
      <3>2. \A ac \in 0..3 : \A i \in 1..Len(fc.queues[ac]) :
              fc.queues[ac][i].p \notin dropped /\ \A k \in 1..Len(log) : log[k] # fc.queues[ac][i].p
        BY <2>1 DEF Good, Placed
      <3>3. \A k \in 1..Len(log) : log[k] \notin dropped
        BY <2>1 DEF Good, SentOnce
      <3>4. \A x : x \in Queued => x \notin dropped /\ x \notin Sent
        <4> SUFFICES ASSUME NEW x \in Queued
                     PROVE  x \notin dropped /\ x \notin Sent
          OBVIOUS
        <4>1. PICK ac \in 0..3 : \E k \in 1..Len(fc.queues[ac]) : x = fc.queues[ac][k].p
          BY <3>1
        <4>2. PICK k \in 1..Len(fc.queues[ac]) : x = fc.queues[ac][k].p
          BY <4>1
        <4>3. x \notin dropped /\ \A l \in 1..Len(log) : log[l] # x
          BY <3>2, <4>2
        <4> QED
          BY <3>1, <4>3
      <3>5. ASSUME NEW x \in Sent
            PROVE  x \notin dropped
        <4>1. PICK k \in 1..Len(log) : x = log[k]
          BY <3>1
        <4> QED
          BY <3>3, <4>1
      <3> QED
        BY <3>4, <3>5
    <2>3. \A i, j \in DOMAIN log : log[i] = log[j] => i = j
      BY <2>1 DEF Good, SentOnce
    <2> QED
      BY <2>2, <2>3 DEF OnePlace
  <1> QED
    BY <1>1, FlowHolds, PTL

-----------------------------------------------------------------------------
LEMMA SentNext ==
  ASSUME FlowInv, NEW x, x \in ToSet(log'), NEW p \in Packets, log' = log \/ log' = Append(log, p)
  PROVE  x \in Sent \/ (x = p /\ log' = Append(log, p))
  <1>1. log \in Seq(Packets)
    BY StateIs
  <1>2. CASE log' = log
    BY <1>2 DEF Sent
  <1>3. CASE log' = Append(log, p)
    <2>1. ToSet(Append(log, p)) = ToSet(log) \cup {p}
      <3> DEFINE l == Append(log, p)
      <3>1. /\ Len(l) = Len(log) + 1 /\ Len(log) \in Nat /\ DOMAIN l = 1..Len(l) /\ DOMAIN log = 1..Len(log)
            /\ l[Len(log) + 1] = p /\ \A i \in 1..Len(log) : l[i] = log[i]
        BY <1>1
      <3> HIDE DEF l
      <3>2. \A i \in 1..Len(l) : i \in 1..Len(log) \/ i = Len(log) + 1
        BY <3>1
      <3>3. \A i \in 1..Len(log) : i \in 1..Len(l)
        BY <3>1
      <3>4. Len(log) + 1 \in 1..Len(l)
        BY <3>1
      <3>5. ToSet(l) = ToSet(log) \cup {p}
        BY <3>1, <3>2, <3>3, <3>4 DEF ToSet
      <3> QED
        BY <3>5 DEF l
    <2> QED
      BY <1>3, <2>1 DEF Sent
  <1> QED
    BY <1>2, <1>3

\* What a queue has is of its profile, and has not been sent.
LEMMA QueueIs ==
  ASSUME FlowInv, NEW ac \in 0..3, NEW k \in 1..Len(fc.queues[ac])
  PROVE  /\ fc.queues[ac][k] \in Entry /\ Profile[fc.queues[ac][k].p] = ac /\ fc.queues[ac][k].p \notin Sent
         /\ fc.queues[ac][k].p \in Queued
         /\ \A j \in 1..Len(fc.queues[ac]) : fc.queues[ac][j].p = fc.queues[ac][k].p => j = k
  <1>1. Good(State) /\ State.queues = fc.queues /\ State.log = log /\ fc.queues[ac] \in Seq(Entry)
    BY StateIs DEF FlowInv
  <1>2. fc.queues[ac][k] \in Entry
    BY <1>1
  <1>3. /\ Profile[fc.queues[ac][k].p] = ac /\ \A l \in 1..Len(log) : log[l] # fc.queues[ac][k].p
        /\ \A j \in 1..Len(fc.queues[ac]) : fc.queues[ac][j].p = fc.queues[ac][k].p => j = k
    <2> DEFINE q == fc.queues[ac]
    <2>1. Placed(State) /\ q = State.queues[ac]
      BY <1>1 DEF Good
    <2>2. /\ \A i \in 1..Len(q) : Profile[q[i].p] = ac /\ \A l \in 1..Len(State.log) : State.log[l] # q[i].p
          /\ \A i, j \in 1..Len(q) : q[i].p = q[j].p => i = j
      <3> HIDE DEF q
      <3> DEFINE Q == State.queues
                 l == State.log
      <3>1. /\ \A i \in 1..Len(Q[ac]) : Profile[Q[ac][i].p] = ac /\ \A m \in 1..Len(l) : l[m] # Q[ac][i].p
            /\ \A i, j \in 1..Len(Q[ac]) : Q[ac][i].p = Q[ac][j].p => i = j
        BY <2>1 DEF Placed
      <3> QED
        BY <2>1, <3>1
    <2> QED
      BY <1>1, <2>2
  <1>4. /\ \A x : (\E a \in 0..3 : \E j \in 1..Len(fc.queues[a]) : x = fc.queues[a][j].p) => x \in Queued
        /\ \A x : x \in Sent => \E l \in 1..Len(log) : x = log[l]
    BY QueuedIs
  <1> QED
    BY <1>2, <1>3, <1>4

\* Follows is Ahead of the state.
FollowsIsAhead ==
  /\ \A q : q \in Queued <=> Within(State, q)
  /\ \A p, q \in Packets : Ahead(q, p) <=> Follows(State, q, p)

LEMMA AheadIs ==
  ASSUME FlowControlAssumption, FlowInv
  PROVE  FollowsIsAhead
  <1>1. /\ \A x : x \in Queued <=> \E ac \in 0..3 : \E k \in 1..Len(fc.queues[ac]) : x = fc.queues[ac][k].p
        /\ \A x : x \in Sent <=> \E k \in 1..Len(log) : x = log[k]
        /\ \A x \in Fresh : NewTo(State, x)
    BY QueuedIs
  <1>2. State.queues = fc.queues /\ State.log = log /\ State.dropped = dropped
    BY StateIs
  <1>w. \A q : Within(State, q) <=> \E ac \in 0..3 : \E i \in 1..Len(fc.queues[ac]) : fc.queues[ac][i].p = q
    BY <1>2 DEF Within
  <1>3. \A q : q \in Queued <=> Within(State, q)
    BY <1>1, <1>w, Zenon
  <1>4. ASSUME NEW p \in Packets
        PROVE  p \in Fresh <=> NewTo(State, p)
    <2>1. ASSUME NewTo(State, p)
          PROVE  p \notin Queued /\ p \notin Sent /\ p \notin dropped
      <3>1. /\ p \notin dropped /\ \A k \in 1..Len(log) : log[k] # p
            /\ \A ac \in 0..3 : \A i \in 1..Len(fc.queues[ac]) : fc.queues[ac][i].p # p
        BY <1>2, <2>1 DEF NewTo
      <3> QED
        BY <1>1, <3>1
    <2> QED
      BY <1>1, <2>1 DEF Fresh
  <1>5. ASSUME NEW p \in Packets, NEW q \in Packets
        PROVE  Ahead(q, p) <=> Follows(State, q, p)
    <2> DEFINE ac == Profile[q]
               Q == fc.queues[ac]
    <2>1. ac \in 0..3 /\ DOMAIN Q = 1..Len(Q)
      BY StateIs DEF FlowControlAssumption
    <2>2. \A a \in 0..3 : \A i \in 1..Len(fc.queues[a]) : Profile[fc.queues[a][i].p] = a
      BY QueueIs
    <2>3. Within(State, q) <=> \E i \in 1..Len(Q) : Q[i].p = q
      <3>1. ASSUME NEW a \in 0..3, NEW i \in 1..Len(fc.queues[a]), fc.queues[a][i].p = q
            PROVE  \E k \in 1..Len(Q) : Q[k].p = q
        <4>1. a = ac
          BY <2>2, <3>1
        <4> QED
          BY <3>1, <4>1
      <3>2. ASSUME NEW i \in 1..Len(Q), Q[i].p = q
            PROVE  \E a \in 0..3 : \E k \in 1..Len(fc.queues[a]) : fc.queues[a][k].p = q
        BY <2>1, <3>2
      <3> QED
        BY <1>w, <3>1, <3>2
    <2>4. After(State, q, p) <=> Profile[p] = ac /\ \E i, j \in 1..Len(Q) : i < j /\ Q[i].p = q /\ Q[j].p = p
      <3>1. ASSUME NEW a \in 0..3, NEW i \in 1..Len(fc.queues[a]), NEW j \in 1..Len(fc.queues[a]),
                   i < j, fc.queues[a][i].p = q, fc.queues[a][j].p = p
            PROVE  Profile[p] = ac /\ \E k, l \in 1..Len(Q) : k < l /\ Q[k].p = q /\ Q[l].p = p
        <4>1. a = ac /\ Profile[p] = a
          BY <2>2, <3>1
        <4> QED
          BY <3>1, <4>1
      <3>2. ASSUME NEW i \in 1..Len(Q), NEW j \in 1..Len(Q), i < j, Q[i].p = q, Q[j].p = p
            PROVE  \E a \in 0..3 : \E k, l \in 1..Len(fc.queues[a]) : k < l /\ fc.queues[a][k].p = q /\ fc.queues[a][l].p = p
        BY <2>1, <3>2
      <3>3. After(State, q, p) <=> \E a \in 0..3 : \E k, l \in 1..Len(fc.queues[a]) :
                                     k < l /\ fc.queues[a][k].p = q /\ fc.queues[a][l].p = p
        BY <1>2 DEF After
      <3>4. After(State, q, p) => Profile[p] = ac /\ \E k, l \in 1..Len(Q) : k < l /\ Q[k].p = q /\ Q[l].p = p
        BY <3>1, <3>3
      <3>5. (\E k, l \in 1..Len(Q) : k < l /\ Q[k].p = q /\ Q[l].p = p) => After(State, q, p)
        BY <3>2, <3>3
      <3> QED
        BY <3>4, <3>5
    <2>5. Ahead(q, p) <=> /\ Profile[p] = ac
                          /\ \E i \in 1..Len(Q) : /\ Q[i].p = q
                                                  /\ p \in Fresh \/ \E j \in 1..Len(Q) : i < j /\ Q[j].p = p
      BY <2>1 DEF Ahead
    <2> HIDE DEF ac, Q
    <2> QED
      BY <1>4, <2>3, <2>4, <2>5 DEF Follows, ac
  <1> QED
    BY <1>3, <1>5 DEF FollowsIsAhead

\* Within a profile nothing is transmitted or put before what is queued.
THEOREM OrderHolds == FlowControlAssumption => (Spec => InOrder)
  <1> DEFINE A == \A p, q \in Packets : Ahead(q, p) /\ q \in Queued' => Ahead(q, p)' \/ p \in dropped'
  <1> SUFFICES ASSUME FlowControlAssumption
               PROVE  Spec => InOrder
    OBVIOUS
  <1>1. ASSUME FlowInv, FollowsIsAhead, FollowsIsAhead', [Next]_vars
        PROVE  [A]_vars
    <2>1. Orderly(State, State')
      <3>1. ASSUME NEW r \in Packets, request(r)
            PROVE  Orderly(State, State')
        BY <1>1, <3>1, RequestStep
      <3> QED
        BY <1>1, <3>1, TriggerStep, RescheduleStep, OtherStep DEF Next
    <2>2. /\ \A q : q \in Queued' <=> Within(State', q)
          /\ \A p, q \in Packets : Ahead(q, p)' <=> Follows(State', q, p)
          /\ \A p, q \in Packets : Ahead(q, p) <=> Follows(State, q, p)
      BY <1>1 DEF FollowsIsAhead
    <2>3. State'.dropped = dropped'
      BY DEF State
    <2> QED
      BY <2>1, <2>2, <2>3 DEF Orderly
  <1>2. FlowInv => FollowsIsAhead
    BY AheadIs
  <1> QED
    BY <1>1, <1>2, FlowHolds, PTL DEF Spec, InOrder

\* Nothing is transmitted after its lifetime.
THEOREM LifetimesHold == FlowControlAssumption => (Spec => NeverTooLate)
  <1> DEFINE A == \A ac \in 0..3 : \A i \in DOMAIN fc.queues[ac] : LET e == fc.queues[ac][i] IN
                    e.p \in ToSet(log') => now <= e.expiry
  <1> SUFFICES ASSUME FlowControlAssumption
               PROVE  Spec => NeverTooLate
    OBVIOUS
  <1>1. ASSUME FlowInv, [Next]_vars
        PROVE  [A]_vars
    <2>1. \A ac \in 0..3 : DOMAIN fc.queues[ac] = 1..Len(fc.queues[ac])
      BY <1>1, StateIs
    <2> SUFFICES ASSUME Next, NEW ac \in 0..3, NEW i \in 1..Len(fc.queues[ac]), fc.queues[ac][i].p \in ToSet(log')
                 PROVE  now <= fc.queues[ac][i].expiry
      BY <1>1, <2>1
    <2> DEFINE e == fc.queues[ac][i]
    <2>2. e.p \notin Sent /\ e.p \in Queued /\ e.p \in Packets /\ Profile[e.p] = ac
      BY <1>1, QueueIs DEF Entry
    <2> HIDE DEF e
    <2>3. e.p \in ToSet(log')
      BY DEF e
    <2>4. ASSUME NEW r \in Packets, request(r)
          PROVE  FALSE
      <3>1. log' = log \/ log' = Append(log, r)
        BY <1>1, <2>4, RequestStep
      <3>2. e.p = r
        BY <1>1, <2>2, <2>3, <3>1, SentNext
      <3> QED
        BY <2>2, <2>4, <3>2 DEF request, Fresh
    <2>5. CASE trigger
      <3>1. log' = log \/ \E a \in 0..3 : \E j \in 1..Len(fc.queues[a]) :
                            log' = Append(log, fc.queues[a][j].p) /\ now <= fc.queues[a][j].expiry
        BY <1>1, <2>5, TriggerStep
      <3>2. log' # log
        BY <2>2, <2>3 DEF Sent
      <3>a. PICK a \in 0..3 : \E j \in 1..Len(fc.queues[a]) :
              log' = Append(log, fc.queues[a][j].p) /\ now <= fc.queues[a][j].expiry
        BY <3>1, <3>2
      <3>3. PICK j \in 1..Len(fc.queues[a]) :
              log' = Append(log, fc.queues[a][j].p) /\ now <= fc.queues[a][j].expiry
        BY <3>a
      <3>4. fc.queues[a][j].p \in Packets /\ Profile[fc.queues[a][j].p] = a
        BY <1>1, QueueIs DEF Entry
      <3>5. e.p = fc.queues[a][j].p
        BY <1>1, <2>2, <2>3, <3>3, <3>4, SentNext
      <3>6. a = ac
        BY <2>2, <3>4, <3>5
      <3>7. j = i
        BY <1>1, <3>5, <3>6, QueueIs DEF e
      <3> QED
        BY <3>3, <3>6, <3>7
    <2>6. CASE reschedule \/ update \/ Tick
      BY <1>1, <2>2, <2>3, <2>6, RescheduleStep, OtherStep DEF Sent
    <2> QED
      BY <2>4, <2>5, <2>6 DEF Next
  <1> QED
    BY <1>1, FlowHolds, PTL DEF Spec, NeverTooLate
-----------------------------------------------------------------------------
(***************************************************************************)
(* The state machines: the least and the greatest number of a bounded set. *)
(***************************************************************************)
\* Min of a set of naturals is in it and bounds it below.
LEMMA MinIs ==
  ASSUME NEW S, S \subseteq Nat, S # {}
  PROVE  States!Min(S) \in S /\ \A y \in S : States!Min(S) <= y
  <1>1. \E x \in S : \A y \in S : x <= y
    BY LeastElement
  <1> QED
    BY <1>1 DEF States!Min

\* Max of a bounded set is in it and bounds it above.
LEMMA MaxIs ==
  ASSUME NEW n \in Nat, NEW S, S \subseteq 0..n, S # {}
  PROVE  States!Max(S) \in S /\ \A y \in S : y <= States!Max(S)
  <1> DEFINE T == {n - x : x \in S}
  <1>1. T \subseteq Nat /\ T # {}
    <2>1. \A x \in S : x \in 0..n /\ n - x \in Nat
      OBVIOUS
    <2> QED
      BY <2>1
  <1>2. PICK t \in T : \A u \in T : t <= u
    BY <1>1, LeastElement
  <1>3. PICK x \in S : t = n - x
    OBVIOUS
  <1>4. \A y \in S : x >= y
    <2> SUFFICES ASSUME NEW y \in S
                 PROVE  x >= y
      OBVIOUS
    <2>1. n - y \in T
      OBVIOUS
    <2>2. n - x <= n - y /\ x \in Nat /\ y \in Nat
      BY <1>2, <1>3, <2>1
    <2> QED
      BY <2>2
  <1>5. States!Max(S) \in S /\ \A y \in S : States!Max(S) >= y
    BY <1>4 DEF States!Max
  <1> DEFINE g == States!Max(S)
  <1>6. g \in S /\ \A y \in S : g >= y /\ y \in Nat
    BY <1>5
  <1> HIDE DEF g, T
  <1>7. g \in Nat /\ \A y \in S : y <= g
    BY <1>6
  <1> QED
    BY <1>6, <1>7 DEF g

-----------------------------------------------------------------------------
(***************************************************************************)
(* The windows.                                                            *)
(***************************************************************************)
LEMMA Constants ==
  ASSUME States!DccStatesAssumption
  PROVE  /\ Loads \subseteq 0..100 /\ Loads \subseteq Nat
         /\ N_samples_up \in Nat /\ N_samples_up > 0 /\ N_samples_down \in Nat
         /\ N_samples_up < N_samples_down
         /\ States!NDL_minChannelLoad = 19 /\ States!NDL_maxChannelLoad = 59
         /\ \A w \in Seq(Loads) : Len(w) \in Nat /\ \A i \in 1..Len(w) : w[i] \in Nat
  <1>1. /\ Loads \subseteq 0..100 /\ Loads \subseteq Nat
        /\ N_samples_up \in Nat /\ N_samples_up > 0 /\ N_samples_down \in Nat
        /\ N_samples_up < N_samples_down
    BY DEF States!DccStatesAssumption
  <1>2. ASSUME NEW w \in Seq(Loads)
        PROVE  Len(w) \in Nat /\ \A i \in 1..Len(w) : w[i] \in Nat
    <2>1. Len(w) \in Nat /\ \A i \in 1..Len(w) : w[i] \in Loads
      OBVIOUS
    <2> QED
      BY <1>1, <2>1
  <1> QED
    BY <1>1, <1>2 DEF States!NDL_minChannelLoad, States!NDL_maxChannelLoad

\* The latest loads, least and greatest of them.
LEMMA Window ==
  ASSUME States!DccStatesAssumption, NEW w \in Seq(Loads), NEW n \in Nat, n > 0, w # <<>>
  PROVE  /\ States!Recent(w, n) \subseteq Loads /\ States!Recent(w, n) # {}
         /\ States!Min(States!Recent(w, n)) \in States!Recent(w, n) /\ States!Min(States!Recent(w, n)) \in 0..100
         /\ \A i \in 1..Len(w) : i <= n => States!Min(States!Recent(w, n)) <= w[i]
         /\ \E i \in 1..Len(w) : i <= n /\ States!Min(States!Recent(w, n)) = w[i]
         /\ States!Max(States!Recent(w, n) \cup {0}) \in 0..100
         /\ \A i \in 1..Len(w) : i <= n => w[i] <= States!Max(States!Recent(w, n) \cup {0})
  <1> DEFINE k == IF Len(w) < n THEN Len(w) ELSE n
             R == States!Recent(w, n)
  <1>1. Len(w) \in Nat /\ Len(w) > 0 /\ \A i \in 1..Len(w) : w[i] \in Loads
    OBVIOUS
  <1>2. k \in Nat /\ k > 0 /\ \A i \in Nat : i \in 1..k <=> i \in 1..Len(w) /\ i <= n
    BY <1>1
  <1>3. R = {w[i] : i \in 1..k}
    BY DEF States!Recent
  <1> HIDE DEF R, k
  <1>4. \A i \in 1..k : w[i] \in Loads /\ w[i] \in R
    BY <1>1, <1>2, <1>3
  <1>5. R \subseteq Loads /\ R # {}
    BY <1>2, <1>3, <1>4
  <1>6. R \subseteq 0..100 /\ R \subseteq Nat /\ R \cup {0} \subseteq 0..100 /\ R \cup {0} # {}
    <2>1. Loads \subseteq 0..100 /\ Loads \subseteq Nat /\ 0 \in 0..100
      BY Constants
    <2> QED
      BY <1>5, <2>1
  <1>7. States!Min(R) \in R /\ \A y \in R : States!Min(R) <= y
    BY <1>5, <1>6, MinIs
  <1>8. States!Max(R \cup {0}) \in R \cup {0} /\ \A y \in R \cup {0} : y <= States!Max(R \cup {0})
    BY <1>6, MaxIs
  <1>9. \A i \in 1..Len(w) : i <= n => w[i] \in R
    BY <1>1, <1>2, <1>4
  <1>10. \E i \in 1..Len(w) : i <= n /\ States!Min(R) = w[i]
    <2>1. PICK i \in 1..k : States!Min(R) = w[i]
      BY <1>3, <1>7
    <2> QED
      BY <1>2, <2>1
  <1> QED
    BY <1>5, <1>6, <1>7, <1>8, <1>9, <1>10 DEF R

\* The window after a measurement: the new load comes first.
LEMMA Pushed ==
  ASSUME States!DccStatesAssumption, NEW q \in Seq(Loads), NEW load \in Loads
  PROVE  LET w == SubSeq(<<load>> \o q, 1, States!Min({Len(q) + 1, N_samples_down})) IN
         /\ w \in Seq(Loads) /\ w # <<>> /\ Len(w) <= N_samples_down
         /\ w[1] = load /\ Len(w) <= Len(q) + 1 /\ (Len(w) = Len(q) + 1 \/ Len(w) = N_samples_down)
         /\ \A i \in 1..Len(q) : i + 1 <= Len(w) => w[i + 1] = q[i]
  <1> DEFINE k == States!Min({Len(q) + 1, N_samples_down})
             s == <<load>> \o q
             w == SubSeq(s, 1, k)
  <1>1. Len(q) \in Nat /\ N_samples_down \in Nat /\ N_samples_down > 0
    BY Constants
  <1>2. k \in {Len(q) + 1, N_samples_down} /\ k <= Len(q) + 1 /\ k <= N_samples_down
    <2>1. {Len(q) + 1, N_samples_down} \subseteq Nat
      BY <1>1
    <2> QED
      BY <2>1, MinIs
  <1>3. /\ s \in Seq(Loads) /\ Len(s) = Len(q) + 1 /\ s[1] = load
        /\ \A i \in 1..Len(q) : s[i + 1] = q[i]
    OBVIOUS
  <1> HIDE DEF s, k
  <1>4. k \in Nat /\ k > 0 /\ k <= Len(s)
    BY <1>1, <1>2, <1>3
  <1>5. w \in Seq(Loads) /\ Len(w) = k /\ \A i \in 1..k : w[i] = s[i]
    BY <1>3, <1>4
  <1> HIDE DEF w
  <1>6. 1 \in 1..k /\ \A i \in 1..Len(q) : i + 1 <= k => i + 1 \in 1..k
    BY <1>1, <1>4
  <1>7. w # <<>>
    BY <1>4, <1>5
  <1> QED
    BY <1>2, <1>3, <1>5, <1>6, <1>7 DEF w, s, k

-----------------------------------------------------------------------------
(***************************************************************************)
(* The five substates of the active state and their intervals.             *)
(***************************************************************************)
LEMMA SameCardinality == \A S : States!Cardinality(S) = Cardinality(S)
  BY DEF States!Cardinality, Cardinality

LEMMA UpperBound ==
  ASSUME NEW load \in Int
  PROVE  States!upper_bound(load) = IF load < 27 THEN 0 ELSE IF load < 35 THEN 1 ELSE IF load < 43 THEN 2
                             ELSE IF load < 51 THEN 3 ELSE IF load < 59 THEN 4 ELSE 5
  <1> DEFINE n == IF load < 27 THEN 0 ELSE IF load < 35 THEN 1 ELSE IF load < 43 THEN 2
                  ELSE IF load < 51 THEN 3 ELSE IF load < 59 THEN 4 ELSE 5
             S == {i \in DOMAIN States!channel_loads : States!channel_loads[i] <= load}
  <1>1. /\ DOMAIN States!channel_loads = 1..5
        /\ States!channel_loads[1] = 27 /\ States!channel_loads[2] = 35 /\ States!channel_loads[3] = 43
        /\ States!channel_loads[4] = 51 /\ States!channel_loads[5] = 59
    BY DEF States!channel_loads
  <1>2. S = 1..n
    <2>1. \A i \in 1..5 : States!channel_loads[i] <= load <=> i <= n
      <3>1. \A i \in 1..5 : i = 1 \/ i = 2 \/ i = 3 \/ i = 4 \/ i = 5
        OBVIOUS
      <3> QED
        BY <1>1, <3>1
    <2>2. \A i \in Nat : i \in 1..n <=> i \in 1..5 /\ i <= n
      OBVIOUS
    <2> HIDE DEF n
    <2> QED
      BY <1>1, <2>1, <2>2
  <1>3. n \in Nat
    OBVIOUS
  <1> HIDE DEF n, S
  <1>4. Cardinality(1..n) = n
    <2>1. Cardinality(1..n) = IF 1 > n THEN 0 ELSE n - 1 + 1
      BY <1>3, FS_Interval
    <2> QED
      BY <1>3, <2>1
  <1> QED
    BY <1>2, <1>4, SameCardinality DEF States!upper_bound, S, n

\* The number of substates that a load passes.
Passed(load) == IF load < 27 THEN 0 ELSE IF load < 35 THEN 1 ELSE IF load < 43 THEN 2
                ELSE IF load < 51 THEN 3 ELSE 4

\* Demanded counts the substates passed.
LEMMA PassedIs ==
  ASSUME NEW load \in Int
  PROVE  Cardinality({l \in {27, 35, 43, 51} : l <= load}) = Passed(load)
  <1> DEFINE S == {l \in {27, 35, 43, 51} : l <= load}
  <1>1. Cardinality({}) = 0 /\ IsFiniteSet({})
    BY FS_EmptySet
  <1>2. Cardinality({} \cup {27}) = 1 /\ IsFiniteSet({} \cup {27})
    BY <1>1, FS_AddElement
  <1>3. Cardinality({27} \cup {35}) = 2 /\ IsFiniteSet({27} \cup {35})
    <2>1. {} \cup {27} = {27} /\ 35 \notin {27}
      OBVIOUS
    <2>2. Cardinality({27}) = 1 /\ IsFiniteSet({27})
      BY <1>2, <2>1
    <2>3. Cardinality({27} \cup {35}) = Cardinality({27}) + 1 /\ IsFiniteSet({27} \cup {35})
      <3> DEFINE T == {27}
      <3>1. IsFiniteSet(T) /\ 35 \notin T
        BY <2>1, <2>2
      <3> HIDE DEF T
      <3>2. Cardinality(T \cup {35}) = Cardinality(T) + 1 /\ IsFiniteSet(T \cup {35})
        BY <3>1, FS_AddElement
      <3> QED
        BY <3>2 DEF T
    <2> QED
      BY <2>2, <2>3
  <1>4. Cardinality({27, 35} \cup {43}) = 3 /\ IsFiniteSet({27, 35} \cup {43})
    <2>1. {27} \cup {35} = {27, 35} /\ 43 \notin {27, 35}
      OBVIOUS
    <2>2. Cardinality({27, 35}) = 2 /\ IsFiniteSet({27, 35})
      BY <1>3, <2>1
    <2>3. Cardinality({27, 35} \cup {43}) = Cardinality({27, 35}) + 1 /\ IsFiniteSet({27, 35} \cup {43})
      <3> DEFINE T == {27, 35}
      <3>1. IsFiniteSet(T) /\ 43 \notin T
        BY <2>1, <2>2
      <3> HIDE DEF T
      <3>2. Cardinality(T \cup {43}) = Cardinality(T) + 1 /\ IsFiniteSet(T \cup {43})
        BY <3>1, FS_AddElement
      <3> QED
        BY <3>2 DEF T
    <2> QED
      BY <2>2, <2>3
  <1>5. Cardinality({27, 35, 43} \cup {51}) = 4 /\ IsFiniteSet({27, 35, 43} \cup {51})
    <2>1. {27, 35} \cup {43} = {27, 35, 43} /\ 51 \notin {27, 35, 43}
      OBVIOUS
    <2>2. Cardinality({27, 35, 43}) = 3 /\ IsFiniteSet({27, 35, 43})
      BY <1>4, <2>1
    <2>3. Cardinality({27, 35, 43} \cup {51}) = Cardinality({27, 35, 43}) + 1 /\ IsFiniteSet({27, 35, 43} \cup {51})
      <3> DEFINE T == {27, 35, 43}
      <3>1. IsFiniteSet(T) /\ 51 \notin T
        BY <2>1, <2>2
      <3> HIDE DEF T
      <3>2. Cardinality(T \cup {51}) = Cardinality(T) + 1 /\ IsFiniteSet(T \cup {51})
        BY <3>1, FS_AddElement
      <3> QED
        BY <3>2 DEF T
    <2> QED
      BY <2>2, <2>3
  <1>6. S = IF load < 27 THEN {} ELSE IF load < 35 THEN {} \cup {27} ELSE IF load < 43 THEN {27} \cup {35}
            ELSE IF load < 51 THEN {27, 35} \cup {43} ELSE {27, 35, 43} \cup {51}
    OBVIOUS
  <1> HIDE DEF S
  <1> QED
    BY <1>1, <1>2, <1>3, <1>4, <1>5, <1>6 DEF Passed, S

\* The intervals and the loads each state and substate begins at.
LEMMA IntervalIs ==
  /\ \A sub : States!transmission_interval("relaxed", sub) = 60 /\ States!transmission_interval("restrictive", sub) = 460
  /\ \A sub \in 0..4 : States!transmission_interval("active", sub) = 100 + 80 * sub
  /\ \A sub : States!Begin("relaxed", sub) = 0 /\ States!Begin("restrictive", sub) = 59
  /\ \A sub \in 0..4 : States!Begin("active", sub) = 19 + 8 * sub
  <1>1. \A sub \in 0..4 : sub = 0 \/ sub = 1 \/ sub = 2 \/ sub = 3 \/ sub = 4
    OBVIOUS
  <1>2. \A sub \in 0..4 : <<100, 180, 260, 340, 420>>[sub + 1] = 100 + 80 * sub
    BY <1>1
  <1>3. \A sub \in 0..4 : <<19, 27, 35, 43, 51>>[sub + 1] = 19 + 8 * sub
    BY <1>1
  <1> QED
    BY <1>2, <1>3 DEF States!transmission_interval, States!Begin

\* The interval a load demands.
LEMMA DemandedIs ==
  ASSUME NEW load \in Int
  PROVE  States!Demanded(load) = IF load < 19 THEN 60 ELSE IF load >= 59 THEN 460 ELSE 100 + 80 * Passed(load)
  <1>1. Passed(load) \in 0..4
    BY DEF Passed
  <1>2. Cardinality({l \in {27, 35, 43, 51} : l <= load}) = Passed(load)
    BY PassedIs
  <1>3. States!transmission_interval("active", Passed(load)) = 100 + 80 * Passed(load)
    BY <1>1, IntervalIs
  <1> HIDE DEF Passed
  <1> QED
    BY <1>2, <1>3, SameCardinality DEF States!Demanded

-----------------------------------------------------------------------------
(***************************************************************************)
(* The invariant.  The relaxed state has not seen the short window above   *)
(* its limit, the active state is in the substate of its windows, and a    *)
(* load that asks for the restrictive state has not lasted for longer than *)
(* the short window there, since the relaxed state is left only for the    *)
(* active one.                                                             *)
(***************************************************************************)
Typed ==
  /\ loads \in Seq(Loads) /\ Len(loads) <= N_samples_down
  /\ state \in {"relaxed", "active", "restrictive"} /\ substate \in 0..4
  /\ current \in 1..Len(Limits) /\ odd \in BOOLEAN
RelaxedLow == state = "relaxed" /\ loads # <<>> => States!min_channel_load(loads) < States!NDL_minChannelLoad
InSubstate ==
  state = "active" =>
    loads # <<>> /\ substate = States!ActiveUpdate(States!min_channel_load(loads), States!max_channel_load(loads))
NotForLong ==
  state = "active" /\ Len(loads) > N_samples_up => States!Min(States!Recent(loads, N_samples_up + 1)) < States!NDL_maxChannelLoad

DccInv == Typed /\ RelaxedLow /\ InSubstate /\ NotForLong

\* Before the first measurement every part of the invariant holds.
LEMMA Initially ==
  ASSUME States!DccStatesAssumption, States!Init
  PROVE  DccInv
  <1>1. loads = <<>> /\ state = "relaxed" /\ substate = 0 /\ current = 1 /\ odd = FALSE
    BY DEF States!Init
  <1>2. Limits \in Seq(Nat) /\ Limits # <<>>
    BY DEF States!DccStatesAssumption
  <1>3. current \in 1..Len(Limits)
    BY <1>1, <1>2
  <1>4. loads \in Seq(Loads) /\ Len(loads) <= N_samples_down
    BY <1>1, Constants
  <1>5. Typed
    <2>1. odd \in BOOLEAN
      BY <1>1
    <2>2. state \in {"relaxed", "active", "restrictive"} /\ substate \in 0..4
      BY <1>1
    <2> QED
      BY <1>3, <1>4, <2>1, <2>2 DEF Typed
  <1> QED
    BY <1>1, <1>5 DEF DccInv, RelaxedLow, InSubstate, NotForLong

(***************************************************************************)
(* What the machine reads from a window that is not empty.                 *)
(***************************************************************************)
LEMMA Measures ==
  ASSUME States!DccStatesAssumption, NEW w \in Seq(Loads), w # <<>>
  PROVE  /\ States!min_channel_load(w) \in 0..100 /\ States!max_channel_load(w) \in 0..100
         /\ States!min_channel_load(w) <= States!max_channel_load(w)
         /\ \A i \in 1..Len(w) : i <= N_samples_up => States!min_channel_load(w) <= w[i]
         /\ \E i \in 1..Len(w) : i <= N_samples_up /\ States!min_channel_load(w) = w[i]
         /\ \A i \in 1..Len(w) : i <= N_samples_down => w[i] <= States!max_channel_load(w)
  <1>1. /\ N_samples_up \in Nat /\ N_samples_up > 0 /\ N_samples_down \in Nat /\ N_samples_down > 0
        /\ Loads \subseteq Nat
    BY Constants
  <1>2. States!min_channel_load(w) = States!Min(States!Recent(w, N_samples_up))
    BY DEF States!min_channel_load
  <1>3. States!max_channel_load(w) = States!Max(States!Recent(w, N_samples_down) \cup {0})
    BY DEF States!max_channel_load
  <1>4. /\ States!min_channel_load(w) \in 0..100
        /\ \A i \in 1..Len(w) : i <= N_samples_up => States!min_channel_load(w) <= w[i]
        /\ \E i \in 1..Len(w) : i <= N_samples_up /\ States!min_channel_load(w) = w[i]
    BY <1>1, <1>2, Window
  <1>5. /\ States!max_channel_load(w) \in 0..100
        /\ \A i \in 1..Len(w) : i <= N_samples_down => w[i] <= States!max_channel_load(w)
    BY <1>1, <1>3, Window
  <1> DEFINE lo == States!min_channel_load(w)
             hi == States!max_channel_load(w)
  <1>6. lo <= w[1] /\ w[1] <= hi /\ lo \in 0..100 /\ hi \in 0..100 /\ w[1] \in Nat
    <2>0. Len(w) \in Nat /\ Len(w) > 0 /\ 1 \in 1..Len(w)
      OBVIOUS
    <2>1. 1 \in 1..Len(w) /\ w[1] \in Nat /\ 1 <= N_samples_up /\ 1 <= N_samples_down
      BY <1>1, <2>0, Constants
    <2>2. lo <= w[1] /\ w[1] <= hi
      BY <1>4, <1>5, <2>1
    <2> QED
      BY <1>4, <1>5, <2>1, <2>2, Zenon
  <1> HIDE DEF lo, hi
  <1>7. lo <= hi
    BY <1>6
  <1>8. States!min_channel_load(w) <= States!max_channel_load(w)
    BY <1>7, Zenon DEF lo, hi
  <1> QED
    BY <1>4, <1>5, <1>8

\* The substate of the active state is that of the greatest load of the long window.
LEMMA ActiveIs ==
  ASSUME NEW lo \in 0..100, NEW hi \in 0..100, lo <= hi
  PROVE  States!ActiveUpdate(lo, hi) = Passed(hi) /\ Passed(hi) \in 0..4
  <1>1. /\ States!upper_bound(lo) \in 0..5 /\ States!upper_bound(hi) \in 0..5 /\ States!upper_bound(lo) <= States!upper_bound(hi)
        /\ Passed(hi) = IF States!upper_bound(hi) > 4 THEN 4 ELSE States!upper_bound(hi)
    BY UpperBound DEF Passed
  <1> DEFINE a == States!upper_bound(lo)
             b == States!upper_bound(hi)
             M == States!Max({a, b})
  <1> HIDE DEF a, b
  <1>2. a \in 0..5 /\ b \in 0..5 /\ a <= b
    BY <1>1 DEF a, b
  <1>3. M = b
    <2>1. {a, b} \subseteq 0..5 /\ {a, b} # {}
      BY <1>2
    <2>2. M \in {a, b} /\ \A y \in {a, b} : y <= M
      BY <2>1, MaxIs
    <2> QED
      BY <1>2, <2>2
  <1>4. Len(States!channel_loads) - 1 = 4
    BY DEF States!channel_loads
  <1>5. States!ActiveUpdate(lo, hi) = States!Min({M, 4})
    BY <1>4 DEF States!ActiveUpdate, a, b
  <1>6. States!Min({M, 4}) = IF b > 4 THEN 4 ELSE b
    <2>1. {M, 4} \subseteq Nat /\ {M, 4} # {}
      BY <1>2, <1>3
    <2>2. States!Min({M, 4}) \in {M, 4} /\ \A y \in {M, 4} : States!Min({M, 4}) <= y
      BY <2>1, MinIs
    <2> HIDE DEF M
    <2> QED
      BY <1>2, <1>3, <2>2
  <1> QED
    BY <1>1, <1>2, <1>5, <1>6 DEF b

(***************************************************************************)
(* A measurement: the windows after it, and the successor they decide.     *)
(***************************************************************************)
LEMMA Measured ==
  ASSUME States!DccStatesAssumption, Typed, NEW load \in Loads, States!update(load)
  PROVE  /\ loads' \in Seq(Loads) /\ loads' # <<>> /\ Len(loads') <= N_samples_down
         /\ Head(loads') = load
         /\ Len(loads') <= Len(loads) + 1
         /\ \A i \in 1..Len(loads) : i < N_samples_down => i + 1 \in 1..Len(loads') /\ loads'[i + 1] = loads[i]
         /\ state' = States!Successor(States!min_channel_load(loads'), States!max_channel_load(loads'))
         /\ substate' = IF state' = "active" THEN Passed(States!max_channel_load(loads')) ELSE substate
         /\ state' = "active" =>
              substate' = States!ActiveUpdate(States!min_channel_load(loads'), States!max_channel_load(loads'))
         /\ current' = States!GradualUpdate(load) /\ odd' = ~odd
  <1> DEFINE w == SubSeq(<<load>> \o loads, 1, States!Min({Len(loads) + 1, N_samples_down}))
  <1>1. loads \in Seq(Loads)
    BY DEF Typed
  <1>2. /\ w \in Seq(Loads) /\ w # <<>> /\ Len(w) <= N_samples_down
        /\ w[1] = load /\ Len(w) <= Len(loads) + 1 /\ (Len(w) = Len(loads) + 1 \/ Len(w) = N_samples_down)
        /\ \A i \in 1..Len(loads) : i + 1 <= Len(w) => w[i + 1] = loads[i]
    BY <1>1, Pushed
  <1> HIDE DEF w
  <1>3. /\ loads' = w /\ state' = States!Successor(States!min_channel_load(w), States!max_channel_load(w))
        /\ substate' = IF state' = "active" THEN States!ActiveUpdate(States!min_channel_load(w), States!max_channel_load(w))
                       ELSE substate
        /\ current' = States!GradualUpdate(load) /\ odd' = ~odd
    BY DEF States!update, States!FullyMeshedUpdate, w
  <1>4. States!ActiveUpdate(States!min_channel_load(w), States!max_channel_load(w)) = Passed(States!max_channel_load(w))
    BY <1>2, Measures, ActiveIs
  <1>5. \A i \in 1..Len(loads) : i < N_samples_down => i + 1 \in 1..Len(w) /\ w[i + 1] = loads[i]
    <2>1. Len(loads) \in Nat /\ Len(w) \in Nat /\ N_samples_down \in Nat
      BY <1>1, <1>2, Constants
    <2> SUFFICES ASSUME NEW i \in 1..Len(loads), i < N_samples_down
                 PROVE  i + 1 \in 1..Len(w) /\ w[i + 1] = loads[i]
      OBVIOUS
    <2>2. i + 1 <= Len(w) /\ i + 1 \in 1..Len(w)
      BY <1>2, <2>1
    <2> QED
      BY <1>2, <2>2
  <1>6. Head(w) = load
    BY <1>2
  <1> QED
    BY <1>2, <1>3, <1>4, <1>5, <1>6

(***************************************************************************)
(* A measurement keeps each part of the invariant.                         *)
(***************************************************************************)
LEMMA TypedStep ==
  ASSUME States!DccStatesAssumption, Typed, NEW load \in Loads, States!update(load)
  PROVE  Typed'
  <1>1. loads' \in Seq(Loads) /\ Len(loads') <= N_samples_down
    BY Measured
  <1>2. state' \in {"relaxed", "active", "restrictive"}
    BY Measured DEF States!Successor, Typed
  <1>3. substate' \in 0..4
    <2>1. Passed(States!max_channel_load(loads')) \in 0..4
      BY DEF Passed
    <2> QED
      BY <2>1, Measured DEF Typed
  <1>4. current' \in 1..Len(Limits)
    <2>1. Limits \in Seq(Nat) /\ Len(Limits) \in Nat /\ current \in 1..Len(Limits)
      BY DEF States!DccStatesAssumption, Typed
    <2>2. current' = States!GradualUpdate(load)
      BY Measured
    <2> QED
      BY <2>1, <2>2 DEF States!GradualUpdate
  <1>5. odd' \in BOOLEAN
    BY Measured DEF Typed
  <1> QED
    BY <1>1, <1>2, <1>3, <1>4, <1>5 DEF Typed

\* The relaxed state is entered and kept only with the short window low.
LEMMA RelaxedStep ==
  ASSUME States!DccStatesAssumption, DccInv, NEW load \in Loads, States!update(load)
  PROVE  RelaxedLow'
  <1> DEFINE lo == States!min_channel_load(loads')
             hi == States!max_channel_load(loads')
  <1>1. lo \in 0..100 /\ hi \in 0..100 /\ lo <= hi
    BY Measured, Measures DEF DccInv
  <1>2. state' = States!Successor(lo, hi) /\ state \in {"relaxed", "active", "restrictive"}
    BY Measured DEF DccInv, Typed
  <1>3. state' = "relaxed" => lo < States!NDL_minChannelLoad
    <2> HIDE DEF lo, hi
    <2>1. CASE state = "relaxed"
      <3>1. state' = IF lo >= States!NDL_minChannelLoad THEN "active" ELSE "relaxed"
        BY <1>2, <2>1 DEF States!Successor
      <3> QED
        BY <1>1, <3>1 DEF States!NDL_minChannelLoad
    <2>2. CASE state = "active"
      <3>1. state' = "relaxed" => hi < States!NDL_minChannelLoad
        BY <1>2, <2>2 DEF States!Successor
      <3> QED
        BY <1>1, <3>1 DEF States!NDL_minChannelLoad
    <2>3. CASE state = "restrictive"
      BY <1>2, <2>3 DEF States!Successor
    <2> QED
      BY <1>2, <2>1, <2>2, <2>3
  <1> QED
    BY <1>3 DEF RelaxedLow

\* Every measurement sets the substate of the active state anew.
LEMMA SubstateStep ==
  ASSUME States!DccStatesAssumption, DccInv, NEW load \in Loads, States!update(load)
  PROVE  InSubstate'
  BY Measured DEF DccInv, InSubstate

\* A short window above the restrictive limit, and one more measurement: the
\* state before was active or restrictive, and the active state would be left.
LEMMA NotForLongStep ==
  ASSUME States!DccStatesAssumption, DccInv, NEW load \in Loads, States!update(load)
  PROVE  NotForLong'
  <1> SUFFICES ASSUME state' = "active", Len(loads') > N_samples_up
               PROVE  States!Min(States!Recent(loads', N_samples_up + 1)) < States!NDL_maxChannelLoad
    BY DEF NotForLong
  <1> DEFINE w == loads'
             lo == States!min_channel_load(w)
             hi == States!max_channel_load(w)
             m == States!Min(States!Recent(w, N_samples_up + 1))
  <1>1. /\ N_samples_up \in Nat /\ N_samples_up > 0 /\ N_samples_down \in Nat
        /\ N_samples_up < N_samples_down
        /\ States!NDL_minChannelLoad = 19 /\ States!NDL_maxChannelLoad = 59
    BY Constants
  <1>2. /\ w \in Seq(Loads) /\ w # <<>> /\ Len(w) \in Nat /\ Len(w) <= Len(loads) + 1
        /\ \A i \in 1..Len(loads) : i < N_samples_down => i + 1 \in 1..Len(w) /\ w[i + 1] = loads[i]
        /\ state' = States!Successor(lo, hi)
        /\ \A i \in 1..Len(w) : w[i] \in Nat
    BY Measured, Constants DEF DccInv
  <1>3. /\ state \in {"relaxed", "active", "restrictive"} /\ loads \in Seq(Loads) /\ Len(loads) \in Nat
        /\ RelaxedLow /\ \A i \in 1..Len(loads) : loads[i] \in Nat
    BY Constants DEF DccInv, Typed
  <1>4. m \in 0..100 /\ \A i \in 1..Len(w) : i <= N_samples_up + 1 => m <= w[i]
    <2>1. N_samples_up + 1 \in Nat /\ N_samples_up + 1 > 0
      BY <1>1
    <2> QED
      BY <1>2, <2>1, Window
  <1>lo. lo \in 0..100 /\ \E i \in 1..Len(w) : i <= N_samples_up /\ lo = w[i]
    BY <1>2, Measures
  <1>hi. hi \in 0..100 /\ \A i \in 1..Len(w) : i <= N_samples_down => w[i] <= hi
    BY <1>2, Measures
  <1>s. state' = "active" /\ Len(w) > N_samples_up
    OBVIOUS
  <1> HIDE DEF m, lo, hi, w
  <1>5. ASSUME NEW i \in 1..Len(w), i <= N_samples_up + 1, w[i] < States!NDL_maxChannelLoad
        PROVE  m < States!NDL_maxChannelLoad
    <2>1. w[i] \in Nat /\ m <= w[i]
      BY <1>2, <1>4, <1>5
    <2> QED
      BY <1>1, <1>4, <1>5, <2>1
  <1>6. ASSUME state = "relaxed"
        PROVE  m < States!NDL_maxChannelLoad
    <2>1. loads # <<>>
      <3>1. Len(loads) > 0
        BY <1>1, <1>2, <1>3, <1>s
      <3> QED
        BY <3>1
    <2>2. States!min_channel_load(loads) < States!NDL_minChannelLoad
      BY <1>3, <1>6, <2>1 DEF RelaxedLow
    <2>3. PICK i \in 1..Len(loads) : i <= N_samples_up /\ States!min_channel_load(loads) = loads[i]
      BY <1>3, <2>1, Measures
    <2>4. i < N_samples_down /\ i + 1 <= N_samples_up + 1
      BY <1>1, <1>3, <2>3
    <2>5. i + 1 \in 1..Len(w) /\ w[i + 1] = loads[i]
      BY <1>2, <2>4
    <2>6. w[i + 1] < States!NDL_maxChannelLoad
      <3>1. loads[i] \in Nat
        BY <1>3
      <3> QED
        BY <1>1, <2>2, <2>3, <2>5, <3>1
    <2> QED
      BY <1>5, <2>4, <2>5, <2>6
  <1>7. ASSUME state = "active"
        PROVE  m < States!NDL_maxChannelLoad
    <2>1. ~(lo >= States!NDL_maxChannelLoad)
      BY <1>2, <1>7, <1>s DEF States!Successor
    <2>2. PICK i \in 1..Len(w) : i <= N_samples_up /\ lo = w[i]
      BY <1>lo
    <2>3. i <= N_samples_up + 1
      BY <1>1, <1>2, <2>2
    <2>4. w[i] < States!NDL_maxChannelLoad
      BY <1>1, <1>lo, <2>1, <2>2
    <2> QED
      BY <1>5, <2>3, <2>4
  <1>8. ASSUME state = "restrictive"
        PROVE  m < States!NDL_maxChannelLoad
    <2>1. hi < States!NDL_maxChannelLoad
      BY <1>2, <1>8, <1>s DEF States!Successor
    <2>2. 1 \in 1..Len(w) /\ 1 <= N_samples_down /\ 1 <= N_samples_up + 1
      BY <1>1, <1>2, <1>s
    <2>3. w[1] \in Nat /\ w[1] <= hi
      BY <1>2, <1>hi, <2>2
    <2>4. w[1] < States!NDL_maxChannelLoad
      BY <1>1, <1>hi, <2>1, <2>3
    <2> QED
      BY <1>5, <2>2, <2>4
  <1> QED
    BY <1>3, <1>6, <1>7, <1>8 DEF m, w

\* A measurement, odd or even, preserves the invariant.
LEMMA Steps ==
  ASSUME States!DccStatesAssumption, DccInv, [States!Next]_(States!vars)
  PROVE  DccInv'
  <1>1. CASE UNCHANGED States!vars
    BY <1>1 DEF States!vars, DccInv, Typed, RelaxedLow, InSubstate, NotForLong, States!min_channel_load, States!max_channel_load, States!Recent
  <1>2. ASSUME NEW load \in Loads, States!update(load)
        PROVE  DccInv'
    BY <1>2, TypedStep, RelaxedStep, SubstateStep, NotForLongStep DEF DccInv
  <1> QED
    BY <1>1, <1>2 DEF States!Next

-----------------------------------------------------------------------------
(***************************************************************************)
(* What the invariant gives.                                               *)
(***************************************************************************)
LEMMA InvTypes ==
  ASSUME States!DccStatesAssumption, DccInv
  PROVE  States!TypeOK
  <1>1. /\ loads \in Seq(Loads) /\ Len(loads) \in Nat /\ Len(loads) <= N_samples_down
        /\ N_samples_down \in Nat /\ Limits \in Seq(Nat)
    BY Constants DEF DccInv, Typed, States!DccStatesAssumption
  <1>2. Len(loads) \in 0..N_samples_down /\ loads \in [1..Len(loads) -> Loads]
    BY <1>1
  <1>3. loads \in States!BoundedSeq(Loads, N_samples_down)
    BY <1>2 DEF States!BoundedSeq, States!SeqOf
  <1>4. current \in DOMAIN Limits
    BY <1>1 DEF DccInv, Typed
  <1> QED
    BY <1>3, <1>4 DEF DccInv, Typed, States!TypeOK

\* The active state demands at least what its short window does.
LEMMA InvAnswers ==
  ASSUME States!DccStatesAssumption, DccInv
  PROVE  States!LoadIsAnswered
  <1> SUFFICES ASSUME Len(loads) > N_samples_up
               PROVE  States!interval >= States!Demanded(States!Min(States!Recent(loads, N_samples_up + 1)))
    BY DEF States!LoadIsAnswered
  <1> DEFINE m == States!Min(States!Recent(loads, N_samples_up + 1))
             lo == States!min_channel_load(loads)
             hi == States!max_channel_load(loads)
  <1>1. /\ N_samples_up \in Nat /\ N_samples_up > 0 /\ loads \in Seq(Loads) /\ Len(loads) \in Nat
        /\ States!NDL_minChannelLoad = 19 /\ States!NDL_maxChannelLoad = 59
        /\ state \in {"relaxed", "active", "restrictive"} /\ substate \in 0..4
    BY Constants DEF DccInv, Typed
  <1>2. loads # <<>>
    BY <1>1
  <1>3. lo \in 0..100 /\ hi \in 0..100 /\ lo <= hi
    BY <1>1, <1>2, Measures
  <1>4. m \in 0..100 /\ m <= lo
    <2>1. N_samples_up + 1 \in Nat /\ N_samples_up + 1 > 0
      BY <1>1
    <2>2. m \in 0..100 /\ \A i \in 1..Len(loads) : i <= N_samples_up + 1 => m <= loads[i]
      BY <1>1, <1>2, <2>1, Window
    <2>3. PICK i \in 1..Len(loads) : i <= N_samples_up /\ lo = loads[i]
      BY <1>1, <1>2, Measures
    <2>4. i <= N_samples_up + 1
      BY <1>1, <2>3
    <2> HIDE DEF m, lo
    <2> QED
      BY <2>2, <2>3, <2>4
  <1>5. States!Demanded(m) = IF m < 19 THEN 60 ELSE IF m >= 59 THEN 460 ELSE 100 + 80 * Passed(m)
    <2> HIDE DEF m, lo, hi
    <2>1. m \in Int
      BY <1>4
    <2> QED
      BY <2>1, DemandedIs
  <1>6. Passed(m) \in 0..4 /\ Passed(m) <= Passed(hi) /\ Passed(hi) \in 0..4
    <2> HIDE DEF m, lo, hi
    <2> QED
      BY <1>3, <1>4 DEF Passed
  <1>7. States!interval = States!transmission_interval(state, substate)
    BY DEF States!interval
  <1>8. CASE state = "relaxed"
    <2>1. lo < 19
      BY <1>1, <1>2, <1>8 DEF DccInv, RelaxedLow
    <2>2. States!interval = 60
      BY <1>7, <1>8, IntervalIs
    <2>3. m < 19
      <3> HIDE DEF m, lo
      <3> QED
        BY <1>3, <1>4, <2>1
    <2>4. States!Demanded(m) = 60
      BY <1>5, <2>3
    <2> QED
      BY <2>2, <2>4
  <1>9. CASE state = "active"
    <2>1. substate = States!ActiveUpdate(lo, hi) /\ m < 59
      BY <1>1, <1>9 DEF DccInv, InSubstate, NotForLong
    <2>2. substate = Passed(hi)
      BY <1>3, <2>1, ActiveIs
    <2>3. States!interval = 100 + 80 * Passed(hi)
      BY <1>6, <1>7, <1>9, <2>2, IntervalIs
    <2> HIDE DEF m, hi, lo
    <2>4. States!interval >= States!Demanded(m)
      <3>1. CASE m < 19
        BY <1>5, <1>6, <2>3, <3>1
      <3>2. CASE ~(m < 19)
        BY <1>4, <1>5, <1>6, <2>1, <2>3, <3>2
      <3> QED
        BY <3>1, <3>2
    <2> QED
      BY <2>4 DEF m
  <1>10. CASE state = "restrictive"
    <2>1. States!interval = 460
      BY <1>7, <1>10, IntervalIs
    <2>2. States!Demanded(m) <= 460
      <3> HIDE DEF m, hi, lo
      <3> QED
        BY <1>4, <1>5, <1>6
    <2> HIDE DEF m
    <2>3. States!Demanded(m) \in Int
      BY <1>5, <1>6
    <2> QED
      BY <2>1, <2>2, <2>3 DEF m
  <1> QED
    BY <1>1, <1>8, <1>9, <1>10

(***************************************************************************)
(* A shorter interval is one of a lower state or substate, which all loads *)
(* of the long window must have allowed.                                   *)
(***************************************************************************)
LEMMA CoolsDown ==
  ASSUME States!DccStatesAssumption, DccInv, NEW load \in Loads, States!update(load),
         States!transmission_interval(state', substate') < States!interval
  PROVE  \A i \in DOMAIN loads' : loads'[i] < States!Begin(state, substate)
  <1> DEFINE w == loads'
             lo == States!min_channel_load(w)
             hi == States!max_channel_load(w)
  <1>1. /\ w \in Seq(Loads) /\ w # <<>> /\ Len(w) <= N_samples_down
        /\ state' = States!Successor(lo, hi)
        /\ substate' = IF state' = "active" THEN Passed(hi) ELSE substate
    BY Measured DEF DccInv
  <1>2. /\ lo \in 0..100 /\ hi \in 0..100 /\ lo <= hi
        /\ \A i \in 1..Len(w) : i <= N_samples_down => w[i] <= hi
    BY <1>1, Measures
  <1>3. /\ States!NDL_minChannelLoad = 19 /\ States!NDL_maxChannelLoad = 59 /\ N_samples_down \in Nat
        /\ Len(w) \in Nat /\ \A i \in 1..Len(w) : w[i] \in Nat
    BY <1>1, Constants
  <1>4. state \in {"relaxed", "active", "restrictive"} /\ substate \in 0..4
    BY DEF DccInv, Typed
  <1>5. Passed(hi) \in 0..4
    BY DEF Passed
  <1>6. States!interval = States!transmission_interval(state, substate)
    BY DEF States!interval
  <1>7. States!transmission_interval(state', substate') < States!interval
    OBVIOUS
  <1>8. DOMAIN w = 1..Len(w)
    BY <1>1
  <1> HIDE DEF w, lo, hi
  <1>9. hi < States!Begin(state, substate) /\ States!Begin(state, substate) \in Int
    <2>1. CASE state = "relaxed"
      <3>1. States!interval = 60
        BY <1>6, <2>1, IntervalIs
      <3>2. state' \in {"active", "relaxed"}
        BY <1>1, <2>1 DEF States!Successor
      <3>3. States!transmission_interval(state', substate') >= 60
        <4>1. CASE state' = "relaxed"
          BY <4>1, IntervalIs
        <4>2. CASE state' = "active"
          <5>1. substate' = Passed(hi)
            BY <1>1, <4>2
          <5>2. States!transmission_interval(state', substate') = 100 + 80 * Passed(hi)
            BY <1>5, <4>2, <5>1, IntervalIs
          <5> HIDE DEF Passed
          <5> QED
            BY <1>5, <5>2
        <4> QED
          BY <3>2, <4>1, <4>2
      <3>4. FALSE
        <4>1. States!transmission_interval(state', substate') \in Int
          <5>1. CASE state' = "relaxed"
            BY <5>1, IntervalIs
          <5>2. CASE state' = "active"
            <6>1. States!transmission_interval(state', substate') = 100 + 80 * Passed(hi)
              BY <1>1, <1>5, <5>2, IntervalIs
            <6> QED
              BY <1>5, <6>1
          <5> QED
            BY <3>2, <5>1, <5>2
        <4> QED
          BY <1>7, <3>1, <3>3, <4>1
      <3> QED
        BY <3>4
    <2>2. CASE state = "restrictive"
      <3>1. States!Begin(state, substate) = 59
        BY <2>2, IntervalIs
      <3>2. state' # "restrictive"
        <4>1. States!transmission_interval("restrictive", substate) = 460 /\ States!transmission_interval("restrictive", substate') = 460
          BY IntervalIs
        <4> QED
          BY <1>6, <1>7, <2>2, <4>1
      <3>3. hi < 59
        BY <1>1, <1>3, <2>2, <3>2 DEF States!Successor
      <3> QED
        BY <3>1, <3>3
    <2>3. CASE state = "active"
      <3>1. States!interval = 100 + 80 * substate /\ States!Begin(state, substate) = 19 + 8 * substate
        BY <1>4, <1>6, <2>3, IntervalIs
      <3>2. CASE state' = "relaxed"
        <4>1. hi < 19
          BY <1>1, <1>3, <2>3, <3>2 DEF States!Successor
        <4> QED
          BY <1>2, <1>4, <3>1, <4>1
      <3>3. CASE state' = "active"
        <4>1. States!transmission_interval(state', substate') = 100 + 80 * Passed(hi)
          BY <1>1, <1>5, <3>3, IntervalIs
        <4>2. Passed(hi) < substate
          <5> HIDE DEF Passed
          <5> QED
            BY <1>4, <1>5, <1>7, <3>1, <4>1
        <4>3. hi < 19 + 8 * substate
          BY <1>2, <1>4, <4>2 DEF Passed
        <4> QED
          BY <1>4, <3>1, <4>3
      <3>4. CASE state' = "restrictive"
        <4>1. States!transmission_interval(state', substate') = 460
          BY <3>4, IntervalIs
        <4> QED
          BY <1>4, <1>7, <3>1, <4>1
      <3> QED
        BY <1>1, <2>3, <3>2, <3>3, <3>4 DEF States!Successor
    <2> QED
      BY <1>4, <2>1, <2>2, <2>3
  <1> SUFFICES ASSUME NEW i \in 1..Len(w)
               PROVE  w[i] < States!Begin(state, substate)
    BY <1>8 DEF w
  <1>10. w[i] <= hi /\ w[i] \in Nat
    BY <1>1, <1>2, <1>3
  <1> QED
    BY <1>2, <1>9, <1>10

(***************************************************************************)
(* Limits ascend, so the target lies on the side of the limit that load is *)
(* on, and one step does not pass it.                                      *)
(***************************************************************************)
LEMMA TargetIs ==
  ASSUME States!DccStatesAssumption, NEW load \in Loads
  PROVE  /\ States!Target(load) \in 1..Len(Limits)
         /\ \A i \in 1..Len(Limits) : Limits[i] <= load => i <= States!Target(load)
         /\ States!Target(load) = 1 \/ Limits[States!Target(load)] <= load
  <1> DEFINE S == {i \in DOMAIN Limits : Limits[i] <= load} \cup {1}
  <1>1. DOMAIN Limits = 1..Len(Limits) /\ Len(Limits) \in Nat /\ Len(Limits) > 0
    BY DEF States!DccStatesAssumption
  <1>2. S \subseteq 0..Len(Limits) /\ S # {} /\ S \subseteq 1..Len(Limits)
    BY <1>1
  <1>3. States!Max(S) \in S /\ \A y \in S : y <= States!Max(S)
    BY <1>1, <1>2, MaxIs
  <1>4. States!Target(load) = States!Max(S)
    BY DEF States!Target
  <1>5. \A i \in 1..Len(Limits) : Limits[i] <= load => i \in S
    BY <1>1
  <1>6. \A i \in S : i = 1 \/ Limits[i] <= load
    OBVIOUS
  <1> HIDE DEF S
  <1> QED
    BY <1>2, <1>3, <1>4, <1>5, <1>6

\* The gradual machine after a measurement.
LEMMA OneStep ==
  ASSUME States!DccStatesAssumption, DccInv, NEW load \in Loads, States!update(load)
  PROVE  LET t == States!Target(Head(loads')) IN
         current' = IF current < t THEN current + 1 ELSE IF current > t THEN current - 1 ELSE current
  <1> DEFINE t == States!Target(load)
             c == current
             L == Len(Limits)
  <1>1. Head(loads') = load /\ current' = States!GradualUpdate(load)
    BY Measured DEF DccInv
  <1>2. /\ L \in Nat /\ c \in 1..L /\ load \in Nat /\ \A i \in 1..L : Limits[i] \in Nat
        /\ \A i, j \in 1..L : i < j => Limits[i] < Limits[j]
    <2>1. Limits \in Seq(Nat) /\ \A i, j \in DOMAIN Limits : i < j => Limits[i] < Limits[j]
      BY DEF States!DccStatesAssumption
    <2>2. load \in Nat
      BY Constants
    <2> QED
      BY <2>1, <2>2 DEF DccInv, Typed
  <1>3. /\ t \in 1..L /\ \A i \in 1..L : Limits[i] <= load => i <= t
        /\ t = 1 \/ Limits[t] <= load
    BY TargetIs
  <1>4. current' = IF load < Limits[c] THEN IF c > 1 THEN c - 1 ELSE c
                   ELSE IF c < L /\ load >= Limits[c + 1] THEN c + 1 ELSE c
    BY <1>1 DEF States!GradualUpdate
  <1> HIDE DEF t, L
  <1>5. Limits[c] \in Nat
    BY <1>2
  <1>6. CASE load < Limits[c]
    <2>1. t <= c /\ (c > 1 => t < c)
      <3>1. CASE t = 1
        BY <1>2, <3>1
      <3>2. CASE t # 1
        <4>1. Limits[t] <= load /\ Limits[t] \in Nat
          BY <1>2, <1>3, <3>2
        <4>2. ~(c = t) /\ ~(c < t)
          <5>1. c < t => Limits[c] < Limits[t]
            BY <1>2, <1>3
          <5> QED
            BY <1>2, <1>5, <1>6, <4>1, <5>1
        <4> QED
          BY <1>2, <1>3, <4>2
      <3> QED
        BY <3>1, <3>2
    <2> QED
      BY <1>1, <1>2, <1>3, <1>4, <1>6, <2>1 DEF t
  <1>7. CASE ~(load < Limits[c])
    <2>1. c <= t
      BY <1>2, <1>3, <1>5, <1>7
    <2>2. CASE c < L /\ load >= Limits[c + 1]
      <3>1. c + 1 \in 1..L /\ Limits[c + 1] \in Nat
        BY <1>2, <2>2
      <3>2. c + 1 <= t
        BY <1>2, <1>3, <2>2, <3>1
      <3>3. c < t
        BY <1>2, <1>3, <3>2
      <3>4. current' = c + 1
        BY <1>4, <1>7, <2>2
      <3> QED
        BY <1>1, <3>3, <3>4 DEF t
    <2>3. CASE ~(c < L /\ load >= Limits[c + 1])
      <3>1. ~(c < t)
        <4> SUFFICES ASSUME c < t
                     PROVE  FALSE
          OBVIOUS
        <4>1. c < L /\ c + 1 \in 1..L /\ c + 1 <= t
          BY <1>2, <1>3
        <4>2. t # 1 /\ Limits[t] <= load /\ Limits[t] \in Nat
          BY <1>2, <1>3
        <4>3. Limits[c + 1] <= Limits[t] /\ Limits[c + 1] \in Nat
          <5>1. c + 1 < t => Limits[c + 1] < Limits[t]
            BY <1>2, <1>3, <4>1
          <5>2. c + 1 = t => Limits[c + 1] = Limits[t]
            OBVIOUS
          <5> QED
            BY <1>2, <1>3, <4>1, <4>2, <5>1, <5>2
        <4> QED
          BY <1>2, <2>3, <4>1, <4>2, <4>3
      <3>2. c = t
        BY <1>2, <1>3, <2>1, <3>1
      <3>3. current' = c
        BY <1>4, <1>7, <2>3
      <3> QED
        BY <1>1, <1>2, <3>2, <3>3 DEF t
    <2> QED
      BY <2>2, <2>3
  <1> QED
    BY <1>6, <1>7

-----------------------------------------------------------------------------
THEOREM DccHolds ==
  ASSUME States!DccStatesAssumption
  PROVE  States!Spec => []DccInv
  <1>1. States!Init => DccInv
    BY Initially
  <1>2. DccInv /\ [States!Next]_(States!vars) => DccInv'
    BY Steps
  <1> QED
    BY <1>1, <1>2, PTL DEF States!Spec

(***************************************************************************)
(* The windows, the states and their numbers keep their types.             *)
(***************************************************************************)
THEOREM TypeCorrect ==
  ASSUME States!DccStatesAssumption
  PROVE  States!Spec => []States!TypeOK
  <1>1. DccInv => States!TypeOK
    BY InvTypes
  <1> QED
    BY <1>1, DccHolds, PTL

(***************************************************************************)
(* Ramping up of FullyMeshedStateMachine: a load that lasts for one        *)
(* measurement longer than the short window has its interval.              *)
(***************************************************************************)
THEOREM LoadAnswered ==
  ASSUME States!DccStatesAssumption
  PROVE  States!Spec => []States!LoadIsAnswered
  <1>1. DccInv => States!LoadIsAnswered
    BY InvAnswers
  <1> QED
    BY <1>1, DccHolds, PTL

(***************************************************************************)
(* Cooling down of FullyMeshedStateMachine: the interval gets shorter only *)
(* if the whole long window is below where the old state begins.           *)
(***************************************************************************)
THEOREM ShorterAfterQuiet ==
  ASSUME States!DccStatesAssumption
  PROVE  States!Spec => States!ShorterOnlyAfterQuiet
  <1>1. DccInv /\ [States!Next]_(States!vars) =>
          [States!transmission_interval(state', substate') < States!interval =>
             \A i \in DOMAIN loads' : loads'[i] < States!Begin(state, substate)]_(States!vars)
    BY CoolsDown DEF States!Next
  <1> QED
    BY <1>1, DccHolds, PTL DEF States!Spec, States!ShorterOnlyAfterQuiet

(***************************************************************************)
(* GradualStateMachine moves by one state towards the state of the load it *)
(* is told about, whatever its limits are.                                 *)
(***************************************************************************)
THEOREM StepsTowards ==
  ASSUME States!DccStatesAssumption
  PROVE  States!Spec => States!OneStepTowards
  <1>1. DccInv /\ [States!Next]_(States!vars) =>
          [loads' # <<>> => LET t == States!Target(Head(loads')) IN
             current' = IF current < t THEN current + 1 ELSE IF current > t THEN current - 1 ELSE current]_(States!vars)
    BY OneStep DEF States!Next
  <1> QED
    BY <1>1, DccHolds, PTL DEF States!Spec, States!OneStepTowards
=============================================================================

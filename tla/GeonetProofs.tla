---------------------------- MODULE GeonetProofs ----------------------------
(***************************************************************************)
(* What a router keeps.  First the location table for every set of         *)
(* stations, every number of timestamps, every lifetime of entries and     *)
(* flags, every delay and every length of the duplicate packet list.  Then *)
(* the scenarios of MCGeonet: the buffers there do what is proved about    *)
(* them, for every value of their constants, in the modules of their own.  *)
(*                                                                         *)
(* The inductive invariant of the table speaks of one station at a time:   *)
(* its entry e, the ticks h since it was heard itself, the ages n of its   *)
(* newest timestamp and the numbers q accepted from it.                    *)
(***************************************************************************)
EXTENDS MCGeonet, FiniteSetTheorems, SequenceTheorems, TLAPS

Entries ==
  [here : BOOLEAN, left : -1..Life, pv : SUBSET (0..(Modulus - 1)),
   nbr : (0..NbrExpiry) \cup {Forever}, dpl : Seq(SNs)]

AtMostOne(S) == \A x, y \in S : x = y

Typed(e, h, n, q) ==
  /\ e \in Entries /\ h \in Nat /\ n \in SUBSET Nat /\ q \in Seq(SNs)
  /\ AtMostOne(e.pv) /\ AtMostOne(n)
  /\ ~e.here => e = Absent

\* The flag has been set by the station itself and runs out in time.
FlagTrue(e, h) ==
  NbrExpiry > 0 => e.nbr # Forever /\ (e.nbr > 0 => h + e.nbr <= NbrExpiry)

\* The entry will expire before its newest position is too old; the clock is c.
PositionTrue(e, n, c) ==
  has_value(e) =>
    /\ e.pv = {(c - a) % Modulus : a \in n}
    /\ \A a \in n : a + e.left <= Life + MaxDelay

\* The list holds the last numbers accepted, each of them once.
Window(e, q) ==
  /\ Len(e.dpl) = IF Len(q) < DPLLength THEN Len(q) ELSE DPLLength
  /\ \A k \in 1..Len(e.dpl) : e.dpl[k] = q[Len(q) - Len(e.dpl) + k]
  /\ \A i, j \in 1..Len(e.dpl) : e.dpl[i] = e.dpl[j] => i = j

\* Equal numbers are DPLLength different ones apart.
Apart(q) ==
  \A i, j \in DOMAIN q :
    i < j /\ q[i] = q[j] => Cardinality({q[k] : k \in (i + 1)..(j - 1)}) >= DPLLength

Sound(e, h, n, q, c) ==
  Typed(e, h, n, q) /\ FlagTrue(e, h) /\ PositionTrue(e, n, c) /\ Window(e, q) /\ Apart(q)

TableInv ==
  /\ clock \in 0..(Modulus - 1)
  /\ table \in [Stations -> Entries] /\ heard \in [Stations -> Nat]
  /\ newest \in [Stations -> SUBSET Nat] /\ since \in [Stations -> Seq(SNs)]
  /\ \A s \in Stations : Sound(table[s], heard[s], newest[s], since[s], clock)

-----------------------------------------------------------------------------
(***************************************************************************)
(* Remainders of what lies in the range from -Modulus to 2 * Modulus.      *)
(***************************************************************************)
LEMMA Remainder ==
  ASSUME NEW x \in Int, -Modulus <= x, x < 2 * Modulus
  PROVE  x % Modulus = IF x < 0 THEN x + Modulus ELSE IF x < Modulus THEN x ELSE x - Modulus
  <1>1. Modulus \in Nat /\ Modulus > 0
    BY LocationTableAssumption
  <1> QED
    BY <1>1, Z3

(***************************************************************************)
(* Half the timestamps lie ahead.                                          *)
(***************************************************************************)
LEMMA HalfIs == Half \in Int /\ 2 * Half + 2 = Modulus
  <1>1. Modulus \in Nat /\ Modulus > 0 /\ Modulus % 2 = 0
    BY LocationTableAssumption
  <1> QED
    BY <1>1, Z3 DEF Half

(***************************************************************************)
(* Timestamp's operators order what is not older than an entry can be by   *)
(* age, wherever the clock wraps around.                                   *)
(***************************************************************************)
LEMMA OrderedByAge ==
  ASSUME NEW c \in 0..(Modulus - 1), NEW a \in 0..(Life + MaxDelay), NEW d \in 0..(Life + MaxDelay)
  PROVE  Before((c - a) % Modulus, (c - d) % Modulus) <=> d < a
  <1>1. /\ Modulus \in Nat /\ Life \in Nat /\ MaxDelay \in Nat
        /\ 2 * (Life + MaxDelay + 1) < Modulus
    BY LocationTableAssumption
  <1>2. c - a \in Int /\ -Modulus <= c - a /\ c - a < 2 * Modulus
    BY <1>1
  <1>3. c - d \in Int /\ -Modulus <= c - d /\ c - d < 2 * Modulus
    BY <1>1
  <1>4. (c - a) % Modulus = IF c - a < 0 THEN c - a + Modulus ELSE c - a
    BY <1>1, <1>2, Remainder
  <1>5. (c - d) % Modulus = IF c - d < 0 THEN c - d + Modulus ELSE c - d
    BY <1>1, <1>3, Remainder
  <1> QED
    BY <1>1, <1>4, <1>5, HalfIs DEF Before, is_greater

(***************************************************************************)
(* A timestamp is one of the Modulus values, and grows older with the      *)
(* clock.                                                                  *)
(***************************************************************************)
LEMMA StampIs ==
  ASSUME NEW c \in 0..(Modulus - 1), NEW a \in Nat, a <= Life + MaxDelay
  PROVE  /\ (c - a) % Modulus \in 0..(Modulus - 1)
         /\ ((c + 1) % Modulus) \in 0..(Modulus - 1)
         /\ (((c + 1) % Modulus) - (a + 1)) % Modulus = (c - a) % Modulus
  <1>1. /\ Modulus \in Nat /\ Life \in Nat /\ MaxDelay \in Nat
        /\ 2 * (Life + MaxDelay + 1) < Modulus
    BY LocationTableAssumption
  <1>2. (c - a) % Modulus = IF c - a < 0 THEN c - a + Modulus ELSE c - a
    BY <1>1, Remainder
  <1>3. (c + 1) % Modulus = IF c + 1 < Modulus THEN c + 1 ELSE 0
    BY <1>1, Remainder
  <1>4. ((c + 1) % Modulus) - (a + 1) \in Int
    BY <1>1, <1>3
  <1>5. CASE c + 1 < Modulus
    BY <1>1, <1>2, <1>3, <1>5
  <1>6. CASE ~(c + 1 < Modulus)
    <2>1. (0 - (a + 1)) % Modulus = 0 - (a + 1) + Modulus
      BY <1>1, Remainder
    <2> QED
      BY <1>1, <1>2, <1>3, <1>6, <2>1
  <1> QED
    BY <1>5, <1>6

-----------------------------------------------------------------------------
(***************************************************************************)
(* The constants, as the lemmas below use them.                            *)
(***************************************************************************)
LEMMA Constants ==
  /\ Life \in Nat /\ NbrExpiry \in Nat /\ MaxDelay \in Nat
  /\ Modulus \in Nat /\ DPLLength \in Nat /\ DPLLength > 0
  /\ Forever \in Nat /\ NbrExpiry < Forever
  BY LocationTableAssumption, ForeverAssumption DEF Forever

LEMMA NewEntries ==
  /\ Absent \in Entries /\ Created \in Entries
  /\ Absent.dpl = <<>> /\ Created.dpl = <<>> /\ Absent.pv = {} /\ Created.pv = {}
  BY Constants DEF Absent, Created, Entries

\* An entry after drop_expired: live, or gone with all that was known of it.
Clean(e, n, q) ==
  IF e.here THEN e.left >= 0 ELSE n = {} /\ q = <<>>

(***************************************************************************)
(* drop_expired, which the table does before every access.                 *)
(***************************************************************************)
LEMMA Cleaning ==
  ASSUME NEW e, NEW h, NEW n, NEW q, NEW c, Sound(e, h, n, q, c)
  PROVE  LET f == drop_expired(e)
             m == IF f.here THEN n ELSE {}
             r == IF f.here THEN q ELSE <<>>
         IN  Sound(f, h, m, r, c) /\ Clean(f, m, r)
  <1> DEFINE f == drop_expired(e)
             m == IF f.here THEN n ELSE {}
             r == IF f.here THEN q ELSE <<>>
  <1>1. e \in Entries
    BY DEF Sound, Typed
  <1>2. CASE f.here
    <2>1. f = e /\ e.left >= 0 /\ m = n /\ r = q
      BY <1>1, <1>2 DEF drop_expired, is_expired, Absent, Entries
    <2> QED
      BY <1>2, <2>1 DEF Clean
  <1>3. CASE ~f.here
    <2>1. f = Absent /\ m = {} /\ r = <<>>
      BY <1>3 DEF drop_expired, Sound, Typed
    <2>2. Typed(f, h, m, r) /\ f.pv = {}
      BY <2>1, NewEntries DEF Sound, Typed, AtMostOne
    <2>3. FlagTrue(f, h) /\ PositionTrue(f, m, c)
      BY <2>1, Constants DEF FlagTrue, PositionTrue, Absent, has_value
    <2>4. Window(f, r) /\ Apart(r)
      BY <2>1, Constants, NewEntries DEF Window, Apart
    <2> QED
      BY <1>3, <2>1, <2>2, <2>3, <2>4 DEF Sound, Clean
  <1> QED
    BY <1>2, <1>3

\* The ages known after a timestamp of age d has arrived.
Newer(n, d, v) == IF v /\ \A a \in n : d < a THEN {d} ELSE n

(***************************************************************************)
(* LocationTable::update with a timestamp of age d: the entry exists       *)
(* afterwards, keeps its flag and its list, and holds the newer position.  *)
(***************************************************************************)
LEMMA Updating ==
  ASSUME NEW e, NEW h, NEW n, NEW q, NEW c \in 0..(Modulus - 1),
         NEW d \in 0..MaxDelay, NEW v \in BOOLEAN, NEW f, NEW m,
         Typed(e, h, n, q), PositionTrue(e, n, c), Clean(e, n, q),
         f = update(e, (c - d) % Modulus, v), m = Newer(n, d, v)
  PROVE  /\ Typed(f, h, m, q) /\ PositionTrue(f, m, c)
         /\ f.here /\ f.dpl = e.dpl /\ f.nbr = e.nbr
  <1> DEFINE ts == (c - d) % Modulus
             g == refresh(e)
  <1>1. e \in Entries /\ n \in SUBSET Nat /\ AtMostOne(n) /\ AtMostOne(e.pv)
    BY DEF Typed
  <1>2. ts \in 0..(Modulus - 1) /\ d \in Nat /\ d \in 0..(Life + MaxDelay)
    BY Constants, StampIs
  <1>3. e.here => has_value(e) /\ e.pv = {(c - a) % Modulus : a \in n}
                    /\ \A a \in n : a \in 0..(Life + MaxDelay)
    BY <1>1, Constants DEF has_value, is_expired, Clean, PositionTrue, Entries
  <1>4. ~e.here => e = Absent /\ n = {} /\ q = <<>> /\ ~has_value(e)
    BY DEF Typed, Clean, has_value
  <1>5. g \in Entries /\ g.here /\ g.left = Life /\ g.pv = e.pv /\ g.dpl = e.dpl /\ g.nbr = e.nbr
    <2>1. CASE e.here
      <3>1. g = [e EXCEPT !.left = Life] /\ Life \in -1..Life
        BY <2>1, Constants DEF refresh
      <3> QED
        BY <1>1, <2>1, <3>1 DEF Entries
    <2>2. CASE ~e.here
      BY <1>4, <2>2, NewEntries DEF refresh, Created, Absent
    <2> QED
      BY <2>1, <2>2
  <1>6. Passes(e, ts, v) <=> v /\ \A a \in n : d < a
    <2>1. CASE e.here
      <3>1. \A a \in n : Before((c - a) % Modulus, ts) <=> d < a
        BY <1>2, <1>3, <2>1, OrderedByAge, Constants
      <3>2. (\A t \in e.pv : Before(t, ts)) <=> \A a \in n : Before((c - a) % Modulus, ts)
        BY <1>3, <2>1
      <3> QED
        BY <3>1, <3>2 DEF Passes
    <2>2. CASE ~e.here
      BY <1>4, <2>2, NewEntries, Zenon DEF Passes
    <2> QED
      BY <2>1, <2>2
  <1>7. Passes(g, ts, v) <=> Passes(e, ts, v)
    BY <1>5 DEF Passes
  <1>8. CASE Passes(e, ts, v)
    <2>1. f = [g EXCEPT !.pv = {ts}] /\ m = {d}
      BY <1>6, <1>7, <1>8 DEF update, update_position_vector, Newer
    <2>2. /\ f \in Entries /\ f.here /\ f.left = Life /\ f.pv = {ts}
          /\ f.dpl = e.dpl /\ f.nbr = e.nbr
      BY <1>2, <1>5, <2>1 DEF Entries
    <2>3. Typed(f, h, m, q)
      BY <1>2, <2>1, <2>2 DEF Typed, AtMostOne
    <2>4. \A a \in m : a + f.left <= Life + MaxDelay
      BY <2>1, <2>2, Constants
    <2>5. PositionTrue(f, m, c)
      BY <2>1, <2>2, <2>4 DEF PositionTrue
    <2> QED
      BY <2>2, <2>3, <2>5
  <1>9. CASE ~Passes(e, ts, v) /\ has_value(e) /\ e.pv # {}
    <2>1. f = e /\ m = n
      BY <1>6, <1>9 DEF update, Newer
    <2> QED
      BY <1>9, <2>1 DEF has_value
  <1>10. CASE ~Passes(e, ts, v) /\ ~(has_value(e) /\ e.pv # {})
    <2>1. f = g /\ m = n
      BY <1>6, <1>7, <1>10 DEF update, update_position_vector, Newer
    <2>2. e.pv = {}
      BY <1>3, <1>4, <1>10, NewEntries
    <2>3. n = {}
      BY <1>3, <1>4, <2>2
    <2>4. Typed(f, h, m, q)
      BY <1>5, <2>1 DEF Typed
    <2>5. PositionTrue(f, m, c)
      BY <1>5, <2>1, <2>2, <2>3 DEF PositionTrue
    <2> QED
      BY <1>5, <2>1, <2>4, <2>5
  <1> QED
    BY <1>8, <1>9, <1>10

(***************************************************************************)
(* The list of an entry is a window on the numbers accepted: a number that *)
(* is not in it may be accepted and pushes out the oldest one.             *)
(***************************************************************************)
LEMMA Listing ==
  ASSUME NEW e \in Entries, NEW q \in Seq(SNs), NEW sn \in SNs,
         Window(e, q), Apart(q), sn \notin ToSet(e.dpl)
  PROVE  LET f == [e EXCEPT !.dpl = PushBack(@, sn)]
         IN  f \in Entries /\ Window(f, Append(q, sn)) /\ Apart(Append(q, sn))
  <1> DEFINE D == e.dpl
             E == PushBack(D, sn)
             f == [e EXCEPT !.dpl = PushBack(@, sn)]
             r == Append(q, sn)
             L == Len(q)
             M == Len(D)
  <1>1. D \in Seq(SNs) /\ M \in Nat /\ L \in Nat /\ DOMAIN D = 1..M /\ DOMAIN q = 1..L
    BY DEF Entries
  <1>2. r \in Seq(SNs) /\ Len(r) = L + 1 /\ r[L + 1] = sn /\ \A i \in 1..L : r[i] = q[i]
    BY <1>1
  <1>3. DPLLength \in Nat /\ DPLLength > 0
    BY Constants
  <1>4. /\ M = IF L < DPLLength THEN L ELSE DPLLength
        /\ \A k \in 1..M : D[k] = q[L - M + k]
        /\ \A i, j \in 1..M : D[i] = D[j] => i = j
    BY DEF Window
  <1>5. \A k \in 1..M : D[k] # sn
    BY <1>1 DEF ToSet
  <1>6. E \in Seq(SNs) /\ f = [e EXCEPT !.dpl = E] /\ f \in Entries /\ f.dpl = E
    <2>1. E \in Seq(SNs)
      <3>1. CASE M < DPLLength
        BY <1>1, <3>1 DEF PushBack
      <3>2. CASE ~(M < DPLLength)
        <4>1. D # <<>>
          BY <1>1, <1>3, <3>2
        <4>2. Tail(D) \in Seq(SNs)
          BY <1>1, <4>1, HeadTailProperties
        <4> QED
          BY <3>2, <4>2 DEF PushBack
      <3> QED
        BY <3>1, <3>2
    <2> QED
      BY <2>1 DEF Entries
  <1>7. Window(f, r)
    <2>1. CASE M < DPLLength
      <3>1. M = L /\ E = Append(D, sn)
        BY <1>3, <1>4, <2>1 DEF PushBack
      <3>2. Len(E) = M + 1 /\ E[M + 1] = sn /\ \A i \in 1..M : E[i] = D[i]
        BY <1>1, <3>1
      <3>3. Len(E) = IF Len(r) < DPLLength THEN Len(r) ELSE DPLLength
        BY <1>1, <1>2, <1>3, <2>1, <3>1, <3>2
      <3>4. \A k \in 1..Len(E) : E[k] = r[Len(r) - Len(E) + k]
        BY <1>1, <1>2, <1>4, <3>1, <3>2
      <3>5. \A i, j \in 1..Len(E) : E[i] = E[j] => i = j
        BY <1>1, <1>4, <1>5, <3>2
      <3> QED
        BY <1>6, <3>3, <3>4, <3>5 DEF Window
    <2>2. CASE ~(M < DPLLength)
      <3>1. M = DPLLength /\ L >= M /\ E = Append(Tail(D), sn) /\ D # <<>>
        <4>1. E = Append(Tail(D), sn)
          BY <2>2 DEF PushBack
        <4>2. D # <<>>
          BY <1>1, <1>3, <2>2
        <4>3. M = DPLLength /\ L >= M
          <5> HIDE DEF L, M, D
          <5> QED
            BY <1>1, <1>3, <1>4, <2>2
        <4> QED
          BY <4>1, <4>2, <4>3
      <3>2. Tail(D) \in Seq(SNs) /\ Len(Tail(D)) = M - 1 /\ \A i \in 1..(M - 1) : Tail(D)[i] = D[i + 1]
        BY <1>1, <3>1, HeadTailProperties
      <3>3. Len(E) = M /\ E[M] = sn /\ \A i \in 1..(M - 1) : E[i] = D[i + 1]
        BY <1>1, <3>1, <3>2
      <3>4. Len(E) = IF Len(r) < DPLLength THEN Len(r) ELSE DPLLength
        BY <1>1, <1>2, <1>3, <3>1, <3>3
      <3>5. ASSUME NEW k \in 1..M
            PROVE  E[k] = r[L + 1 - M + k]
        <4>1. CASE k = M
          BY <1>1, <1>2, <3>3, <4>1
        <4>2. CASE k # M
          <5>1. k \in 1..(M - 1) /\ k + 1 \in 1..M /\ L - M + (k + 1) \in 1..L
            BY <1>1, <3>1, <4>2
          <5>2. E[k] = q[L - M + (k + 1)]
            BY <1>4, <3>3, <5>1
          <5>3. L + 1 - M + k = L - M + (k + 1)
            BY <1>1, <5>1
          <5>4. r[L - M + (k + 1)] = q[L - M + (k + 1)]
            BY <1>2, <5>1
          <5> QED
            BY <5>2, <5>3, <5>4
        <4> QED
          BY <4>1, <4>2
      <3>6. \A i, j \in 1..Len(E) : E[i] = E[j] => i = j
        <4> SUFFICES ASSUME NEW i \in 1..M, NEW j \in 1..M, E[i] = E[j]
                     PROVE  i = j
          BY <3>3
        <4>1. CASE i = M \/ j = M
          BY <1>1, <1>5, <3>3, <4>1
        <4>2. CASE i # M /\ j # M
          <5>1. i \in 1..(M - 1) /\ j \in 1..(M - 1) /\ i + 1 \in 1..M /\ j + 1 \in 1..M
            BY <1>1, <4>2
          <5>2. D[i + 1] = D[j + 1]
            BY <3>3, <5>1
          <5>3. i + 1 = j + 1
            BY <1>4, <5>1, <5>2
          <5> QED
            BY <5>1, <5>3
        <4> QED
          BY <4>1, <4>2
      <3>7. \A k \in 1..Len(E) : E[k] = r[Len(r) - Len(E) + k]
        <4>1. Len(r) - Len(E) = L + 1 - M /\ 1..Len(E) = 1..M
          BY <1>2, <3>3
        <4> HIDE DEF E, r, L, M
        <4> QED
          BY <3>5, <4>1
      <3> QED
        BY <1>6, <3>4, <3>6, <3>7 DEF Window
    <2> QED
      BY <2>1, <2>2
  <1>8. Apart(r)
    <2> SUFFICES ASSUME NEW i \in 1..(L + 1), NEW j \in 1..(L + 1), i < j, r[i] = r[j]
                 PROVE  Cardinality({r[k] : k \in (i + 1)..(j - 1)}) >= DPLLength
      BY <1>2 DEF Apart
    <2> DEFINE T == {r[k] : k \in (i + 1)..(j - 1)}
    <2>1. CASE j <= L
      <3>1. T = {q[k] : k \in (i + 1)..(j - 1)} /\ q[i] = q[j] /\ i \in DOMAIN q /\ j \in DOMAIN q
        BY <1>1, <1>2, <2>1
      <3> QED
        BY <3>1 DEF Apart
    <2>2. CASE ~(j <= L)
      <3>1. j = L + 1 /\ i \in 1..L /\ q[i] = sn
        BY <1>1, <1>2, <2>2
      <3>2. ~(L - M + 1 <= i)
        <4> SUFFICES ASSUME L - M + 1 <= i
                     PROVE  FALSE
          OBVIOUS
        <4>0. L - M \in Nat
          BY <1>1, <1>3, <1>4
        <4>1. i - (L - M) \in 1..M /\ L - M + (i - (L - M)) = i
          <5> HIDE DEF L, M
          <5> QED
            BY <1>1, <3>1, <4>0
        <4>2. D[i - (L - M)] = q[i]
          BY <1>4, <4>1
        <4> QED
          BY <1>5, <3>1, <4>1, <4>2
      <3>3. L - M >= 1 /\ M = DPLLength
        <4> HIDE DEF L, M
        <4> QED
          BY <1>1, <1>3, <1>4, <3>1, <3>2
      <3>4. ASSUME NEW k \in 1..M
            PROVE  L - M + k \in (i + 1)..(j - 1) /\ r[L - M + k] = D[k]
        <4>1. L - M + k \in (i + 1)..L /\ L - M + k \in 1..L
          <5> HIDE DEF L, M
          <5> QED
            BY <1>1, <3>1, <3>2, <3>3
        <4>2. r[L - M + k] = q[L - M + k] /\ D[k] = q[L - M + k]
          <5> HIDE DEF L, M, r, D
          <5> QED
            BY <1>2, <1>4, <4>1
        <4> QED
          BY <3>1, <4>1, <4>2
      <3>5. D \in [1..M -> T]
        <4>1. \A k \in 1..M : D[k] \in T
          <5> HIDE DEF L, M, r, D
          <5> QED
            BY <3>4
        <4>2. D = [k \in 1..M |-> D[k]]
          <5>1. D \in [1..M -> SNs]
            BY <1>1, LenProperties
          <5> HIDE DEF D, M
          <5> QED
            BY <5>1
        <4> HIDE DEF D, T, M
        <4> QED
          BY <4>1, <4>2
      <3>6. D \in Injection(1..M, T)
        BY <1>1, <1>4, <3>5 DEF Injection, IsInjective
      <3>7. IsFiniteSet(T)
        <4> DEFINE g == [k \in (i + 1)..(j - 1) |-> r[k]]
        <4>1. g \in Surjection((i + 1)..(j - 1), T)
          BY DEF Surjection
        <4>2. IsFiniteSet((i + 1)..(j - 1))
          BY <3>1, FS_Interval
        <4> HIDE DEF g, T
        <4> QED
          BY <4>1, <4>2, FS_Surjection
      <3>8. Cardinality(1..M) = M
        <4>1. M \in Nat
          BY <1>1, <1>3
        <4> HIDE DEF T, D, E, M, L, f, r
        <4> QED
          BY <4>1, FS_Interval
      <3>9. Cardinality(1..M) <= Cardinality(T)
        <4> HIDE DEF T, D, M
        <4> QED
          BY <3>6, <3>7, FS_Injection
      <3>10. Cardinality(T) \in Nat
        <4> HIDE DEF T
        <4> QED
          BY <3>7, FS_CardinalityType
      <3> QED
        BY <1>1, <3>3, <3>8, <3>9, <3>10
    <2> QED
      BY <1>1, <2>1, <2>2
  <1> QED
    BY <1>6, <1>7, <1>8

(***************************************************************************)
(* LocationTableEntry::set_neighbour: a flag that is set by the station    *)
(* itself, and one that is taken away.                                     *)
(***************************************************************************)
LEMMA Flagging ==
  ASSUME NEW e, NEW h, NEW n, NEW q, NEW c, NEW flag \in BOOLEAN,
         Typed(e, h, n, q), PositionTrue(e, n, c), Window(e, q), Apart(q), e.here,
         flag => h = 0
  PROVE  Sound(set_neighbour(e, flag), h, n, q, c)
  <1> DEFINE f == set_neighbour(e, flag)
  <1>1. e \in Entries
    BY DEF Typed
  <1>2. /\ f \in Entries /\ f.here /\ f.left = e.left /\ f.pv = e.pv /\ f.dpl = e.dpl
        /\ f.nbr = IF ~flag THEN 0 ELSE IF NbrExpiry > 0 THEN NbrExpiry ELSE Forever
    BY <1>1, Constants DEF set_neighbour, Entries
  <1>3. Typed(f, h, n, q)
    BY <1>2 DEF Typed
  <1>4. FlagTrue(f, h)
    BY <1>2, Constants DEF FlagTrue
  <1>5. PositionTrue(f, n, c)
    BY <1>2 DEF PositionTrue, has_value, is_expired
  <1>6. Window(f, q)
    BY <1>2 DEF Window
  <1> QED
    BY <1>3, <1>4, <1>5, <1>6 DEF Sound

\* What is known of the timestamps of r once expired entries are dropped.
Known(r) == IF Cleaned[r].here THEN newest[r] ELSE {}

LEMMA CleanTable ==
  ASSUME TableInv, NEW r \in Stations
  PROVE  /\ Sound(Cleaned[r], heard[r], Known(r), Forgotten[r], clock)
         /\ Clean(Cleaned[r], Known(r), Forgotten[r])
  <1>1. /\ Cleaned[r] = drop_expired(table[r])
        /\ Forgotten[r] = IF Cleaned[r].here THEN since[r] ELSE <<>>
    BY DEF Cleaned, Forgotten
  <1>2. Sound(table[r], heard[r], newest[r], since[r], clock)
    BY DEF TableInv
  <1> QED
    BY <1>1, <1>2, Cleaning DEF Known

(***************************************************************************)
(* A packet of s cleans the whole table and changes what is kept of s.     *)
(***************************************************************************)
LEMMA Changing ==
  ASSUME TableInv, NEW s \in Stations, NEW f, NEW h, NEW m, NEW q,
         Sound(f, h, m, q, clock),
         table' = [Cleaned EXCEPT ![s] = f],
         heard' = [heard EXCEPT ![s] = h],
         newest' = [r \in Stations |-> IF r = s THEN m ELSE Known(r)],
         since' = [Forgotten EXCEPT ![s] = q],
         clock' = clock
  PROVE  TableInv'
  <1>1. \A r \in Stations :
          /\ table'[r] = IF r = s THEN f ELSE Cleaned[r]
          /\ heard'[r] = IF r = s THEN h ELSE heard[r]
          /\ newest'[r] = IF r = s THEN m ELSE Known(r)
          /\ since'[r] = IF r = s THEN q ELSE Forgotten[r]
    BY DEF TableInv, Cleaned, Forgotten
  <1>2. \A r \in Stations : Sound(table'[r], heard'[r], newest'[r], since'[r], clock')
    <2> SUFFICES ASSUME NEW r \in Stations
                 PROVE  Sound(table'[r], heard'[r], newest'[r], since'[r], clock)
      OBVIOUS
    <2> QED
      BY <1>1, CleanTable
  <1>3. \A r \in Stations : /\ table'[r] \in Entries /\ heard'[r] \in Nat
                            /\ newest'[r] \in SUBSET Nat /\ since'[r] \in Seq(SNs)
    BY <1>2 DEF Sound, Typed
  <1>4. table' \in [Stations -> Entries]
    BY <1>3 DEF Cleaned
  <1>5. heard' \in [Stations -> Nat]
    BY <1>3 DEF TableInv
  <1>6. newest' \in [Stations -> SUBSET Nat]
    BY <1>3
  <1>7. since' \in [Stations -> Seq(SNs)]
    BY <1>3 DEF Forgotten
  <1> QED
    BY <1>2, <1>4, <1>5, <1>6, <1>7 DEF TableInv

LEMMA SeenIs ==
  ASSUME NEW s \in Stations, NEW d, NEW v \in BOOLEAN
  PROVE  Seen(s, d, v) = [r \in Stations |->
           IF r = s THEN Newer(Known(s), d, v) ELSE Known(r)]
  BY DEF Seen, Known, Newer

-----------------------------------------------------------------------------
LEMMA SingleHopStep ==
  ASSUME TableInv, NEW s \in Stations, NEW d \in 0..MaxDelay, NEW v \in BOOLEAN,
         SingleHopPacket(s, d, v)
  PROVE  TableInv'
  <1> DEFINE e == Cleaned[s]
             n == Known(s)
             q == Forgotten[s]
             f == update(e, (clock - d) % Modulus, v)
             m == Newer(n, d, v)
  <1>1. Sound(e, heard[s], n, q, clock) /\ Clean(e, n, q)
    BY CleanTable
  <1>2. clock \in 0..(Modulus - 1)
    BY DEF TableInv
  <1>3. Typed(e, 0, n, q) /\ PositionTrue(e, n, clock)
    BY <1>1 DEF Sound, Typed
  <1>4. /\ Typed(f, 0, m, q) /\ PositionTrue(f, m, clock)
        /\ f.here /\ f.dpl = e.dpl /\ f.nbr = e.nbr
    <2>1. f = update(e, (clock - d) % Modulus, v) /\ m = Newer(n, d, v)
      OBVIOUS
    <2> HIDE DEF e, n, q, f, m
    <2> QED
      BY <1>1, <1>2, <1>3, <2>1, Updating
  <1>5. Window(f, q) /\ Apart(q)
    BY <1>1, <1>4 DEF Sound, Window
  <1>6. Sound(set_neighbour(f, TRUE), 0, m, q, clock)
    <2> HIDE DEF f, m, q
    <2> QED
      BY <1>4, <1>5, Flagging
  <1>7. /\ table' = [Cleaned EXCEPT ![s] = set_neighbour(f, TRUE)]
        /\ heard' = [heard EXCEPT ![s] = 0]
        /\ newest' = [r \in Stations |-> IF r = s THEN m ELSE Known(r)]
        /\ since' = [Forgotten EXCEPT ![s] = q]
        /\ clock' = clock
    BY SeenIs DEF SingleHopPacket, Stamp, Cleaned, Forgotten
  <1> HIDE DEF f, m, q
  <1> QED
    BY <1>6, <1>7, Changing

\* What Accept does to the entry e of a GeoBroadcast's source.
LEMMA Accepting ==
  ASSUME NEW e, NEW n, NEW q, NEW h, NEW c \in 0..(Modulus - 1), NEW existed \in BOOLEAN,
         NEW d \in 0..MaxDelay, NEW v \in BOOLEAN, NEW f, NEW m,
         Sound(e, h, n, q, c), Clean(e, n, q),
         f = NewIsNoNeighbour(update(e, (c - d) % Modulus, v), existed), m = Newer(n, d, v)
  PROVE  Sound(f, h, m, q, c)
  <1> DEFINE g == update(e, (c - d) % Modulus, v)
  <1>1. Typed(e, h, n, q) /\ PositionTrue(e, n, c) /\ Window(e, q) /\ Apart(q) /\ FlagTrue(e, h)
    BY DEF Sound
  <1>2. g = update(e, (c - d) % Modulus, v) /\ f = IF existed THEN g ELSE set_neighbour(g, FALSE)
    BY DEF NewIsNoNeighbour
  <1> HIDE DEF g
  <1>3. /\ Typed(g, h, m, q) /\ PositionTrue(g, m, c)
        /\ g.here /\ g.dpl = e.dpl /\ g.nbr = e.nbr
    BY <1>1, <1>2, Updating
  <1>4. Window(g, q) /\ FlagTrue(g, h)
    BY <1>1, <1>3 DEF Window, FlagTrue
  <1>5. CASE existed
    BY <1>1, <1>2, <1>3, <1>4, <1>5 DEF Sound
  <1>6. CASE ~existed
    <2>1. Sound(set_neighbour(g, FALSE), h, m, q, c)
      BY <1>1, <1>3, <1>4, Flagging
    <2> QED
      BY <1>2, <1>6, <2>1
  <1> QED
    BY <1>5, <1>6

LEMMA UndetectedStep ==
  ASSUME TableInv, NEW s \in Stations, NEW d \in 0..MaxDelay, NEW v \in BOOLEAN,
         Undetected(s, d, v)
  PROVE  TableInv'
  <1> DEFINE e == Cleaned[s]
             n == Known(s)
             q == Forgotten[s]
             f == NewIsNoNeighbour(update(e, (clock - d) % Modulus, v), has_value(e))
             m == Newer(n, d, v)
  <1>1. Sound(e, heard[s], n, q, clock) /\ Clean(e, n, q)
    BY CleanTable
  <1>2. clock \in 0..(Modulus - 1)
    BY DEF TableInv
  <1>3. has_value(e) \in BOOLEAN
    BY DEF has_value
  <1>4. Sound(f, heard[s], m, q, clock)
    <2>1. /\ f = NewIsNoNeighbour(update(e, (clock - d) % Modulus, v), has_value(e))
          /\ m = Newer(n, d, v)
      OBVIOUS
    <2> HIDE DEF e, n, q, f, m
    <2> QED
      BY <1>1, <1>2, <1>3, <2>1, Accepting
  <1>5. /\ table' = [Cleaned EXCEPT ![s] = f]
        /\ heard' = [heard EXCEPT ![s] = heard[s]]
        /\ newest' = [r \in Stations |-> IF r = s THEN m ELSE Known(r)]
        /\ since' = [Forgotten EXCEPT ![s] = q]
        /\ clock' = clock
    BY SeenIs DEF Undetected, Accept, Stamp, Cleaned, Forgotten, TableInv
  <1> HIDE DEF f, m, q
  <1> QED
    BY <1>4, <1>5, Changing

\* get_value on a clean entry.
LEMMA Getting ==
  ASSUME NEW e, NEW h, NEW n, NEW q, NEW c, Sound(e, h, n, q, c), Clean(e, n, q)
  PROVE  LET f == get_value(e) IN Sound(f, h, n, q, c) /\ f.here /\ f.left >= 0
  <1>1. CASE e.here
    <2>1. e \in Entries /\ e.left >= 0 /\ get_value(e) = e
      BY <1>1 DEF get_value, Clean, is_expired, Sound, Typed, Entries
    <2> QED
      BY <1>1, <2>1
  <1>2. CASE ~e.here
    <2>1. get_value(e) = Created /\ e = Absent /\ n = {} /\ q = <<>>
      BY <1>2 DEF get_value, Clean, Sound, Typed
    <2>2. Created.here /\ Created.left = Life /\ Created.nbr = 0
      BY DEF Created
    <2>3. Typed(Created, h, n, q)
      BY <2>1, <2>2, NewEntries DEF Sound, Typed, AtMostOne
    <2>4. FlagTrue(Created, h) /\ PositionTrue(Created, n, c)
      BY <2>1, <2>2, NewEntries, Constants DEF FlagTrue, PositionTrue
    <2>5. Window(Created, q) /\ Apart(q)
      BY <2>1, NewEntries DEF Sound, Window
    <2> QED
      BY <2>1, <2>2, <2>3, <2>4, <2>5, Constants DEF Sound
  <1> QED
    BY <1>1, <1>2

LEMMA DuplicateStep ==
  ASSUME TableInv, NEW s \in Stations, NEW sn \in SNs, Duplicate(s, sn)
  PROVE  TableInv'
  <1> DEFINE n == Known(s)
             q == Forgotten[s]
             f == get_value(Cleaned[s])
  <1>1. Sound(f, heard[s], n, q, clock)
    BY CleanTable, Getting
  <1>2. /\ table' = [Cleaned EXCEPT ![s] = f]
        /\ heard' = [heard EXCEPT ![s] = heard[s]]
        /\ newest' = [r \in Stations |-> IF r = s THEN n ELSE Known(r)]
        /\ since' = [Forgotten EXCEPT ![s] = q]
        /\ clock' = clock
    <2>1. Seen(s, 0, FALSE) = [r \in Stations |-> IF r = s THEN n ELSE Known(r)]
      BY DEF Seen, Known
    <2> QED
      BY <2>1 DEF Duplicate, Cleaned, Forgotten, TableInv
  <1> HIDE DEF f, n, q
  <1> QED
    BY <1>1, <1>2, Changing

LEMMA FirstCopyStep ==
  ASSUME TableInv, NEW s \in Stations, NEW d \in 0..MaxDelay, NEW v \in BOOLEAN, NEW sn \in SNs,
         FirstCopy(s, d, v, sn)
  PROVE  TableInv'
  <1> DEFINE n == Known(s)
             q == Forgotten[s]
             g == get_value(Cleaned[s])
             e == [g EXCEPT !.dpl = PushBack(@, sn)]
             p == Append(q, sn)
             f == NewIsNoNeighbour(update(e, (clock - d) % Modulus, v), has_value(Cleaned[s]))
             m == Newer(n, d, v)
  <1>1. Sound(g, heard[s], n, q, clock) /\ g.here /\ g.left >= 0
    BY CleanTable, Getting
  <1>2. clock \in 0..(Modulus - 1) /\ sn \notin ToSet(g.dpl)
    BY DEF TableInv, FirstCopy
  <1>3. g \in Entries /\ q \in Seq(SNs) /\ Window(g, q) /\ Apart(q)
    BY <1>1 DEF Sound, Typed
  <1>4. e \in Entries /\ Window(e, p) /\ Apart(p)
    <2> HIDE DEF g, q
    <2> QED
      BY <1>2, <1>3, Listing
  <1>5. e.here /\ e.left = g.left /\ e.pv = g.pv /\ e.nbr = g.nbr
    <2> HIDE DEF g
    <2> QED
      BY <1>1, <1>3 DEF Entries
  <1>6. Sound(e, heard[s], n, p, clock)
    <2>1. p \in Seq(SNs)
      BY <1>3
    <2>2. Typed(e, heard[s], n, p)
      <3> HIDE DEF e, p
      <3> QED
        BY <1>1, <1>4, <1>5, <2>1 DEF Sound, Typed
    <2>3. FlagTrue(e, heard[s]) /\ PositionTrue(e, n, clock)
      <3> HIDE DEF e, p
      <3> QED
        BY <1>1, <1>5 DEF Sound, FlagTrue, PositionTrue, has_value, is_expired
    <2> QED
      BY <1>4, <2>2, <2>3 DEF Sound
  <1>7. has_value(Cleaned[s]) \in BOOLEAN
    BY DEF has_value
  <1>8. Sound(f, heard[s], m, p, clock)
    <2>1. /\ f = NewIsNoNeighbour(update(e, (clock - d) % Modulus, v), has_value(Cleaned[s]))
          /\ m = Newer(n, d, v)
      OBVIOUS
    <2>2. Clean(e, n, p)
      BY <1>1, <1>5 DEF Clean
    <2> HIDE DEF e, n, p, f, m
    <2> QED
      BY <1>2, <1>6, <1>7, <2>1, <2>2, Accepting
  <1>9. /\ table' = [Cleaned EXCEPT ![s] = f]
        /\ heard' = [heard EXCEPT ![s] = heard[s]]
        /\ newest' = [r \in Stations |-> IF r = s THEN m ELSE Known(r)]
        /\ since' = [Forgotten EXCEPT ![s] = p]
        /\ clock' = clock
    BY SeenIs DEF FirstCopy, Accept, Stamp, Cleaned, Forgotten, TableInv
  <1> HIDE DEF f, m, p
  <1> QED
    BY <1>8, <1>9, Changing

LEMMA TickStep ==
  ASSUME TableInv, Tick
  PROVE  TableInv'
  <1> DEFINE c == (clock + 1) % Modulus
             f(s) == [table[s] EXCEPT !.left = IF table[s].here /\ @ >= 0 THEN @ - 1 ELSE @,
                                      !.nbr = IF @ = Forever \/ @ = 0 THEN @ ELSE @ - 1]
             h(s) == IF heard[s] > Life + NbrExpiry THEN Forever ELSE heard[s] + 1
             m(s) == IF table[s].here /\ table[s].left >= 0 THEN {a + 1 : a \in newest[s]}
                     ELSE newest[s]
  <1>1. clock \in 0..(Modulus - 1) /\ c \in 0..(Modulus - 1)
    BY StampIs, Constants DEF TableInv
  <1>2. ASSUME NEW s \in Stations
        PROVE  Sound(f(s), h(s), m(s), since[s], c)
    <2> DEFINE e == table[s]
    <2>1. Sound(e, heard[s], newest[s], since[s], clock)
      BY DEF TableInv
    <2>2. e \in Entries /\ heard[s] \in Nat /\ newest[s] \in SUBSET Nat /\ since[s] \in Seq(SNs)
      BY <2>1 DEF Sound, Typed
    <2>3. /\ f(s) \in Entries /\ f(s).here = e.here /\ f(s).pv = e.pv /\ f(s).dpl = e.dpl
          /\ f(s).left = IF e.here /\ e.left >= 0 THEN e.left - 1 ELSE e.left
          /\ f(s).nbr = IF e.nbr = Forever \/ e.nbr = 0 THEN e.nbr ELSE e.nbr - 1
      <3>1. /\ e = [here |-> e.here, left |-> e.left, pv |-> e.pv, nbr |-> e.nbr, dpl |-> e.dpl]
            /\ e.here \in BOOLEAN /\ e.left \in -1..Life /\ e.pv \in SUBSET (0..(Modulus - 1))
            /\ e.nbr \in (0..NbrExpiry) \cup {Forever} /\ e.dpl \in Seq(SNs)
        BY <2>2 DEF Entries
      <3> DEFINE l == IF e.here /\ e.left >= 0 THEN e.left - 1 ELSE e.left
                 b == IF e.nbr = Forever \/ e.nbr = 0 THEN e.nbr ELSE e.nbr - 1
      <3>2. l \in -1..Life /\ b \in (0..NbrExpiry) \cup {Forever}
        BY <3>1, Constants
      <3>3. f(s) = [e EXCEPT !.left = l, !.nbr = b]
        BY <3>1
      <3> HIDE DEF f, l, b, e
      <3>4. /\ f(s) \in Entries /\ f(s).here = e.here /\ f(s).pv = e.pv /\ f(s).dpl = e.dpl
            /\ f(s).left = l /\ f(s).nbr = b
        BY <2>2, <3>2, <3>3 DEF Entries
      <3> QED
        BY <3>4 DEF l, b
    <2>4. h(s) \in Nat /\ m(s) \in SUBSET Nat
      BY <2>2, Constants
    <2>5. AtMostOne(m(s)) /\ AtMostOne(f(s).pv)
      BY <2>1, <2>2, <2>3 DEF Sound, Typed, AtMostOne
    <2>6. ~f(s).here => f(s) = Absent
      <3> SUFFICES ASSUME ~f(s).here
                   PROVE  f(s) = Absent
        OBVIOUS
      <3>1. e = Absent
        BY <2>1, <2>3 DEF Sound, Typed
      <3>2. e.here = FALSE /\ e.nbr = 0
        BY <3>1 DEF Absent
      <3>3. f(s) = [e EXCEPT !.left = @, !.nbr = @]
        BY <2>2, <3>2 DEF Entries
      <3>4. [e EXCEPT !.left = @, !.nbr = @] = e
        BY <2>2 DEF Entries
      <3> QED
        BY <3>1, <3>3, <3>4
    <2>7. Typed(f(s), h(s), m(s), since[s])
      BY <2>2, <2>3, <2>4, <2>5, <2>6 DEF Typed
    <2>8. FlagTrue(f(s), h(s))
      <3> SUFFICES ASSUME NbrExpiry > 0
                   PROVE  f(s).nbr # Forever /\ (f(s).nbr > 0 => h(s) + f(s).nbr <= NbrExpiry)
        BY DEF FlagTrue
      <3>1. e.nbr # Forever /\ (e.nbr > 0 => heard[s] + e.nbr <= NbrExpiry) /\ e.nbr \in 0..NbrExpiry
        BY <2>1, <2>2 DEF Sound, FlagTrue, Entries
      <3>2. f(s).nbr = IF e.nbr = 0 THEN 0 ELSE e.nbr - 1
        BY <2>3, <3>1
      <3>3. CASE e.nbr = 0
        BY <3>2, <3>3, Constants
      <3>4. CASE e.nbr # 0
        <4>1. h(s) = heard[s] + 1
          BY <2>2, <3>1, <3>4, Constants
        <4>2. h(s) + f(s).nbr = heard[s] + e.nbr
          <5>1. f(s).nbr = e.nbr - 1 /\ e.nbr \in Int /\ heard[s] \in Int
            BY <2>2, <3>1, <3>2, <3>4, Constants
          <5> HIDE DEF c, f, h, m, e
          <5> QED
            BY <4>1, <5>1
        <4>3. f(s).nbr <= NbrExpiry
          BY <3>1, <3>2, <3>4, Constants
        <4>4. e.nbr > 0
          BY <3>1, <3>4, Constants
        <4>5. f(s).nbr # Forever
          <5> HIDE DEF c, f, h, m, e
          <5> QED
            BY <4>3, ForeverAssumption, Constants
        <4> HIDE DEF c, f, h, m, e
        <4> QED
          BY <3>1, <4>2, <4>4, <4>5
      <3> QED
        BY <3>3, <3>4
    <2>9. PositionTrue(f(s), m(s), c)
      <3> SUFFICES ASSUME has_value(f(s))
                   PROVE  /\ f(s).pv = {(c - b) % Modulus : b \in m(s)}
                          /\ \A b \in m(s) : b + f(s).left <= Life + MaxDelay
        BY DEF PositionTrue
      <3>1. e.here /\ e.left >= 1 /\ e.left \in Int
        BY <2>2, <2>3, Constants DEF has_value, is_expired, Entries
      <3>2. m(s) = {a + 1 : a \in newest[s]} /\ has_value(e)
        BY <3>1 DEF has_value, is_expired
      <3>3. /\ e.pv = {(clock - a) % Modulus : a \in newest[s]}
            /\ \A a \in newest[s] : a + e.left <= Life + MaxDelay
        BY <2>1, <3>2 DEF Sound, PositionTrue
      <3>4. \A a \in newest[s] : a \in Nat /\ a <= Life + MaxDelay
        BY <2>2, <3>1, <3>3, Constants
      <3>5. \A a \in newest[s] : (c - (a + 1)) % Modulus = (clock - a) % Modulus
        BY <1>1, <3>4, StampIs
      <3>6. f(s).pv = {(c - b) % Modulus : b \in m(s)}
        <4> HIDE DEF c, f, m
        <4> QED
          BY <2>3, <3>2, <3>3, <3>5
      <3>7. \A b \in m(s) : b + f(s).left <= Life + MaxDelay
        <4>1. f(s).left = e.left - 1
          BY <2>3, <3>1
        <4> HIDE DEF f, m
        <4> QED
          BY <3>1, <3>2, <3>3, <3>4, <4>1, Constants
      <3> QED
        BY <3>6, <3>7
    <2>10. Window(f(s), since[s]) /\ Apart(since[s])
      BY <2>1, <2>3 DEF Sound, Window
    <2> QED
      BY <2>7, <2>8, <2>9, <2>10 DEF Sound
  <1>3. /\ table' = [s \in Stations |-> f(s)] /\ heard' = [s \in Stations |-> h(s)]
        /\ newest' = [s \in Stations |-> m(s)] /\ since' = since /\ clock' = c
    BY DEF Tick
  <1>4. \A s \in Stations : /\ f(s) \in Entries /\ h(s) \in Nat /\ m(s) \in SUBSET Nat
    BY <1>2 DEF Sound, Typed
  <1> HIDE DEF f, h, m, c
  <1>5. \A s \in Stations : Sound(table'[s], heard'[s], newest'[s], since'[s], clock')
    BY <1>2, <1>3
  <1>6. /\ table' \in [Stations -> Entries] /\ heard' \in [Stations -> Nat]
        /\ newest' \in [Stations -> SUBSET Nat] /\ since' \in [Stations -> Seq(SNs)]
    BY <1>3, <1>4 DEF TableInv
  <1> QED
    BY <1>1, <1>3, <1>5, <1>6 DEF TableInv

-----------------------------------------------------------------------------
(***************************************************************************)
(* The invariant holds in every reachable state.                           *)
(***************************************************************************)
THEOREM TableHolds == Spec => []TableInv
  <1>1. Init => TableInv
    <2> SUFFICES ASSUME Init
                 PROVE  TableInv
      OBVIOUS
    <2>1. \A s \in Stations : Sound(Absent, Forever, {}, <<>>, 0)
      <3>1. Typed(Absent, Forever, {}, <<>>)
        BY NewEntries, Constants DEF Typed, AtMostOne
      <3>2. FlagTrue(Absent, Forever) /\ PositionTrue(Absent, {}, 0)
        BY Constants DEF FlagTrue, PositionTrue, Absent, has_value
      <3>3. Window(Absent, <<>>) /\ Apart(<<>>)
        BY NewEntries, Constants DEF Window, Apart
      <3> QED
        BY <3>1, <3>2, <3>3 DEF Sound
    <2>2. 0 \in 0..(Modulus - 1)
      BY LocationTableAssumption
    <2> QED
      BY <2>1, <2>2, NewEntries, Constants DEF Init, TableInv
  <1>2. TableInv /\ [Next]_vars => TableInv'
    <2> SUFFICES ASSUME TableInv, [Next]_vars
                 PROVE  TableInv'
      OBVIOUS
    <2>1. CASE UNCHANGED vars
      BY <2>1 DEF vars, TableInv
    <2> QED
      BY <2>1, SingleHopStep, DuplicateStep, FirstCopyStep, UndetectedStep, TickStep DEF Next
  <1> QED
    BY <1>1, <1>2, PTL DEF Spec

LEMMA AtMostOneElement ==
  ASSUME NEW S, AtMostOne(S)
  PROVE  Cardinality(S) <= 1
  <1>1. CASE S = {}
    BY <1>1, FS_EmptySet, SMT
  <1>2. CASE S # {}
    <2>1. PICK x \in S : TRUE
      BY <1>2
    <2>2. S = {x}
      BY <2>1 DEF AtMostOne
    <2>3. Cardinality({x}) = 1
      BY FS_Singleton, Zenon
    <2> QED
      BY <2>2, <2>3
  <1> QED
    BY <1>1, <1>2

(***************************************************************************)
(* LocationTable::update with its circular timestamps: however packets are *)
(* delayed, repeated and reordered, and wherever the clock wraps around, a *)
(* live entry holds the newest valid position since it was created.        *)
(***************************************************************************)
THEOREM NewestIsKept == Spec => []NewestPositionKept
  <1>1. TableInv => NewestPositionKept
    BY DEF TableInv, Sound, PositionTrue, NewestPositionKept, Stamp
  <1> QED
    BY <1>1, TableHolds, PTL

(***************************************************************************)
(* set_neighbour and the default of process_extended: a neighbour has sent *)
(* a packet itself within the expiry of the flag, whatever forwarders      *)
(* delivered in its name.                                                  *)
(***************************************************************************)
THEOREM NeighboursAreNear == Spec => []NeighbourIsNear
  <1>1. TableInv => NeighbourIsNear
    <2> SUFFICES ASSUME TableInv, NbrExpiry > 0, NEW s \in Stations, is_neighbour(table[s])
                 PROVE  heard[s] < NbrExpiry
      BY DEF NeighbourIsNear
    <2>1. Sound(table[s], heard[s], newest[s], since[s], clock)
      BY DEF TableInv
    <2>2. table[s] \in Entries /\ heard[s] \in Nat
      BY <2>1 DEF Sound, Typed
    <2> QED
      BY <2>1, <2>2, Constants DEF Sound, FlagTrue, is_neighbour, Entries
  <1> QED
    BY <1>1, TableHolds, PTL

(***************************************************************************)
(* SoftStateMap and DuplicatePacketList: the entries are well formed, an   *)
(* entry does not outlive its position by more than a delay, and a copy is *)
(* not accepted before DPLLength other packets have been.                  *)
(***************************************************************************)
THEOREM SoundTable == Spec => []TableIsSound
  <1>1. TableInv => TableIsSound
    <2> SUFFICES ASSUME TableInv
                 PROVE  TableIsSound
      OBVIOUS
    <2>1. ASSUME NEW s \in Stations
          PROVE  Sound(table[s], heard[s], newest[s], since[s], clock) /\ table[s] \in Entries
      BY DEF TableInv
    <2>2. DuplicateWindow
      BY <2>1 DEF DuplicateWindow, Sound, Apart
    <2>3. PositionIsRecent
      <3> SUFFICES ASSUME NEW s \in Stations, has_value(table[s]), NEW a \in newest[s]
                   PROVE  a <= Life + MaxDelay
        BY DEF PositionIsRecent
      <3>1. a + table[s].left <= Life + MaxDelay
        BY <2>1 DEF Sound, PositionTrue
      <3>2. a \in Nat /\ table[s].left \in Int /\ table[s].left >= 0
        BY <2>1 DEF Sound, Typed, Entries, has_value, is_expired
      <3> QED
        BY <3>1, <3>2, Constants
    <2>4. TypeOK
      <3> SUFFICES ASSUME NEW s \in Stations
                   PROVE  /\ table[s].here \in BOOLEAN /\ table[s].left \in -1..Life
                          /\ table[s].pv \subseteq 0..(Modulus - 1)
                          /\ Cardinality(table[s].pv) <= 1
                          /\ table[s].nbr \in 0..NbrExpiry \cup {Forever}
                          /\ Len(table[s].dpl) <= DPLLength
        BY DEF TypeOK, TableInv
      <3>1. Cardinality(table[s].pv) <= 1
        BY <2>1, AtMostOneElement DEF Sound, Typed
      <3>2. Len(table[s].dpl) <= DPLLength
        <4>1. since[s] \in Seq(SNs) /\ Len(since[s]) \in Nat
          BY <2>1 DEF Sound, Typed
        <4>2. Window(table[s], since[s])
          BY <2>1 DEF Sound
        <4> QED
          BY <4>1, <4>2, Constants DEF Window
      <3> QED
        BY <2>1, <3>1, <3>2 DEF Entries
    <2> QED
      BY <2>2, <2>3, <2>4 DEF TableIsSound
  <1> QED
    BY <1>1, TableHolds, PTL

-----------------------------------------------------------------------------
(***************************************************************************)
(* The scenarios.  What is not part of the scenario rests, so that every   *)
(* behaviour of MCGeonet is one of the table and of each buffer.           *)
(***************************************************************************)
LEMMA TableRuns == GeonetSpec => Spec
  <1>1. GeonetInit => Init
    BY DEF GeonetInit
  <1>2. [GeonetNext]_allVars => [Next]_vars
    BY DEF GeonetNext, allVars, tableVars
  <1> QED
    BY <1>1, <1>2, PTL DEF GeonetSpec, Spec

LEMMA ScfRuns == GeonetSpec => Buffers!Scf!Spec
  <1>1. GeonetInit => Buffers!Scf!Init
    BY DEF GeonetInit
  <1>2. [GeonetNext]_allVars => [Buffers!Scf!Next]_(Buffers!Scf!vars)
    BY DEF GeonetNext, allVars, scfVars, Buffers!Scf!vars
  <1> QED
    BY <1>1, <1>2, PTL DEF GeonetSpec, Buffers!Scf!Spec

LEMMA ContentionRuns == GeonetSpec => Buffers!Spec
  <1>1. GeonetInit => Buffers!Init
    BY DEF GeonetInit
  <1>2. [GeonetNext]_allVars => [Buffers!Next]_(Buffers!vars)
    BY DEF GeonetNext, allVars, contentionVars, Buffers!vars
  <1> QED
    BY <1>1, <1>2, PTL DEF GeonetSpec, Buffers!Spec

\* The fading counters live for four of the longest timeouts, for two copies.
LEMMA CountersOutlast == Buffers!Outlasts
  BY DEF Buffers!Outlasts, Buffers!Longest

(***************************************************************************)
(* PacketBuffer and CbfPacketBuffer with fading counters: the books agree  *)
(* after every operation, a stored packet is in one place and in order,    *)
(* and a packet that contends is counted.                                  *)
(***************************************************************************)
THEOREM BuffersSound == GeonetSpec => []BuffersAreSound
  <1>1. Buffers!Scf!Spec => /\ [](Buffers!Scf!TypeOK /\ Buffers!Scf!Accounting)
                            /\ [](Buffers!Scf!AtMostOnce /\ Buffers!Scf!OldestFirst)
    BY GeonetAssumption, Buffers!BooksAreRight, Buffers!OnceAndInOrder
  <1>2. Buffers!Spec => []Buffers!BufferIsSound /\ []Buffers!ContendingIsCounted
    BY GeonetAssumption, CountersOutlast, Buffers!BooksAgree, Buffers!CountedWhileContending
  <1>3. /\ Buffers!Scf!TypeOK /\ Buffers!Scf!Accounting /\ Buffers!Scf!AtMostOnce /\ Buffers!Scf!OldestFirst
        /\ Buffers!BufferIsSound /\ Buffers!ContendingIsCounted
        => BuffersAreSound
    BY DEF BuffersAreSound, Buffers!BufferIsSound
  <1> QED
    BY <1>1, <1>2, <1>3, ScfRuns, ContentionRuns, PTL

(***************************************************************************)
(* PacketBuffer: head drop throws out no more than the new packet needs.   *)
(***************************************************************************)
THEOREM DropsLeast == GeonetSpec => LeastDropped
  <1>1. Buffers!Scf!Spec => Buffers!Scf!LeastDropped
    BY GeonetAssumption, Buffers!DropsNoMore
  <1> QED
    BY <1>1, ScfRuns, PTL DEF LeastDropped

(***************************************************************************)
(* LocationTable: what is true of every table is true of the one here.     *)
(***************************************************************************)
THEOREM TableOfRouter ==
  GeonetSpec => [](NewestPositionKept /\ NeighbourIsNear /\ TableIsSound)
  BY TableRuns, NewestIsKept, NeighboursAreNear, SoundTable, PTL
=============================================================================

---------------------------- MODULE RuntimeProofs ---------------------------
(***************************************************************************)
(* The event loop for any threads, periods, jitters, repetitions and       *)
(* resets, with callbacks that run inside each other to any depth.         *)
(***************************************************************************)
EXTENDS Runtime, FiniteSetTheorems, SequenceTheorems, WellFoundedInduction, TLAPS

\* A set of natural numbers that is not empty has a least element.
LEMMA LeastElement ==
  ASSUME NEW T, T \subseteq Nat, T # {}
  PROVE  \E x \in T : \A y \in T : x <= y
  <1>1. PICK x \in T : \A y \in T : ~(<<y, x>> \in OpToRel(<, Nat))
    BY NatLessThanWellFounded, WFMin, Zenon
  <1>2. \A y \in T : ~(y < x)
    BY <1>1 DEF OpToRel
  <1> QED
    BY <1>2

\* Induction up to n, with a set in the place of a predicate.
LEMMA UpTo ==
  ASSUME NEW n \in Nat, NEW T, 0 \in T, \A k \in 1..n : k - 1 \in T => k \in T
  PROVE  0..n \subseteq T
  <1> DEFINE Bad == {k \in 0..n : k \notin T}
  <1> SUFFICES ASSUME Bad # {} PROVE FALSE
    OBVIOUS
  <1>1. PICK k \in Bad : \A y \in Bad : k <= y
    <2>1. Bad \subseteq Nat
      OBVIOUS
    <2> HIDE DEF Bad
    <2> QED
      BY <2>1, LeastElement
  <1>2. k \in 1..n /\ k \notin T
    OBVIOUS
  <1>3. k - 1 \in 0..n /\ ~(k <= k - 1)
    BY <1>2
  <1>4. k - 1 \notin Bad
    <2> HIDE DEF Bad
    <2> QED
      BY <1>1, <1>3
  <1> QED
    BY <1>2, <1>3, <1>4

(***************************************************************************)
(* Kept.  f holds what is kept of the first 0, 1 .. n elements.            *)
(***************************************************************************)
KeptUpTo(f, n, q, S) ==
  \A i \in 0..n : f[i] = IF i = 0 THEN <<>> ELSE IF q[i] \in S THEN Append(f[i - 1], q[i]) ELSE f[i - 1]

LEMMA KeptExists ==
  ASSUME NEW V, NEW q \in Seq(V), NEW S
  PROVE  \E f \in [0..Len(q) -> Seq(V)] : KeptUpTo(f, Len(q), q, S)
  <1> DEFINE T == {n \in 0..Len(q) : \E f \in [0..n -> Seq(V)] : KeptUpTo(f, n, q, S)}
  <1>1. 0 \in T
    <2> DEFINE f == [i \in 0..0 |-> <<>>]
    <2>1. f \in [0..0 -> Seq(V)] /\ KeptUpTo(f, 0, q, S)
      BY DEF KeptUpTo
    <2>2. 0 \in 0..Len(q)
      OBVIOUS
    <2> HIDE DEF f
    <2> QED
      BY <2>1, <2>2
  <1>2. ASSUME NEW n \in 1..Len(q), n - 1 \in T
        PROVE  n \in T
    <2>1. PICK f \in [0..(n - 1) -> Seq(V)] : KeptUpTo(f, n - 1, q, S)
      BY <1>2
    <2>2. n \in Nat /\ n - 1 \in 0..(n - 1) /\ n \notin 0..(n - 1) /\ 0..n = 0..(n - 1) \cup {n} /\ n # 0
      OBVIOUS
    <2> DEFINE last == IF q[n] \in S THEN Append(f[n - 1], q[n]) ELSE f[n - 1]
               g == [i \in 0..n |-> IF i = n THEN last ELSE f[i]]
    <2>3. last \in Seq(V)
      <3>1. f[n - 1] \in Seq(V) /\ q[n] \in V
        BY <2>2
      <3> QED
        BY <3>1
    <2>4. g \in [0..n -> Seq(V)]
      BY <2>2, <2>3
    <2>5. ASSUME NEW i \in 0..n
          PROVE  g[i] = IF i = 0 THEN <<>> ELSE IF q[i] \in S THEN Append(g[i - 1], q[i]) ELSE g[i - 1]
      <3>1. CASE i = n
        <4>1. g[n] = last /\ g[n - 1] = f[n - 1]
          BY <2>2
        <4> HIDE DEF g
        <4> QED
          BY <2>2, <3>1, <4>1
      <3>2. CASE i # n
        <4>1. i \in 0..(n - 1) /\ (i # 0 => i - 1 \in 0..(n - 1) /\ i - 1 # n)
          BY <3>2
        <4>2. g[i] = f[i] /\ (i # 0 => g[i - 1] = f[i - 1])
          BY <3>2, <4>1
        <4> HIDE DEF g
        <4> QED
          BY <2>1, <4>1, <4>2 DEF KeptUpTo
      <3> QED
        BY <3>1, <3>2
    <2>6. KeptUpTo(g, n, q, S)
      <3> HIDE DEF g
      <3> QED
        BY <2>5 DEF KeptUpTo
    <2> HIDE DEF g
    <2> QED
      BY <1>2, <2>4, <2>6
  <1>3. Len(q) \in Nat
    OBVIOUS
  <1>4. 0..Len(q) \subseteq T
    <2> HIDE DEF T
    <2> QED
      BY <1>1, <1>2, <1>3, UpTo
  <1>5. Len(q) \in T
    <2> HIDE DEF T
    <2> QED
      BY <1>3, <1>4
  <1> QED
    BY <1>5

\* h says where the elements that are kept, r, come from.
From(r, n, q, S, h) ==
  /\ h \in [1..Len(r) -> 1..n]
  /\ \A k \in 1..Len(r) : r[k] = q[h[k]] /\ q[h[k]] \in S
  /\ \A j, k \in 1..Len(r) : j < k => h[j] < h[k]
  /\ \A i \in 1..n : q[i] \in S => \E k \in 1..Len(r) : h[k] = i

LEMMA KeptIs ==
  ASSUME NEW V, NEW q \in Seq(V), NEW S
  PROVE  Kept(q, S) \in Seq(V) /\ \E h : From(Kept(q, S), Len(q), q, S, h)
  <1> DEFINE N == Len(q)
             P(f) == f = [i \in 0..Len(q) |-> IF i = 0 THEN <<>>
                            ELSE IF q[i] \in S THEN Append(f[i - 1], q[i]) ELSE f[i - 1]]
             kept == CHOOSE f : P(f)
  <1>0. N \in Nat
    OBVIOUS
  <1>1. PICK f \in [0..N -> Seq(V)] : KeptUpTo(f, N, q, S)
    BY KeptExists
  <1>2. P(f)
    BY <1>1 DEF KeptUpTo
  <1>3. P(kept)
    <2> HIDE DEF P
    <2> QED
      BY <1>2, Zenon
  <1>4. Kept(q, S) = kept[N]
    BY DEF Kept
  <1>5. \A i \in 0..N : kept[i] = IF i = 0 THEN <<>>
                           ELSE IF q[i] \in S THEN Append(kept[i - 1], q[i]) ELSE kept[i - 1]
    <2> HIDE DEF kept
    <2> QED
      BY <1>3
  <1> HIDE DEF kept, P
  <1> DEFINE T == {n \in 0..N : kept[n] \in Seq(V) /\ \E h : From(kept[n], n, q, S, h)}
  <1>6. 0 \in T
    <2>1. kept[0] = <<>> /\ 0 \in 0..N
      BY <1>0, <1>5
    <2>2. From(<<>>, 0, q, S, <<>>)
      BY DEF From
    <2>3. From(kept[0], 0, q, S, <<>>)
      BY <2>1, <2>2
    <2>4. kept[0] \in Seq(V)
      BY <2>1
    <2> HIDE DEF N
    <2> QED
      BY <2>1, <2>3, <2>4
  <1>7. ASSUME NEW n \in 1..N, n - 1 \in T
        PROVE  n \in T
    <2> DEFINE r == kept[n - 1]
    <2>1. n \in 0..N /\ n # 0 /\ n - 1 \in Nat /\ n \in Nat
      BY <1>0
    <2>2. kept[n] = IF q[n] \in S THEN Append(r, q[n]) ELSE r
      BY <1>5, <2>1
    <2>3. r \in Seq(V) /\ Len(r) \in Nat
      BY <1>7
    <2>4. PICK h : From(r, n - 1, q, S, h)
      BY <1>7
    <2>5. q[n] \in V
      BY <1>7
    <2> HIDE DEF r
    <2>6. CASE q[n] \notin S
      <3>1. From(r, n, q, S, h)
        BY <2>1, <2>4, <2>6 DEF From
      <3> QED
        BY <2>1, <2>2, <2>3, <2>6, <3>1
    <2>7. CASE q[n] \in S
      <3> DEFINE m == Len(r) + 1
                 s == Append(r, q[n])
                 g == [k \in 1..m |-> IF k = m THEN n ELSE h[k]]
      <3>1. s \in Seq(V) /\ Len(s) = m /\ s[m] = q[n] /\ \A k \in 1..Len(r) : s[k] = r[k]
        BY <2>3, <2>5
      <3>2. m \in Nat /\ \A k \in 1..m : k = m \/ k \in 1..Len(r)
        BY <2>3
      <3>3. /\ h \in [1..Len(r) -> 1..(n - 1)]
            /\ \A k \in 1..Len(r) : r[k] = q[h[k]] /\ q[h[k]] \in S
            /\ \A j, k \in 1..Len(r) : j < k => h[j] < h[k]
            /\ \A i \in 1..(n - 1) : q[i] \in S => \E k \in 1..Len(r) : h[k] = i
        BY <2>4 DEF From
      <3>4. g[m] = n /\ \A k \in 1..Len(r) : g[k] = h[k] /\ h[k] \in 1..(n - 1)
        BY <2>3, <3>3
      <3>5. g \in [1..m -> 1..n]
        BY <2>1, <3>2, <3>3
      <3> HIDE DEF g, s
      <3>6. \A k \in 1..m : s[k] = q[g[k]] /\ q[g[k]] \in S
        BY <2>7, <3>1, <3>2, <3>3, <3>4
      <3>7. \A j, k \in 1..m : j < k => g[j] < g[k]
        <4> SUFFICES ASSUME NEW j \in 1..m, NEW k \in 1..m, j < k
                     PROVE  g[j] < g[k]
          OBVIOUS
        <4>1. j \in 1..Len(r) /\ g[j] = h[j] /\ h[j] \in 1..(n - 1)
          BY <2>3, <3>4
        <4>2. CASE k = m
          BY <2>1, <3>4, <4>1, <4>2
        <4>3. CASE k \in 1..Len(r)
          BY <3>3, <3>4, <4>1, <4>3
        <4> QED
          BY <3>2, <4>2, <4>3
      <3>8. \A i \in 1..n : q[i] \in S => \E k \in 1..m : g[k] = i
        <4> SUFFICES ASSUME NEW i \in 1..n, q[i] \in S
                     PROVE  \E k \in 1..m : g[k] = i
          OBVIOUS
        <4>1. CASE i = n
          BY <2>3, <3>4, <4>1
        <4>2. CASE i \in 1..(n - 1)
          <5>1. PICK k \in 1..Len(r) : h[k] = i
            BY <3>3, <4>2
          <5> QED
            BY <2>3, <3>4, <5>1
        <4> QED
          BY <4>1, <4>2
      <3>9. From(s, n, q, S, g)
        BY <3>1, <3>5, <3>6, <3>7, <3>8 DEF From
      <3>10. kept[n] = s
        BY <2>2, <2>7 DEF s
      <3> HIDE DEF m
      <3> QED
        BY <2>1, <3>1, <3>9, <3>10
    <2> QED
      BY <2>6, <2>7
  <1>8. 0..N \subseteq T
    <2> HIDE DEF T, N
    <2> QED
      BY <1>0, <1>6, <1>7, UpTo
  <1>9. N \in T
    <2> HIDE DEF T
    <2> QED
      BY <1>0, <1>8
  <1> QED
    BY <1>4, <1>9

-----------------------------------------------------------------------------
(***************************************************************************)
(* The queue.  None(q, k) and One(q, k): no callback and exactly one       *)
(* callback of the scope k is in q.                                        *)
(***************************************************************************)
None(q, k) == \A i \in 1..Len(q) : Scope(q[i].cb) # k
One(q, k) == \E i \in 1..Len(q) : \A j \in 1..Len(q) : Scope(q[j].cb) = k <=> j = i
Sorted(q) == \A i, j \in 1..Len(q) : i < j => q[i].at <= q[j].at

\* A set of indices that has those below each of its elements.
LEMMA Prefix ==
  ASSUME NEW n \in Nat, NEW I \in SUBSET (1..n), \A i \in I : \A j \in 1..n : j < i => j \in I
  PROVE  Cardinality(I) \in 0..n /\ I = 1..Cardinality(I)
  <1> DEFINE Out == (1..(n + 1)) \ I
  <1>1. PICK m \in Out : \A y \in Out : m <= y
    <2>1. Out \subseteq Nat /\ n + 1 \in Out
      OBVIOUS
    <2> HIDE DEF Out
    <2> QED
      BY <2>1, LeastElement
  <1>2. m \in 1..(n + 1) /\ m \notin I
    OBVIOUS
  <1>3. \A j \in 1..n : j < m => j \in I
    <2> SUFFICES ASSUME NEW j \in 1..n, j < m
                 PROVE  j \in I
      OBVIOUS
    <2>1. j \in 1..(n + 1) /\ ~(m <= j)
      BY <1>2
    <2> HIDE DEF Out
    <2>2. j \notin Out
      BY <1>1, <2>1
    <2> QED
      BY <2>1, <2>2 DEF Out
  <1>4. \A j \in I : j < m
    BY <1>2
  <1> HIDE DEF Out
  <1>5. I = 1..(m - 1)
    <2>1. \A x \in I : x \in 1..(m - 1)
      BY <1>2, <1>4
    <2>2. \A x \in 1..(m - 1) : x \in I
      BY <1>2, <1>3
    <2> QED
      BY <2>1, <2>2
  <1>6. m - 1 \in 0..n /\ Cardinality(1..(m - 1)) = m - 1
    <2>1. m - 1 \in 0..n
      BY <1>2
    <2> DEFINE k == m - 1
    <2>2. Cardinality(1..k) = IF 1 > k THEN 0 ELSE k - 1 + 1
      <3>1. k \in Int /\ 1 \in Int
        BY <2>1
      <3> HIDE DEF k
      <3> QED
        BY <3>1, FS_Interval
    <2> QED
      BY <2>1, <2>2
  <1> QED
    BY <1>5, <1>6

\* r is q with e put in behind the first c elements.
Into(r, q, c, e) ==
  /\ Len(r) = Len(q) + 1 /\ c \in 0..Len(q) /\ r[c + 1] = e
  /\ \A i \in 1..c : r[i] = q[i]
  /\ \A i \in (c + 1)..Len(q) : r[i + 1] = q[i]

LEMMA InsertedAt ==
  ASSUME NEW V, NEW q \in Seq(V), NEW e \in V, NEW c \in 0..Len(q)
  PROVE  InsertAt(q, c + 1, e) \in Seq(V) /\ Into(InsertAt(q, c + 1, e), q, c, e)
  <1> DEFINE a == SubSeq(q, 1, c)
             b == SubSeq(q, c + 1, Len(q))
             n == Len(q)
             x == <<e>>
             r == (a \o x) \o b
  <1>1. n \in Nat /\ c \in Nat /\ c <= n /\ (c + 1) - 1 = c
    OBVIOUS
  <1>2. InsertAt(q, c + 1, e) = r
    BY <1>1 DEF InsertAt
  <1>3. a \in Seq(V) /\ Len(a) = c /\ \A i \in 1..c : a[i] = q[i]
    BY <1>1
  <1>4. b \in Seq(V) /\ Len(b) = n - c /\ \A i \in 1..(n - c) : b[i] = q[c + i]
    <2>1. \A i \in (c + 1)..n : q[i] \in V
      BY <1>1
    <2>2. /\ b \in Seq(V) /\ Len(b) = IF c + 1 <= n THEN n - (c + 1) + 1 ELSE 0
          /\ \A i \in 1..(n - (c + 1) + 1) : b[i] = q[c + 1 + i - 1]
      BY <1>1, <2>1, SubSeqProperties
    <2> HIDE DEF n, b
    <2>3. Len(b) = n - c /\ n - (c + 1) + 1 = n - c /\ \A i \in 1..(n - c) : c + 1 + i - 1 = c + i
      BY <1>1, <2>2
    <2> QED
      BY <2>2, <2>3
  <1>5. x \in Seq(V) /\ Len(x) = 1 /\ x[1] = e
    OBVIOUS
  <1> HIDE DEF a, b, n, x
  <1>6. /\ a \o x \in Seq(V) /\ Len(a \o x) = c + 1 /\ (a \o x)[c + 1] = e
        /\ \A i \in 1..c : (a \o x)[i] = a[i]
    <2>1. /\ a \o x \in Seq(V) /\ Len(a \o x) = Len(a) + Len(x)
          /\ \A i \in 1..(Len(a) + Len(x)) : (a \o x)[i] = IF i <= Len(a) THEN a[i] ELSE x[i - Len(a)]
      BY <1>3, <1>5, ConcatProperties
    <2>2. (c + 1) - c = 1 /\ c + 1 \in 1..(c + 1) /\ ~(c + 1 <= c) /\ \A i \in 1..c : i \in 1..(c + 1) /\ i <= c
      BY <1>1
    <2> QED
      BY <1>3, <1>5, <2>1, <2>2
  <1> DEFINE ax == a \o x
  <1> HIDE DEF ax
  <1>7. ax \in Seq(V) /\ Len(ax) = c + 1 /\ ax[c + 1] = e /\ \A i \in 1..c : ax[i] = a[i]
    BY <1>6 DEF ax
  <1>8. /\ ax \o b \in Seq(V) /\ Len(ax \o b) = n + 1
        /\ \A i \in 1..(c + 1) : (ax \o b)[i] = ax[i]
        /\ \A i \in 1..(n - c) : (ax \o b)[c + 1 + i] = b[i]
    <2>1. /\ ax \o b \in Seq(V) /\ Len(ax \o b) = Len(ax) + Len(b)
          /\ \A i \in 1..(Len(ax) + Len(b)) : (ax \o b)[i] = IF i <= Len(ax) THEN ax[i] ELSE b[i - Len(ax)]
      BY <1>4, <1>7, ConcatProperties
    <2>2. (c + 1) + (n - c) = n + 1 /\ \A i \in 1..(c + 1) : i \in 1..(n + 1) /\ i <= c + 1
      BY <1>1
    <2>3. \A i \in 1..(n - c) : c + 1 + i \in 1..(n + 1) /\ ~(c + 1 + i <= c + 1) /\ c + 1 + i - (c + 1) = i
      BY <1>1
    <2> QED
      BY <1>4, <1>7, <2>1, <2>2, <2>3
  <1>9. r = ax \o b
    BY DEF ax
  <1> HIDE DEF r
  <1>10. r \in Seq(V) /\ Len(r) = n + 1 /\ r[c + 1] = e /\ \A i \in 1..c : r[i] = q[i]
    BY <1>1, <1>3, <1>7, <1>8, <1>9
  <1>11. ASSUME NEW i \in (c + 1)..n
         PROVE  r[i + 1] = q[i]
    <2>1. i - c \in 1..(n - c) /\ c + 1 + (i - c) = i + 1 /\ c + (i - c) = i
      BY <1>1
    <2>2. r[c + 1 + (i - c)] = b[i - c] /\ b[i - c] = q[c + (i - c)]
      BY <1>4, <1>8, <1>9, <2>1
    <2> QED
      BY <2>1, <2>2
  <1> QED
    BY <1>2, <1>10, <1>11 DEF Into, n

-----------------------------------------------------------------------------
(***************************************************************************)
(* Callbacks and when they are due.  A repetition is due within the        *)
(* maximum of its request, and so would be all that is left of it.         *)
(***************************************************************************)
Repetition == [interval : Nat, left : Int, until : Int]
Callback ==
  {c \in [kind : {"beacon", "cam", "position", "repeat"}, rep : SUBSET Repetition] :
     c.kind # "repeat" => c.rep = {}}
Event ==
  {e \in [at : Int, cb : Callback] :
     \A rep \in e.cb.rep : e.at <= rep.until /\ e.at + rep.left - rep.interval <= rep.until}

\* What an operation on the queue does to the callbacks of each scope.
Spares(r, q, k) == (None(q, k) => None(r, k)) /\ (One(q, k) => One(r, k))

(***************************************************************************)
(* schedule puts a callback into its place.                                *)
(***************************************************************************)
LEMMA InsertIs ==
  ASSUME NEW V, V \subseteq Event, NEW q \in Seq(V), NEW e \in V, Sorted(q)
  PROVE  /\ Insert(q, e) \in Seq(V) /\ Sorted(Insert(q, e)) /\ Len(Insert(q, e)) = Len(q) + 1
         /\ \A k : Scope(e.cb) # k => Spares(Insert(q, e), q, k)
         /\ \A k : Scope(e.cb) = k /\ None(q, k) => One(Insert(q, e), k)
  <1> DEFINE I == {i \in DOMAIN q : q[i] \in {x \in ToSet(q) : x.at <= e.at}}
             c == Cardinality(I)
             r == Insert(q, e)
             n == Len(q)
  <1>1. n \in Nat /\ DOMAIN q = 1..n /\ e.at \in Int /\ \A i \in 1..n : q[i] \in V /\ q[i].at \in Int
    <2>1. n \in Nat /\ DOMAIN q = 1..n /\ \A i \in 1..n : q[i] \in V
      OBVIOUS
    <2>2. \A x \in V : x.at \in Int
      BY DEF Event
    <2> QED
      BY <2>1, <2>2
  <1>2. I = {i \in 1..n : q[i].at <= e.at}
    BY <1>1 DEF ToSet
  <1>3. c \in 0..n /\ I = 1..c
    <2>1. \A i \in I : \A j \in 1..n : j < i => j \in I
      BY <1>1, <1>2 DEF Sorted
    <2>2. I \in SUBSET (1..n)
      BY <1>2
    <2> HIDE DEF I, n
    <2> QED
      BY <1>1, <2>1, <2>2, Prefix
  <1>4. r = InsertAt(q, c + 1, e)
    BY DEF Insert, Behind
  <1> HIDE DEF I, c, r
  <1>5. r \in Seq(V) /\ Into(r, q, c, e)
    BY <1>3, <1>4, InsertedAt
  <1> HIDE DEF n
  <1>6. /\ Len(r) = n + 1 /\ c \in 0..n /\ r[c + 1] = e
        /\ \A i \in 1..c : r[i] = q[i]
        /\ \A i \in (c + 1)..n : r[i + 1] = q[i]
    BY <1>5 DEF Into, n
  <1>7. \A i \in 1..(n + 1) : i \in 1..c \/ i = c + 1 \/ (i - 1 \in (c + 1)..n /\ r[i] = q[i - 1])
    <2> SUFFICES ASSUME NEW i \in 1..(n + 1), i \notin 1..c, i # c + 1
                 PROVE  i - 1 \in (c + 1)..n /\ r[i] = q[i - 1]
      OBVIOUS
    <2>1. i - 1 \in (c + 1)..n /\ (i - 1) + 1 = i
      BY <1>1, <1>3
    <2>2. r[(i - 1) + 1] = q[i - 1]
      BY <1>6, <2>1
    <2> QED
      BY <2>1, <2>2
  <1>8. Sorted(r)
    <2>1. \A i \in 1..c : q[i].at <= e.at
      BY <1>2, <1>3
    <2>2. \A i \in (c + 1)..n : ~(q[i].at <= e.at) /\ i \in 1..n
      BY <1>1, <1>2, <1>3
    <2>3. \A i, j \in 1..n : i < j => q[i].at <= q[j].at
      BY DEF Sorted, n
    <2> SUFFICES ASSUME NEW i \in 1..(n + 1), NEW j \in 1..(n + 1), i < j
                 PROVE  r[i].at <= r[j].at
      BY <1>6 DEF Sorted
    <2>4. CASE i \in 1..c
      <3>1. r[i] = q[i] /\ i \in 1..n
        BY <1>1, <1>3, <1>6, <2>4
      <3>2. CASE j \in 1..c
        <4>1. r[j] = q[j] /\ j \in 1..n
          BY <1>1, <1>3, <1>6, <3>2
        <4> QED
          BY <2>3, <3>1, <4>1
      <3>3. CASE j = c + 1
        BY <1>6, <2>1, <2>4, <3>1, <3>3
      <3>4. CASE j - 1 \in (c + 1)..n /\ r[j] = q[j - 1]
        <4>1. j - 1 \in 1..n /\ i < j - 1
          BY <1>1, <1>3, <2>4, <3>4
        <4> QED
          BY <2>3, <3>1, <3>4, <4>1
      <3> QED
        BY <1>7, <3>2, <3>3, <3>4
    <2>5. CASE i = c + 1
      <3>1. j \notin 1..c /\ j # c + 1
        BY <1>3, <2>5
      <3>2. j - 1 \in (c + 1)..n /\ r[j] = q[j - 1]
        BY <1>7, <3>1
      <3> QED
        BY <1>1, <1>6, <2>2, <2>5, <3>2
    <2>6. CASE i - 1 \in (c + 1)..n /\ r[i] = q[i - 1]
      <3>1. j \notin 1..c /\ j # c + 1
        BY <1>1, <1>3, <2>6
      <3>2. j - 1 \in (c + 1)..n /\ r[j] = q[j - 1]
        BY <1>7, <3>1
      <3>3. i - 1 \in 1..n /\ j - 1 \in 1..n /\ i - 1 < j - 1
        BY <2>2, <2>6, <3>2
      <3> QED
        BY <2>3, <2>6, <3>2, <3>3
    <2> QED
      BY <1>7, <2>4, <2>5, <2>6
  \* Where an element of q is to be found.
  <1> DEFINE to(i) == IF i \in 1..c THEN i ELSE i + 1
  <1>9. \A i \in 1..n : to(i) \in 1..(n + 1) /\ r[to(i)] = q[i] /\ to(i) # c + 1
    BY <1>1, <1>3, <1>6
  <1>10. \A j \in 1..(n + 1) : j = c + 1 \/ \E i \in 1..n : j = to(i)
    <2> SUFFICES ASSUME NEW j \in 1..(n + 1), j # c + 1
                 PROVE  \E i \in 1..n : j = to(i)
      OBVIOUS
    <2>1. CASE j \in 1..c
      <3>1. j \in 1..n /\ j = to(j)
        BY <1>1, <1>3, <2>1
      <3> HIDE DEF to
      <3> QED
        BY <3>1
    <2>2. CASE j \notin 1..c
      <3>1. j - 1 \in 1..n /\ j = to(j - 1)
        BY <1>1, <1>3, <2>2
      <3> HIDE DEF to
      <3> QED
        BY <3>1
    <2> QED
      BY <2>1, <2>2
  <1> HIDE DEF to
  <1>11. ASSUME NEW k, Scope(e.cb) # k
         PROVE  Spares(r, q, k)
    <2>1. ASSUME None(q, k)
          PROVE  None(r, k)
      <3>1. \A i \in 1..n : Scope(q[i].cb) # k
        BY <2>1 DEF None, n
      <3>2. \A i \in 1..n : Scope(r[to(i)].cb) # k
        BY <1>9, <3>1
      <3>3. Scope(r[c + 1].cb) # k
        BY <1>6, <1>11
      <3>4. \A j \in 1..(n + 1) : Scope(r[j].cb) # k
        BY <1>10, <3>2, <3>3
      <3> QED
        BY <1>6, <3>4 DEF None
    <2>2. ASSUME One(q, k)
          PROVE  One(r, k)
      <3>1. PICK i \in 1..n : \A j \in 1..n : Scope(q[j].cb) = k <=> j = i
        BY <2>2 DEF One, n
      <3>2. \A j \in 1..(n + 1) : Scope(r[j].cb) = k <=> j = to(i)
        <4> SUFFICES ASSUME NEW j \in 1..(n + 1)
                     PROVE  Scope(r[j].cb) = k <=> j = to(i)
          OBVIOUS
        <4>1. CASE j = c + 1
          BY <1>6, <1>9, <1>11, <4>1
        <4>2. ASSUME NEW m \in 1..n, j = to(m)
              PROVE  Scope(r[j].cb) = k <=> j = to(i)
          <5>1. Scope(r[j].cb) = k <=> m = i
            BY <1>9, <3>1, <4>2
          <5>2. to(m) = to(i) <=> m = i
            BY <1>1, <1>3 DEF to
          <5> QED
            BY <4>2, <5>1, <5>2
        <4> QED
          BY <1>10, <4>1, <4>2
      <3>3. to(i) \in 1..(n + 1) /\ Len(r) = n + 1
        BY <1>6, <1>9
      <3> QED
        BY <3>2, <3>3 DEF One
    <2> QED
      BY <2>1, <2>2 DEF Spares
  <1>12. ASSUME NEW k, Scope(e.cb) = k, None(q, k)
         PROVE  One(r, k)
    <2>1. c + 1 \in 1..(n + 1)
      BY <1>1, <1>3
    <2>2. \A j \in 1..(n + 1) : Scope(r[j].cb) = k <=> j = c + 1
      <3>1. \A i \in 1..n : Scope(q[i].cb) # k
        BY <1>12 DEF None, n
      <3>2. \A i \in 1..n : Scope(r[to(i)].cb) # k /\ to(i) # c + 1
        BY <1>9, <3>1
      <3>3. Scope(r[c + 1].cb) = k
        BY <1>6, <1>12
      <3> QED
        BY <1>10, <3>2, <3>3
    <2> QED
      BY <1>6, <2>1, <2>2 DEF One
  <1> QED
    BY <1>5, <1>6, <1>8, <1>11, <1>12 DEF r, n

(***************************************************************************)
(* cancel takes all callbacks of a scope out, and no other.                *)
(***************************************************************************)
Without(q, k0) == Kept(q, {x \in ToSet(q) : Scope(x.cb) # k0})

LEMMA CancelIs ==
  ASSUME NEW V, V \subseteq Event, NEW q \in Seq(V), Sorted(q), NEW k0,
         NEW r, r = Without(q, k0)
  PROVE  r \in Seq(V) /\ Sorted(r) /\ None(r, k0) /\ \A k : k # k0 => Spares(r, q, k)
  <1> DEFINE S == {x \in ToSet(q) : Scope(x.cb) # k0}
             n == Len(q)
  <1>1. n \in Nat /\ DOMAIN q = 1..n
    OBVIOUS
  <1>2. \A i \in 1..n : q[i] \in S <=> Scope(q[i].cb) # k0
    BY <1>1 DEF ToSet
  <1> HIDE DEF S, n
  <1>3. r \in Seq(V) /\ \E h : From(r, n, q, S, h)
    BY KeptIs DEF S, n, Without
  <1>4. PICK h : From(r, n, q, S, h)
    BY <1>3
  <1> DEFINE m == Len(r)
  <1>5. m \in Nat
    BY <1>3
  <1> HIDE DEF m
  <1>6. /\ h \in [1..m -> 1..n]
        /\ \A k \in 1..m : r[k] = q[h[k]] /\ q[h[k]] \in S
        /\ \A j, k \in 1..m : j < k => h[j] < h[k]
        /\ \A i \in 1..n : q[i] \in S => \E k \in 1..m : h[k] = i
    BY <1>4 DEF From, m
  <1>7. Sorted(r)
    <2>1. \A i, j \in 1..n : i < j => q[i].at <= q[j].at
      BY DEF Sorted, n
    <2>2. \A i, j \in 1..m : i < j => r[i].at <= r[j].at
      BY <1>6, <2>1
    <2> QED
      BY <2>2 DEF Sorted, m
  <1>8. None(r, k0)
    BY <1>2, <1>6 DEF None, m
  <1>9. ASSUME NEW k, k # k0
        PROVE  Spares(r, q, k)
    <2>1. ASSUME None(q, k)
          PROVE  None(r, k)
      BY <1>6, <2>1 DEF None, m, n
    <2>2. ASSUME One(q, k)
          PROVE  One(r, k)
      <3>1. PICK i \in 1..n : \A j \in 1..n : Scope(q[j].cb) = k <=> j = i
        BY <2>2 DEF One, n
      <3>2. PICK l \in 1..m : h[l] = i
        BY <1>2, <1>6, <1>9, <3>1
      <3>3. \A j \in 1..m : h[j] = i <=> j = l
        <4> SUFFICES ASSUME NEW j \in 1..m, h[j] = i, j # l
                     PROVE  FALSE
          BY <3>2
        <4>1. j < l \/ l < j
          BY <1>5
        <4>2. h[j] \in 1..n
          BY <1>6
        <4> QED
          BY <1>1, <1>6, <3>2, <4>1, <4>2
      <3>4. \A j \in 1..m : Scope(r[j].cb) = k <=> j = l
        BY <1>6, <3>1, <3>3
      <3> QED
        BY <3>4 DEF One, m
    <2> QED
      BY <2>1, <2>2 DEF Spares
  <1> QED
    BY <1>3, <1>7, <1>8, <1>9

(***************************************************************************)
(* Taking the first callback off.                                          *)
(***************************************************************************)
LEMMA TailIs ==
  ASSUME NEW V, V \subseteq Event, NEW q \in Seq(V), q # <<>>
  PROVE  /\ Head(q) \in V /\ Head(q) = q[1] /\ Tail(q) \in Seq(V) /\ (Sorted(q) => Sorted(Tail(q)))
         /\ \A k : Scope(Head(q).cb) # k => Spares(Tail(q), q, k) /\ (~None(q, k) => ~None(Tail(q), k))
         /\ \A k : Scope(Head(q).cb) = k /\ One(q, k) => None(Tail(q), k)
  <1> DEFINE n == Len(q)
             r == Tail(q)
  <1>1. n \in Nat /\ n >= 1 /\ Head(q) = q[1] /\ Head(q) \in V
    BY HeadTailProperties
  <1>2. r \in Seq(V) /\ Len(r) = n - 1 /\ \A i \in 1..(n - 1) : r[i] = q[i + 1]
    BY HeadTailProperties
  <1> HIDE DEF n, r
  <1>3. \A i \in 1..(n - 1) : i + 1 \in 1..n /\ i + 1 # 1
    BY <1>1
  <1>4. \A j \in 1..n : j = 1 \/ (j - 1 \in 1..(n - 1) /\ r[j - 1] = q[j])
    <2> SUFFICES ASSUME NEW j \in 1..n, j # 1
                 PROVE  j - 1 \in 1..(n - 1) /\ r[j - 1] = q[j]
      OBVIOUS
    <2>1. j - 1 \in 1..(n - 1) /\ (j - 1) + 1 = j
      BY <1>1
    <2>2. r[j - 1] = q[(j - 1) + 1]
      BY <1>2, <2>1
    <2> QED
      BY <2>1, <2>2
  <1>5. ASSUME Sorted(q)
        PROVE  Sorted(r)
    <2>1. \A i, j \in 1..n : i < j => q[i].at <= q[j].at
      BY <1>5 DEF Sorted, n
    <2> SUFFICES ASSUME NEW i \in 1..(n - 1), NEW j \in 1..(n - 1), i < j
                 PROVE  r[i].at <= r[j].at
      BY <1>2 DEF Sorted
    <2>2. i + 1 < j + 1
      BY <1>1
    <2> QED
      BY <1>2, <1>3, <2>1, <2>2
  <1>6. ASSUME NEW k, Scope(q[1].cb) # k
        PROVE  Spares(r, q, k) /\ (~None(q, k) => ~None(r, k))
    <2>1. ASSUME None(q, k)
          PROVE  None(r, k)
      BY <1>2, <1>3, <2>1 DEF None, n
    <2>2. ASSUME ~None(q, k)
          PROVE  ~None(r, k)
      <3>1. PICK j \in 1..n : Scope(q[j].cb) = k
        BY <2>2 DEF None, n
      <3>2. j - 1 \in 1..(n - 1) /\ r[j - 1] = q[j]
        BY <1>4, <1>6, <3>1
      <3> QED
        BY <1>2, <3>1, <3>2 DEF None
    <2>3. ASSUME One(q, k)
          PROVE  One(r, k)
      <3>1. PICK i \in 1..n : \A j \in 1..n : Scope(q[j].cb) = k <=> j = i
        BY <2>3 DEF One, n
      <3>2. i - 1 \in 1..(n - 1)
        BY <1>4, <1>6, <3>1
      <3>3. \A j \in 1..(n - 1) : Scope(r[j].cb) = k <=> j = i - 1
        <4> SUFFICES ASSUME NEW j \in 1..(n - 1)
                     PROVE  Scope(r[j].cb) = k <=> j = i - 1
          OBVIOUS
        <4>1. r[j] = q[j + 1] /\ j + 1 \in 1..n
          BY <1>2, <1>3
        <4>2. Scope(q[j + 1].cb) = k <=> j + 1 = i
          BY <3>1, <4>1
        <4>3. j + 1 = i <=> j = i - 1
          BY <1>1
        <4> QED
          BY <4>1, <4>2, <4>3
      <3> QED
        BY <1>2, <3>2, <3>3 DEF One
    <2> QED
      BY <2>1, <2>2, <2>3 DEF Spares
  <1>7. ASSUME NEW k, Scope(q[1].cb) = k, One(q, k)
        PROVE  None(r, k)
    <2>1. PICK i \in 1..n : \A j \in 1..n : Scope(q[j].cb) = k <=> j = i
      BY <1>7 DEF One, n
    <2>2. 1 \in 1..n
      BY <1>1
    <2>3. i = 1
      BY <1>7, <2>1, <2>2
    <2>4. \A j \in 1..(n - 1) : Scope(r[j].cb) # k
      BY <1>2, <1>3, <2>1, <2>3
    <2> QED
      BY <1>2, <2>4 DEF None
  <1> QED
    BY <1>1, <1>2, <1>5, <1>6, <1>7 DEF r

-----------------------------------------------------------------------------
(***************************************************************************)
(* The invariant.  While the runtime is reset its callbacks are in the     *)
(* frame of reset and no longer in the queue.  A timer is in one of the    *)
(* two; the beacon timer is there unless a packet is being passed down.    *)
(***************************************************************************)
Frame ==
  [f : {"trigger", "pass_down", "indicate"}] \cup [f : {"position"}, pai : BOOLEAN]
    \cup [f : {"reset"}, rest : Seq(Event)]
Single == {{}} \cup {{at} : at \in Int}
State == [now : 0..MaxClock, queue : Seq(Event), armed : Single, flow : BOOLEAN, stack : Seq(Frame)]

Split(q, l, k) == (One(q, k) /\ None(l, k)) \/ (None(q, k) /\ One(l, k))
Free(q, l, k) == None(q, k) /\ None(l, k)
Timers(q, l) ==
  /\ Split(q, l, "none")
  /\ IF CamInterval = 0 THEN Free(q, l, "application") ELSE Split(q, l, "application")
Beacon(q, l, sending) ==
  /\ None(q, "router") \/ One(q, "router")
  /\ Beaconing /\ None(q, "router") => sending \/ ~None(l, "router")

RestOf(st) == IF st # <<>> /\ st[1].f = "reset" THEN st[1].rest ELSE <<>>
HasFrame(st, f) == \E i \in 1..Len(st) : st[i].f = f

RunInv ==
  /\ clock \in 0..MaxClock /\ requests \in 0..MaxRequests
  /\ rt \in [now : 0..MaxClock, queue : Seq(Event), armed : Single, flow : BOOLEAN]
  /\ rt.now <= clock /\ Sorted(rt.queue)
  /\ stack \in [Threads -> Seq(Frame)]
  /\ \A t \in Threads : \A i \in 1..Len(stack[t]) : stack[t][i].f = "reset" => t = Io /\ i = 1 /\ Resets
  /\ Timers(rt.queue, RestOf(stack[Io]))
  /\ Beacon(rt.queue, RestOf(stack[Io]), \E u \in Threads : HasFrame(stack[u], "pass_down"))

(***************************************************************************)
(* The same of the state s that the methods of the runtime work on, in     *)
(* thread t.  Base is what each of them keeps; Timers and Beacon hold      *)
(* again when the callback is through.                                     *)
(***************************************************************************)
Base(t, s) ==
  /\ s \in State /\ s.now <= clock /\ Sorted(s.queue)
  /\ \A i \in 1..Len(s.stack) : s.stack[i].f = "reset" => t = Io /\ i = 1 /\ Resets
Left(t, s) == RestOf(IF t = Io THEN s.stack ELSE stack[Io])
Calls(t, s, f) == HasFrame(s.stack, f) \/ \E u \in Threads \ {t} : HasFrame(stack[u], f)
Good(t, s) ==
  /\ Base(t, s)
  /\ Timers(s.queue, Left(t, s))
  /\ Beacon(s.queue, Left(t, s), Calls(t, s, "pass_down"))

\* r has the queue of s, and calls under way end only when they are popped.
Keeps(t, r, s) ==
  /\ Base(t, r) /\ r.queue = s.queue /\ r.armed = s.armed /\ s.now <= r.now
  /\ Left(t, r) = Left(t, s)
  /\ \A f : Calls(t, s, f) => Calls(t, r, f)

LEMMA GoodBefore ==
  ASSUME RunInv, NEW t \in Threads
  PROVE  /\ Good(t, WithStack(t)) /\ WithStack(t).queue = rt.queue /\ WithStack(t).stack = stack[t]
         /\ WithStack(t).now = rt.now /\ WithStack(t).flow = rt.flow /\ WithStack(t).armed = rt.armed
         /\ Left(t, WithStack(t)) = RestOf(stack[Io])
         /\ \A f : Calls(t, WithStack(t), f) <=> \E u \in Threads : HasFrame(stack[u], f)
  <1> DEFINE s == WithStack(t)
  <1>1. /\ s.queue = rt.queue /\ s.stack = stack[t] /\ s.now = rt.now /\ s.flow = rt.flow
        /\ s.armed = rt.armed
    BY DEF WithStack
  <1>2. s \in State
    BY DEF WithStack, State, RunInv
  <1> HIDE DEF s
  <1>3. Base(t, s)
    BY <1>1, <1>2 DEF Base, RunInv
  <1>4. Left(t, s) = RestOf(stack[Io])
    BY <1>1 DEF Left
  <1>5. \A f : Calls(t, s, f) <=> \E u \in Threads : HasFrame(stack[u], f)
    BY <1>1 DEF Calls
  <1>6. Timers(s.queue, Left(t, s)) /\ Beacon(s.queue, Left(t, s), Calls(t, s, "pass_down"))
    BY <1>1, <1>4, <1>5 DEF RunInv, Beacon
  <1> QED
    BY <1>1, <1>3, <1>4, <1>5, <1>6 DEF Good, s

LEMMA GoodAfter ==
  ASSUME RunInv, RuntimeAssumption, NEW t \in Threads, NEW s, Good(t, s), Becomes(t, s), clock' = clock,
         requests' \in 0..MaxRequests
  PROVE  RunInv'
  <1>1. /\ rt' = [now |-> s.now, queue |-> s.queue, armed |-> s.armed, flow |-> s.flow]
        /\ stack' = [stack EXCEPT ![t] = s.stack]
    BY DEF Becomes
  <1>2. /\ s.now \in 0..MaxClock /\ s.queue \in Seq(Event) /\ s.armed \in Single /\ s.flow \in BOOLEAN
        /\ s.stack \in Seq(Frame) /\ s.now <= clock /\ Sorted(s.queue)
        /\ \A i \in 1..Len(s.stack) : s.stack[i].f = "reset" => t = Io /\ i = 1 /\ Resets
    BY DEF Good, Base, State
  <1>3. stack \in [Threads -> Seq(Frame)] /\ clock \in 0..MaxClock /\ Io \in Threads
    BY DEF RunInv, RuntimeAssumption
  <1>4. /\ rt' \in [now : 0..MaxClock, queue : Seq(Event), armed : Single, flow : BOOLEAN]
        /\ rt'.now = s.now /\ rt'.queue = s.queue
    BY <1>1, <1>2
  <1>5. /\ stack' \in [Threads -> Seq(Frame)] /\ stack'[t] = s.stack
        /\ \A u \in Threads \ {t} : stack'[u] = stack[u]
    BY <1>1, <1>2, <1>3
  <1>6. \A u \in Threads : \A i \in 1..Len(stack'[u]) : stack'[u][i].f = "reset" => u = Io /\ i = 1 /\ Resets
    BY <1>2, <1>5 DEF RunInv
  <1>7. RestOf(stack'[Io]) = Left(t, s)
    BY <1>3, <1>5 DEF Left
  <1>8. (\E u \in Threads : HasFrame(stack'[u], "pass_down")) <=> Calls(t, s, "pass_down")
    BY <1>5 DEF Calls
  <1>9. /\ Timers(rt'.queue, RestOf(stack'[Io]))
        /\ Beacon(rt'.queue, RestOf(stack'[Io]), \E u \in Threads : HasFrame(stack'[u], "pass_down"))
    BY <1>4, <1>7, <1>8 DEF Good, Beacon
  <1> QED
    BY <1>2, <1>3, <1>4, <1>5, <1>6, <1>9 DEF RunInv

(***************************************************************************)
(* Calls that begin and end: the queue stays as it is, and nothing that is *)
(* called is a reset.                                                      *)
(***************************************************************************)
LEMMA RestLonger ==
  ASSUME NEW st \in Seq(Frame), NEW frame \in Frame, frame.f # "reset"
  PROVE  RestOf(Append(st, frame)) = RestOf(st)
  <1>1. CASE st = <<>>
    <2>1. Append(st, frame)[1] = frame
      BY <1>1
    <2> QED
      BY <1>1, <2>1 DEF RestOf
  <1>2. CASE st # <<>>
    <2>1. Append(st, frame)[1] = st[1] /\ Append(st, frame) # <<>>
      BY <1>2
    <2> QED
      BY <1>2, <2>1 DEF RestOf
  <1> QED
    BY <1>1, <1>2

LEMMA PushIs ==
  ASSUME NEW t, NEW s, Base(t, s), NEW frame \in Frame, frame.f # "reset"
  PROVE  /\ Keeps(t, Push(s, frame), s) /\ Calls(t, Push(s, frame), frame.f)
         /\ Push(s, frame).flow = s.flow /\ Push(s, frame).now = s.now
  <1> DEFINE r == Push(s, frame)
             st == Append(s.stack, frame)
             n == Len(s.stack)
  <1>1. s \in State /\ s.stack \in Seq(Frame) /\ n \in Nat
    BY DEF Base, State
  <1>2. /\ st \in Seq(Frame) /\ Len(st) = n + 1 /\ st[n + 1] = frame
        /\ \A i \in 1..n : st[i] = s.stack[i]
    BY <1>1, AppendProperties
  <1>3. /\ r \in State /\ r.stack = st /\ r.queue = s.queue /\ r.now = s.now /\ r.armed = s.armed /\ r.flow = s.flow
    <2>1. r = [s EXCEPT !.stack = st]
      BY DEF Push
    <2> HIDE DEF st, r
    <2> QED
      BY <1>1, <1>2, <2>1 DEF State
  <1> HIDE DEF r, st, n
  <1>4. \A i \in 1..(n + 1) : i = n + 1 \/ i \in 1..n
    BY <1>1
  <1>5. Base(t, r)
    <2>1. \A i \in 1..Len(st) : st[i].f = "reset" => t = Io /\ i = 1 /\ Resets
      BY <1>2, <1>4 DEF Base, n
    <2> QED
      BY <1>3, <2>1 DEF Base
  <1>6. \A f : HasFrame(s.stack, f) => HasFrame(st, f)
    <2>1. \A i \in 1..n : i \in 1..(n + 1)
      BY <1>1
    <2> QED
      BY <1>2, <2>1 DEF HasFrame, n
  <1>7. HasFrame(st, frame.f)
    <2>1. n + 1 \in 1..(n + 1)
      BY <1>1
    <2> QED
      BY <1>2, <2>1 DEF HasFrame
  <1>8. RestOf(st) = RestOf(s.stack)
    BY <1>1, RestLonger DEF st
  <1>9. Left(t, r) = Left(t, s)
    BY <1>3, <1>8 DEF Left
  <1>10. (\A f : Calls(t, s, f) => Calls(t, r, f)) /\ Calls(t, r, frame.f)
    BY <1>3, <1>6, <1>7 DEF Calls
  <1>11. s.now <= r.now
    <2>1. s.now \in Int
      BY <1>1 DEF State
    <2> QED
      BY <1>3, <2>1
  <1> QED
    BY <1>3, <1>5, <1>9, <1>10, <1>11 DEF Keeps, r

LEMMA KeepsOn ==
  ASSUME NEW t, NEW r, NEW s, NEW q, Base(t, s), Keeps(t, r, s), Keeps(t, q, r)
  PROVE  Keeps(t, q, s)
  <1>1. s.now \in Int /\ r.now \in Int /\ q.now \in Int
    BY DEF Keeps, Base, State
  <1>2. s.now <= q.now
    BY <1>1 DEF Keeps
  <1> QED
    BY <1>2 DEF Keeps

\* The clock is read before the first callback.
LEMMA TriggeredIs ==
  ASSUME NEW t, NEW s, Base(t, s), clock \in 0..MaxClock
  PROVE  /\ Keeps(t, Triggered(s), s) /\ Calls(t, Triggered(s), "trigger")
         /\ Triggered(s).flow = s.flow
  <1> DEFINE r == [s EXCEPT !.now = clock]
             frame == [f |-> "trigger"]
  <1>1. /\ r \in State /\ r.now = clock /\ r.queue = s.queue /\ r.stack = s.stack /\ r.armed = s.armed /\ r.flow = s.flow
    BY DEF Base, State
  <1>2. frame \in Frame /\ frame.f = "trigger"
    BY DEF Frame
  <1>3. Triggered(s) = Push(r, frame)
    BY DEF Triggered
  <1> HIDE DEF r, frame
  <1>4. s.now <= clock /\ clock <= clock
    BY DEF Base
  <1>5. Base(t, r) /\ Keeps(t, r, s)
    <2>1. Base(t, r)
      BY <1>1, <1>4 DEF Base
    <2>2. Left(t, r) = Left(t, s) /\ \A f : Calls(t, s, f) => Calls(t, r, f)
      BY <1>1 DEF Left, Calls
    <2> QED
      BY <1>1, <1>4, <2>1, <2>2 DEF Keeps
  <1>6. Keeps(t, Push(r, frame), r) /\ Calls(t, Push(r, frame), "trigger") /\ Push(r, frame).flow = r.flow
    BY <1>2, <1>5, PushIs
  <1>7. Keeps(t, Push(r, frame), s)
    BY <1>5, <1>6, KeepsOn
  <1> QED
    BY <1>1, <1>3, <1>6, <1>7

LEMMA PassDownIs ==
  ASSUME NEW t, NEW s, Base(t, s), clock \in 0..MaxClock
  PROVE  /\ Keeps(t, pass_down(s), s) /\ Calls(t, pass_down(s), "pass_down")
         /\ pass_down(s).flow = s.flow
         /\ s.flow => Calls(t, pass_down(s), "trigger")
  <1> DEFINE frame == [f |-> "pass_down"]
             sending == Push(s, frame)
  <1>1. frame \in Frame /\ frame.f = "pass_down"
    BY DEF Frame
  <1>2. pass_down(s) = IF s.flow THEN Triggered(sending) ELSE sending
    BY DEF pass_down
  <1> HIDE DEF frame
  <1>3. Keeps(t, sending, s) /\ Calls(t, sending, "pass_down") /\ sending.flow = s.flow
    BY <1>1, PushIs
  <1> HIDE DEF sending
  <1>4. Base(t, sending)
    BY <1>3 DEF Keeps
  <1>5. Keeps(t, Triggered(sending), sending) /\ Calls(t, Triggered(sending), "trigger") /\ Triggered(sending).flow = sending.flow
    BY <1>4, TriggeredIs
  <1>6. Keeps(t, Triggered(sending), s) /\ Calls(t, Triggered(sending), "pass_down")
    <2>1. Keeps(t, Triggered(sending), s)
      BY <1>3, <1>5, KeepsOn
    <2> QED
      BY <1>3, <1>5, <2>1 DEF Keeps
  <1> QED
    BY <1>2, <1>3, <1>5, <1>6

(***************************************************************************)
(* The last call ends.                                                     *)
(***************************************************************************)
LEMMA PopIs ==
  ASSUME NEW t, NEW s, Base(t, s), s.stack # <<>>, Last(s.stack).f # "reset"
  PROVE  /\ Base(t, Pop(s)) /\ Pop(s).queue = s.queue /\ Pop(s).now = s.now /\ Pop(s).flow = s.flow
         /\ Pop(s).armed = s.armed /\ Left(t, Pop(s)) = Left(t, s)
         /\ \A f : f # Last(s.stack).f /\ Calls(t, s, f) => Calls(t, Pop(s), f)
         /\ \A f : Calls(t, Pop(s), f) => Calls(t, s, f)
  <1> DEFINE n == Len(s.stack)
             st == Front(s.stack)
             r == Pop(s)
  <1>1. s \in State /\ s.stack \in Seq(Frame) /\ n \in Nat /\ n >= 1
    BY DEF Base, State
  <1>2. Last(s.stack) = s.stack[n]
    BY DEF Last
  <1>3. st \in Seq(Frame) /\ Len(st) = n - 1 /\ \A i \in 1..(n - 1) : st[i] = s.stack[i]
    <2>1. st = SubSeq(s.stack, 1, n - 1)
      BY DEF Front
    <2>2. \A i \in 1..(n - 1) : s.stack[i] \in Frame
      BY <1>1
    <2>3. /\ SubSeq(s.stack, 1, n - 1) \in Seq(Frame)
          /\ Len(SubSeq(s.stack, 1, n - 1)) = IF 1 <= n - 1 THEN n - 1 - 1 + 1 ELSE 0
          /\ \A i \in 1..(n - 1 - 1 + 1) : SubSeq(s.stack, 1, n - 1)[i] = s.stack[1 + i - 1]
      <3>1. n - 1 \in Int /\ 1 \in Int
        BY <1>1
      <3> HIDE DEF n
      <3> QED
        BY <1>1, <2>2, <3>1, SubSeqProperties
    <2> HIDE DEF n, st
    <2>4. n - 1 - 1 + 1 = n - 1 /\ (~(1 <= n - 1) => n - 1 = 0) /\ \A i \in 1..(n - 1) : 1 + i - 1 = i
      BY <1>1
    <2> QED
      BY <2>1, <2>3, <2>4
  <1>4. r \in State /\ r.stack = st /\ r.queue = s.queue /\ r.now = s.now /\ r.armed = s.armed /\ r.flow = s.flow
    BY <1>1, <1>3 DEF Pop, State
  <1> HIDE DEF n, st, r
  <1>5. \A i \in 1..n : i = n \/ i \in 1..(n - 1)
    BY <1>1
  <1>6. \A i \in 1..(n - 1) : i \in 1..n
    BY <1>1
  <1>7. Base(t, r)
    <2>1. \A i \in 1..Len(st) : st[i].f = "reset" => t = Io /\ i = 1 /\ Resets
      BY <1>3, <1>6 DEF Base, n
    <2> QED
      BY <1>4, <2>1 DEF Base
  <1>8. RestOf(st) = RestOf(s.stack)
    <2>1. CASE n = 1
      <3>1. Len(st) = 0 /\ st = <<>>
        BY <1>3, <2>1
      <3>2. s.stack[1].f # "reset"
        BY <1>2, <2>1
      <3> QED
        BY <3>1, <3>2 DEF RestOf
    <2>2. CASE n # 1
      <3>1. 1 \in 1..(n - 1) /\ Len(st) # 0
        BY <1>1, <1>3, <2>2
      <3>2. st # <<>> /\ st[1] = s.stack[1]
        BY <1>3, <3>1
      <3> QED
        BY <3>2 DEF RestOf
    <2> QED
      BY <2>1, <2>2
  <1>9. Left(t, r) = Left(t, s)
    BY <1>4, <1>8 DEF Left
  <1>10. \A f : HasFrame(st, f) => HasFrame(s.stack, f)
    BY <1>3, <1>6 DEF HasFrame, n
  <1>11. \A f : f # Last(s.stack).f /\ HasFrame(s.stack, f) => HasFrame(st, f)
    BY <1>2, <1>3, <1>5 DEF HasFrame, n
  <1> QED
    BY <1>4, <1>7, <1>9, <1>10, <1>11 DEF Calls, r

(***************************************************************************)
(* Scheduling and cancelling.                                              *)
(***************************************************************************)
Same(t, r, s) ==
  /\ Base(t, r) /\ r.now = s.now /\ r.flow = s.flow /\ r.armed = s.armed
  /\ r.stack = s.stack /\ Left(t, r) = Left(t, s)
  /\ \A f : Calls(t, r, f) <=> Calls(t, s, f)
Scheduled(r, q, k) ==
  /\ Len(r) = Len(q) + 1
  /\ None(q, k) => One(r, k)
  /\ \A x : x # k => Spares(r, q, x)
Cancelled(r, q, k) == None(r, k) /\ \A x : x # k => Spares(r, q, x)

LEMMA ScheduleIs ==
  ASSUME NEW V, V \subseteq Event, NEW t, NEW s, Base(t, s), s.queue \in Seq(V), NEW d, NEW cb,
         [at |-> s.now + d, cb |-> cb] \in V, NEW r, r = schedule(s, d, cb)
  PROVE  Same(t, r, s) /\ r.queue \in Seq(V) /\ Scheduled(r.queue, s.queue, Scope(cb))
  <1> DEFINE e == [at |-> s.now + d, cb |-> cb]
             q == Insert(s.queue, e)
  <1>1. s \in State /\ Sorted(s.queue)
    BY DEF Base
  <1>2. r = [s EXCEPT !.queue = q]
    BY DEF schedule
  <1>3. e.cb = cb /\ e \in V
    OBVIOUS
  <1> HIDE DEF e
  <1>4. /\ q \in Seq(V) /\ Sorted(q) /\ Len(q) = Len(s.queue) + 1
        /\ \A k : Scope(e.cb) # k => Spares(q, s.queue, k)
        /\ \A k : Scope(e.cb) = k /\ None(s.queue, k) => One(q, k)
    BY <1>1, <1>3, InsertIs
  <1> HIDE DEF q
  <1>5. q \in Seq(Event)
    BY <1>4, SeqMonotonic
  <1>6. r \in State /\ r.queue = q /\ r.now = s.now /\ r.flow = s.flow /\ r.armed = s.armed /\ r.stack = s.stack
    BY <1>1, <1>2, <1>5 DEF State
  <1>7. Base(t, r)
    BY <1>4, <1>6 DEF Base
  <1>8. Left(t, r) = Left(t, s) /\ \A f : Calls(t, r, f) <=> Calls(t, s, f)
    BY <1>6 DEF Left, Calls
  <1> QED
    BY <1>3, <1>4, <1>6, <1>7, <1>8 DEF Same, Scheduled

LEMMA CancelledIs ==
  ASSUME NEW V, V \subseteq Event, NEW t, NEW s, Base(t, s), s.queue \in Seq(V), NEW k0, NEW r, r = cancel(s, k0)
  PROVE  Same(t, r, s) /\ r.queue \in Seq(V) /\ Cancelled(r.queue, s.queue, k0)
  <1> DEFINE q == Kept(s.queue, {x \in ToSet(s.queue) : Scope(x.cb) # k0})
  <1>1. s \in State /\ Sorted(s.queue)
    BY DEF Base
  <1>2. r = [s EXCEPT !.queue = q]
    BY DEF cancel
  <1>3. q \in Seq(V) /\ Sorted(q) /\ None(q, k0) /\ \A k : k # k0 => Spares(q, s.queue, k)
    <2>1. q = Without(s.queue, k0)
      BY DEF Without
    <2> HIDE DEF q
    <2> QED
      BY <1>1, <2>1, CancelIs
  <1> HIDE DEF q
  <1>4. q \in Seq(Event)
    BY <1>3, SeqMonotonic
  <1>5. r \in State /\ r.queue = q /\ r.now = s.now /\ r.flow = s.flow /\ r.armed = s.armed /\ r.stack = s.stack
    BY <1>1, <1>2, <1>4 DEF State
  <1>6. Base(t, r)
    BY <1>3, <1>5 DEF Base
  <1>7. Left(t, r) = Left(t, s) /\ \A f : Calls(t, r, f) <=> Calls(t, s, f)
    BY <1>5 DEF Left, Calls
  <1> QED
    BY <1>3, <1>5, <1>6, <1>7 DEF Same, Cancelled

-----------------------------------------------------------------------------
(***************************************************************************)
(* A callback is taken: off the queue, or out of the frame of reset.       *)
(***************************************************************************)
OneLess(r, m, q, l, e) ==
  \/ q # <<>> /\ e = Head(q) /\ r = Tail(q) /\ m = l
  \/ l # <<>> /\ e = Head(l) /\ m = Tail(l) /\ r = q

LEMMA OneLessIs ==
  ASSUME NEW q \in Seq(Event), NEW l \in Seq(Event), NEW r, NEW m, NEW e, OneLess(r, m, q, l, e)
  PROVE  /\ e \in Event
         /\ \A k : Scope(e.cb) = k /\ Split(q, l, k) => Free(r, m, k)
         /\ \A k : Scope(e.cb) # k /\ Split(q, l, k) => Split(r, m, k)
         /\ \A k : Free(q, l, k) => Free(r, m, k) /\ Scope(e.cb) # k
         /\ \A k : None(q, k) \/ One(q, k) => None(r, k) \/ One(r, k)
         /\ \A k : Scope(e.cb) # k => (~None(q, k) => ~None(r, k)) /\ (~None(l, k) => ~None(m, k))
  <1>0. \A x : x \in Seq(Event) /\ x # <<>> => \A k : None(x, k) => Scope(Head(x).cb) # k
    <2> SUFFICES ASSUME NEW x \in Seq(Event), x # <<>>, NEW k, None(x, k)
                 PROVE  Scope(Head(x).cb) # k
      OBVIOUS
    <2>1. 1 \in 1..Len(x) /\ Head(x) = x[1]
      BY HeadTailProperties
    <2> QED
      BY <2>1 DEF None
  <1>1. CASE q # <<>> /\ e = Head(q) /\ r = Tail(q) /\ m = l
    <2>1. /\ Head(q) \in Event
          /\ \A k : Scope(Head(q).cb) # k => Spares(Tail(q), q, k) /\ (~None(q, k) => ~None(Tail(q), k))
          /\ \A k : Scope(Head(q).cb) = k /\ One(q, k) => None(Tail(q), k)
      BY <1>1, TailIs
    <2>2. \A k : None(q, k) => Scope(Head(q).cb) # k
      BY <1>0, <1>1
    <2> QED
      BY <1>1, <2>1, <2>2, Zenon DEF Spares, Split, Free
  <1>2. CASE l # <<>> /\ e = Head(l) /\ m = Tail(l) /\ r = q
    <2>1. /\ Head(l) \in Event
          /\ \A k : Scope(Head(l).cb) # k => Spares(Tail(l), l, k) /\ (~None(l, k) => ~None(Tail(l), k))
          /\ \A k : Scope(Head(l).cb) = k /\ One(l, k) => None(Tail(l), k)
      BY <1>2, TailIs
    <2>2. \A k : None(l, k) => Scope(Head(l).cb) # k
      BY <1>0, <1>2
    <2> QED
      BY <1>2, <2>1, <2>2, Zenon DEF Spares, Split, Free
  <1> QED
    BY <1>1, <1>2 DEF OneLess

LEMMA TakenLists ==
  ASSUME RunInv, RuntimeAssumption, NEW t \in Threads, NEW e \in Callbacks(t)
  PROVE  /\ Base(t, Taken(t)) /\ RestOf(stack[Io]) \in Seq(Event)
         /\ OneLess(Taken(t).queue, Left(t, Taken(t)), rt.queue, RestOf(stack[Io]), e)
         /\ Taken(t).now = rt.now /\ Taken(t).flow = rt.flow /\ Taken(t).armed = rt.armed
         /\ \A f : Calls(t, Taken(t), f) <=> Calls(t, WithStack(t), f)
         /\ In(t, "trigger") \/ In(t, "reset")
  <1> DEFINE s == WithStack(t)
             u == Taken(t)
             n == Len(stack[t])
  <1>1. /\ Base(t, s) /\ s.queue = rt.queue /\ s.stack = stack[t] /\ s.now = rt.now /\ s.flow = rt.flow
        /\ s.armed = rt.armed /\ Left(t, s) = RestOf(stack[Io])
    BY GoodBefore DEF Good
  <1>2. s \in State
    BY <1>1 DEF Base
  <1>3. RestOf(stack[Io]) \in Seq(Event)
    <2>1. stack[Io] \in Seq(Frame)
      BY DEF RunInv, RuntimeAssumption
    <2>2. CASE stack[Io] # <<>> /\ stack[Io][1].f = "reset"
      <3>1. stack[Io][1] \in Frame
        BY <2>1, <2>2
      <3>2. stack[Io][1].rest \in Seq(Event)
        BY <2>2, <3>1 DEF Frame
      <3> QED
        BY <2>2, <3>2 DEF RestOf
    <2>3. CASE ~(stack[Io] # <<>> /\ stack[Io][1].f = "reset")
      BY <2>3 DEF RestOf
    <2> QED
      BY <2>2, <2>3
  <1>4. CASE In(t, "trigger")
    <2>1. rt.queue # <<>> /\ e = Head(rt.queue)
      BY <1>4 DEF Callbacks, In
    <2>2. u = [s EXCEPT !.queue = Tail(s.queue)]
      BY <1>4 DEF Taken
    <2>3. rt.queue \in Seq(Event) /\ Sorted(rt.queue)
      BY DEF RunInv
    <2>4. Tail(rt.queue) \in Seq(Event) /\ Sorted(Tail(rt.queue))
      BY <2>1, <2>3, TailIs
    <2> HIDE DEF s, u
    <2>5. /\ u \in State /\ u.queue = Tail(rt.queue) /\ u.now = rt.now /\ u.flow = rt.flow /\ u.armed = rt.armed
          /\ u.stack = s.stack
      BY <1>1, <1>2, <2>2, <2>4 DEF State
    <2>6. Base(t, u)
      BY <1>1, <2>4, <2>5 DEF Base
    <2>7. Left(t, u) = Left(t, s) /\ \A f : Calls(t, u, f) <=> Calls(t, s, f)
      BY <2>5 DEF Left, Calls
    <2>8. OneLess(u.queue, Left(t, u), rt.queue, RestOf(stack[Io]), e)
      BY <1>1, <2>1, <2>5, <2>7 DEF OneLess
    <2> QED
      BY <1>3, <1>4, <2>5, <2>6, <2>7, <2>8 DEF s, u
  <1>5. CASE ~In(t, "trigger")
    <2>1. In(t, "reset") /\ Last(stack[t]).rest # <<>> /\ e = Head(Last(stack[t]).rest)
      BY <1>5 DEF Callbacks
    <2>2. stack[t] \in Seq(Frame) /\ stack[t] # <<>> /\ n \in Nat /\ n >= 1
      BY <2>1 DEF RunInv, In
    <2>3. Last(stack[t]) = stack[t][n] /\ stack[t][n].f = "reset"
      BY <2>1 DEF In, Last
    <2>4. t = Io /\ n = 1 /\ Resets
      <3>1. n \in 1..Len(stack[t])
        BY <2>2
      <3>2. \A i \in 1..Len(stack[t]) : stack[t][i].f = "reset" => t = Io /\ i = 1 /\ Resets
        BY DEF RunInv
      <3> HIDE DEF n
      <3> QED
        BY <2>3, <3>1, <3>2
    <2> DEFINE l == stack[t][1].rest
               frame == [stack[t][1] EXCEPT !.rest = Tail(l)]
               st == [stack[t] EXCEPT ![1] = frame]
    <2>5. RestOf(stack[Io]) = l /\ l # <<>> /\ e = Head(l) /\ l \in Seq(Event)
      BY <1>3, <2>1, <2>2, <2>3, <2>4 DEF RestOf
    <2>6. u = [s EXCEPT !.stack = st]
      BY <1>1, <1>5, <2>4 DEF Taken, WithStack
    <2>7. frame \in Frame /\ frame.f = "reset" /\ frame.rest = Tail(l)
      <3>1. stack[t][1] \in Frame /\ stack[t][1].f = "reset"
        BY <2>2, <2>3, <2>4
      <3>2. stack[t][1] \in [f : {"reset"}, rest : Seq(Event)]
        BY <3>1 DEF Frame
      <3>3. Tail(l) \in Seq(Event)
        BY <2>5, HeadTailProperties
      <3> HIDE DEF l
      <3>4. frame \in [f : {"reset"}, rest : Seq(Event)] /\ frame.f = "reset" /\ frame.rest = Tail(l)
        BY <3>2, <3>3
      <3> QED
        BY <3>4 DEF Frame
    <2> HIDE DEF frame, l
    <2>8. st \in Seq(Frame) /\ Len(st) = n /\ st[1] = frame /\ \A i \in 1..n : i = 1
      BY <2>2, <2>4, <2>7
    <2> HIDE DEF st, s, u
    <2>9. /\ u \in State /\ u.queue = rt.queue /\ u.now = rt.now /\ u.flow = rt.flow /\ u.armed = rt.armed
          /\ u.stack = st
      BY <1>1, <1>2, <2>6, <2>8 DEF State
    <2>10. Base(t, u)
      <3>1. \A i \in 1..Len(u.stack) : u.stack[i].f = "reset" => t = Io /\ i = 1 /\ Resets
        BY <2>4, <2>8, <2>9
      <3> QED
        BY <1>1, <2>9, <3>1 DEF Base
    <2>11. Left(t, u) = Tail(l)
      <3>1. st # <<>>
        BY <2>2, <2>4, <2>8
      <3> QED
        BY <2>4, <2>7, <2>8, <2>9, <3>1 DEF Left, RestOf
    <2>12. \A f : HasFrame(st, f) <=> HasFrame(stack[t], f)
      BY <2>3, <2>4, <2>7, <2>8 DEF HasFrame
    <2>13. \A f : Calls(t, u, f) <=> Calls(t, s, f)
      BY <1>1, <2>9, <2>12 DEF Calls
    <2>14. OneLess(u.queue, Left(t, u), rt.queue, RestOf(stack[Io]), e)
      BY <2>5, <2>9, <2>11 DEF OneLess
    <2> QED
      BY <1>3, <2>1, <2>9, <2>10, <2>13, <2>14 DEF s, u
  <1> QED
    BY <1>4, <1>5

(***************************************************************************)
(* The timer of the scope k0 is missing in s, and no other.                *)
(***************************************************************************)
Missing(t, s, k0) ==
  /\ Base(t, s)
  /\ IF k0 = "none" THEN Free(s.queue, Left(t, s), "none") ELSE Split(s.queue, Left(t, s), "none")
  /\ IF CamInterval = 0 \/ k0 = "application" THEN Free(s.queue, Left(t, s), "application")
     ELSE Split(s.queue, Left(t, s), "application")
  /\ None(s.queue, "router") \/ One(s.queue, "router")
  /\ k0 # "router" /\ Beaconing /\ None(s.queue, "router")
       => Calls(t, s, "pass_down") \/ ~None(Left(t, s), "router")

LEMMA TakenIs ==
  ASSUME RunInv, RuntimeAssumption, NEW t \in Threads, NEW e \in Callbacks(t)
  PROVE  /\ Missing(t, Taken(t), Scope(e.cb)) /\ e \in Event
         /\ Scope(e.cb) = "application" => CamInterval # 0
  <1> DEFINE u == Taken(t)
             q == rt.queue
             l == RestOf(stack[Io])
             m == Left(t, u)
  <1>1. /\ Base(t, u) /\ l \in Seq(Event) /\ OneLess(u.queue, m, q, l, e)
        /\ \A f : Calls(t, u, f) <=> Calls(t, WithStack(t), f)
    BY TakenLists
  <1>2. Timers(q, l) /\ Beacon(q, l, Calls(t, WithStack(t), "pass_down")) /\ q \in Seq(Event)
    BY GoodBefore DEF RunInv, Beacon
  <1> HIDE DEF u, q, l, m
  <1>3. /\ e \in Event
        /\ \A k : Scope(e.cb) = k /\ Split(q, l, k) => Free(u.queue, m, k)
        /\ \A k : Scope(e.cb) # k /\ Split(q, l, k) => Split(u.queue, m, k)
        /\ \A k : Free(q, l, k) => Free(u.queue, m, k) /\ Scope(e.cb) # k
        /\ \A k : None(q, k) \/ One(q, k) => None(u.queue, k) \/ One(u.queue, k)
        /\ \A k : Scope(e.cb) # k => (~None(q, k) => ~None(u.queue, k)) /\ (~None(l, k) => ~None(m, k))
    BY <1>1, <1>2, OneLessIs
  <1>4. IF Scope(e.cb) = "none" THEN Free(u.queue, m, "none") ELSE Split(u.queue, m, "none")
    BY <1>2, <1>3 DEF Timers
  <1>5. /\ Scope(e.cb) = "application" => CamInterval # 0
        /\ IF CamInterval = 0 \/ Scope(e.cb) = "application" THEN Free(u.queue, m, "application")
           ELSE Split(u.queue, m, "application")
    BY <1>2, <1>3 DEF Timers
  <1>6. None(u.queue, "router") \/ One(u.queue, "router")
    BY <1>2, <1>3 DEF Beacon
  <1>7. Scope(e.cb) # "router" /\ Beaconing /\ None(u.queue, "router")
          => Calls(t, u, "pass_down") \/ ~None(m, "router")
    BY <1>1, <1>2, <1>3 DEF Beacon
  <1> QED
    BY <1>1, <1>3, <1>4, <1>5, <1>6, <1>7 DEF Missing, u, m

\* A state in which nothing is missing, and what brings it about.
LEMMA GoodIs ==
  ASSUME NEW t, NEW s
  PROVE  Good(t, s) <=> Missing(t, s, "repeater")
  BY DEF Good, Missing, Timers, Beacon

LEMMA MissingKept ==
  ASSUME NEW t, NEW s, NEW r, NEW k, Missing(t, s, k), Keeps(t, r, s)
  PROVE  Missing(t, r, k)
  BY DEF Missing, Keeps

LEMMA BeaconSent ==
  ASSUME NEW t, NEW s, Missing(t, s, "router"), ~Beaconing \/ Calls(t, s, "pass_down")
  PROVE  Good(t, s)
  BY DEF Good, Missing, Timers, Beacon

LEMMA MissingScheduled ==
  ASSUME NEW t, NEW s, NEW k \in {"none", "application", "repeater"}, Missing(t, s, k), NEW d, NEW cb,
         k = "application" => CamInterval # 0,
         [at |-> s.now + d, cb |-> cb] \in Event, Scope(cb) = k
  PROVE  Missing(t, schedule(s, d, cb), "repeater")
  <1> DEFINE r == schedule(s, d, cb)
             m == Left(t, s)
  <1>1. Base(t, s) /\ s.queue \in Seq(Event)
    BY DEF Missing, Base, State
  <1>2. /\ Base(t, r) /\ Left(t, r) = m
        /\ \A f : Calls(t, r, f) <=> Calls(t, s, f)
        /\ \A x : x # k => Spares(r.queue, s.queue, x)
        /\ None(s.queue, k) => One(r.queue, k)
    <2>1. Event \subseteq Event /\ r = schedule(s, d, cb)
      OBVIOUS
    <2> HIDE DEF r
    <2>2. Same(t, r, s) /\ Scheduled(r.queue, s.queue, k)
      BY <1>1, <2>1, ScheduleIs
    <2> QED
      BY <2>2 DEF Same, Scheduled
  <1>3. ~None(s.queue, "router") => ~None(r.queue, "router")
    <2>1. CASE One(s.queue, "router")
      <3>1. One(r.queue, "router")
        BY <1>2, <2>1 DEF Spares
      <3> QED
        BY <3>1 DEF One, None
    <2> QED
      BY <2>1 DEF Missing
  <1> HIDE DEF r, m
  <1>4. Split(r.queue, m, "none")
    <2>1. CASE k = "none"
      BY <1>2, <2>1 DEF Missing, Split, Free, m
    <2>2. CASE k # "none"
      BY <1>2, <2>2 DEF Missing, Split, Spares, m
    <2> QED
      BY <2>1, <2>2
  <1>5. IF CamInterval = 0 THEN Free(r.queue, m, "application") ELSE Split(r.queue, m, "application")
    <2>1. CASE k = "application"
      BY <1>2, <2>1 DEF Missing, Split, Free, m
    <2>2. CASE k # "application"
      BY <1>2, <2>2 DEF Missing, Split, Free, Spares, m
    <2> QED
      BY <2>1, <2>2
  <1>6. None(r.queue, "router") \/ One(r.queue, "router")
    BY <1>2 DEF Missing, Spares
  <1>7. Beaconing /\ None(r.queue, "router") => Calls(t, r, "pass_down") \/ ~None(m, "router")
    BY <1>2, <1>3 DEF Missing, m
  <1> QED
    BY <1>2, <1>4, <1>5, <1>6, <1>7 DEF Missing, r

-----------------------------------------------------------------------------
(***************************************************************************)
(* What the router and its users do with a state s, seen from the next     *)
(* callback: time goes on and calls under way stay so.                     *)
(***************************************************************************)
Onward(t, r, s) ==
  /\ s.now <= r.now /\ r.flow = s.flow /\ r.armed = s.armed
  /\ \A f : Calls(t, s, f) => Calls(t, r, f)

LEMMA SameOnward ==
  ASSUME NEW t, NEW r, NEW s, Base(t, s), Same(t, r, s)
  PROVE  Onward(t, r, s)
  <1>1. s.now \in Int
    BY DEF Base, State
  <1>2. s.now <= r.now
    BY <1>1 DEF Same
  <1> QED
    BY <1>2 DEF Same, Onward

LEMMA OnwardOn ==
  ASSUME NEW t, NEW r, NEW s, NEW q, Base(t, s), Base(t, r), Base(t, q), Onward(t, r, s), Onward(t, q, r)
  PROVE  Onward(t, q, s)
  <1>1. s.now \in Int /\ r.now \in Int /\ q.now \in Int
    BY DEF Base, State
  <1>2. s.now <= q.now
    BY <1>1 DEF Onward
  <1> QED
    BY <1>2 DEF Onward

LEMMA KeepsOnward ==
  ASSUME NEW t, NEW r, NEW s, Keeps(t, r, s), r.flow = s.flow
  PROVE  Onward(t, r, s)
  BY DEF Keeps, Onward

\* Events of the four kinds of callbacks.
LEMMA Events ==
  ASSUME NEW at \in Int
  PROVE  /\ [at |-> at, cb |-> BeaconCb] \in Event /\ [at |-> at, cb |-> CamCb] \in Event
         /\ [at |-> at, cb |-> PositionCb] \in Event
         /\ \A r \in Repetition : at <= r.until /\ at + r.left - r.interval <= r.until
              => [at |-> at, cb |-> RepeatCb(r)] \in Event
  <1>1. BeaconCb \in Callback /\ CamCb \in Callback /\ PositionCb \in Callback
    BY DEF BeaconCb, CamCb, PositionCb, Callback
  <1>2. BeaconCb.rep = {} /\ CamCb.rep = {} /\ PositionCb.rep = {}
    BY DEF BeaconCb, CamCb, PositionCb
  <1>3. ASSUME NEW r \in Repetition
        PROVE  RepeatCb(r) \in Callback /\ RepeatCb(r).rep = {r}
    BY DEF RepeatCb, Callback
  <1>4. \A cb \in Callback : cb.rep = {} => [at |-> at, cb |-> cb] \in Event
    BY DEF Event
  <1>5. ASSUME NEW r \in Repetition, at <= r.until, at + r.left - r.interval <= r.until
        PROVE  [at |-> at, cb |-> RepeatCb(r)] \in Event
    <2> DEFINE e == [at |-> at, cb |-> RepeatCb(r)]
    <2>1. e \in [at : Int, cb : Callback] /\ e.at = at /\ e.cb.rep = {r}
      BY <1>3
    <2> HIDE DEF e
    <2>2. \A x \in e.cb.rep : e.at <= x.until /\ e.at + x.left - x.interval <= x.until
      BY <1>5, <2>1
    <2>3. e \in Event
      BY <2>1, <2>2 DEF Event
    <2> QED
      BY <2>3 DEF e
  <1> QED
    BY <1>1, <1>2, <1>4, <1>5

LEMMA Scopes ==
  /\ Scope(BeaconCb) = "router" /\ Scope(CamCb) = "application" /\ Scope(PositionCb) = "none"
  /\ \A r : Scope(RepeatCb(r)) = "repeater"
  /\ \A cb \in Callback : Scope(cb) \in {"router", "application", "none", "repeater"}
  /\ \A cb \in Callback : /\ cb.kind = "beacon" <=> Scope(cb) = "router"
                          /\ cb.kind = "cam" <=> Scope(cb) = "application"
                          /\ cb.kind = "position" <=> Scope(cb) = "none"
                          /\ cb.rep # {} => Scope(cb) = "repeater"
  BY DEF Scope, BeaconCb, CamCb, PositionCb, RepeatCb, Callback

(***************************************************************************)
(* Router::request: r is the repetition it is given, if any.               *)
(***************************************************************************)
MayRepeat(s, rep, V) ==
  \/ rep = {}
  \/ \E r \in Repetition : /\ rep = {r}
                           /\ has_further_repetition(r) => [at |-> s.now + r.interval, cb |-> RepeatCb(r)] \in V

LEMMA AddIs ==
  ASSUME NEW V, V \subseteq Event, NEW t, NEW s, Missing(t, s, "repeater"), s.queue \in Seq(V), NEW r,
         has_further_repetition(r) => [at |-> s.now + r.interval, cb |-> RepeatCb(r)] \in V,
         NEW a, a = add(s, r)
  PROVE  Missing(t, a, "repeater") /\ Onward(t, a, s) /\ a.queue \in Seq(V)
  <1>1. Base(t, s)
    BY DEF Missing
  <1>2. CASE has_further_repetition(r)
    <2>1. a = schedule(s, r.interval, RepeatCb(r)) /\ [at |-> s.now + r.interval, cb |-> RepeatCb(r)] \in V
      BY <1>2 DEF add
    <2>2. Same(t, a, s) /\ a.queue \in Seq(V)
      BY <1>1, <2>1, ScheduleIs
    <2>3. Onward(t, a, s)
      BY <1>1, <2>2, SameOnward
    <2>4. Scope(RepeatCb(r)) = "repeater" /\ [at |-> s.now + r.interval, cb |-> RepeatCb(r)] \in Event
      BY <2>1, Scopes
    <2>5. Missing(t, a, "repeater")
      BY <2>1, <2>4, MissingScheduled
    <2> QED
      BY <2>2, <2>3, <2>5
  <1>3. CASE ~has_further_repetition(r)
    <2>1. a = s
      BY <1>3 DEF add
    <2>2. s.now \in Int
      BY <1>1 DEF Base, State
    <2>3. Onward(t, s, s)
      BY <2>2 DEF Onward
    <2> QED
      BY <2>1, <2>3
  <1> QED
    BY <1>2, <1>3

LEMMA RequestIs ==
  ASSUME NEW V, V \subseteq Event, NEW t, NEW s, Missing(t, s, "repeater"), s.queue \in Seq(V),
         clock \in 0..MaxClock, NEW rep, MayRepeat(s, rep, V)
  PROVE  /\ Good(t, request(s, rep)) /\ Onward(t, request(s, rep), s) /\ request(s, rep).queue \in Seq(V)
         /\ request(s, rep) = s \/ (s.flow => Calls(t, request(s, rep), "trigger"))
  <1> DEFINE a == IF rep = {} THEN s ELSE add(s, CHOOSE r \in rep : TRUE)
             p == pass_down(a)
  <1>0. request(s, rep) = s \/ request(s, rep) = p
    BY DEF request
  <1>1. Base(t, s) /\ Onward(t, s, s)
    <2>1. Base(t, s)
      BY DEF Missing
    <2>2. s.now \in Int
      BY <2>1 DEF Base, State
    <2> QED
      BY <2>1, <2>2 DEF Onward
  <1>2. Missing(t, a, "repeater") /\ Onward(t, a, s) /\ a.queue \in Seq(V)
    <2>1. CASE rep = {}
      BY <1>1, <2>1
    <2>2. CASE rep # {}
      <3>1. PICK r \in Repetition : /\ rep = {r}
                                    /\ has_further_repetition(r)
                                         => [at |-> s.now + r.interval, cb |-> RepeatCb(r)] \in V
        BY <2>2 DEF MayRepeat
      <3>2. a = add(s, r)
        BY <2>2, <3>1
      <3> HIDE DEF a
      <3> QED
        BY <3>1, <3>2, AddIs
    <2> QED
      BY <2>1, <2>2
  <1> HIDE DEF a
  <1>3. /\ Keeps(t, p, a) /\ Calls(t, p, "pass_down") /\ p.flow = a.flow
        /\ a.flow => Calls(t, p, "trigger")
    <2>1. Base(t, a)
      BY <1>2 DEF Missing
    <2> QED
      BY <2>1, PassDownIs
  <1> HIDE DEF p
  <1>4. Good(t, p)
    BY <1>2, <1>3, MissingKept, GoodIs
  <1>5. Onward(t, p, s)
    <2>1. Base(t, a) /\ Base(t, p)
      BY <1>2, <1>3 DEF Missing, Keeps
    <2> QED
      BY <1>1, <1>2, <1>3, <2>1, KeepsOnward, OnwardOn
  <1>6. p.queue \in Seq(V) /\ (s.flow => Calls(t, p, "trigger"))
    BY <1>2, <1>3 DEF Keeps, Onward
  <1>7. Good(t, s)
    BY GoodIs
  <1> QED
    BY <1>0, <1>1, <1>4, <1>5, <1>6, <1>7

(***************************************************************************)
(* Repeater::trigger: what is left of a repetition ends within its maximum *)
(* again, whether its callback is late or early (in a reset).              *)
(***************************************************************************)
LEMMA ReducedIs ==
  ASSUME RuntimeAssumption, NEW now \in Int, NEW e \in Event, NEW rep \in e.cb.rep,
         NEW next, next = [decrement_by_one(rep) EXCEPT !.left = @ - (now - e.at)]
  PROVE  /\ next \in Repetition
         /\ has_further_repetition(next) => [at |-> now + next.interval, cb |-> RepeatCb(next)] \in Event
  <1>1. /\ e.at \in Int /\ rep \in Repetition /\ e.at <= rep.until /\ e.at + rep.left - rep.interval <= rep.until
    <2>1. e \in [at : Int, cb : Callback] /\ \A r \in e.cb.rep : e.at <= r.until /\ e.at + r.left - r.interval <= r.until
      BY DEF Event
    <2>2. e.at \in Int /\ e.cb \in Callback
      BY <2>1
    <2>3. e.cb.rep \in SUBSET Repetition
      BY <2>2 DEF Callback
    <2> QED
      BY <2>1, <2>2, <2>3
  <1>2. rep.interval \in Nat /\ rep.left \in Int /\ rep.until \in Int
    BY <1>1 DEF Repetition
  <1> DEFINE less == IF rep.left > 0 /\ rep.interval > 0 /\ rep.left > rep.interval
                     THEN rep.left - rep.interval ELSE 0
             left == less - (now - e.at)
  <1>3. next = [rep EXCEPT !.left = left]
    <2>1. decrement_by_one(rep) = [rep EXCEPT !.left = less]
      BY DEF decrement_by_one
    <2>2. [rep EXCEPT !.left = less].left = less
      BY <1>1 DEF Repetition
    <2>3. next = [[rep EXCEPT !.left = less] EXCEPT !.left = left]
      BY <2>1, <2>2
    <2>4. [[rep EXCEPT !.left = less] EXCEPT !.left = left] = [rep EXCEPT !.left = left]
      <3> HIDE DEF less, left
      <3> QED
        BY <1>1 DEF Repetition
    <2> QED
      BY <2>3, <2>4
  <1>4. less \in Int /\ left \in Int
    BY <1>1, <1>2
  <1>5. less = 0 \/ (less = rep.left - rep.interval /\ less \in Int)
    BY <1>2
  <1> HIDE DEF less
  <1>6. next \in Repetition /\ next.left = left /\ next.interval = rep.interval /\ next.until = rep.until
    <2> HIDE DEF left
    <2> QED
      BY <1>1, <1>3, <1>4 DEF Repetition
  <1>7. now + left <= rep.until
    <2>1. now + left = e.at + less
      BY <1>1, <1>4
    <2>2. e.at + less <= rep.until
      BY <1>1, <1>2, <1>5
    <2> QED
      BY <2>1, <2>2
  <1> HIDE DEF left
  <1>8. ASSUME has_further_repetition(next)
        PROVE  [at |-> now + next.interval, cb |-> RepeatCb(next)] \in Event
    <2>1. left >= rep.interval
      BY <1>6, <1>8 DEF has_further_repetition
    <2> DEFINE at == now + next.interval
    <2>2. at \in Int /\ at <= next.until /\ at + next.left - next.interval <= next.until
      BY <1>2, <1>4, <1>6, <1>7, <2>1
    <2> HIDE DEF at
    <2>3. [at |-> at, cb |-> RepeatCb(next)] \in Event
      BY <1>6, <2>2, Events
    <2> QED
      BY <2>3 DEF at
  <1> QED
    BY <1>6, <1>8

-----------------------------------------------------------------------------
(***************************************************************************)
(* The actions.  What TakenIs and GoodBefore give for every callback.      *)
(***************************************************************************)
LEMMA Whole == Event \subseteq Event /\ \A t, s : Base(t, s) => s.queue \in Seq(Event) /\ s.now \in Int
  BY DEF Base, State

LEMMA BeaconStep ==
  ASSUME RunInv, RuntimeAssumption, NEW t \in Threads, on_beacon_timer_expired(t)
  PROVE  RunInv'
  <1>1. PICK e \in Callbacks(t) :
          /\ e.cb.kind = "beacon" /\ UNCHANGED <<clock, requests>>
          /\ Becomes(t, IF Beaconing THEN pass_down(Taken(t)) ELSE Taken(t))
    BY DEF on_beacon_timer_expired
  <1> DEFINE u == Taken(t)
             p == pass_down(u)
  <1>2. Missing(t, u, "router")
    <2>1. e \in Event /\ Missing(t, u, Scope(e.cb))
      BY TakenIs
    <2>2. Scope(e.cb) = "router"
      BY <1>1 DEF Scope
    <2> QED
      BY <2>1, <2>2
  <1> HIDE DEF u
  <1>3. clock \in 0..MaxClock /\ requests \in 0..MaxRequests
    BY DEF RunInv
  <1>4. Keeps(t, p, u) /\ Calls(t, p, "pass_down")
    BY <1>2, <1>3, PassDownIs DEF Missing
  <1> HIDE DEF p
  <1>5. Good(t, p)
    BY <1>2, <1>4, MissingKept, BeaconSent
  <1>6. ~Beaconing => Good(t, u)
    BY <1>2, BeaconSent
  <1>7. \E s : Good(t, s) /\ Becomes(t, s)
    BY <1>1, <1>5, <1>6 DEF u, p
  <1> QED
    BY <1>1, <1>3, <1>7, GoodAfter

LEMMA CamStep ==
  ASSUME RunInv, RuntimeAssumption, NEW t \in Threads, on_timer(t)
  PROVE  RunInv'
  <1>1. PICK e \in Callbacks(t) :
          /\ e.cb.kind = "cam" /\ UNCHANGED <<clock, requests>>
          /\ Becomes(t, request(schedule(Taken(t), CamInterval, CamCb), {}))
    BY DEF on_timer
  <1> DEFINE u == Taken(t)
             s == schedule(u, CamInterval, CamCb)
  <1>2. Missing(t, u, "application") /\ CamInterval # 0
    <2>1. e \in Event /\ Missing(t, u, Scope(e.cb)) /\ (Scope(e.cb) = "application" => CamInterval # 0)
      BY TakenIs
    <2>2. Scope(e.cb) = "application"
      BY <1>1 DEF Scope
    <2> QED
      BY <2>1, <2>2
  <1> HIDE DEF u
  <1>3. Base(t, u) /\ u.now + CamInterval \in Int
    BY <1>2, Whole DEF Missing, RuntimeAssumption
  <1>4. Missing(t, s, "repeater")
    <2>1. [at |-> u.now + CamInterval, cb |-> CamCb] \in Event /\ Scope(CamCb) = "application"
      BY <1>3, Events, Scopes
    <2> QED
      BY <1>2, <2>1, MissingScheduled
  <1> HIDE DEF s
  <1>5. clock \in 0..MaxClock /\ requests \in 0..MaxRequests
    BY DEF RunInv
  <1>6. Good(t, request(s, {}))
    <2>1. MayRepeat(s, {}, Event)
      BY DEF MayRepeat
    <2>2. s.queue \in Seq(Event)
      BY <1>4, Whole DEF Missing
    <2> QED
      BY <1>4, <1>5, <2>1, <2>2, Whole, RequestIs
  <1>7. Becomes(t, request(s, {}))
    BY <1>1 DEF s, u
  <1> QED
    BY <1>1, <1>5, <1>6, <1>7, GoodAfter

LEMMA RepeatStep ==
  ASSUME RunInv, RuntimeAssumption, NEW t \in Threads, Repeat(t)
  PROVE  RunInv'
  <1>1. PICK e \in Callbacks(t) : \E rep \in e.cb.rep :
          LET s == Taken(t)
              next == Reduced(s, e, rep)
          IN  /\ Becomes(t, request(s, IF has_further_repetition(next) THEN {next} ELSE {}))
              /\ UNCHANGED <<clock, requests>>
    BY DEF Repeat
  <1>2. PICK rep \in e.cb.rep :
          LET s == Taken(t)
              next == Reduced(s, e, rep)
          IN  /\ Becomes(t, request(s, IF has_further_repetition(next) THEN {next} ELSE {}))
              /\ UNCHANGED <<clock, requests>>
    BY <1>1
  <1> DEFINE u == Taken(t)
             next == Reduced(u, e, rep)
             again == IF has_further_repetition(next) THEN {next} ELSE {}
  <1>3. Missing(t, u, "repeater") /\ e \in Event
    <2>1. e \in Event /\ Missing(t, u, Scope(e.cb))
      BY TakenIs
    <2>2. e.cb \in Callback /\ e.cb.rep # {}
      BY <2>1 DEF Event
    <2>3. Scope(e.cb) = "repeater"
      BY <2>2, Scopes
    <2> QED
      BY <2>1, <2>3
  <1>4. Becomes(t, request(u, again)) /\ UNCHANGED <<clock, requests>>
    BY <1>2
  <1> HIDE DEF u
  <1>5. u.queue \in Seq(Event) /\ u.now \in Int
    BY <1>3, Whole DEF Missing
  <1>6. /\ next \in Repetition
        /\ has_further_repetition(next) => [at |-> u.now + next.interval, cb |-> RepeatCb(next)] \in Event
    <2>1. next = [decrement_by_one(rep) EXCEPT !.left = @ - (u.now - e.at)]
      BY DEF Reduced
    <2> HIDE DEF next
    <2> QED
      BY <1>3, <1>5, <2>1, ReducedIs
  <1> HIDE DEF next
  <1>7. MayRepeat(u, again, Event)
    BY <1>6 DEF MayRepeat
  <1> HIDE DEF again
  <1>8. clock \in 0..MaxClock /\ requests \in 0..MaxRequests
    BY DEF RunInv
  <1>9. Good(t, request(u, again))
    BY <1>3, <1>5, <1>7, <1>8, Whole, RequestIs
  <1> QED
    BY <1>4, <1>8, <1>9, GoodAfter

LEMMA PositionStep ==
  ASSUME RunInv, RuntimeAssumption, NEW t \in Threads, update_position_vector(t)
  PROVE  RunInv'
  <1>1. PICK e \in Callbacks(t), pai \in Accuracies :
          /\ e.cb.kind = "position" /\ UNCHANGED <<clock, requests>>
          /\ Becomes(t, Triggered(Push(schedule(Taken(t), PositionPeriod, PositionCb),
                                       [f |-> "position", pai |-> pai])))
    BY DEF update_position_vector
  <1> DEFINE u == Taken(t)
             s == schedule(u, PositionPeriod, PositionCb)
             frame == [f |-> "position", pai |-> pai]
             p == Push(s, frame)
             r == Triggered(p)
  <1>2. Missing(t, u, "none")
    <2>1. e \in Event /\ Missing(t, u, Scope(e.cb))
      BY TakenIs
    <2>2. Scope(e.cb) = "none"
      BY <1>1 DEF Scope
    <2> QED
      BY <2>1, <2>2
  <1> HIDE DEF u
  <1>3. u.now + PositionPeriod \in Int
    BY <1>2, Whole DEF Missing, RuntimeAssumption
  <1>4. Missing(t, s, "repeater")
    <2>1. [at |-> u.now + PositionPeriod, cb |-> PositionCb] \in Event /\ Scope(PositionCb) = "none"
      BY <1>3, Events, Scopes
    <2> QED
      BY <1>2, <2>1, MissingScheduled
  <1> HIDE DEF s
  <1>5. clock \in 0..MaxClock /\ requests \in 0..MaxRequests
    BY DEF RunInv
  <1>6. frame \in Frame /\ frame.f # "reset"
    BY DEF Frame, RuntimeAssumption
  <1> HIDE DEF frame
  <1>7. Missing(t, p, "repeater")
    <2>1. Keeps(t, p, s)
      BY <1>4, <1>6, PushIs DEF Missing
    <2> HIDE DEF p
    <2> QED
      BY <1>4, <2>1, MissingKept
  <1> HIDE DEF p
  <1>8. Good(t, r)
    <2>1. Keeps(t, r, p)
      BY <1>5, <1>7, TriggeredIs DEF Missing
    <2> HIDE DEF r
    <2> QED
      BY <1>7, <2>1, MissingKept, GoodIs
  <1>9. Becomes(t, r)
    BY <1>1 DEF r, p, s, u, frame
  <1> QED
    BY <1>1, <1>5, <1>8, <1>9, GoodAfter

LEMMA PassedDownStep ==
  ASSUME RunInv, RuntimeAssumption, NEW t \in Threads, PassedDown(t)
  PROVE  RunInv'
  <1>1. PICK jitter \in Jitters : Becomes(t, reset_beacon_timer(Pop(WithStack(t)), jitter))
    BY DEF PassedDown
  <1> DEFINE w == WithStack(t)
             p == Pop(w)
             c == cancel(p, "router")
             r == schedule(c, BeaconPeriod + jitter, BeaconCb)
  <1>2. Good(t, w) /\ w.stack = stack[t]
    BY GoodBefore
  <1> HIDE DEF w
  <1>3. w.stack # <<>> /\ Last(w.stack).f # "reset"
    BY <1>2 DEF PassedDown, In
  <1>4. Base(t, p) /\ p.queue = w.queue /\ Left(t, p) = Left(t, w)
    BY <1>2, <1>3, PopIs DEF Good
  <1> HIDE DEF p
  <1>5. Same(t, c, p) /\ c.queue \in Seq(Event) /\ Cancelled(c.queue, p.queue, "router")
    <2>1. c = cancel(p, "router") /\ p.queue \in Seq(Event)
      BY <1>4, Whole
    <2> HIDE DEF c
    <2> QED
      BY <1>4, <2>1, Whole, CancelledIs
  <1> HIDE DEF c
  <1>6. Same(t, r, c) /\ Scheduled(r.queue, c.queue, "router")
    <2>1. Base(t, c) /\ c.now \in Int
      BY <1>5, Whole DEF Same
    <2>2. c.now + (BeaconPeriod + jitter) \in Int
      BY <2>1 DEF RuntimeAssumption
    <2>3. [at |-> c.now + (BeaconPeriod + jitter), cb |-> BeaconCb] \in Event /\ Scope(BeaconCb) = "router"
      BY <2>2, Events, Scopes
    <2>4. r = schedule(c, BeaconPeriod + jitter, BeaconCb)
      OBVIOUS
    <2> HIDE DEF r
    <2> QED
      BY <1>5, <2>1, <2>3, <2>4, Whole, ScheduleIs
  <1> HIDE DEF r
  <1>7. One(r.queue, "router") /\ ~None(r.queue, "router")
    <2>1. One(r.queue, "router")
      BY <1>5, <1>6 DEF Cancelled, Scheduled
    <2> QED
      BY <2>1 DEF One, None
  <1>8. \A k : k # "router" => Spares(r.queue, w.queue, k)
    BY <1>4, <1>5, <1>6 DEF Cancelled, Scheduled, Spares
  <1>9. Left(t, r) = Left(t, w) /\ Base(t, r)
    BY <1>4, <1>5, <1>6 DEF Same
  <1>10. Timers(r.queue, Left(t, r))
    <2>1. Spares(r.queue, w.queue, "none") /\ Spares(r.queue, w.queue, "application")
      BY <1>8
    <2>2. Timers(w.queue, Left(t, w))
      BY <1>2 DEF Good
    <2> QED
      BY <1>9, <2>1, <2>2 DEF Timers, Split, Free, Spares
  <1>11. Good(t, r)
    BY <1>7, <1>9, <1>10 DEF Good, Beacon
  <1>12. Becomes(t, r)
    BY <1>1 DEF reset_beacon_timer, r, c, p, w
  <1> QED
    BY <1>11, <1>12, GoodAfter DEF PassedDown, RunInv

LEMMA OtherFields ==
  ASSUME NEW t, NEW s, Good(t, s), NEW r \in State, r.queue = s.queue, r.stack = s.stack, r.now = s.now
  PROVE  Good(t, r) /\ \A f : Calls(t, r, f) <=> Calls(t, s, f)
  <1>1. Left(t, r) = Left(t, s) /\ \A f : Calls(t, r, f) <=> Calls(t, s, f)
    BY DEF Left, Calls
  <1>2. Base(t, r)
    BY DEF Good, Base
  <1> QED
    BY <1>1, <1>2 DEF Good, Beacon

\* A call other than pass_down and reset ends.
LEMMA PopGood ==
  ASSUME RunInv, NEW t \in Threads, NEW f, In(t, f), f \notin {"reset", "pass_down"}
  PROVE  /\ Good(t, Pop(WithStack(t))) /\ Pop(WithStack(t)).queue = rt.queue
         /\ Pop(WithStack(t)).now = rt.now /\ Pop(WithStack(t)).flow = rt.flow
         /\ Pop(WithStack(t)).armed = rt.armed
         /\ \A x : x # f /\ Calls(t, WithStack(t), x) => Calls(t, Pop(WithStack(t)), x)
  <1> DEFINE w == WithStack(t)
             p == Pop(w)
  <1>1. /\ Good(t, w) /\ w.stack = stack[t] /\ w.queue = rt.queue /\ w.now = rt.now /\ w.flow = rt.flow
        /\ w.armed = rt.armed
    BY GoodBefore
  <1> HIDE DEF w
  <1>2. w.stack # <<>> /\ Last(w.stack).f = f
    BY <1>1 DEF In
  <1>3. /\ Base(t, p) /\ p.queue = w.queue /\ p.now = w.now /\ p.flow = w.flow /\ p.armed = w.armed
        /\ Left(t, p) = Left(t, w)
        /\ \A x : x # f /\ Calls(t, w, x) => Calls(t, p, x)
    BY <1>1, <1>2, PopIs DEF Good
  <1> HIDE DEF p
  <1>4. Calls(t, w, "pass_down") => Calls(t, p, "pass_down")
    BY <1>3
  <1>5. Good(t, p)
    BY <1>1, <1>3, <1>4 DEF Good, Beacon
  <1> QED
    BY <1>1, <1>3, <1>5 DEF p, w

LEMMA FlowStep ==
  ASSUME RunInv, RuntimeAssumption, NEW t \in Threads, update_packet_flow(t)
  PROVE  RunInv'
  <1> DEFINE p == Pop(WithStack(t))
             flow == RequireFix => Last(stack[t]).pai
             r == [p EXCEPT !.flow = flow]
  <1>1. Good(t, p)
    BY PopGood DEF update_packet_flow
  <1>2. p \in State
    BY <1>1 DEF Good, Base
  <1>3. Becomes(t, r)
    BY DEF update_packet_flow
  <1> HIDE DEF p
  <1>4. flow \in BOOLEAN
    OBVIOUS
  <1> HIDE DEF flow
  <1>5. r \in State /\ r.queue = p.queue /\ r.stack = p.stack /\ r.now = p.now
    BY <1>2, <1>4 DEF State
  <1> HIDE DEF r
  <1>6. Good(t, r)
    BY <1>1, <1>5, OtherFields
  <1> QED
    BY <1>3, <1>6, GoodAfter DEF update_packet_flow, RunInv

LEMMA RearmStep ==
  ASSUME RunInv, RuntimeAssumption, NEW t \in Threads, Rearm(t)
  PROVE  RunInv'
  <1> DEFINE w == WithStack(t)
             p == Pop(w)
             armed == Armed(w)
             r == [p EXCEPT !.armed = armed]
  <1>1. Good(t, p)
    BY PopGood DEF Rearm
  <1>2. p \in State
    BY <1>1 DEF Good, Base
  <1>3. Becomes(t, r)
    BY DEF Rearm
  <1> HIDE DEF p
  <1>4. armed \in Single
    <2>1. rt.queue \in Seq(Event) /\ w.queue = rt.queue
      BY GoodBefore DEF RunInv
    <2>2. rt.queue # <<>> => Head(rt.queue) \in Event
      BY <2>1, HeadTailProperties
    <2>3. \A e \in Event : e.at \in Int
      BY DEF Event
    <2> HIDE DEF w
    <2> QED
      BY <2>1, <2>2, <2>3 DEF Armed, Single
  <1> HIDE DEF armed
  <1>5. r \in State /\ r.queue = p.queue /\ r.stack = p.stack /\ r.now = p.now
    BY <1>2, <1>4 DEF State
  <1> HIDE DEF r
  <1>6. Good(t, r)
    BY <1>1, <1>5, OtherFields
  <1> QED
    BY <1>3, <1>6, GoodAfter DEF Rearm, RunInv

\* A repetition that is requested now ends within its maximum.
LEMMA RequestedIs ==
  ASSUME RuntimeAssumption, NEW now \in Int, NEW x \in Repetitions,
         NEW r, r = [interval |-> x.interval, left |-> x.maximum, until |-> now + x.maximum]
  PROVE  /\ r \in Repetition
         /\ has_further_repetition(r) => [at |-> now + r.interval, cb |-> RepeatCb(r)] \in Event
  <1>1. x.interval \in Nat /\ x.maximum \in Nat
    BY DEF RuntimeAssumption
  <1>2. r \in Repetition /\ r.interval = x.interval /\ r.left = x.maximum /\ r.until = now + x.maximum
    BY <1>1 DEF Repetition
  <1>3. ASSUME has_further_repetition(r)
        PROVE  [at |-> now + r.interval, cb |-> RepeatCb(r)] \in Event
    <2>1. x.maximum >= x.interval
      BY <1>2, <1>3 DEF has_further_repetition
    <2> DEFINE at == now + r.interval
    <2>2. at \in Int /\ at <= r.until /\ at + r.left - r.interval <= r.until
      BY <1>1, <1>2, <2>1
    <2> HIDE DEF at
    <2>3. [at |-> at, cb |-> RepeatCb(r)] \in Event
      BY <1>2, <2>2, Events
    <2> QED
      BY <2>3 DEF at
  <1> QED
    BY <1>2, <1>3

LEMMA RequestStep ==
  ASSUME RunInv, RuntimeAssumption, NEW t \in Threads, Request(t)
  PROVE  RunInv'
  <1> DEFINE w == WithStack(t)
  <1>1. Good(t, w) /\ w.now = rt.now
    BY GoodBefore
  <1>2. clock \in 0..MaxClock /\ clock' = clock /\ requests' \in 0..MaxRequests
    BY DEF Request, RunInv, RuntimeAssumption
  <1>3. \E rep : MayRepeat(w, rep, Event) /\ Becomes(t, request(w, rep))
    <2>1. CASE Becomes(t, request(w, {}))
      <3>1. MayRepeat(w, {}, Event)
        BY DEF MayRepeat
      <3> QED
        BY <2>1, <3>1
    <2>2. ASSUME NEW x \in Repetitions,
                 Becomes(t, request(w, {[interval |-> x.interval, left |-> x.maximum, until |-> rt.now + x.maximum]}))
          PROVE  \E rep : MayRepeat(w, rep, Event) /\ Becomes(t, request(w, rep))
      <3> DEFINE r == [interval |-> x.interval, left |-> x.maximum, until |-> rt.now + x.maximum]
      <3>1. rt.now \in Int
        BY DEF RunInv
      <3>2. r \in Repetition /\ (has_further_repetition(r) => [at |-> rt.now + r.interval, cb |-> RepeatCb(r)] \in Event)
        BY <3>1, RequestedIs
      <3>3. Becomes(t, request(w, {r}))
        BY <2>2
      <3> HIDE DEF r, w
      <3>4. MayRepeat(w, {r}, Event)
        BY <1>1, <3>2 DEF MayRepeat
      <3> QED
        BY <3>3, <3>4
    <2> QED
      BY <2>1, <2>2 DEF Request
  <1> HIDE DEF w
  <1>4. PICK rep : MayRepeat(w, rep, Event) /\ Becomes(t, request(w, rep))
    BY <1>3
  <1>5. Good(t, request(w, rep))
    <2>1. Missing(t, w, "repeater") /\ w.queue \in Seq(Event)
      BY <1>1, GoodIs, Whole DEF Good
    <2> QED
      BY <1>2, <1>4, <2>1, Whole, RequestIs
  <1> QED
    BY <1>2, <1>4, <1>5, GoodAfter

LEMMA TriggeredGood ==
  ASSUME NEW t, NEW s, Good(t, s), clock \in 0..MaxClock
  PROVE  Good(t, Triggered(s))
  <1>1. Missing(t, s, "repeater") /\ Base(t, s)
    BY GoodIs DEF Good
  <1>2. Keeps(t, Triggered(s), s)
    BY <1>1, TriggeredIs
  <1> QED
    BY <1>1, <1>2, MissingKept, GoodIs

LEMMA TimeoutStep ==
  ASSUME RunInv, RuntimeAssumption, on_timeout
  PROVE  RunInv'
  <1> DEFINE w == WithStack(Io)
             s == [w EXCEPT !.armed = {}]
  <1>1. Io \in Threads /\ clock \in 0..MaxClock
    BY DEF RuntimeAssumption, RunInv
  <1>2. Good(Io, w) /\ w \in State
    BY <1>1, GoodBefore DEF Good, Base
  <1>3. Becomes(Io, Triggered(s))
    BY DEF on_timeout
  <1> HIDE DEF w
  <1>4. s \in State /\ s.queue = w.queue /\ s.stack = w.stack /\ s.now = w.now
    <2>1. {} \in Single
      BY DEF Single
    <2> QED
      BY <1>2, <2>1 DEF State
  <1> HIDE DEF s
  <1>5. Good(Io, Triggered(s))
    BY <1>1, <1>2, <1>4, OtherFields, TriggeredGood
  <1> QED
    BY <1>1, <1>3, <1>5, GoodAfter DEF on_timeout, RunInv

LEMMA IndicateStep ==
  ASSUME RunInv, RuntimeAssumption, indicate
  PROVE  RunInv'
  <1> DEFINE w == WithStack(Io)
             frame == [f |-> "indicate"]
             p == Push(w, frame)
  <1>1. Io \in Threads /\ clock \in 0..MaxClock
    BY DEF RuntimeAssumption, RunInv
  <1>2. Good(Io, w)
    BY <1>1, GoodBefore
  <1>3. Becomes(Io, Triggered(p))
    BY DEF indicate
  <1> HIDE DEF w
  <1>4. frame \in Frame /\ frame.f # "reset"
    BY DEF Frame
  <1> HIDE DEF frame
  <1>5. Good(Io, p)
    <2>1. Keeps(Io, p, w)
      BY <1>2, <1>4, PushIs DEF Good
    <2> HIDE DEF p
    <2> QED
      BY <1>2, <2>1, MissingKept, GoodIs
  <1> HIDE DEF p
  <1>6. Good(Io, Triggered(p))
    BY <1>1, <1>5, TriggeredGood
  <1> QED
    BY <1>1, <1>3, <1>6, GoodAfter DEF indicate, RunInv

LEMMA IndicatedStep ==
  ASSUME RunInv, RuntimeAssumption, Indicated
  PROVE  RunInv'
  <1> DEFINE p == Pop(WithStack(Io))
  <1>1. Io \in Threads /\ clock \in 0..MaxClock
    BY DEF RuntimeAssumption, RunInv
  <1>2. Good(Io, p)
    BY <1>1, PopGood DEF Indicated
  <1>3. Becomes(Io, Triggered(p))
    BY DEF Indicated
  <1> HIDE DEF p
  <1>4. Good(Io, Triggered(p))
    BY <1>1, <1>2, TriggeredGood
  <1> QED
    BY <1>1, <1>3, <1>4, GoodAfter DEF Indicated, RunInv

LEMMA Empty == \A k : None(<<>>, k) /\ ~One(<<>>, k)
  BY DEF None, One

LEMMA ResetStep ==
  ASSUME RunInv, RuntimeAssumption, reset
  PROVE  RunInv'
  <1> DEFINE w == WithStack(Io)
             frame == [f |-> "reset", rest |-> rt.queue]
             s == [w EXCEPT !.now = clock, !.queue = <<>>]
             st == Append(w.stack, frame)
             r == Push(s, frame)
  <1>1. Io \in Threads /\ clock \in 0..MaxClock /\ stack[Io] = <<>> /\ Resets
    BY DEF RuntimeAssumption, RunInv, reset, Idle
  <1>2. /\ Good(Io, w) /\ w \in State /\ w.stack = <<>> /\ w.queue = rt.queue
        /\ Left(Io, w) = <<>>
    <2>1. Good(Io, w) /\ w.stack = stack[Io] /\ w.queue = rt.queue /\ Left(Io, w) = RestOf(stack[Io])
      BY <1>1, GoodBefore
    <2>2. RestOf(<<>>) = <<>>
      BY DEF RestOf
    <2> QED
      BY <1>1, <2>1, <2>2 DEF Good, Base
  <1>3. Becomes(Io, r)
    BY DEF reset
  <1> HIDE DEF w
  <1>4. frame \in Frame /\ frame.f = "reset" /\ frame.rest = rt.queue
    BY DEF Frame, RunInv
  <1> HIDE DEF frame
  <1>5. st \in Seq(Frame) /\ Len(st) = 1 /\ st[1] = frame /\ st # <<>>
    BY <1>2, <1>4
  <1>6. r \in State /\ r.now = clock /\ r.queue = <<>> /\ r.stack = st
    <2>1. s \in State /\ s.now = clock /\ s.queue = <<>> /\ s.stack = w.stack
      <3>1. <<>> \in Seq(Event)
        OBVIOUS
      <3>2. w.now \in 0..MaxClock /\ w.armed \in Single /\ w.flow \in BOOLEAN /\ w.stack \in Seq(Frame)
        BY <1>2 DEF State
      <3> QED
        BY <1>1, <1>2, <3>1 DEF State
    <2> HIDE DEF s
    <2>2. r = [s EXCEPT !.stack = st]
      BY <2>1 DEF Push
    <2> HIDE DEF st, r
    <2> QED
      BY <1>5, <2>1, <2>2 DEF State
  <1> HIDE DEF st, r
  <1>7. Base(Io, r)
    <2>1. \A i \in 1..Len(r.stack) : i = 1
      <3>1. Len(r.stack) = 1
        BY <1>5, <1>6
      <3> QED
        BY <3>1
    <2>2. clock <= clock
      BY <1>1
    <2>3. Sorted(<<>>)
      BY DEF Sorted
    <2> QED
      BY <1>1, <1>6, <2>1, <2>2, <2>3 DEF Base
  <1>8. Left(Io, r) = rt.queue
    BY <1>4, <1>5, <1>6 DEF Left, RestOf
  <1>9. Timers(<<>>, rt.queue)
    <2>1. Timers(rt.queue, <<>>)
      BY <1>2 DEF Good
    <2>2. \A k : Split(rt.queue, <<>>, k) => Split(<<>>, rt.queue, k)
      BY Empty, Zenon DEF Split
    <2>3. \A k : Free(rt.queue, <<>>, k) => Free(<<>>, rt.queue, k)
      BY Zenon DEF Free
    <2> QED
      BY <2>1, <2>2, <2>3 DEF Timers
  <1>10. Beacon(<<>>, rt.queue, Calls(Io, r, "pass_down"))
    <2>1. Beacon(rt.queue, <<>>, Calls(Io, w, "pass_down"))
      BY <1>2 DEF Good
    <2>2. ~HasFrame(w.stack, "pass_down")
      BY <1>2 DEF HasFrame
    <2>3. Calls(Io, w, "pass_down") => Calls(Io, r, "pass_down")
      BY <2>2 DEF Calls
    <2> QED
      BY <2>1, <2>3, Empty DEF Beacon
  <1>11. Good(Io, r)
    BY <1>6, <1>7, <1>8, <1>9, <1>10 DEF Good
  <1> QED
    BY <1>1, <1>3, <1>11, GoodAfter DEF reset, RunInv

LEMMA ResetDoneStep ==
  ASSUME RunInv, RuntimeAssumption, ResetDone
  PROVE  RunInv'
  <1> DEFINE w == WithStack(Io)
             p == Pop(w)
             n == Len(stack[Io])
  <1>1. Io \in Threads /\ clock \in 0..MaxClock /\ stack[Io] \in Seq(Frame)
    BY DEF RuntimeAssumption, RunInv
  <1>2. stack[Io] # <<>> /\ Last(stack[Io]).f = "reset" /\ Last(stack[Io]).rest = <<>>
    BY DEF ResetDone, In, Callbacks
  <1>3. n \in Nat /\ n >= 1 /\ Last(stack[Io]) = stack[Io][n] /\ n \in 1..Len(stack[Io])
    BY <1>1, <1>2 DEF Last
  <1>4. n = 1
    <2>1. \A i \in 1..Len(stack[Io]) : stack[Io][i].f = "reset" => i = 1
      BY <1>1 DEF RunInv
    <2> HIDE DEF n
    <2> QED
      BY <1>2, <1>3, <2>1
  <1>5. RestOf(stack[Io]) = <<>>
    BY <1>2, <1>3, <1>4 DEF RestOf
  <1>6. Good(Io, w) /\ w \in State /\ w.stack = stack[Io] /\ Left(Io, w) = <<>>
    BY <1>1, <1>5, GoodBefore DEF Good, Base
  <1>7. Becomes(Io, p)
    BY DEF ResetDone
  <1> HIDE DEF w
  <1>8. Front(stack[Io]) = <<>>
    BY <1>1, <1>4 DEF Front
  <1>9. p \in State /\ p.queue = w.queue /\ p.now = w.now /\ p.stack = <<>>
    <2>1. p = [w EXCEPT !.stack = <<>>] /\ <<>> \in Seq(Frame)
      BY <1>6, <1>8 DEF Pop
    <2> HIDE DEF p
    <2> QED
      BY <1>6, <2>1 DEF State
  <1> HIDE DEF p
  <1>10. Left(Io, p) = <<>> /\ Base(Io, p)
    <2>1. RestOf(<<>>) = <<>>
      BY DEF RestOf
    <2>2. \A i \in 1..Len(p.stack) : FALSE
      BY <1>9
    <2> QED
      BY <1>6, <1>9, <2>1, <2>2 DEF Left, Good, Base
  <1>11. Calls(Io, w, "pass_down") => Calls(Io, p, "pass_down")
    <2>1. ~HasFrame(w.stack, "pass_down")
      <3>1. \A i \in 1..Len(w.stack) : w.stack[i].f = "reset"
        BY <1>2, <1>3, <1>4, <1>6
      <3> QED
        BY <3>1 DEF HasFrame
    <2> QED
      BY <2>1 DEF Calls
  <1>12. Good(Io, p)
    BY <1>6, <1>9, <1>10, <1>11 DEF Good, Beacon
  <1> QED
    BY <1>1, <1>7, <1>12, GoodAfter DEF ResetDone, RunInv

-----------------------------------------------------------------------------
\* A position update is due within its period.
Soon(n) == {e \in Event : e.cb.kind = "position" => e.at <= n + PositionPeriod}

\* The first of a sorted queue that holds a position update.
LEMMA FirstIsSoon ==
  ASSUME RuntimeAssumption, NEW n \in Int, NEW q \in Seq(Soon(n)), Sorted(q), ~None(q, "none")
  PROVE  q # <<>> /\ Head(q).at \in Int /\ Head(q).at <= n + PositionPeriod /\ Head(q) = q[1]
  <1>1. PICK i \in 1..Len(q) : Scope(q[i].cb) = "none"
    BY DEF None
  <1>2. q[i] \in Soon(n) /\ Len(q) \in Nat
    OBVIOUS
  <1>3. q[i] \in Event /\ q[i].cb \in Callback /\ q[i].at \in Int
    BY <1>2 DEF Soon, Event
  <1>4. q[i].at <= n + PositionPeriod
    <2>1. q[i].cb.kind = "position"
      BY <1>1, <1>3, Scopes
    <2> QED
      BY <1>2, <2>1 DEF Soon
  <1>5. q # <<>> /\ Head(q) = q[1] /\ q[1] \in Soon(n) /\ 1 \in 1..Len(q)
    BY <1>1, <1>2
  <1>6. q[1].at \in Int
    BY <1>5 DEF Soon, Event
  <1>7. q[1].at <= q[i].at
    <2>1. i = 1 \/ 1 < i
      BY <1>2
    <2> QED
      BY <1>3, <1>5, <2>1 DEF Sorted
  <1>8. n + PositionPeriod \in Int
    BY DEF RuntimeAssumption
  <1> QED
    BY <1>3, <1>4, <1>5, <1>6, <1>7, <1>8

LEMMA SomeIn ==
  ASSUME NEW q, NEW k, One(q, k)
  PROVE  ~None(q, k)
  BY DEF One, None

LEMMA StartedIs ==
  ASSUME RuntimeAssumption, clock = 0, NEW jitter \in Jitters, NEW s, s = Started(jitter)
  PROVE  /\ Base(Io, s) /\ s.queue \in Seq(Soon(0)) /\ s.now = 0
         /\ One(s.queue, "none") /\ One(s.queue, "router")
         /\ IF CamInterval = 0 THEN None(s.queue, "application") ELSE One(s.queue, "application")
         /\ \E at \in s.armed : at \in Int /\ at <= PositionPeriod
  <1> DEFINE s0 == [now |-> 0, queue |-> <<>>, armed |-> {}, flow |-> TRUE, stack |-> <<>>]
             s1 == schedule(s0, PositionPeriod, PositionCb)
             s2 == schedule(s1, BeaconPeriod + jitter, BeaconCb)
             armed == {Head(s2.queue).at}
             s3 == [s2 EXCEPT !.armed = armed]
             s4 == schedule(s3, CamInterval, CamCb)
             V == Soon(0)
  <1>0. s = IF CamInterval = 0 THEN s3 ELSE s4
    BY DEF Started
  <1>1. /\ V \subseteq Event /\ 0 \in 0..MaxClock
        /\ PositionPeriod \in Int /\ BeaconPeriod + jitter \in Int /\ CamInterval \in Int
    BY DEF RuntimeAssumption, Soon
  <1>2. /\ [at |-> PositionPeriod, cb |-> PositionCb] \in V
        /\ [at |-> BeaconPeriod + jitter, cb |-> BeaconCb] \in V
        /\ [at |-> CamInterval, cb |-> CamCb] \in V
    <2>1. /\ [at |-> PositionPeriod, cb |-> PositionCb] \in Event
          /\ [at |-> BeaconPeriod + jitter, cb |-> BeaconCb] \in Event
          /\ [at |-> CamInterval, cb |-> CamCb] \in Event
      BY <1>1, Events
    <2>2. PositionPeriod <= 0 + PositionPeriod /\ BeaconCb.kind # "position" /\ CamCb.kind # "position"
      BY <1>1 DEF BeaconCb, CamCb
    <2> QED
      BY <2>1, <2>2 DEF Soon
  <1>3. Base(Io, s0) /\ s0.queue \in Seq(V) /\ s0.queue = <<>> /\ s0.now = 0
    <2>1. s0 \in State /\ s0.now = 0 /\ s0.queue = <<>> /\ s0.stack = <<>>
      <3>1. <<>> \in Seq(Event) /\ <<>> \in Seq(Frame) /\ {} \in Single
        BY DEF Single
      <3> QED
        BY <1>1, <3>1 DEF State
    <2>2. Sorted(<<>>) /\ \A i \in 1..Len(<<>>) : FALSE
      BY DEF Sorted
    <2> HIDE DEF s0, V
    <2> QED
      BY <2>1, <2>2 DEF Base
  <1> HIDE DEF s0, V
  <1>4. Same(Io, s1, s0) /\ s1.queue \in Seq(V) /\ Scheduled(s1.queue, s0.queue, "none")
    <2>1. s1 = schedule(s0, PositionPeriod, PositionCb) /\ s0.now + PositionPeriod = PositionPeriod
      BY <1>1, <1>3
    <2>2. [at |-> s0.now + PositionPeriod, cb |-> PositionCb] \in V
      BY <1>2, <2>1
    <2> HIDE DEF s1
    <2>3. V \subseteq Event /\ s1 = schedule(s0, PositionPeriod, PositionCb)
      BY <1>1, <2>1
    <2>4. Same(Io, s1, s0) /\ s1.queue \in Seq(V) /\ Scheduled(s1.queue, s0.queue, Scope(PositionCb))
      BY <1>3, <2>2, <2>3, ScheduleIs
    <2> QED
      BY <2>4, Scopes
  <1> HIDE DEF s1
  <1>5. Base(Io, s1) /\ s1.now = 0
    BY <1>3, <1>4 DEF Same
  <1>6. Same(Io, s2, s1) /\ s2.queue \in Seq(V) /\ Scheduled(s2.queue, s1.queue, "router")
    <2>1. s2 = schedule(s1, BeaconPeriod + jitter, BeaconCb) /\ s1.now + (BeaconPeriod + jitter) = BeaconPeriod + jitter
      BY <1>1, <1>5
    <2>2. [at |-> s1.now + (BeaconPeriod + jitter), cb |-> BeaconCb] \in V
      BY <1>2, <2>1
    <2> HIDE DEF s2
    <2> QED
      BY <1>1, <1>4, <1>5, <2>1, <2>2, Scopes, ScheduleIs
  <1> HIDE DEF s2
  <1>7. Base(Io, s2) /\ s2.now = 0
    BY <1>5, <1>6 DEF Same
  <1>8. One(s2.queue, "none") /\ One(s2.queue, "router") /\ None(s2.queue, "application")
    BY <1>3, <1>4, <1>6, Empty DEF Scheduled, Spares
  <1>9. Head(s2.queue).at \in Int /\ Head(s2.queue).at <= PositionPeriod
    <2>1. s2.queue \in Seq(Soon(0)) /\ Sorted(s2.queue)
      BY <1>6, <1>7 DEF Base, V
    <2>2. Head(s2.queue).at \in Int /\ Head(s2.queue).at <= 0 + PositionPeriod
      BY <1>8, <2>1, SomeIn, FirstIsSoon
    <2> QED
      BY <1>1, <2>2
  <1>10. armed \in Single /\ \E at \in armed : at \in Int /\ at <= PositionPeriod
    BY <1>9 DEF Single
  <1> HIDE DEF armed
  <1>11. /\ s3 \in State /\ s3.queue = s2.queue /\ s3.now = 0 /\ s3.stack = s2.stack /\ s3.armed = armed
    BY <1>7, <1>10 DEF Base, State
  <1> HIDE DEF s3
  <1>12. Base(Io, s3)
    BY <1>7, <1>11 DEF Base
  <1>13. Same(Io, s4, s3) /\ s4.queue \in Seq(V) /\ Scheduled(s4.queue, s3.queue, "application")
    <2>1. s4 = schedule(s3, CamInterval, CamCb) /\ s3.now + CamInterval = CamInterval
      BY <1>1, <1>11
    <2>2. [at |-> s3.now + CamInterval, cb |-> CamCb] \in V
      BY <1>2, <2>1
    <2> HIDE DEF s4
    <2> QED
      BY <1>1, <1>6, <1>11, <1>12, <2>1, <2>2, Scopes, ScheduleIs
  <1> HIDE DEF s4
  <1>14. Base(Io, s4) /\ s4.now = 0 /\ s4.armed = armed
    BY <1>11, <1>13 DEF Same
  <1>15. One(s4.queue, "none") /\ One(s4.queue, "router") /\ One(s4.queue, "application")
    BY <1>8, <1>11, <1>13 DEF Scheduled, Spares
  <1>16. CASE CamInterval = 0
    <2>1. s = s3
      BY <1>0, <1>16
    <2> QED
      BY <1>6, <1>8, <1>10, <1>11, <1>12, <1>16, <2>1 DEF V
  <1>17. CASE CamInterval # 0
    <2>1. s = s4
      BY <1>0, <1>17
    <2> QED
      BY <1>10, <1>13, <1>14, <1>15, <1>17, <2>1 DEF V
  <1> QED
    BY <1>16, <1>17

LEMMA RunInit ==
  ASSUME RuntimeAssumption, Init
  PROVE  RunInv
  <1>1. PICK jitter \in Jitters, pai \in Accuracies : LET s == Started(jitter) IN
          rt = [now |-> s.now, queue |-> s.queue, armed |-> s.armed, flow |-> RequireFix => pai]
    BY DEF Init
  <1> DEFINE s == Started(jitter)
             flow == RequireFix => pai
  <1>2. rt = [now |-> s.now, queue |-> s.queue, armed |-> s.armed, flow |-> flow]
    BY <1>1
  <1>3. flow \in BOOLEAN
    OBVIOUS
  <1> HIDE DEF flow
  <1>4. /\ clock = 0 /\ requests = 0 /\ stack = [t \in Threads |-> <<>>] /\ Io \in Threads
        /\ 0 \in 0..MaxClock /\ 0 \in 0..MaxRequests
    BY DEF Init, RuntimeAssumption
  <1>5. /\ Base(Io, s) /\ s.now = 0
        /\ One(s.queue, "none") /\ One(s.queue, "router")
        /\ IF CamInterval = 0 THEN None(s.queue, "application") ELSE One(s.queue, "application")
    BY <1>4, StartedIs
  <1> HIDE DEF s
  <1>6. s.queue \in Seq(Event) /\ s.armed \in Single /\ Sorted(s.queue)
    BY <1>5 DEF Base, State
  <1>7. /\ rt \in [now : 0..MaxClock, queue : Seq(Event), armed : Single, flow : BOOLEAN]
        /\ rt.now = 0 /\ rt.queue = s.queue
    BY <1>2, <1>3, <1>4, <1>5, <1>6
  <1>8. /\ stack \in [Threads -> Seq(Frame)]
        /\ \A t \in Threads : \A i \in 1..Len(stack[t]) : stack[t][i].f = "reset" => t = Io /\ i = 1 /\ Resets
    <2>1. \A t \in Threads : stack[t] = <<>> /\ <<>> \in Seq(Frame) /\ Len(<<>>) = 0
      BY <1>4
    <2>2. \A t \in Threads : \A i \in 1..Len(stack[t]) : FALSE
      BY <2>1
    <2> QED
      BY <1>4, <2>2
  <1>9. RestOf(stack[Io]) = <<>>
    BY <1>4 DEF RestOf
  <1>10. Timers(s.queue, <<>>)
    BY <1>5, Empty DEF Timers, Split, Free
  <1>11. \A x : Beacon(s.queue, <<>>, x)
    BY <1>5, SomeIn DEF Beacon
  <1> QED
    <2>1. Timers(rt.queue, RestOf(stack[Io]))
      BY <1>7, <1>9, <1>10
    <2>2. Beacon(rt.queue, RestOf(stack[Io]), \E u \in Threads : HasFrame(stack[u], "pass_down"))
      BY <1>7, <1>9, <1>11
    <2>3. Sorted(rt.queue) /\ rt.now <= clock /\ clock \in 0..MaxClock /\ requests \in 0..MaxRequests
      BY <1>4, <1>6, <1>7
    <2> QED
      BY <1>7, <1>8, <2>1, <2>2, <2>3 DEF RunInv

LEMMA TickStep ==
  ASSUME RunInv, RuntimeAssumption, Tick
  PROVE  RunInv'
  <1>1. clock' \in 0..MaxClock /\ rt' = rt /\ stack' = stack /\ requests' = requests /\ rt.now <= clock'
    BY DEF Tick, RunInv, RuntimeAssumption
  <1> QED
    BY <1>1 DEF RunInv, Timers, Beacon

LEMMA RunNext ==
  ASSUME RunInv, RuntimeAssumption, [Next]_vars
  PROVE  RunInv'
  <1>1. CASE Next
    BY <1>1, BeaconStep, CamStep, RepeatStep, PositionStep, PassedDownStep, FlowStep, RearmStep, RequestStep,
       TimeoutStep, IndicateStep, IndicatedStep, ResetStep, ResetDoneStep, TickStep DEF Next
  <1>2. CASE UNCHANGED vars
    BY <1>2 DEF vars, RunInv, Timers, Beacon
  <1> QED
    BY <1>1, <1>2

(***************************************************************************)
(* The invariant holds for any threads, periods, repetitions and resets.   *)
(***************************************************************************)
THEOREM LoopHolds == RuntimeAssumption => (Spec => []RunInv)
  <1> SUFFICES ASSUME RuntimeAssumption
               PROVE  Spec => []RunInv
    OBVIOUS
  <1>1. Init => RunInv
    BY RunInit
  <1>2. RunInv /\ [Next]_vars => RunInv'
    BY RunNext
  <1> QED
    BY <1>1, <1>2, PTL DEF Spec

-----------------------------------------------------------------------------
\* How many callbacks of a scope are outstanding.
LEMMA OutstandingIs ==
  ASSUME RunInv, NEW k
  PROVE  /\ None(rt.queue, k) => Outstanding(k) = 0
         /\ One(rt.queue, k) => Outstanding(k) = 1
  <1> DEFINE q == rt.queue
             I == {i \in DOMAIN q : Scope(q[i].cb) = k}
  <1>1. DOMAIN q = 1..Len(q) /\ Outstanding(k) = Cardinality(I)
    BY DEF RunInv, Outstanding
  <1>2. ASSUME None(q, k)
        PROVE  Outstanding(k) = 0
    <2>1. I = {}
      BY <1>1, <1>2 DEF None
    <2> QED
      BY <1>1, <2>1, FS_EmptySet
  <1>3. ASSUME One(q, k)
        PROVE  Outstanding(k) = 1
    <2>1. PICK i \in 1..Len(q) : \A j \in 1..Len(q) : Scope(q[j].cb) = k <=> j = i
      BY <1>3 DEF One
    <2>2. I = {i}
      BY <1>1, <2>1
    <2> QED
      BY <1>1, <2>2, FS_Singleton
  <1> QED
    BY <1>2, <1>3

LEMMA NoRest ==
  ASSUME RunInv, RuntimeAssumption, ~Resetting
  PROVE  RestOf(stack[Io]) = <<>>
  <1>1. stack[Io] \in Seq(Frame) /\ Io \in Threads
    BY DEF RunInv, RuntimeAssumption
  <1>2. \A i \in DOMAIN stack[Io] : stack[Io][i].f # "reset"
    BY <1>1 DEF Resetting, Under
  <1>3. CASE stack[Io] = <<>>
    BY <1>3 DEF RestOf
  <1>4. CASE stack[Io] # <<>>
    <2>1. 1 \in DOMAIN stack[Io]
      BY <1>1, <1>4
    <2> QED
      BY <1>2, <2>1 DEF RestOf
  <1> QED
    BY <1>3, <1>4

(***************************************************************************)
(* What the invariant says of the properties of Runtime: the queue is in   *)
(* order and the timer armed once at most; the beacon timer is neither     *)
(* lost nor doubled; exactly one CAM and one position update are           *)
(* scheduled; repetitions stay within the maximum of their request.        *)
(***************************************************************************)
LEMMA RunInvIs ==
  ASSUME RunInv, RuntimeAssumption
  PROVE  TypeOK /\ OneBeacon /\ TimersKept /\ RepetitionWithinMaximum
  <1> DEFINE q == rt.queue
             l == RestOf(stack[Io])
  <1>1. q \in Seq(Event) /\ DOMAIN q = 1..Len(q) /\ Sorted(q) /\ rt.armed \in Single
    BY DEF RunInv
  <1>2. TypeOK
    <2>1. Cardinality(rt.armed) <= 1
      <3>1. CASE rt.armed = {}
        BY <3>1, FS_EmptySet
      <3>2. ASSUME NEW at \in Int, rt.armed = {at}
            PROVE  Cardinality(rt.armed) <= 1
        <4>1. Cardinality({at}) = 1
          BY FS_Singleton
        <4> QED
          BY <3>2, <4>1
      <3> QED
        BY <1>1, <3>1, <3>2 DEF Single
    <2> QED
      BY <1>1, <2>1 DEF TypeOK, RunInv, Sorted
  <1>3. OneBeacon
    <2>1. None(q, "router") \/ One(q, "router")
      BY DEF RunInv, Beacon
    <2>2. Outstanding("router") = 0 \/ Outstanding("router") = 1
      BY <2>1, OutstandingIs
    <2>3. Outstanding("router") <= 1
      BY <2>2
    <2>4. ASSUME Beaconing, ~Sending, ~Resetting
          PROVE  Outstanding("router") = 1
      <3>1. l = <<>>
        BY <2>4, NoRest
      <3>2. ~\E u \in Threads : HasFrame(stack[u], "pass_down")
        <4>1. \A u \in Threads : DOMAIN stack[u] = 1..Len(stack[u])
          BY DEF RunInv
        <4> QED
          BY <2>4, <4>1 DEF Sending, Under, HasFrame
      <3>3. ~None(q, "router")
        BY <2>4, <3>1, <3>2, Empty DEF RunInv, Beacon
      <3> QED
        BY <2>1, <3>3, OutstandingIs
    <2> QED
      BY <2>3, <2>4 DEF OneBeacon
  <1>4. TimersKept
    <2> SUFFICES ASSUME ~Resetting
                 PROVE  /\ Outstanding("application") = (IF CamInterval = 0 THEN 0 ELSE 1)
                        /\ Outstanding("none") = 1
      BY DEF TimersKept
    <2>1. l = <<>>
      BY NoRest
    <2>2. Timers(q, <<>>)
      BY <2>1 DEF RunInv
    <2>3. One(q, "none") /\ (IF CamInterval = 0 THEN None(q, "application") ELSE One(q, "application"))
      BY <2>2, Empty DEF Timers, Split, Free
    <2> QED
      BY <2>3, OutstandingIs
  <1>5. RepetitionWithinMaximum
    <2>1. \A i \in 1..Len(q) : q[i] \in Event
      BY <1>1
    <2>2. \A e \in Event : \A rep \in e.cb.rep : e.at <= rep.until
      BY DEF Event
    <2> QED
      BY <1>1, <2>1, <2>2 DEF RepetitionWithinMaximum
  <1> QED
    BY <1>2, <1>3, <1>4, <1>5

(***************************************************************************)
(* The event loop keeps its timers: whatever callbacks run inside each     *)
(* other, on whatever threads, with resets or without, the beacon timer is *)
(* neither lost nor doubled, exactly one CAM and one position update are   *)
(* scheduled, and no repetition lies beyond the maximum of its request.    *)
(***************************************************************************)
THEOREM TimersHold ==
  RuntimeAssumption => (Spec => [](TypeOK /\ OneBeacon /\ TimersKept /\ RepetitionWithinMaximum))
  <1> SUFFICES ASSUME RuntimeAssumption
               PROVE  Spec => [](TypeOK /\ OneBeacon /\ TimersKept /\ RepetitionWithinMaximum)
    OBVIOUS
  <1>1. RunInv => TypeOK /\ OneBeacon /\ TimersKept /\ RepetitionWithinMaximum
    BY RunInvIs
  <1> QED
    BY <1>1, LoopHolds, PTL

-----------------------------------------------------------------------------
(***************************************************************************)
(* The io timer.  Without resets and without a position fix to wait for,   *)
(* trigger() is on a stack whenever the queue may have changed since the   *)
(* timer was armed; and a beacon that is scheduled afterwards is later     *)
(* than the next position update.  itsGnBeaconServiceRetransmitTimer is    *)
(* three seconds, positions are updated every second.                      *)
(***************************************************************************)
Prompt == ~Resets /\ ~RequireFix /\ PositionPeriod <= BeaconPeriod

NotBefore(n) == {e \in Event : n <= e.at}
InTime(armed, q) == \E at \in armed : at \in Int /\ (at <= PositionPeriod \/ q \in Seq(NotBefore(at)))

ArmInv ==
  /\ rt.flow
  /\ rt.queue \in Seq(Soon(rt.now))
  /\ (\E u \in Threads : HasFrame(stack[u], "trigger")) \/ InTime(rt.armed, rt.queue)

Swift(t, s) ==
  /\ s.flow
  /\ s.queue \in Seq(Soon(s.now))
  /\ Calls(t, s, "trigger") \/ InTime(s.armed, s.queue)

LEMMA SwiftBefore ==
  ASSUME RunInv, ArmInv, NEW t \in Threads
  PROVE  Swift(t, WithStack(t))
  BY GoodBefore DEF ArmInv, Swift

LEMMA SwiftAfter ==
  ASSUME RunInv, RuntimeAssumption, NEW t \in Threads, NEW s, Base(t, s), Swift(t, s), Becomes(t, s)
  PROVE  ArmInv'
  <1>1. /\ rt' = [now |-> s.now, queue |-> s.queue, armed |-> s.armed, flow |-> s.flow]
        /\ stack' = [stack EXCEPT ![t] = s.stack]
    BY DEF Becomes
  <1>2. rt'.now = s.now /\ rt'.queue = s.queue /\ rt'.armed = s.armed /\ rt'.flow = s.flow
    BY <1>1
  <1>3. stack'[t] = s.stack /\ \A u \in Threads \ {t} : stack'[u] = stack[u]
    BY <1>1 DEF RunInv
  <1>4. Calls(t, s, "trigger") => \E u \in Threads : HasFrame(stack'[u], "trigger")
    BY <1>3 DEF Calls
  <1> QED
    BY <1>2, <1>4 DEF ArmInv, Swift

LEMMA SoonIs ==
  ASSUME RuntimeAssumption
  PROVE  /\ \A n : Soon(n) \subseteq Event
         /\ \A n, m \in Int : n <= m => Soon(n) \subseteq Soon(m)
  <1>1. ASSUME NEW n \in Int, NEW m \in Int, n <= m
        PROVE  Soon(n) \subseteq Soon(m)
    <2> SUFFICES ASSUME NEW e \in Event, e.cb.kind = "position" => e.at <= n + PositionPeriod
                 PROVE  e.cb.kind = "position" => e.at <= m + PositionPeriod
      BY DEF Soon
    <2>1. e.at \in Int /\ PositionPeriod \in Int
      BY <1>1 DEF Event, RuntimeAssumption
    <2> QED
      BY <1>1, <2>1
  <1> QED
    BY <1>1 DEF Soon

\* Nothing is reset, so nothing is left in a frame of reset.
LEMMA NoReset ==
  ASSUME RunInv, RuntimeAssumption, ~Resets
  PROVE  /\ RestOf(stack[Io]) = <<>> /\ One(rt.queue, "none")
         /\ \A t \in Threads : ~In(t, "reset")
  <1>1. \A t \in Threads : stack[t] \in Seq(Frame) /\ \A i \in 1..Len(stack[t]) : stack[t][i].f # "reset"
    BY DEF RunInv
  <1>2. \A t \in Threads : stack[t] # <<>> => 1 \in 1..Len(stack[t]) /\ Len(stack[t]) \in 1..Len(stack[t])
    BY <1>1
  <1>3. RestOf(stack[Io]) = <<>>
    BY <1>1, <1>2 DEF RestOf, RuntimeAssumption
  <1>4. \A t \in Threads : ~In(t, "reset")
    BY <1>1, <1>2 DEF In, Last
  <1>5. One(rt.queue, "none")
    BY <1>3, Empty DEF RunInv, Timers, Split
  <1> QED
    BY <1>3, <1>4, <1>5

\* The thread is inside the loop of trigger().
LEMMA Within ==
  ASSUME RunInv, NEW t \in Threads, NEW f, In(t, f)
  PROVE  Calls(t, WithStack(t), f)
  <1>1. stack[t] \in Seq(Frame) /\ stack[t] # <<>> /\ Last(stack[t]).f = f
    BY DEF RunInv, In
  <1>2. Len(stack[t]) \in 1..Len(stack[t]) /\ Last(stack[t]) = stack[t][Len(stack[t])]
    BY <1>1 DEF Last
  <1>3. HasFrame(stack[t], f)
    BY <1>1, <1>2 DEF HasFrame
  <1> QED
    BY <1>3, GoodBefore

\* What a callback finds, and what it may leave.
LEMMA TakenSwift ==
  ASSUME RunInv, ArmInv, Prompt, RuntimeAssumption, NEW t \in Threads, NEW e \in Callbacks(t)
  PROVE  LET u == Taken(t) IN
         Base(t, u) /\ u.flow /\ u.queue \in Seq(Soon(u.now)) /\ u.now \in Int /\ Calls(t, u, "trigger")
  <1> DEFINE u == Taken(t)
  <1>1. /\ Base(t, u) /\ OneLess(u.queue, Left(t, u), rt.queue, RestOf(stack[Io]), e)
        /\ u.now = rt.now /\ u.flow = rt.flow
        /\ \A f : Calls(t, u, f) <=> Calls(t, WithStack(t), f)
        /\ In(t, "trigger") \/ In(t, "reset")
    BY TakenLists
  <1> HIDE DEF u
  <1>2. RestOf(stack[Io]) = <<>> /\ In(t, "trigger")
    BY <1>1, NoReset DEF Prompt
  <1>3. Calls(t, u, "trigger")
    BY <1>1, <1>2, Within
  <1>4. rt.queue # <<>> /\ u.queue = Tail(rt.queue)
    BY <1>1, <1>2 DEF OneLess
  <1>5. u.queue \in Seq(Soon(u.now))
    <2>1. rt.queue \in Seq(Soon(rt.now))
      BY DEF ArmInv
    <2> QED
      BY <1>1, <1>4, <2>1, HeadTailProperties
  <1>6. u.now \in Int
    BY <1>1, Whole
  <1> QED
    BY <1>1, <1>3, <1>5, <1>6 DEF ArmInv, u

LEMMA OnwardSwift ==
  ASSUME RuntimeAssumption, NEW t, NEW u, NEW s, Base(t, u), Base(t, s), u.flow, Calls(t, u, "trigger"),
         Onward(t, s, u), s.queue \in Seq(Soon(u.now))
  PROVE  Swift(t, s)
  <1>1. u.now \in Int /\ s.now \in Int
    BY Whole
  <1>2. Soon(u.now) \subseteq Soon(s.now)
    BY <1>1, SoonIs DEF Onward
  <1>3. s.queue \in Seq(Soon(s.now))
    BY <1>2, SeqMonotonic
  <1> QED
    BY <1>3 DEF Onward, Swift

LEMMA BeaconArm ==
  ASSUME RunInv, ArmInv, Prompt, RuntimeAssumption, NEW t \in Threads, on_beacon_timer_expired(t)
  PROVE  ArmInv'
  <1>1. PICK e \in Callbacks(t) : Becomes(t, IF Beaconing THEN pass_down(Taken(t)) ELSE Taken(t))
    BY DEF on_beacon_timer_expired
  <1> DEFINE u == Taken(t)
             p == pass_down(u)
  <1>2. Base(t, u) /\ u.flow /\ u.queue \in Seq(Soon(u.now)) /\ u.now \in Int /\ Calls(t, u, "trigger")
    BY TakenSwift
  <1>3. Becomes(t, IF Beaconing THEN p ELSE u)
    BY <1>1
  <1> HIDE DEF u
  <1>4. Keeps(t, p, u) /\ p.flow = u.flow
    BY <1>2, PassDownIs DEF RunInv
  <1> HIDE DEF p
  <1>5. Base(t, p) /\ Onward(t, p, u) /\ p.queue \in Seq(Soon(u.now))
    BY <1>2, <1>4, KeepsOnward DEF Keeps
  <1>6. Onward(t, u, u)
    BY <1>2 DEF Onward
  <1>7. Swift(t, p) /\ Swift(t, u)
    BY <1>2, <1>5, <1>6, OnwardSwift
  <1> QED
    BY <1>2, <1>3, <1>5, <1>7, SwiftAfter

LEMMA CamArm ==
  ASSUME RunInv, ArmInv, Prompt, RuntimeAssumption, NEW t \in Threads, on_timer(t)
  PROVE  ArmInv'
  <1>1. PICK e \in Callbacks(t) :
          /\ e.cb.kind = "cam"
          /\ Becomes(t, request(schedule(Taken(t), CamInterval, CamCb), {}))
    BY DEF on_timer
  <1> DEFINE u == Taken(t)
             V == Soon(u.now)
             s == schedule(u, CamInterval, CamCb)
             r == request(s, {})
  <1>2. Base(t, u) /\ u.flow /\ u.queue \in Seq(V) /\ u.now \in Int /\ Calls(t, u, "trigger")
    BY TakenSwift
  <1>3. Missing(t, u, "application") /\ CamInterval # 0
    <2>1. e \in Event /\ Missing(t, u, Scope(e.cb)) /\ (Scope(e.cb) = "application" => CamInterval # 0)
      BY TakenIs
    <2>2. Scope(e.cb) = "application"
      BY <1>1 DEF Scope
    <2> QED
      BY <2>1, <2>2
  <1>4. Becomes(t, r)
    BY <1>1
  <1> HIDE DEF u
  <1>5. V \subseteq Event
    BY SoonIs
  <1>6. [at |-> u.now + CamInterval, cb |-> CamCb] \in V
    <2>1. u.now + CamInterval \in Int
      BY <1>2 DEF RuntimeAssumption
    <2>2. [at |-> u.now + CamInterval, cb |-> CamCb] \in Event
      BY <2>1, Events
    <2>3. CamCb.kind # "position"
      BY DEF CamCb
    <2> QED
      BY <2>2, <2>3 DEF Soon
  <1> HIDE DEF V
  <1>7. Same(t, s, u) /\ s.queue \in Seq(V)
    <2>1. s = schedule(u, CamInterval, CamCb)
      OBVIOUS
    <2> HIDE DEF s
    <2> QED
      BY <1>2, <1>5, <1>6, <2>1, ScheduleIs
  <1>8. Missing(t, s, "repeater")
    <2>1. [at |-> u.now + CamInterval, cb |-> CamCb] \in Event /\ Scope(CamCb) = "application"
      BY <1>5, <1>6, Scopes
    <2> QED
      BY <1>3, <2>1, MissingScheduled
  <1> HIDE DEF s
  <1>9. Good(t, r) /\ Onward(t, r, s) /\ r.queue \in Seq(V)
    <2>1. MayRepeat(s, {}, V)
      BY DEF MayRepeat
    <2> QED
      BY <1>5, <1>7, <1>8, <2>1, RequestIs DEF RunInv
  <1> HIDE DEF r
  <1>10. Base(t, s) /\ Base(t, r)
    BY <1>8, <1>9 DEF Missing, Good
  <1>11. Onward(t, r, u)
    BY <1>2, <1>7, <1>9, <1>10, SameOnward, OnwardOn
  <1>12. Swift(t, r)
    BY <1>2, <1>9, <1>10, <1>11, OnwardSwift DEF V
  <1> QED
    BY <1>4, <1>10, <1>12, SwiftAfter

LEMMA RepeatArm ==
  ASSUME RunInv, ArmInv, Prompt, RuntimeAssumption, NEW t \in Threads, Repeat(t)
  PROVE  ArmInv'
  <1>1. PICK e \in Callbacks(t) : \E rep \in e.cb.rep :
          LET s == Taken(t)
              next == Reduced(s, e, rep)
          IN  Becomes(t, request(s, IF has_further_repetition(next) THEN {next} ELSE {}))
    BY DEF Repeat
  <1>2. PICK rep \in e.cb.rep :
          LET s == Taken(t)
              next == Reduced(s, e, rep)
          IN  Becomes(t, request(s, IF has_further_repetition(next) THEN {next} ELSE {}))
    BY <1>1
  <1> DEFINE u == Taken(t)
             V == Soon(u.now)
             next == Reduced(u, e, rep)
             again == IF has_further_repetition(next) THEN {next} ELSE {}
             r == request(u, again)
  <1>3. Base(t, u) /\ u.flow /\ u.queue \in Seq(V) /\ u.now \in Int /\ Calls(t, u, "trigger")
    BY TakenSwift
  <1>4. Missing(t, u, "repeater") /\ e \in Event
    <2>1. e \in Event /\ Missing(t, u, Scope(e.cb))
      BY TakenIs
    <2>2. e.cb \in Callback /\ e.cb.rep # {}
      BY <2>1 DEF Event
    <2>3. Scope(e.cb) = "repeater"
      BY <2>2, Scopes
    <2> QED
      BY <2>1, <2>3
  <1>5. Becomes(t, r)
    BY <1>2
  <1> HIDE DEF u
  <1>6. V \subseteq Event
    BY SoonIs
  <1>7. /\ next \in Repetition
        /\ has_further_repetition(next) => [at |-> u.now + next.interval, cb |-> RepeatCb(next)] \in Event
    <2>1. next = [decrement_by_one(rep) EXCEPT !.left = @ - (u.now - e.at)]
      BY DEF Reduced
    <2> HIDE DEF next
    <2> QED
      BY <1>3, <1>4, <2>1, ReducedIs
  <1> HIDE DEF next
  <1>8. MayRepeat(u, again, V)
    <2>1. RepeatCb(next).kind # "position"
      BY DEF RepeatCb
    <2>2. has_further_repetition(next) => [at |-> u.now + next.interval, cb |-> RepeatCb(next)] \in V
      BY <1>7, <2>1 DEF Soon
    <2> HIDE DEF V
    <2> QED
      BY <1>7, <2>2 DEF MayRepeat
  <1> HIDE DEF again, V
  <1>9. Good(t, r) /\ Onward(t, r, u) /\ r.queue \in Seq(V)
    BY <1>3, <1>4, <1>6, <1>8, RequestIs DEF RunInv
  <1> HIDE DEF r
  <1>10. Swift(t, r) /\ Base(t, r)
    BY <1>3, <1>9, OnwardSwift DEF V, Good
  <1> QED
    BY <1>5, <1>10, SwiftAfter

LEMMA PositionArm ==
  ASSUME RunInv, ArmInv, Prompt, RuntimeAssumption, NEW t \in Threads, update_position_vector(t)
  PROVE  ArmInv'
  <1>1. PICK e \in Callbacks(t), pai \in Accuracies :
          Becomes(t, Triggered(Push(schedule(Taken(t), PositionPeriod, PositionCb),
                                    [f |-> "position", pai |-> pai])))
    BY DEF update_position_vector
  <1> DEFINE u == Taken(t)
             V == Soon(u.now)
             s == schedule(u, PositionPeriod, PositionCb)
             frame == [f |-> "position", pai |-> pai]
             p == Push(s, frame)
             r == Triggered(p)
  <1>2. Base(t, u) /\ u.flow /\ u.queue \in Seq(V) /\ u.now \in Int /\ Calls(t, u, "trigger")
    BY TakenSwift
  <1>3. Becomes(t, r)
    BY <1>1
  <1> HIDE DEF u
  <1>4. V \subseteq Event
    BY SoonIs
  <1>5. [at |-> u.now + PositionPeriod, cb |-> PositionCb] \in V
    <2>1. u.now + PositionPeriod \in Int /\ u.now + PositionPeriod <= u.now + PositionPeriod
      BY <1>2 DEF RuntimeAssumption
    <2>2. [at |-> u.now + PositionPeriod, cb |-> PositionCb] \in Event
      BY <2>1, Events
    <2> QED
      BY <2>1, <2>2 DEF Soon
  <1> HIDE DEF V
  <1>6. Same(t, s, u) /\ s.queue \in Seq(V)
    <2>1. s = schedule(u, PositionPeriod, PositionCb)
      OBVIOUS
    <2> HIDE DEF s
    <2> QED
      BY <1>2, <1>4, <1>5, <2>1, ScheduleIs
  <1> HIDE DEF s
  <1>7. Base(t, s) /\ Onward(t, s, u)
    BY <1>2, <1>6, SameOnward DEF Same
  <1>8. frame \in Frame /\ frame.f # "reset"
    BY DEF Frame, RuntimeAssumption
  <1> HIDE DEF frame
  <1>9. Keeps(t, p, s) /\ p.flow = s.flow
    BY <1>7, <1>8, PushIs
  <1> HIDE DEF p
  <1>10. Keeps(t, r, p) /\ r.flow = p.flow
    BY <1>9, TriggeredIs DEF Keeps, RunInv
  <1> HIDE DEF r
  <1>11. Keeps(t, r, s) /\ r.flow = s.flow
    BY <1>7, <1>9, <1>10, KeepsOn
  <1>12. Base(t, r) /\ Onward(t, r, u) /\ r.queue \in Seq(V)
    <2>1. Base(t, r) /\ Onward(t, r, s) /\ r.queue = s.queue
      BY <1>11, KeepsOnward DEF Keeps
    <2> QED
      BY <1>2, <1>6, <1>7, <2>1, OnwardOn
  <1>13. Swift(t, r)
    BY <1>2, <1>12, OnwardSwift DEF V
  <1> QED
    BY <1>3, <1>12, <1>13, SwiftAfter

\* A beacon scheduled now is later than the next position update.
LEMMA BeaconLater ==
  ASSUME RuntimeAssumption, Prompt, NEW p, NEW t, Base(t, p), p.queue \in Seq(Soon(p.now)), One(p.queue, "none"),
         NEW jitter \in Jitters, NEW r, r = reset_beacon_timer(p, jitter), InTime(p.armed, p.queue)
  PROVE  InTime(r.armed, r.queue)
  <1> DEFINE c == cancel(p, "router")
             n == p.now
             at1 == n + (BeaconPeriod + jitter)
  <1>1. n \in Int /\ PositionPeriod \in Int /\ BeaconPeriod \in Int /\ jitter \in Nat /\ at1 \in Int
    BY Whole DEF RuntimeAssumption
  <1>2. PICK at \in p.armed : at \in Int /\ (at <= PositionPeriod \/ p.queue \in Seq(NotBefore(at)))
    BY DEF InTime
  <1>3. r = schedule(c, BeaconPeriod + jitter, BeaconCb)
    BY DEF reset_beacon_timer
  <1>4. [at |-> at1, cb |-> BeaconCb] \in Event
    BY <1>1, Events
  <1>5. ASSUME NEW V, V \subseteq Event, p.queue \in Seq(V), [at |-> at1, cb |-> BeaconCb] \in V
        PROVE  r.queue \in Seq(V) /\ r.armed = p.armed
    <2>1. c = cancel(p, "router")
      OBVIOUS
    <2> HIDE DEF c
    <2>2. Same(t, c, p) /\ c.queue \in Seq(V)
      BY <1>5, <2>1, CancelledIs
    <2>3. Base(t, c) /\ c.now = n
      BY <2>2 DEF Same
    <2>4. [at |-> c.now + (BeaconPeriod + jitter), cb |-> BeaconCb] \in V
      BY <1>5, <2>3
    <2>5. Same(t, r, c) /\ r.queue \in Seq(V)
      BY <1>3, <1>5, <2>2, <2>3, <2>4, ScheduleIs
    <2> QED
      BY <2>2, <2>5 DEF Same
  <1> HIDE DEF c
  <1>6. r.armed = p.armed
    BY <1>4, <1>5, Whole
  <1>7. CASE at <= PositionPeriod
    BY <1>2, <1>6, <1>7 DEF InTime
  <1>8. CASE p.queue \in Seq(NotBefore(at))
    <2> DEFINE first == Head(p.queue)
    <2>1. p.queue # <<>> /\ first.at \in Int /\ first.at <= n + PositionPeriod
      <3>1. Sorted(p.queue) /\ ~None(p.queue, "none")
        BY SomeIn DEF Base
      <3> QED
        BY <1>1, <3>1, FirstIsSoon
    <2>2. first \in NotBefore(at)
      BY <1>8, <2>1, HeadTailProperties
    <2> HIDE DEF first
    <2>3. at <= first.at
      BY <2>2 DEF NotBefore
    <2>4. at <= at1
      BY <1>1, <1>2, <2>1, <2>3 DEF Prompt
    <2>5. [at |-> at1, cb |-> BeaconCb] \in NotBefore(at) /\ NotBefore(at) \subseteq Event
      <3> HIDE DEF at1
      <3> QED
        BY <1>4, <2>4 DEF NotBefore
    <2>6. r.queue \in Seq(NotBefore(at))
      BY <1>5, <1>8, <2>5
    <2> QED
      BY <1>2, <1>6, <2>6 DEF InTime
  <1> QED
    BY <1>2, <1>7, <1>8

LEMMA PassedDownArm ==
  ASSUME RunInv, ArmInv, Prompt, RuntimeAssumption, NEW t \in Threads, PassedDown(t)
  PROVE  ArmInv'
  <1>1. PICK jitter \in Jitters : Becomes(t, reset_beacon_timer(Pop(WithStack(t)), jitter))
    BY DEF PassedDown
  <1> DEFINE w == WithStack(t)
             p == Pop(w)
             c == cancel(p, "router")
             r == reset_beacon_timer(p, jitter)
  <1>2. /\ Good(t, w) /\ Swift(t, w) /\ w.stack = stack[t] /\ w.queue = rt.queue
        /\ In(t, "pass_down") /\ One(rt.queue, "none")
    BY GoodBefore, SwiftBefore, NoReset DEF PassedDown, Prompt
  <1>3. Becomes(t, r)
    BY <1>1
  <1> HIDE DEF w
  <1>4. w.stack # <<>> /\ Last(w.stack).f = "pass_down"
    BY <1>2 DEF In
  <1>5. /\ Base(t, p) /\ p.queue = w.queue /\ p.now = w.now /\ p.flow = w.flow /\ p.armed = w.armed
        /\ Calls(t, w, "trigger") => Calls(t, p, "trigger")
    BY <1>2, <1>4, PopIs DEF Good
  <1> HIDE DEF p
  <1>6. p.flow /\ p.queue \in Seq(Soon(p.now)) /\ (Calls(t, p, "trigger") \/ InTime(p.armed, p.queue))
    BY <1>2, <1>5 DEF Swift
  <1>7. Soon(p.now) \subseteq Event /\ p.now \in Int
    BY <1>5, SoonIs, Whole
  <1>8. Same(t, c, p) /\ c.queue \in Seq(Soon(p.now))
    <2>1. c = cancel(p, "router")
      OBVIOUS
    <2> HIDE DEF c
    <2> QED
      BY <1>5, <1>6, <1>7, <2>1, CancelledIs
  <1>9. Base(t, c) /\ c.now = p.now
    BY <1>8 DEF Same
  <1>10. Same(t, r, c) /\ r.queue \in Seq(Soon(p.now))
    <2>1. r = schedule(c, BeaconPeriod + jitter, BeaconCb)
      BY DEF reset_beacon_timer
    <2>2. c.now + (BeaconPeriod + jitter) \in Int /\ BeaconCb.kind # "position"
      BY <1>7, <1>9 DEF RuntimeAssumption, BeaconCb
    <2>3. [at |-> c.now + (BeaconPeriod + jitter), cb |-> BeaconCb] \in Event
      BY <2>2, Events
    <2>4. [at |-> c.now + (BeaconPeriod + jitter), cb |-> BeaconCb] \in Soon(p.now)
      BY <2>2, <2>3 DEF Soon
    <2> HIDE DEF c, r
    <2> QED
      BY <1>7, <1>8, <1>9, <2>1, <2>4, ScheduleIs
  <1>11. /\ Base(t, r) /\ r.now = p.now /\ r.flow = p.flow
         /\ Calls(t, p, "trigger") => Calls(t, r, "trigger")
    BY <1>8, <1>10 DEF Same
  <1>12. InTime(p.armed, p.queue) => InTime(r.armed, r.queue)
    <2>1. One(p.queue, "none") /\ r = reset_beacon_timer(p, jitter)
      BY <1>2, <1>5
    <2> HIDE DEF r
    <2> QED
      BY <1>5, <1>6, <2>1, BeaconLater
  <1> HIDE DEF r
  <1>13. Swift(t, r)
    BY <1>6, <1>10, <1>11, <1>12 DEF Swift
  <1> QED
    BY <1>3, <1>11, <1>13, SwiftAfter

\* A call ends that is neither trigger() nor pass_down.
LEMMA PopSwift ==
  ASSUME RunInv, ArmInv, NEW t \in Threads, NEW f, In(t, f), f \notin {"reset", "pass_down"}
  PROVE  /\ Base(t, Pop(WithStack(t))) /\ Pop(WithStack(t)).flow
         /\ Pop(WithStack(t)).queue \in Seq(Soon(Pop(WithStack(t)).now))
         /\ f # "trigger" => Swift(t, Pop(WithStack(t)))
  <1> DEFINE w == WithStack(t)
             p == Pop(w)
  <1>1. /\ Good(t, p) /\ p.queue = rt.queue /\ p.now = rt.now /\ p.flow = rt.flow /\ p.armed = rt.armed
        /\ \A x : x # f /\ Calls(t, w, x) => Calls(t, p, x)
    BY PopGood
  <1>2. Swift(t, w) /\ w.queue = rt.queue /\ w.now = rt.now /\ w.flow = rt.flow /\ w.armed = rt.armed
    BY SwiftBefore, GoodBefore
  <1> HIDE DEF w, p
  <1> QED
    BY <1>1, <1>2 DEF Swift, Good, w, p

LEMMA FlowArm ==
  ASSUME RunInv, ArmInv, Prompt, RuntimeAssumption, NEW t \in Threads, update_packet_flow(t)
  PROVE  ArmInv'
  <1> DEFINE p == Pop(WithStack(t))
             r == [p EXCEPT !.flow = RequireFix => Last(stack[t]).pai]
  <1>1. Base(t, p) /\ p.flow /\ Swift(t, p)
    BY PopSwift DEF update_packet_flow
  <1>2. Becomes(t, r)
    BY DEF update_packet_flow
  <1> HIDE DEF p
  <1>3. r = [p EXCEPT !.flow = TRUE]
    BY DEF Prompt
  <1> HIDE DEF r
  <1>4. r = p
    BY <1>1, <1>3 DEF Base, State
  <1> QED
    BY <1>1, <1>2, <1>4, SwiftAfter

LEMMA RearmArm ==
  ASSUME RunInv, ArmInv, Prompt, RuntimeAssumption, NEW t \in Threads, Rearm(t)
  PROVE  ArmInv'
  <1> DEFINE w == WithStack(t)
             p == Pop(w)
             armed == Armed(w)
             r == [p EXCEPT !.armed = armed]
             q == rt.queue
             at == Head(q).at
  <1>1. Base(t, p) /\ p.flow /\ p.queue \in Seq(Soon(p.now)) /\ p.queue = q
    BY PopSwift, PopGood DEF Rearm
  <1>2. Becomes(t, r)
    BY DEF Rearm
  <1>3. q # <<>> /\ q \in Seq(Event) /\ Sorted(q)
    <2>1. One(q, "none")
      BY NoReset DEF Prompt
    <2>2. q # <<>>
      BY <2>1, Empty
    <2> QED
      BY <2>2 DEF RunInv
  <1>4. armed = {at}
    BY <1>3, GoodBefore DEF Armed
  <1> HIDE DEF p, armed
  <1>5. at \in Int /\ q \in Seq(NotBefore(at))
    <2>1. Head(q) = q[1] /\ Len(q) \in Nat /\ 1 \in 1..Len(q) /\ \A i \in 1..Len(q) : q[i] \in Event
      BY <1>3
    <2>2. \A e \in Event : e.at \in Int
      BY DEF Event
    <2>3. \A i \in 1..Len(q) : i = 1 \/ 1 < i
      BY <2>1
    <2> HIDE DEF q
    <2>4. \A i \in 1..Len(q) : at <= q[i].at
      BY <1>3, <2>1, <2>2, <2>3 DEF Sorted
    <2>5. \A i \in 1..Len(q) : q[i] \in NotBefore(at)
      BY <2>1, <2>4 DEF NotBefore
    <2>6. q \in Seq(NotBefore(at))
      BY <1>3, <2>5
    <2> QED
      BY <2>1, <2>2, <2>6
  <1>6. InTime(armed, q)
    BY <1>4, <1>5 DEF InTime
  <1>7. /\ r \in State /\ r.queue = p.queue /\ r.stack = p.stack /\ r.now = p.now /\ r.flow = p.flow
        /\ r.armed = armed
    <2>1. armed \in Single
      BY <1>4, <1>5 DEF Single
    <2> QED
      BY <1>1, <2>1 DEF Base, State
  <1> HIDE DEF r, q
  <1>8. Base(t, r) /\ Swift(t, r)
    BY <1>1, <1>6, <1>7 DEF Base, Swift
  <1> QED
    BY <1>2, <1>8, SwiftAfter

LEMMA RequestArm ==
  ASSUME RunInv, ArmInv, Prompt, RuntimeAssumption, NEW t \in Threads, Request(t)
  PROVE  ArmInv'
  <1> DEFINE w == WithStack(t)
             V == Soon(w.now)
  <1>1. Good(t, w) /\ Swift(t, w) /\ w.now = rt.now /\ w.now \in Int
    BY GoodBefore, SwiftBefore, Whole DEF Good
  <1> HIDE DEF w
  <1>2. V \subseteq Event
    BY SoonIs
  <1>3. \E rep : MayRepeat(w, rep, V) /\ Becomes(t, request(w, rep))
    <2>1. CASE Becomes(t, request(w, {}))
      <3>1. MayRepeat(w, {}, V)
        BY DEF MayRepeat
      <3> QED
        BY <2>1, <3>1
    <2>2. ASSUME NEW x \in Repetitions,
                 Becomes(t, request(w, {[interval |-> x.interval, left |-> x.maximum, until |-> rt.now + x.maximum]}))
          PROVE  \E rep : MayRepeat(w, rep, V) /\ Becomes(t, request(w, rep))
      <3> DEFINE r == [interval |-> x.interval, left |-> x.maximum, until |-> rt.now + x.maximum]
      <3>1. r \in Repetition /\ (has_further_repetition(r) => [at |-> rt.now + r.interval, cb |-> RepeatCb(r)] \in Event)
        BY <1>1, RequestedIs
      <3>2. Becomes(t, request(w, {r}))
        BY <2>2
      <3> HIDE DEF r
      <3>3. RepeatCb(r).kind # "position"
        BY DEF RepeatCb
      <3>4. has_further_repetition(r) => [at |-> w.now + r.interval, cb |-> RepeatCb(r)] \in V
        BY <1>1, <3>1, <3>3 DEF Soon
      <3> HIDE DEF V
      <3>5. MayRepeat(w, {r}, V)
        BY <3>1, <3>4 DEF MayRepeat
      <3> QED
        BY <3>2, <3>5
    <2> QED
      BY <2>1, <2>2 DEF Request, w
  <1>4. PICK rep : MayRepeat(w, rep, V) /\ Becomes(t, request(w, rep))
    BY <1>3
  <1> DEFINE r == request(w, rep)
  <1>5. w.flow /\ w.queue \in Seq(V)
    BY <1>1 DEF Swift
  <1>6. Good(t, r) /\ Onward(t, r, w) /\ r.queue \in Seq(V) /\ (r = w \/ Calls(t, r, "trigger"))
    <2>1. Missing(t, w, "repeater")
      BY <1>1, GoodIs
    <2> HIDE DEF V
    <2> QED
      BY <1>2, <1>4, <1>5, <2>1, RequestIs DEF RunInv
  <1>7. Becomes(t, r)
    BY <1>4
  <1> HIDE DEF r
  <1>8. Base(t, r) /\ Base(t, w) /\ r.now \in Int
    BY <1>1, <1>6, Whole DEF Good
  <1>9. r.flow /\ r.queue \in Seq(Soon(r.now))
    <2>1. V \subseteq Soon(r.now)
      BY <1>1, <1>6, <1>8, SoonIs DEF Onward
    <2> QED
      BY <1>5, <1>6, <2>1, SeqMonotonic DEF Onward
  <1>10. Swift(t, r)
    BY <1>1, <1>6, <1>9 DEF Swift
  <1> QED
    BY <1>7, <1>8, <1>10, SwiftAfter

\* trigger() is called: whatever the io timer is set to, it is set again.
LEMMA TriggeredSwift ==
  ASSUME RuntimeAssumption, NEW t, NEW s, Base(t, s), s.flow, s.queue \in Seq(Soon(s.now)), clock \in 0..MaxClock
  PROVE  Base(t, Triggered(s)) /\ Swift(t, Triggered(s))
  <1> DEFINE r == Triggered(s)
  <1>1. Keeps(t, r, s) /\ Calls(t, r, "trigger") /\ r.flow = s.flow
    BY TriggeredIs
  <1> HIDE DEF r
  <1>2. Base(t, r) /\ r.now \in Int /\ s.now \in Int
    BY <1>1, Whole DEF Keeps
  <1>3. Soon(s.now) \subseteq Soon(r.now)
    BY <1>1, <1>2, SoonIs DEF Keeps
  <1>4. r.queue \in Seq(Soon(r.now))
    BY <1>1, <1>3, SeqMonotonic DEF Keeps
  <1> QED
    BY <1>1, <1>2, <1>4 DEF Swift, r

LEMMA TimeoutArm ==
  ASSUME RunInv, ArmInv, Prompt, RuntimeAssumption, on_timeout
  PROVE  ArmInv'
  <1> DEFINE w == WithStack(Io)
             s == [w EXCEPT !.armed = {}]
  <1>1. Io \in Threads /\ clock \in 0..MaxClock
    BY DEF RuntimeAssumption, RunInv
  <1>2. Base(Io, w) /\ w \in State /\ w.flow /\ w.queue \in Seq(Soon(w.now))
    BY <1>1, GoodBefore, SwiftBefore DEF Good, Base, Swift
  <1>3. Becomes(Io, Triggered(s))
    BY DEF on_timeout
  <1> HIDE DEF w
  <1>4. s \in State /\ s.queue = w.queue /\ s.stack = w.stack /\ s.now = w.now /\ s.flow = w.flow
    <2>1. {} \in Single
      BY DEF Single
    <2> QED
      BY <1>2, <2>1 DEF State
  <1> HIDE DEF s
  <1>5. Base(Io, s) /\ s.flow /\ s.queue \in Seq(Soon(s.now))
    BY <1>2, <1>4 DEF Base
  <1>6. Base(Io, Triggered(s)) /\ Swift(Io, Triggered(s))
    BY <1>1, <1>5, TriggeredSwift
  <1> QED
    BY <1>1, <1>3, <1>6, SwiftAfter

LEMMA IndicateArm ==
  ASSUME RunInv, ArmInv, Prompt, RuntimeAssumption, indicate
  PROVE  ArmInv'
  <1> DEFINE w == WithStack(Io)
             frame == [f |-> "indicate"]
             p == Push(w, frame)
  <1>1. Io \in Threads /\ clock \in 0..MaxClock
    BY DEF RuntimeAssumption, RunInv
  <1>2. Base(Io, w) /\ w.flow /\ w.queue \in Seq(Soon(w.now))
    BY <1>1, GoodBefore, SwiftBefore DEF Good, Swift
  <1>3. Becomes(Io, Triggered(p))
    BY DEF indicate
  <1> HIDE DEF w
  <1>4. frame \in Frame /\ frame.f # "reset"
    BY DEF Frame
  <1> HIDE DEF frame
  <1>5. Keeps(Io, p, w) /\ p.flow = w.flow /\ p.now = w.now
    BY <1>2, <1>4, PushIs
  <1> HIDE DEF p
  <1>6. Base(Io, p) /\ p.flow /\ p.queue \in Seq(Soon(p.now))
    BY <1>2, <1>5 DEF Keeps
  <1>7. Base(Io, Triggered(p)) /\ Swift(Io, Triggered(p))
    BY <1>1, <1>6, TriggeredSwift
  <1> QED
    BY <1>1, <1>3, <1>7, SwiftAfter

LEMMA IndicatedArm ==
  ASSUME RunInv, ArmInv, Prompt, RuntimeAssumption, Indicated
  PROVE  ArmInv'
  <1> DEFINE p == Pop(WithStack(Io))
  <1>1. Io \in Threads /\ clock \in 0..MaxClock
    BY DEF RuntimeAssumption, RunInv
  <1>2. Base(Io, p) /\ p.flow /\ p.queue \in Seq(Soon(p.now))
    BY <1>1, PopSwift DEF Indicated
  <1>3. Becomes(Io, Triggered(p))
    BY DEF Indicated
  <1> HIDE DEF p
  <1>4. Base(Io, Triggered(p)) /\ Swift(Io, Triggered(p))
    BY <1>1, <1>2, TriggeredSwift
  <1> QED
    BY <1>1, <1>3, <1>4, SwiftAfter

LEMMA ArmInit ==
  ASSUME Prompt, RuntimeAssumption, Init
  PROVE  ArmInv
  <1>1. PICK jitter \in Jitters, pai \in Accuracies : LET s == Started(jitter) IN
          rt = [now |-> s.now, queue |-> s.queue, armed |-> s.armed, flow |-> RequireFix => pai]
    BY DEF Init
  <1> DEFINE s == Started(jitter)
  <1>2. clock = 0
    BY DEF Init
  <1>3. /\ s.queue \in Seq(Soon(0)) /\ s.now = 0
        /\ \E at \in s.armed : at \in Int /\ at <= PositionPeriod
    <2>1. s = Started(jitter)
      OBVIOUS
    <2> HIDE DEF s
    <2> QED
      BY <1>2, <2>1, StartedIs
  <1>4. rt.now = s.now /\ rt.queue = s.queue /\ rt.armed = s.armed /\ rt.flow
    BY <1>1 DEF Prompt
  <1> HIDE DEF s
  <1> QED
    BY <1>3, <1>4 DEF ArmInv, InTime

LEMMA ArmNext ==
  ASSUME RunInv, ArmInv, Prompt, RuntimeAssumption, [Next]_vars
  PROVE  ArmInv'
  <1>1. ASSUME rt' = rt, stack' = stack
        PROVE  ArmInv'
    BY <1>1 DEF ArmInv
  <1>2. CASE Next
    <2>1. ~reset /\ ~ResetDone
      BY NoReset DEF reset, ResetDone, Prompt, RuntimeAssumption
    <2>2. CASE Tick
      BY <1>1, <2>2 DEF Tick
    <2>3. ASSUME NEW t \in Threads,
                 \/ on_beacon_timer_expired(t) \/ on_timer(t) \/ Repeat(t) \/ update_position_vector(t)
                 \/ PassedDown(t) \/ update_packet_flow(t) \/ Rearm(t) \/ Request(t)
          PROVE  ArmInv'
      BY <2>3, BeaconArm, CamArm, RepeatArm, PositionArm, PassedDownArm, FlowArm, RearmArm, RequestArm
    <2>4. CASE on_timeout \/ indicate \/ Indicated
      BY <2>4, TimeoutArm, IndicateArm, IndicatedArm
    <2> QED
      BY <1>2, <2>1, <2>2, <2>3, <2>4 DEF Next
  <1>3. CASE UNCHANGED vars
    BY <1>1, <1>3 DEF vars
  <1> QED
    BY <1>2, <1>3

LEMMA ArmInvIs ==
  ASSUME RunInv, ArmInv
  PROVE  ArmedInTime
  <1> SUFFICES ASSUME \A t \in Threads : Idle(t), rt.queue # <<>>
               PROVE  \E at \in rt.armed : at <= Head(rt.queue).at \/ at <= PositionPeriod
    BY DEF ArmedInTime
  <1>1. \A u \in Threads : ~HasFrame(stack[u], "trigger")
    BY DEF Idle, HasFrame
  <1>2. PICK at \in rt.armed : at <= PositionPeriod \/ rt.queue \in Seq(NotBefore(at))
    BY <1>1 DEF ArmInv, InTime
  <1>3. rt.queue \in Seq(NotBefore(at)) => at <= Head(rt.queue).at
    BY HeadTailProperties DEF NotBefore
  <1> QED
    BY <1>2, <1>3

(***************************************************************************)
(* Nothing that is scheduled waits for a packet to arrive: while no thread *)
(* is inside the runtime, the io timer is set for the first callback or    *)
(* earlier, or for the first position update after the start.              *)
(***************************************************************************)
THEOREM IoTimerArmed == RuntimeAssumption /\ Prompt => (Spec => []ArmedInTime)
  <1> SUFFICES ASSUME RuntimeAssumption, Prompt
               PROVE  Spec => []ArmedInTime
    OBVIOUS
  <1>1. Init => RunInv /\ ArmInv
    BY RunInit, ArmInit
  <1>2. RunInv /\ ArmInv /\ [Next]_vars => (RunInv /\ ArmInv)'
    BY RunNext, ArmNext
  <1>3. RunInv /\ ArmInv => ArmedInTime
    BY ArmInvIs
  <1> QED
    BY <1>1, <1>2, <1>3, PTL DEF Spec
=============================================================================

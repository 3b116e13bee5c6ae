---------------------------- MODULE BufferProofs -----------------------------
(***************************************************************************)
(* The buffers of a router: that of contention based forwarding for every  *)
(* set of packets, all lengths, timeouts and lifetimes, every capacity and *)
(* every delay of the runtime; and the one of store carry forward for      *)
(* packets of all sizes and lifetimes and every capacity.                  *)
(***************************************************************************)
EXTENDS CbfPacketBuffer, FiniteSetTheorems, SequenceTheorems, WellFoundedInduction, TLAPS

CONSTANTS ScfIds, ScfLength, ScfCapacity, ScfLifetimes, ScfTickMs, AgeCap      \* PacketBuffer
VARIABLES nodes, scfBytes, arrived, sent                                       \* PacketBuffer

Scf == INSTANCE PacketBuffer WITH
  Ids <- ScfIds, Length <- ScfLength, Capacity <- ScfCapacity, Lifetimes <- ScfLifetimes,
  TickMs <- ScfTickMs, stored <- scfBytes

(***************************************************************************)
(* A nonempty set of natural numbers has a least element.  What the        *)
(* lemmas below show by induction is shown by a least counterexample.      *)
(***************************************************************************)
LEMMA Least ==
  ASSUME NEW T, T \subseteq Nat, T # {}
  PROVE  \E x \in T : \A y \in T : x <= y
  <1>1. PICK x \in T : \A y \in T : ~(<<y, x>> \in OpToRel(<, Nat))
    BY NatLessThanWellFounded, WFMin, Zenon
  <1>2. \A y \in T : ~(y < x)
    BY <1>1 DEF OpToRel
  <1> QED
    BY <1>2

-----------------------------------------------------------------------------
(***************************************************************************)
(* Sums of bytes.  Bytes is a fold that picks the elements of a set in an  *)
(* order of its own; g is the function it is defined by.                   *)
(***************************************************************************)
First(s) == CHOOSE x \in s : TRUE

Sums(S, g) ==
  g = [s \in SUBSET S |-> IF s = {} THEN 0 ELSE Length[First(s)] + g[s \ {First(s)}]]

LEMMA BytesIsFold ==
  ASSUME NEW S
  PROVE  Bytes(S) = (CHOOSE g : Sums(S, g))[S]
  BY DEF Bytes, MapThenSumSet, MapThenFoldSet, Sums, First

\* Taking an element out makes a finite set smaller.
LEMMA Smaller ==
  ASSUME NEW S, IsFiniteSet(S), NEW x \in S
  PROVE  /\ IsFiniteSet(S \ {x}) /\ Cardinality(S) \in Nat
         /\ Cardinality(S \ {x}) = Cardinality(S) - 1 /\ Cardinality(S \ {x}) \in Nat
  BY FS_RemoveElement, FS_CardinalityType

LEMMA FirstIn ==
  ASSUME NEW s, s # {}
  PROVE  First(s) \in s
  BY DEF First

\* Two of the functions agree on what they have in common.
LEMMA SumsAgree ==
  ASSUME NEW S, NEW T, NEW g, NEW h, Sums(S, g), Sums(T, h),
         NEW U, IsFiniteSet(U), U \subseteq S, U \subseteq T
  PROVE  g[U] = h[U]
  <1> DEFINE Bad == {s \in SUBSET U : g[s] # h[s]}
             Sizes == {Cardinality(s) : s \in Bad}
  <1>1. \A s \in SUBSET U : IsFiniteSet(s) /\ Cardinality(s) \in Nat
    BY FS_Subset, FS_CardinalityType
  <1>2. Bad = {}
    <2> SUFFICES ASSUME Bad # {}
                 PROVE  FALSE
      OBVIOUS
    <2>1. Sizes \subseteq Nat /\ Sizes # {}
      BY <1>1
    <2>2. PICK n \in Sizes : \A k \in Sizes : n <= k
      <3> HIDE DEF Sizes
      <3> QED
        BY <2>1, Least
    <2>3. PICK s \in Bad : n = Cardinality(s)
      OBVIOUS
    <2>4. s \in SUBSET S /\ s \in SUBSET T /\ s \in SUBSET U /\ g[s] # h[s]
      OBVIOUS
    <2>5. s # {}
      BY <2>4 DEF Sums
    <2> DEFINE r == s \ {First(s)}
    <2>6. First(s) \in s
      BY <2>5, FirstIn
    <2>7. g[s] = Length[First(s)] + g[r] /\ h[s] = Length[First(s)] + h[r]
      BY <2>4, <2>5 DEF Sums
    <2>8. g[r] = h[r]
      <3>1. Cardinality(s) \in Nat /\ Cardinality(r) = Cardinality(s) - 1
        BY <1>1, <2>4, <2>6, Smaller
      <3>2. r \in SUBSET U
        BY <2>4
      <3>3. Cardinality(r) \notin Sizes
        <4> HIDE DEF Sizes, r
        <4> QED
          BY <2>2, <2>3, <3>1
      <3> HIDE DEF r
      <3> QED
        BY <3>2, <3>3
    <2> QED
      BY <2>4, <2>7, <2>8
  <1> QED
    BY <1>2

\* There is such a function for each finite set.
LEMMA SumsExist ==
  ASSUME NEW S0, IsFiniteSet(S0)
  PROVE  \E g : Sums(S0, g)
  <1> DEFINE Has(s) == \E g : Sums(s, g)
             Bad == {s \in SUBSET S0 : ~Has(s)}
             Sizes == {Cardinality(s) : s \in Bad}
  <1>1. \A s \in SUBSET S0 : IsFiniteSet(s) /\ Cardinality(s) \in Nat
    BY FS_Subset, FS_CardinalityType
  <1>2. Bad = {}
    <2> SUFFICES ASSUME Bad # {}
                 PROVE  FALSE
      OBVIOUS
    <2>1. Sizes \subseteq Nat /\ Sizes # {}
      BY <1>1
    <2>2. PICK n \in Sizes : \A k \in Sizes : n <= k
      <3> HIDE DEF Sizes
      <3> QED
        BY <2>1, Least
    <2>3. PICK S \in Bad : n = Cardinality(S)
      OBVIOUS
    <2>4. S \in SUBSET S0 /\ ~Has(S) /\ IsFiniteSet(S) /\ Cardinality(S) \in Nat
      BY <1>1
    <2>5. ASSUME NEW t \in SUBSET S, t # S
          PROVE  Sums(t, CHOOSE g : Sums(t, g)) /\ IsFiniteSet(t)
      <3>1. PICK x \in S : x \notin t
        BY <2>5
      <3>2. t \in SUBSET (S \ {x}) /\ IsFiniteSet(S \ {x}) /\ Cardinality(S \ {x}) = Cardinality(S) - 1
        BY <2>4, <3>1, Smaller
      <3>3. Cardinality(t) <= Cardinality(S) - 1 /\ Cardinality(t) \in Nat /\ IsFiniteSet(t)
        BY <3>2, FS_Subset, FS_CardinalityType
      <3>4. Cardinality(t) \notin Sizes
        <4> HIDE DEF Sizes
        <4> QED
          BY <2>2, <2>3, <2>4, <3>3
      <3>5. Has(t)
        BY <2>4, <3>4
      <3> QED
        BY <3>3, <3>5
    <2> DEFINE g == [s \in SUBSET S |->
                      IF s = {} THEN 0 ELSE Length[First(s)] + Bytes(s \ {First(s)})]
    <2>6. ASSUME NEW t \in SUBSET S, t # S
          PROVE  g[t] = Bytes(t)
      <3> DEFINE c(u) == CHOOSE f : Sums(u, f)
      <3>1. Sums(t, c(t)) /\ IsFiniteSet(t) /\ Bytes(t) = c(t)[t]
        BY <2>5, <2>6, BytesIsFold
      <3>2. CASE t = {}
        <4>1. c(t)[t] = 0
          <5> HIDE DEF c
          <5> QED
            BY <3>1, <3>2 DEF Sums
        <4> QED
          BY <3>1, <3>2, <4>1
      <3>3. CASE t # {}
        <4> DEFINE u == t \ {First(t)}
        <4>1. First(t) \in t
          BY <3>3, FirstIn
        <4>2. u \in SUBSET S /\ u # S /\ u \subseteq t
          BY <4>1
        <4>3. Sums(u, c(u)) /\ IsFiniteSet(u) /\ Bytes(u) = c(u)[u]
          BY <2>5, <4>2, BytesIsFold
        <4> HIDE DEF c
        <4>4. c(t)[u] = c(u)[u]
          <5> HIDE DEF u
          <5> QED
            BY <3>1, <4>2, <4>3, SumsAgree
        <4>5. c(t)[t] = Length[First(t)] + c(t)[u]
          BY <3>1, <3>3 DEF Sums
        <4>6. g[t] = Length[First(t)] + Bytes(u)
          BY <3>3
        <4> QED
          BY <3>1, <4>3, <4>4, <4>5, <4>6
      <3> QED
        BY <3>2, <3>3
    <2>7. ASSUME NEW s \in SUBSET S, s # {}
          PROVE  g[s \ {First(s)}] = Bytes(s \ {First(s)})
      <3>1. First(s) \in s
        BY <2>7, FirstIn
      <3>2. s \ {First(s)} \in SUBSET S /\ s \ {First(s)} # S
        BY <3>1
      <3> HIDE DEF g
      <3> QED
        BY <2>6, <3>2
    <2>8. g = [s \in SUBSET S |-> IF s = {} THEN 0 ELSE Length[First(s)] + g[s \ {First(s)}]]
      <3> DEFINE h == [s \in SUBSET S |-> IF s = {} THEN 0 ELSE Length[First(s)] + g[s \ {First(s)}]]
      <3>1. \A s \in SUBSET S : g[s] = h[s]
        <4> SUFFICES ASSUME NEW s \in SUBSET S
                     PROVE  g[s] = h[s]
          OBVIOUS
        <4>1. g[s] = IF s = {} THEN 0 ELSE Length[First(s)] + Bytes(s \ {First(s)})
          OBVIOUS
        <4>2. h[s] = IF s = {} THEN 0 ELSE Length[First(s)] + g[s \ {First(s)}]
          <5> HIDE DEF g
          <5> QED
            OBVIOUS
        <4> HIDE DEF g, h
        <4> QED
          BY <2>7, <4>1, <4>2
      <3>2. h = [s \in SUBSET S |-> h[s]] /\ g = [s \in SUBSET S |-> g[s]]
        OBVIOUS
      <3> HIDE DEF g, h
      <3>3. g = h
        BY <3>1, <3>2
      <3> QED
        BY <3>3 DEF h
    <2> HIDE DEF g
    <2>9. Has(S)
      BY <2>8 DEF Sums
    <2> QED
      BY <2>4, <2>9
  <1> QED
    BY <1>2

\* The equation Bytes is meant to satisfy.
LEMMA BytesEquation ==
  ASSUME NEW S, IsFiniteSet(S)
  PROVE  Bytes(S) = IF S = {} THEN 0 ELSE Length[First(S)] + Bytes(S \ {First(S)})
  <1> DEFINE c(u) == CHOOSE g : Sums(u, g)
  <1>1. Sums(S, c(S)) /\ Bytes(S) = c(S)[S]
    BY SumsExist, BytesIsFold
  <1>2. CASE S = {}
    <2> HIDE DEF c
    <2> QED
      BY <1>1, <1>2 DEF Sums
  <1>3. CASE S # {}
    <2> DEFINE u == S \ {First(S)}
    <2>1. IsFiniteSet(u) /\ u \subseteq S
      BY <1>3, FirstIn, Smaller
    <2>2. Sums(u, c(u)) /\ Bytes(u) = c(u)[u]
      BY <2>1, SumsExist, BytesIsFold
    <2> HIDE DEF c
    <2>3. c(S)[u] = c(u)[u]
      <3> HIDE DEF u
      <3> QED
        BY <1>1, <2>1, <2>2, SumsAgree
    <2>4. c(S)[S] = Length[First(S)] + c(S)[u]
      BY <1>1, <1>3 DEF Sums
    <2> QED
      BY <1>1, <1>3, <2>2, <2>3, <2>4
  <1> QED
    BY <1>2, <1>3

(***************************************************************************)
(* The order of the fold does not matter.                                  *)
(***************************************************************************)
LEMMA BytesWithout ==
  ASSUME BufferAssumption, NEW U, IsFiniteSet(U), U \subseteq Ids
  PROVE  /\ Bytes(U) \in Nat
         /\ \A x \in U : Bytes(U) = Length[x] + Bytes(U \ {x})
  <1> DEFINE Fine(s) == Bytes(s) \in Nat /\ \A x \in s : Bytes(s) = Length[x] + Bytes(s \ {x})
             Bad == {s \in SUBSET U : ~Fine(s)}
             Sizes == {Cardinality(s) : s \in Bad}
  <1>1. \A s \in SUBSET U : IsFiniteSet(s) /\ Cardinality(s) \in Nat
    BY FS_Subset, FS_CardinalityType
  <1>2. \A x \in Ids : Length[x] \in Nat
    BY DEF BufferAssumption
  <1>3. Bad = {}
    <2> SUFFICES ASSUME Bad # {}
                 PROVE  FALSE
      OBVIOUS
    <2>1. Sizes \subseteq Nat /\ Sizes # {}
      BY <1>1
    <2>2. PICK n \in Sizes : \A k \in Sizes : n <= k
      <3> HIDE DEF Sizes
      <3> QED
        BY <2>1, Least
    <2>3. PICK S \in Bad : n = Cardinality(S)
      OBVIOUS
    <2>4. S \in SUBSET U /\ ~Fine(S) /\ IsFiniteSet(S) /\ Cardinality(S) \in Nat
      BY <1>1
    <2>5. ASSUME NEW x \in S
          PROVE  Fine(S \ {x}) /\ IsFiniteSet(S \ {x})
      <3>1. IsFiniteSet(S \ {x}) /\ Cardinality(S \ {x}) = Cardinality(S) - 1
        BY <2>4, Smaller
      <3>2. Cardinality(S \ {x}) \notin Sizes
        <4> HIDE DEF Sizes
        <4> QED
          BY <2>2, <2>3, <2>4, <3>1
      <3>3. S \ {x} \in SUBSET U
        BY <2>4
      <3> HIDE DEF Fine
      <3> QED
        BY <3>1, <3>2, <3>3
    <2>6. CASE S = {}
      <3>1. Bytes(S) = 0
        BY <2>4, <2>6, BytesEquation
      <3> QED
        BY <2>4, <2>6, <3>1
    <2>7. CASE S # {}
      <3> DEFINE c == First(S)
      <3>1. c \in S /\ Bytes(S) = Length[c] + Bytes(S \ {c}) /\ c \in Ids
        BY <2>4, <2>7, FirstIn, BytesEquation
      <3> HIDE DEF c
      <3>2. Bytes(S) \in Nat /\ Bytes(S \ {c}) \in Nat
        BY <1>2, <2>5, <3>1
      <3>3. ASSUME NEW x \in S
            PROVE  Bytes(S) = Length[x] + Bytes(S \ {x})
        <4>1. CASE x = c
          BY <3>1, <4>1
        <4>2. CASE x # c
          <5> DEFINE t == S \ {c, x}
          <5>1. x \in S \ {c} /\ c \in S \ {x} /\ (S \ {c}) \ {x} = t /\ (S \ {x}) \ {c} = t /\ x \in Ids
            BY <2>4, <3>1, <4>2
          <5>2. Bytes(S \ {c}) = Length[x] + Bytes(t)
            <6>1. Bytes(S \ {c}) = Length[x] + Bytes((S \ {c}) \ {x})
              BY <2>5, <3>1, <5>1
            <6> QED
              BY <5>1, <6>1
          <5>3. Bytes(S \ {x}) = Length[c] + Bytes(t)
            <6>1. Bytes(S \ {x}) = Length[c] + Bytes((S \ {x}) \ {c})
              BY <2>5, <5>1
            <6> QED
              BY <5>1, <6>1
          <5>4. Bytes(S \ {x}) \in Nat /\ Bytes(t) \in Int
            <6>1. Bytes(S \ {x}) \in Nat /\ Fine(S \ {c}) /\ IsFiniteSet(S \ {c})
              BY <2>5, <3>1
            <6>2. IsFiniteSet(t)
              BY <5>1, <6>1, Smaller
            <6>3. Fine(t)
              <7>1. Cardinality(t) = Cardinality(S) - 2
                <8>1. Cardinality(S \ {c}) = Cardinality(S) - 1
                  BY <2>4, <3>1, Smaller
                <8>2. Cardinality((S \ {c}) \ {x}) = Cardinality(S \ {c}) - 1
                  BY <5>1, <6>1, Smaller
                <8> QED
                  BY <2>4, <5>1, <8>1, <8>2
              <7>2. Cardinality(t) \notin Sizes
                <8> HIDE DEF Sizes, t
                <8> QED
                  BY <2>2, <2>3, <2>4, <7>1
              <7>3. t \in SUBSET U
                BY <2>4
              <7> HIDE DEF Fine, t
              <7> QED
                BY <7>2, <7>3
            <6> QED
              BY <6>1, <6>3
          <5>5. Length[x] \in Nat /\ Length[c] \in Nat
            BY <1>2, <3>1, <5>1
          <5> HIDE DEF t, Fine
          <5> QED
            BY <3>1, <5>2, <5>3, <5>4, <5>5
        <4> QED
          BY <4>1, <4>2
      <3> QED
        BY <2>4, <3>2, <3>3
    <2> QED
      BY <2>6, <2>7
  <1> QED
    BY <1>3

(***************************************************************************)
(* What is taken out of a set, and what is put into it.                    *)
(***************************************************************************)
LEMMA BytesMinus ==
  ASSUME BufferAssumption, NEW T, IsFiniteSet(T), T \subseteq Ids, NEW R, R \subseteq T
  PROVE  Bytes(T \ R) = Bytes(T) - Bytes(R)
  <1> DEFINE Fine(s) == Bytes(T \ s) = Bytes(T) - Bytes(s)
             Bad == {s \in SUBSET R : ~Fine(s)}
             Sizes == {Cardinality(s) : s \in Bad}
  <1>1. \A s \in SUBSET T : IsFiniteSet(s) /\ Cardinality(s) \in Nat
    BY FS_Subset, FS_CardinalityType
  <1>2. \A s \in SUBSET T : Bytes(s) \in Nat /\ \A x \in s : Bytes(s) = Length[x] + Bytes(s \ {x})
    BY <1>1, BytesWithout
  <1>3. \A x \in T : Length[x] \in Nat
    BY DEF BufferAssumption
  <1>4. Bad = {}
    <2> SUFFICES ASSUME Bad # {}
                 PROVE  FALSE
      OBVIOUS
    <2>1. Sizes \subseteq Nat /\ Sizes # {}
      BY <1>1
    <2>2. PICK n \in Sizes : \A k \in Sizes : n <= k
      <3> HIDE DEF Sizes
      <3> QED
        BY <2>1, Least
    <2>3. PICK S \in Bad : n = Cardinality(S)
      OBVIOUS
    <2>4. S \in SUBSET R /\ S \in SUBSET T /\ ~Fine(S) /\ IsFiniteSet(S) /\ Cardinality(S) \in Nat
      BY <1>1
    <2>5. CASE S = {}
      <3>1. Bytes(S) = 0 /\ T \ S = T
        BY <2>4, <2>5, BytesEquation
      <3>2. Bytes(T) \in Nat
        BY <1>2
      <3>3. Bytes(T \ S) = Bytes(T)
        BY <3>1
      <3>4. Bytes(T \ S) = Bytes(T) - Bytes(S)
        BY <3>1, <3>2, <3>3
      <3> QED
        BY <2>4, <3>4
    <2>6. CASE S # {}
      <3>1. PICK x \in S : TRUE
        BY <2>6
      <3> DEFINE r == S \ {x}
                 u == T \ r
      <3>2. Cardinality(r) = Cardinality(S) - 1
        BY <2>4, Smaller
      <3>3. Cardinality(r) \notin Sizes
        <4> HIDE DEF Sizes, r
        <4> QED
          BY <2>2, <2>3, <2>4, <3>2
      <3>4. r \in SUBSET R /\ r \in SUBSET T /\ x \in u /\ u \in SUBSET T /\ u \ {x} = T \ S /\ x \in T
        BY <2>4
      <3>5. Fine(r)
        <4> HIDE DEF Fine, r
        <4> QED
          BY <3>3, <3>4
      <3>6. Bytes(S) = Length[x] + Bytes(r)
        BY <1>2, <2>4
      <3>7. Bytes(u) = Length[x] + Bytes(T \ S)
        <4>1. Bytes(u) = Length[x] + Bytes(u \ {x})
          BY <1>2, <3>4
        <4> QED
          BY <3>4, <4>1
      <3>8. /\ Bytes(u) \in Nat /\ Bytes(T) \in Nat /\ Bytes(S) \in Nat /\ Bytes(r) \in Nat
            /\ Bytes(T \ S) \in Nat /\ Length[x] \in Nat
        <4>1. T \in SUBSET T /\ T \ S \in SUBSET T
          OBVIOUS
        <4> HIDE DEF u, r
        <4> QED
          BY <1>2, <1>3, <2>4, <3>4, <4>1
      <3>9. Bytes(u) = Bytes(T) - Bytes(r)
        BY <3>5
      <3> HIDE DEF u, r
      <3> QED
        BY <2>4, <3>6, <3>7, <3>8, <3>9
    <2> QED
      BY <2>5, <2>6
  <1> QED
    BY <1>4

LEMMA BytesPlus ==
  ASSUME BufferAssumption, NEW T, IsFiniteSet(T), T \subseteq Ids, NEW x \in Ids, x \notin T
  PROVE  Bytes(T \cup {x}) = Bytes(T) + Length[x]
  <1> DEFINE u == T \cup {x}
  <1>1. IsFiniteSet(u) /\ u \subseteq Ids /\ x \in u /\ u \ {x} = T
    BY FS_AddElement
  <1>2. Bytes(u) = Length[x] + Bytes(u \ {x}) /\ Bytes(T) \in Nat /\ Length[x] \in Nat
    <2> HIDE DEF u
    <2> QED
      BY <1>1, BytesWithout DEF BufferAssumption
  <1>3. Bytes(u) = Length[x] + Bytes(T)
    BY <1>1, <1>2
  <1> QED
    BY <1>2, <1>3

-----------------------------------------------------------------------------
(***************************************************************************)
(* Lists of packets.                                                       *)
(***************************************************************************)
Distinct(s) == \A i, j \in 1..Len(s) : s[i] = s[j] => i = j

LEMMA LengthOfList ==
  ASSUME NEW s \in Seq(Ids), Distinct(s)
  PROVE  IsFiniteSet(Elements(s)) /\ Cardinality(Elements(s)) = Len(s) /\ Elements(s) \subseteq Ids
  <1> DEFINE T == Elements(s)
             D == 1..Len(s)
  <1>1. Len(s) \in Nat /\ DOMAIN s = D /\ T \subseteq Ids
    BY DEF Elements
  <1>2. s \in [D -> T] /\ \A t \in T : \E i \in D : s[i] = t
    BY <1>1 DEF Elements
  <1>3. \A i, j \in D : s[i] = s[j] => i = j
    BY DEF Distinct
  <1>4. IsFiniteSet(D) /\ Cardinality(D) = Len(s)
    BY <1>1, FS_Interval
  <1> HIDE DEF T, D
  <1>5. s \in Bijection(D, T)
    BY <1>1, <1>2, <1>3 DEF Bijection, Injection, Surjection, IsInjective
  <1>6. IsFiniteSet(T) /\ Cardinality(T) = Cardinality(D)
    BY <1>4, <1>5, FS_Bijection DEF ExistsBijection
  <1> QED
    BY <1>1, <1>4, <1>6 DEF T

\* The recursion of Remaining, from the elements before the n-th.
KeptAt(s, S, F, n) ==
  IF n = 0 THEN <<>> ELSE IF s[n] \in S THEN F[n - 1] ELSE Append(F[n - 1], s[n])
KeptUpTo(s, S, F, n) == \A i \in 0..n : F[i] = KeptAt(s, S, F, i)

LEMMA KeptExists ==
  ASSUME NEW s \in Seq(Ids), NEW S
  PROVE  \A n \in 0..Len(s) : \E F \in [0..n -> Seq(Ids)] : KeptUpTo(s, S, F, n)
  <1> DEFINE Has(n) == \E F \in [0..n -> Seq(Ids)] : KeptUpTo(s, S, F, n)
             Bad == {n \in 0..Len(s) : ~Has(n)}
  <1> SUFFICES ASSUME Bad # {}
               PROVE  FALSE
    OBVIOUS
  <1>1. Len(s) \in Nat /\ Bad \subseteq Nat
    OBVIOUS
  <1>2. PICK n \in Bad : \A k \in Bad : n <= k
    <2> HIDE DEF Bad
    <2> QED
      BY <1>1, Least
  <1>3. n \in 0..Len(s) /\ ~Has(n)
    OBVIOUS
  <1>4. CASE n = 0
    <2> DEFINE F == [i \in 0..0 |-> <<>>]
    <2>1. F \in [0..0 -> Seq(Ids)] /\ KeptUpTo(s, S, F, 0)
      BY DEF KeptUpTo, KeptAt
    <2> QED
      BY <1>3, <1>4, <2>1
  <1>5. CASE n # 0
    <2>1. n \in 1..Len(s) /\ n - 1 \in 0..Len(s) /\ ~(n <= n - 1)
      BY <1>1, <1>3, <1>5
    <2>2. n - 1 \notin Bad
      <3> HIDE DEF Bad
      <3> QED
        BY <1>2, <2>1
    <2>3. Has(n - 1)
      <3> HIDE DEF Has
      <3> QED
        BY <2>1, <2>2
    <2>4. PICK F \in [0..(n - 1) -> Seq(Ids)] : KeptUpTo(s, S, F, n - 1)
      BY <2>3
    <2> DEFINE G == [i \in 0..n |-> IF i = n THEN KeptAt(s, S, F, n) ELSE F[i]]
    <2>5. n - 1 \in 0..(n - 1) /\ F[n - 1] \in Seq(Ids) /\ s[n] \in Ids
      BY <2>1, <2>4
    <2>6. KeptAt(s, S, F, n) \in Seq(Ids)
      BY <2>5 DEF KeptAt
    <2>7. \A i \in 0..n : i # n => i \in 0..(n - 1) /\ G[i] = F[i]
      BY <2>1
    <2>8. G \in [0..n -> Seq(Ids)]
      BY <2>4, <2>6, <2>7
    <2>9. \A i \in 0..n : KeptAt(s, S, G, i) = KeptAt(s, S, F, i)
      <3> SUFFICES ASSUME NEW i \in 0..n, i # 0
                   PROVE  G[i - 1] = F[i - 1]
        BY DEF KeptAt
      <3> QED
        BY <2>1
    <2>10. KeptUpTo(s, S, G, n)
      <3> SUFFICES ASSUME NEW i \in 0..n
                   PROVE  G[i] = KeptAt(s, S, F, i)
        BY <2>9 DEF KeptUpTo
      <3>1. CASE i = n
        BY <3>1
      <3>2. CASE i # n
        <4> HIDE DEF G
        <4> QED
          BY <2>4, <2>7, <3>2 DEF KeptUpTo
      <3> QED
        BY <3>1, <3>2
    <2> HIDE DEF G
    <2> QED
      BY <1>3, <2>8, <2>10
  <1> QED
    BY <1>4, <1>5

LEMMA RemainingIsKept ==
  ASSUME NEW s \in Seq(Ids), NEW S
  PROVE  \E F : KeptUpTo(s, S, F, Len(s)) /\ Remaining(s, S) = F[Len(s)]
  <1> DEFINE Is(F) == F = [n \in 0..Len(s) |-> KeptAt(s, S, F, n)]
  <1>1. Remaining(s, S) = (CHOOSE F : Is(F))[Len(s)]
    BY DEF Remaining, KeptAt
  <1>2. Len(s) \in 0..Len(s)
    OBVIOUS
  <1>3. PICK F \in [0..Len(s) -> Seq(Ids)] : KeptUpTo(s, S, F, Len(s))
    BY <1>2, KeptExists
  <1>4. Is(F)
    BY <1>3 DEF KeptUpTo
  <1>5. Is(CHOOSE G : Is(G))
    <2> HIDE DEF Is
    <2> QED
      BY <1>4
  <1> DEFINE C0 == CHOOSE G : Is(G)
  <1>6. KeptUpTo(s, S, C0, Len(s))
    <2>1. C0 = [n \in 0..Len(s) |-> KeptAt(s, S, C0, n)]
      BY <1>5
    <2> HIDE DEF C0
    <2> QED
      BY <2>1 DEF KeptUpTo
  <1> QED
    BY <1>1, <1>6

LEMMA ElementsAppended ==
  ASSUME NEW p, NEW V, p \in Seq(V), NEW a, NEW x, a \in Seq(V), Len(a) = Len(p) + 1, Len(p) \in Nat,
         a[Len(p) + 1] = x, \A i \in 1..Len(p) : a[i] = p[i]
  PROVE  Elements(a) = Elements(p) \cup {x}
  <1> DEFINE m == Len(p)
  <1>1. DOMAIN p = 1..m /\ DOMAIN a = 1..(m + 1) /\ m \in Nat
    OBVIOUS
  <1>2. a[m + 1] = x /\ \A i \in 1..m : a[i] = p[i]
    OBVIOUS
  <1> HIDE DEF m
  <1>3. \A i : i \in 1..(m + 1) <=> i \in 1..m \/ i = m + 1
    BY <1>1
  <1> QED
    BY <1>1, <1>2, <1>3 DEF Elements

(***************************************************************************)
(* Remaining takes out the packets of S, and nothing else.                 *)
(***************************************************************************)
LEMMA RemainingIs ==
  ASSUME NEW s \in Seq(Ids), Distinct(s), NEW S
  PROVE  /\ Remaining(s, S) \in Seq(Ids) /\ Distinct(Remaining(s, S))
         /\ Elements(Remaining(s, S)) = Elements(s) \ S
  <1>1. PICK F : KeptUpTo(s, S, F, Len(s)) /\ Remaining(s, S) = F[Len(s)]
    BY RemainingIsKept
  <1> DEFINE Fine(n) == /\ F[n] \in Seq(Ids) /\ Distinct(F[n])
                        /\ Elements(F[n]) = {s[i] : i \in 1..n} \ S
             Bad == {n \in 0..Len(s) : ~Fine(n)}
  <1>2. Len(s) \in Nat /\ Bad \subseteq Nat
    OBVIOUS
  <1>3. Bad = {}
    <2> SUFFICES ASSUME Bad # {}
                 PROVE  FALSE
      OBVIOUS
    <2>1. PICK n \in Bad : \A k \in Bad : n <= k
      <3> HIDE DEF Bad
      <3> QED
        BY <1>2, Least
    <2>2. n \in 0..Len(s) /\ ~Fine(n)
      OBVIOUS
    <2>3. F[n] = KeptAt(s, S, F, n)
      BY <1>1, <2>2 DEF KeptUpTo
    <2>4. CASE n = 0
      <3>1. F[n] = <<>>
        BY <2>3, <2>4 DEF KeptAt
      <3> QED
        BY <2>2, <2>4, <3>1 DEF Distinct, Elements
    <2>5. CASE n # 0
      <3>1. n \in 1..Len(s) /\ n - 1 \in 0..Len(s) /\ ~(n <= n - 1)
        BY <1>2, <2>2, <2>5
      <3>2. n - 1 \notin Bad
        <4> HIDE DEF Bad
        <4> QED
          BY <2>1, <3>1
      <3>3. Fine(n - 1)
        <4> HIDE DEF Fine
        <4> QED
          BY <3>1, <3>2
      <3> DEFINE p == F[n - 1]
                 x == s[n]
      <3>4. p \in Seq(Ids) /\ Distinct(p) /\ Elements(p) = {s[i] : i \in 1..(n - 1)} \ S
        BY <3>3
      <3>5. x \in Ids /\ {s[i] : i \in 1..n} = {s[i] : i \in 1..(n - 1)} \cup {x}
        BY <3>1
      <3>6. CASE x \in S
        <4>1. F[n] = p
          BY <2>3, <2>5, <3>6 DEF KeptAt
        <4>2. {s[i] : i \in 1..n} \ S = {s[i] : i \in 1..(n - 1)} \ S
          BY <3>5, <3>6
        <4> HIDE DEF p, x
        <4> QED
          BY <2>2, <3>4, <4>1, <4>2
      <3>7. CASE x \notin S
        <4>1. F[n] = Append(p, x)
          BY <2>3, <2>5, <3>7 DEF KeptAt
        <4>2. x \notin {s[i] : i \in 1..(n - 1)}
          BY <3>1 DEF Distinct
        <4>3. x \notin Elements(p)
          BY <3>4, <4>2
        <4> HIDE DEF p, x
        <4>4. /\ Append(p, x) \in Seq(Ids) /\ Len(Append(p, x)) = Len(p) + 1 /\ Len(p) \in Nat
              /\ Append(p, x)[Len(p) + 1] = x /\ \A i \in 1..Len(p) : Append(p, x)[i] = p[i]
          BY <3>4, <3>5
        <4>5. Distinct(Append(p, x))
          <5> DEFINE a == Append(p, x)
          <5> SUFFICES ASSUME NEW i \in 1..(Len(p) + 1), NEW j \in 1..(Len(p) + 1), a[i] = a[j]
                       PROVE  i = j
            BY <4>4 DEF Distinct
          <5>1. \A k \in 1..Len(p) : p[k] # x
            BY <3>4, <4>3 DEF Elements
          <5>2. CASE i = Len(p) + 1 \/ j = Len(p) + 1
            <6> HIDE DEF a
            <6> QED
              BY <4>4, <5>1, <5>2 DEF a
          <5>3. CASE i # Len(p) + 1 /\ j # Len(p) + 1
            <6>1. i \in 1..Len(p) /\ j \in 1..Len(p) /\ p[i] = p[j]
              BY <4>4, <5>3
            <6> QED
              BY <3>4, <6>1 DEF Distinct
          <5> QED
            BY <5>2, <5>3
        <4>6. Elements(Append(p, x)) = Elements(p) \cup {x}
          BY <3>4, <4>4, ElementsAppended
        <4>7. Elements(Append(p, x)) = {s[i] : i \in 1..n} \ S
          BY <3>4, <3>5, <3>7, <4>6
        <4> QED
          BY <2>2, <4>1, <4>4, <4>5, <4>7
      <3> QED
        BY <3>6, <3>7
    <2> QED
      BY <2>4, <2>5
  <1>4. Fine(Len(s))
    <2>1. Len(s) \in 0..Len(s)
      BY <1>2
    <2> HIDE DEF Fine
    <2> QED
      BY <1>3, <2>1
  <1>5. Elements(s) = {s[i] : i \in 1..Len(s)}
    BY DEF Elements
  <1> QED
    BY <1>1, <1>4, <1>5

-----------------------------------------------------------------------------
(***************************************************************************)
(* Timers.                                                                 *)
(***************************************************************************)
TimerType == [left : Int, age : Nat]

\* One of finitely many timers is the first.
LEMMA SomeEarliest ==
  ASSUME NEW D, IsFiniteSet(D), D # {}, NEW tm \in [D -> TimerType]
  PROVE  Earliest(tm) # {}
  <1> DEFINE Sooner(id) == {o \in D : tm[o].left < tm[id].left}
             Ranks == {Cardinality(Sooner(id)) : id \in D}
  <1>1. \A id \in D : IsFiniteSet(Sooner(id)) /\ Cardinality(Sooner(id)) \in Nat
    <2> SUFFICES ASSUME NEW id \in D
                 PROVE  IsFiniteSet(Sooner(id)) /\ Cardinality(Sooner(id)) \in Nat
      OBVIOUS
    <2>1. Sooner(id) \in SUBSET D
      OBVIOUS
    <2> HIDE DEF Sooner
    <2> QED
      BY <2>1, FS_Subset, FS_CardinalityType
  <1>2. Ranks \subseteq Nat /\ Ranks # {}
    <2> HIDE DEF Sooner
    <2> QED
      BY <1>1
  <1>3. PICK n \in Ranks : \A k \in Ranks : n <= k
    <2> HIDE DEF Ranks
    <2> QED
      BY <1>2, Least
  <1>4. PICK x \in D : n = Cardinality(Sooner(x))
    <2> HIDE DEF Sooner
    <2> QED
      OBVIOUS
  <1>5. \A id \in D : tm[id].left \in Int
    BY DEF TimerType
  <1>6. ASSUME NEW o \in D, tm[o].left < tm[x].left
        PROVE  FALSE
    <2>1. /\ Sooner(o) \in SUBSET Sooner(x)
          /\ o \in Sooner(x) /\ o \notin Sooner(o)
      BY <1>5, <1>6
    <2>2. Cardinality(Sooner(o)) \in Ranks
      OBVIOUS
    <2> HIDE DEF Sooner, Ranks
    <2>3. Cardinality(Sooner(o)) <= Cardinality(Sooner(x)) /\ Sooner(o) # Sooner(x)
      BY <1>1, <2>1, FS_Subset
    <2>4. Cardinality(Sooner(o)) # Cardinality(Sooner(x))
      BY <1>1, <2>1, <2>3, FS_Subset
    <2> QED
      BY <1>1, <1>3, <1>4, <2>2, <2>3, <2>4
  <1>7. \A o \in D : tm[x].left <= tm[o].left
    BY <1>5, <1>6
  <1> QED
    BY <1>7 DEF Earliest

\* A deadline is at most one of the timeouts away.
InTime(n) == \E t \in Timeouts : n <= t

Timely(tm) == \A id \in DOMAIN tm : InTime(tm[id].left)

AtMostOne(S) == \A x, y \in S : x = y

Deadline(w) == w \subseteq Int /\ AtMostOne(w) /\ \A n \in w : InTime(n)

LEMMA Scheduling ==
  ASSUME NEW D, IsFiniteSet(D), NEW tm \in [D -> TimerType], Timely(tm)
  PROVE  Deadline(schedule_timer(tm)) /\ (D # {} => schedule_timer(tm) # {})
  <1>1. \A id \in D : tm[id].left \in Int /\ InTime(tm[id].left)
    BY DEF TimerType, Timely
  <1>2. \A id, o \in Earliest(tm) : id \in D /\ o \in D /\ tm[id].left = tm[o].left
    BY <1>1 DEF Earliest
  <1>3. D # {} => Earliest(tm) # {}
    BY SomeEarliest
  <1> QED
    BY <1>1, <1>2, <1>3 DEF schedule_timer, Deadline, AtMostOne

LEMMA WithoutIs ==
  ASSUME NEW D, NEW R, NEW f \in [D -> R], NEW S
  PROVE  Without(f, S) \in [D \ S -> R] /\ \A id \in D \ S : Without(f, S)[id] = f[id]
  BY DEF Without

-----------------------------------------------------------------------------
(***************************************************************************)
(* The inductive invariant: what the buffer's three views of its packets   *)
(* (list, timers, byte count), its counters and its deadline have to do    *)
(* with each other.                                                        *)
(***************************************************************************)
Lists ==
  /\ packets \in Seq(Ids) /\ Distinct(packets) /\ Elements(packets) = Buffered
  /\ timers \in [Buffered -> TimerType]
  /\ life \in [Buffered -> 0..255]
  /\ handed \subseteq Ids

Counters == count \in [Ids -> Nat] /\ fade \in [Ids -> Int] /\ CountsContending

Flushes == Timely(timers) /\ Deadline(wake) /\ FlushPending

Fits == stored = Bytes(Buffered) /\ CapacityKept

BufferInv == Lists /\ Counters /\ Flushes /\ Fits

LEMMA BufferedFinite ==
  ASSUME Lists
  PROVE  IsFiniteSet(Buffered) /\ Buffered \subseteq Ids /\ Cardinality(Buffered) = Len(packets)
  BY LengthOfList DEF Lists

(***************************************************************************)
(* Packets leave, the other timers being as in tm: the common part of      *)
(* remove, fetch and flush.                                                *)
(***************************************************************************)
LEMMA Leaving ==
  ASSUME BufferAssumption, BufferInv, NEW out, out \subseteq Buffered,
         NEW tm \in [Buffered -> TimerType], Timely(tm), NEW fd \in [Ids -> Int],
         packets' = Remaining(packets, out), timers' = Without(tm, out),
         life' = Without(life, out), stored' = stored - Bytes(out), handed' \subseteq out,
         count' = CounterRemove(count, fd, out)[1], fade' = CounterRemove(count, fd, out)[2],
         Deadline(wake'), Buffered \ out # {} => wake' # {}
  PROVE  BufferInv' /\ Buffered' = Buffered \ out
  <1>1. IsFiniteSet(Buffered) /\ Buffered \subseteq Ids /\ Cardinality(Buffered) = Len(packets)
    BY BufferedFinite DEF BufferInv
  <1>2. timers' \in [Buffered \ out -> TimerType] /\ \A id \in Buffered \ out : timers'[id] = tm[id]
    BY DEF Without
  <1>3. Buffered' = Buffered \ out
    BY <1>2 DEF Buffered
  <1>4. Lists'
    <2>1. /\ packets' \in Seq(Ids) /\ Distinct(packets')
          /\ Elements(packets') = Elements(packets) \ out
      BY RemainingIs DEF BufferInv, Lists
    <2>2. life' \in [Buffered \ out -> 0..255]
      BY WithoutIs DEF BufferInv, Lists
    <2>3. Elements(packets') = Buffered'
      BY <1>3, <2>1 DEF BufferInv, Lists
    <2>4. handed' \subseteq Ids
      BY <1>1
    <2> QED
      BY <1>2, <1>3, <2>1, <2>2, <2>3, <2>4 DEF Lists
  <1>5. Counters'
    <2>1. count \in [Ids -> Nat] /\ CountsContending
      BY DEF BufferInv, Counters
    <2>2. /\ Fading => count' = count
          /\ ~Fading => count' = [id \in Ids |-> IF id \in out THEN 0 ELSE count[id]]
          /\ fade' = fd
      BY DEF CounterRemove
    <2>3. count' \in [Ids -> Nat]
      BY <2>1, <2>2
    <2>4. ~Fading => \A id \in Ids : count'[id] > 0 <=> id \in Buffered'
      BY <1>3, <2>1, <2>2 DEF CountsContending
    <2> QED
      BY <2>2, <2>3, <2>4 DEF Counters, CountsContending
  <1>6. Flushes'
    <2>1. \A id \in DOMAIN timers' : InTime(timers'[id].left)
      BY <1>2 DEF Timely
    <2> QED
      BY <1>3, <2>1 DEF Flushes, FlushPending, Timely, Deadline, InTime
  <1>7. Fits'
    <2>1. /\ Bytes(Buffered \ out) = Bytes(Buffered) - Bytes(out)
          /\ stored = Bytes(Buffered) /\ (stored <= Capacity \/ Len(packets) = 1)
      BY <1>1, BytesMinus DEF BufferInv, Fits, CapacityKept
    <2>2. stored' = Bytes(Buffered \ out)
      BY <2>1
    <2>3. IsFiniteSet(out) /\ out \subseteq Ids
      BY <1>1, FS_Subset
    <2>4. Bytes(out) \in Nat /\ Bytes(Buffered) \in Nat /\ Capacity \in Nat
      BY <1>1, <2>3, BytesWithout DEF BufferAssumption
    <2>5. stored' <= Capacity \/ Len(packets') = 1
      <3>1. CASE stored <= Capacity
        BY <2>1, <2>4, <3>1
      <3>2. CASE Len(packets) = 1
        <4>1. PICK x : Buffered = {x}
          <5>1. packets \in Seq(Ids) /\ Elements(packets) = Buffered
            BY DEF BufferInv, Lists
          <5>2. DOMAIN packets = {1}
            BY <3>2, <5>1
          <5>3. Elements(packets) = {packets[1]}
            BY <5>2 DEF Elements
          <5> QED
            BY <5>1, <5>3
        <4>2. CASE out = {}
          <5>1. Buffered \ out = Buffered
            BY <4>2
          <5>2. Cardinality(Buffered') = 1
            BY <1>1, <1>3, <3>2, <5>1
          <5>3. Len(packets') = Cardinality(Buffered')
            BY <1>4, LengthOfList DEF Lists
          <5> QED
            BY <5>2, <5>3
        <4>3. CASE out # {}
          <5>1. Buffered \ out = {}
            BY <4>1, <4>3
          <5>2. Bytes(Buffered \ out) = 0
            BY <5>1, BytesEquation, FS_EmptySet
          <5> QED
            BY <2>2, <2>4, <5>2
        <4> QED
          BY <4>2, <4>3
      <3> QED
        BY <2>1, <3>1, <3>2
    <2> QED
      BY <1>3, <2>2, <2>5 DEF Fits, CapacityKept
  <1> QED
    BY <1>3, <1>4, <1>5, <1>6, <1>7 DEF BufferInv

(***************************************************************************)
(* remove_timer leaves a deadline as long as there are other timers.       *)
(***************************************************************************)
LEMMA TimerRemoved ==
  ASSUME BufferInv, NEW id \in Buffered, wake' \in remove_timer(timers, id)
  PROVE  Deadline(wake') /\ (Buffered \ {id} # {} => wake' # {})
  <1>1. IsFiniteSet(Buffered) /\ IsFiniteSet(Buffered \ {id})
    BY BufferedFinite, FS_RemoveElement DEF BufferInv
  <1>2. timers \in [Buffered -> TimerType] /\ Timely(timers) /\ Deadline(wake) /\ wake # {}
    BY DEF BufferInv, Lists, Flushes, FlushPending
  <1> DEFINE rest == Without(timers, {id})
  <1>3. rest \in [Buffered \ {id} -> TimerType] /\ \A o \in Buffered \ {id} : rest[o] = timers[o]
    BY <1>2 DEF Without
  <1>4. Timely(rest)
    <2> HIDE DEF rest
    <2> QED
      BY <1>2, <1>3 DEF Timely
  <1>5. Deadline(schedule_timer(rest)) /\ (Buffered \ {id} # {} => schedule_timer(rest) # {})
    <2> HIDE DEF rest
    <2> QED
      BY <1>1, <1>3, <1>4, Scheduling
  <1>6. wake' = wake \/ wake' = schedule_timer(rest)
    BY DEF remove_timer
  <1> QED
    BY <1>2, <1>5, <1>6

LEMMA TakeOutStep ==
  ASSUME BufferAssumption, BufferInv, NEW id \in Ids, TakeOut(id), handed' \subseteq {id}
  PROVE  BufferInv' /\ id \in Buffered /\ Buffered' = Buffered \ {id}
  <1>1. id \in Buffered /\ {id} \subseteq Buffered
    BY DEF TakeOut
  <1>2. Deadline(wake') /\ (Buffered \ {id} # {} => wake' # {})
    BY <1>1, TimerRemoved DEF TakeOut
  <1>3. timers \in [Buffered -> TimerType] /\ Timely(timers) /\ fade \in [Ids -> Int]
    BY DEF BufferInv, Lists, Flushes, Counters
  <1>4. IsFiniteSet({id}) /\ Bytes({id}) = Length[id]
    <2>1. IsFiniteSet({id}) /\ {id} \ {id} = {} /\ IsFiniteSet({})
      BY FS_Singleton, FS_EmptySet
    <2>2. Bytes({}) = 0 /\ Bytes({id}) = Length[id] + Bytes({id} \ {id}) /\ Length[id] \in Nat
      BY <2>1, BytesEquation, BytesWithout DEF BufferAssumption
    <2> QED
      BY <2>1, <2>2
  <1>5. /\ packets' = Remaining(packets, {id}) /\ timers' = Without(timers, {id})
        /\ life' = Without(life, {id}) /\ stored' = stored - Bytes({id})
        /\ count' = CounterRemove(count, fade, {id})[1]
        /\ fade' = CounterRemove(count, fade, {id})[2]
    BY <1>4 DEF TakeOut
  <1> QED
    BY <1>1, <1>2, <1>3, <1>5, Leaving

LEMMA TimersLater ==
  ASSUME BufferAssumption, BufferInv, NEW d \in 1..MaxStep
  PROVE  /\ Later(d) \in [Buffered -> TimerType] /\ Timely(Later(d))
         /\ Due(Later(d)) \subseteq Buffered /\ Faded(d) \in [Ids -> Int]
  <1>1. d \in Nat /\ d >= 1 /\ Timeouts \subseteq Nat
    BY DEF BufferAssumption
  <1>2. timers \in [Buffered -> TimerType] /\ Timely(timers) /\ fade \in [Ids -> Int]
    BY DEF BufferInv, Lists, Flushes, Counters
  <1>3. \A id \in Buffered :
          timers[id].left \in Int /\ timers[id].age \in Nat /\ InTime(timers[id].left)
    BY <1>2 DEF TimerType, Timely
  <1>4. Later(d) \in [Buffered -> TimerType]
    BY <1>1, <1>3 DEF Later, TimerType
  <1>5. \A id \in Buffered : InTime(Later(d)[id].left)
    <2> SUFFICES ASSUME NEW id \in Buffered
                 PROVE  InTime(Later(d)[id].left)
      OBVIOUS
    <2>1. PICK t \in Timeouts : timers[id].left <= t
      BY <1>3 DEF InTime
    <2>2. Later(d)[id].left = timers[id].left - d
      BY DEF Later
    <2>3. timers[id].left - d <= t
      <3>1. timers[id].left \in Int /\ t \in Int
        BY <1>1, <1>2 DEF TimerType
      <3> QED
        BY <1>1, <2>1, <3>1
    <2> QED
      BY <2>1, <2>2, <2>3 DEF InTime
  <1>6. Faded(d) \in [Ids -> Int]
    BY <1>1, <1>2 DEF Faded
  <1> QED
    BY <1>4, <1>5, <1>6 DEF Timely, Due

LEMMA FlushStep ==
  ASSUME BufferAssumption, BufferInv, NEW d \in 1..MaxStep, flush(Later(d), Faded(d))
  PROVE  /\ BufferInv' /\ Buffered' = Buffered \ Due(Later(d))
         /\ Due(Later(d)) \subseteq Buffered /\ handed' \subseteq Due(Later(d))
  <1> DEFINE tm == Later(d)
             fd == Faded(d)
             due == Due(tm)
             rest == Without(tm, due)
  <1>1. /\ tm \in [Buffered -> TimerType] /\ Timely(tm)
        /\ due \subseteq Buffered /\ fd \in [Ids -> Int]
    BY TimersLater
  <1>2. IsFiniteSet(Buffered) /\ IsFiniteSet(Buffered \ due)
    BY BufferedFinite, FS_Subset DEF BufferInv
  <1> HIDE DEF tm, fd
  <1>3. rest \in [Buffered \ due -> TimerType] /\ \A o \in Buffered \ due : rest[o] = tm[o]
    BY <1>1 DEF Without
  <1>4. Timely(rest)
    <2> HIDE DEF rest
    <2> QED
      BY <1>1, <1>3 DEF Timely
  <1>5. Deadline(schedule_timer(rest)) /\ (Buffered \ due # {} => schedule_timer(rest) # {})
    <2> HIDE DEF rest
    <2> QED
      BY <1>2, <1>3, <1>4, Scheduling
  <1>6. /\ packets' = Remaining(packets, due) /\ timers' = rest
        /\ life' = Without(life, due) /\ stored' = stored - Bytes(due)
        /\ count' = CounterRemove(count, fd, due)[1] /\ fade' = CounterRemove(count, fd, due)[2]
        /\ wake' = schedule_timer(rest) /\ handed' \subseteq due
    BY DEF flush, tm, fd
  <1>7. BufferInv' /\ Buffered' = Buffered \ due
    <2> HIDE DEF due
    <2> QED
      BY <1>1, <1>5, <1>6, Leaving
  <1> QED
    BY <1>1, <1>6, <1>7 DEF tm

(***************************************************************************)
(* No deadline has passed: time goes on.                                   *)
(***************************************************************************)
LEMMA WaitStep ==
  ASSUME BufferAssumption, BufferInv, NEW d \in 1..MaxStep,
         timers' = Later(d), fade' = Faded(d), wake' = {w - d : w \in wake}, handed' = {},
         UNCHANGED <<packets, life, stored, count>>
  PROVE  BufferInv' /\ Buffered' = Buffered
  <1>1. timers' \in [Buffered -> TimerType] /\ Timely(timers') /\ fade' \in [Ids -> Int]
    BY TimersLater
  <1>2. Buffered' = Buffered
    BY <1>1 DEF Buffered
  <1>3. Lists'
    BY <1>1, <1>2 DEF BufferInv, Lists
  <1>4. Counters'
    BY <1>1, <1>2 DEF BufferInv, Counters, CountsContending
  <1>5. Flushes'
    <2>1. d \in Nat /\ d >= 1 /\ Timeouts \subseteq Nat
      BY DEF BufferAssumption
    <2>2. wake \subseteq Int /\ AtMostOne(wake) /\ (\A n \in wake : InTime(n)) /\ FlushPending
      BY DEF BufferInv, Flushes, Deadline
    <2>3. wake' \subseteq Int /\ AtMostOne(wake')
      BY <2>1, <2>2 DEF AtMostOne
    <2>4. \A n \in wake' : InTime(n)
      BY <2>1, <2>2 DEF InTime
    <2>5. Buffered' # {} => wake' # {}
      BY <1>2, <2>2 DEF FlushPending
    <2>6. Timely(timers)'
      BY <1>1 DEF Timely, InTime
    <2>7. Deadline(wake)'
      BY <2>3, <2>4 DEF Deadline, InTime, AtMostOne
    <2> QED
      BY <2>5, <2>6, <2>7 DEF Flushes, FlushPending
  <1>6. Fits'
    BY <1>2 DEF BufferInv, Fits, CapacityKept
  <1> QED
    BY <1>2, <1>3, <1>4, <1>5, <1>6 DEF BufferInv

\* Lifetime::encode and reduce_lifetime give a byte.
LEMMA ReducedByte ==
  ASSUME NEW r \in 0..255, NEW q \in Nat, NEW l \in LT!ReduceLifetime(r, q)
  PROVE  l \in 0..255
  <1> DEFINE ms == LT!Decode(r) - q
  <1>1. LT!Decode(r) \in Int
    BY DEF LT!Decode, LT!Unit
  <1>2. CASE l \in LT!Encode(ms)
    <2>1. ms \in Int
      BY <1>1
    <2> HIDE DEF ms
    <2>2. PICK m \in LT!Round(ms, LT!BaseFor(ms)) : l = LT!Set(LT!BaseFor(ms), m)
      BY <1>2 DEF LT!Encode
    <2>3. LT!BaseFor(ms) \in 0..3
      BY <2>1 DEF LT!BaseFor
    <2>4. m \in Int
      BY <2>1, <2>2, <2>3 DEF LT!Round, LT!Unit
    <2> QED
      BY <2>2, <2>3, <2>4 DEF LT!Set
  <1> QED
    BY <1>2 DEF LT!ReduceLifetime, LT!Zero

LEMMA UpdateStep ==
  ASSUME BufferAssumption, BufferInv, NEW id \in Ids, NEW t \in Timeouts, update(id, t)
  PROVE  BufferInv' /\ Buffered' = Buffered
  <1>1. id \in Buffered /\ UNCHANGED <<packets, stored, wake>> /\ handed' = {}
    BY DEF update
  <1>2. /\ timers \in [Buffered -> TimerType] /\ life \in [Buffered -> 0..255]
        /\ t \in Nat /\ TickMs \in Nat
    BY DEF BufferInv, Lists, BufferAssumption
  <1>3. /\ timers' = [timers EXCEPT ![id] = Timer(t)]
        /\ Timer(t) \in TimerType /\ Timer(t).left = t
    BY <1>2 DEF update, Timer, TimerType
  <1>4. timers' \in [Buffered -> TimerType] /\ Buffered' = Buffered
    BY <1>2, <1>3 DEF Buffered
  <1>5. Lists'
    <2>1. PICK l \in LT!ReduceLifetime(life[id], timers[id].age * TickMs) :
            life' = [life EXCEPT ![id] = l]
      BY DEF update
    <2>2. life[id] \in 0..255 /\ timers[id].age \in Nat
      BY <1>1, <1>2 DEF TimerType
    <2>3. timers[id].age * TickMs \in Nat
      BY <1>2, <2>2
    <2>4. l \in 0..255
      BY <2>1, <2>2, <2>3, ReducedByte
    <2>5. life' \in [Buffered -> 0..255]
      BY <1>2, <2>1, <2>4
    <2> QED
      BY <1>1, <1>4, <2>5 DEF BufferInv, Lists
  <1>6. Counters'
    <2>1. count \in [Ids -> Nat] /\ fade \in [Ids -> Int] /\ CountsContending /\ FadeTicks \in Nat
      BY DEF BufferInv, Counters, BufferAssumption
    <2>2. /\ count' = [count EXCEPT ![id] = @ + 1]
          /\ fade' = fade \/ fade' = [fade EXCEPT ![id] = FadeTicks]
      BY DEF update, CounterIncrement
    <2>3. count' \in [Ids -> Nat] /\ fade' \in [Ids -> Int]
      BY <2>1, <2>2
    <2>4. ~Fading => \A i \in Ids : count'[i] > 0 <=> i \in Buffered
      BY <1>1, <2>1, <2>2 DEF CountsContending
    <2> QED
      BY <1>4, <2>3, <2>4 DEF Counters, CountsContending
  <1>7. Flushes'
    <2>1. Timely(timers) /\ Deadline(wake) /\ FlushPending
      BY DEF BufferInv, Flushes
    <2>2. InTime(t)
      BY <1>2 DEF InTime
    <2>3. \A i \in Buffered : InTime(timers'[i].left)
      BY <1>2, <1>3, <2>1, <2>2 DEF Timely
    <2>4. Timely(timers)'
      BY <1>4, <2>3 DEF Timely, InTime
    <2>5. Deadline(wake)'
      BY <1>1, <2>1 DEF Deadline, InTime, AtMostOne
    <2> QED
      BY <1>1, <1>4, <2>1, <2>4, <2>5 DEF Flushes, FlushPending
  <1>8. Fits'
    BY <1>1, <1>4 DEF BufferInv, Fits, CapacityKept
  <1> QED
    BY <1>4, <1>5, <1>6, <1>7, <1>8 DEF BufferInv

(***************************************************************************)
(* The heads that add drops: there is a least number of them after which   *)
(* the new packet fits or the buffer is empty.                             *)
(***************************************************************************)
Dropped(id) == Elements(SubSeq(packets, 1, HeadDrop(Length[id])))

LEMMA HeadsDropped ==
  ASSUME BufferAssumption, BufferInv, NEW id \in Ids
  PROVE  LET rest == SubSeq(packets, HeadDrop(Length[id]) + 1, Len(packets))
         IN  /\ Dropped(id) \subseteq Buffered
             /\ rest \in Seq(Ids) /\ Distinct(rest) /\ Elements(rest) = Buffered \ Dropped(id)
             /\ Len(rest) = 0 \/ stored + Length[id] - Bytes(Dropped(id)) <= Capacity
  <1> DEFINE L == Len(packets)
             bytes == Length[id]
             over(n) == stored + bytes - Bytes(Elements(SubSeq(packets, 1, n)))
             Enough == {n \in 0..L : n = L \/ over(n) <= Capacity}
             Is(n) == /\ n = L \/ over(n) <= Capacity
                      /\ \A k \in 0..(n - 1) : over(k) > Capacity
  <1>1. packets \in Seq(Ids) /\ L \in Nat /\ Distinct(packets) /\ Elements(packets) = Buffered
    BY DEF BufferInv, Lists
  <1>2. IsFiniteSet(Buffered) /\ Buffered \subseteq Ids
    BY BufferedFinite DEF BufferInv
  <1>3. ASSUME NEW n \in 0..L
        PROVE  /\ Elements(SubSeq(packets, 1, n)) = {packets[i] : i \in 1..n}
               /\ Elements(SubSeq(packets, 1, n)) \subseteq Buffered
    <2> DEFINE q == SubSeq(packets, 1, n)
    <2>1. q \in Seq(Ids) /\ Len(q) = n
      BY <1>1
    <2>2. \A i \in 1..n : q[i] = packets[i] /\ i \in 1..L
      BY <1>1
    <2>3. DOMAIN q = 1..n /\ DOMAIN packets = 1..L
      BY <1>1, <2>1
    <2> HIDE DEF q
    <2>4. Elements(q) = {packets[i] : i \in 1..n}
      BY <2>2, <2>3 DEF Elements
    <2>5. {packets[i] : i \in 1..n} \subseteq Elements(packets)
      BY <2>2, <2>3 DEF Elements
    <2> QED
      BY <1>1, <2>4, <2>5 DEF q
  <1>4. ASSUME NEW n \in 0..L
        PROVE  over(n) \in Int
    <2> DEFINE E == Elements(SubSeq(packets, 1, n))
    <2>1. E \subseteq Buffered
      BY <1>3
    <2> HIDE DEF E
    <2>2. IsFiniteSet(E) /\ E \subseteq Ids
      BY <1>2, <2>1, FS_Subset
    <2>3. Bytes(E) \in Nat /\ Bytes(Buffered) \in Nat
      BY <1>2, <2>2, BytesWithout
    <2>4. stored \in Nat /\ bytes \in Nat
      BY <2>3 DEF BufferInv, Fits, BufferAssumption
    <2> QED
      BY <2>3, <2>4 DEF E
  <1>5. Enough \subseteq Nat /\ L \in Enough
    BY <1>1
  <1>6. PICK n \in Enough : \A k \in Enough : n <= k
    <2> HIDE DEF Enough
    <2> QED
      BY <1>5, Least
  <1>7. n \in 0..L /\ Is(n)
    <2>1. n \in 0..L /\ (n = L \/ over(n) <= Capacity)
      OBVIOUS
    <2>2. ASSUME NEW k \in 0..(n - 1)
          PROVE  over(k) > Capacity
      <3>1. k \in 0..L /\ ~(n <= k)
        BY <1>1, <2>1
      <3>2. k \notin Enough
        <4> HIDE DEF Enough
        <4> QED
          BY <1>6, <3>1
      <3>3. ~(over(k) <= Capacity) /\ over(k) \in Int
        <4>1. over(k) \in Int
          BY <1>4, <3>1
        <4> HIDE DEF over
        <4> QED
          BY <3>1, <3>2, <4>1
      <3>4. Capacity \in Int
        BY DEF BufferAssumption
      <3> HIDE DEF over
      <3> QED
        BY <3>3, <3>4
    <2> QED
      BY <2>1, <2>2
  <1> DEFINE h == HeadDrop(bytes)
  <1>8. h = CHOOSE k \in 0..L : Is(k)
    BY DEF HeadDrop
  <1>9. h \in 0..L /\ Is(h)
    <2> HIDE DEF h, Is
    <2> QED
      BY <1>7, <1>8
  <1> DEFINE rest == SubSeq(packets, h + 1, L)
  <1>10. h \in 0..L /\ (h = L \/ over(h) <= Capacity)
    BY <1>9
  <1> HIDE DEF h
  <1>11. Dropped(id) = {packets[i] : i \in 1..h} /\ Dropped(id) \subseteq Buffered
    BY <1>3, <1>10 DEF Dropped, h
  <1>12. /\ rest \in Seq(Ids) /\ Len(rest) = L - h
         /\ \A i \in 1..(L - h) : rest[i] = packets[h + i] /\ h + i \in 1..L
    BY <1>1, <1>10
  <1>13. Distinct(rest)
    <2> SUFFICES ASSUME NEW i \in 1..(L - h), NEW j \in 1..(L - h), rest[i] = rest[j]
                 PROVE  i = j
      BY <1>12 DEF Distinct
    <2>1. packets[h + i] = packets[h + j] /\ h + i \in 1..L /\ h + j \in 1..L
      <3> HIDE DEF rest
      <3> QED
        BY <1>12
    <2>2. h + i = h + j
      BY <1>1, <2>1 DEF Distinct
    <2> QED
      BY <1>10, <2>2
  <1>14. Elements(rest) = Buffered \ Dropped(id)
    <2>1. Elements(rest) = {packets[i] : i \in (h + 1)..L}
      <3>1. Elements(rest) = {rest[i] : i \in 1..(L - h)}
        <4>1. DOMAIN rest = 1..(L - h)
          BY <1>12
        <4> HIDE DEF rest
        <4> QED
          BY <4>1 DEF Elements
      <3>2. \A i \in (h + 1)..L : i - h \in 1..(L - h) /\ h + (i - h) = i
        BY <1>1, <1>10
      <3>3. \A i \in 1..(L - h) : h + i \in (h + 1)..L
        BY <1>1, <1>10
      <3>4. ASSUME NEW i \in (h + 1)..L
            PROVE  packets[i] = rest[i - h]
        <4> HIDE DEF rest
        <4> QED
          BY <1>12, <3>2
      <3> HIDE DEF rest
      <3>5. \A x : x \in {rest[i] : i \in 1..(L - h)} => x \in {packets[i] : i \in (h + 1)..L}
        BY <1>12, <3>3
      <3>6. \A x : x \in {packets[i] : i \in (h + 1)..L} => x \in {rest[i] : i \in 1..(L - h)}
        BY <3>2, <3>4
      <3> QED
        BY <3>1, <3>5, <3>6
    <2>2. Buffered = {packets[i] : i \in 1..L}
      BY <1>1 DEF Elements
    <2>3. \A i \in 1..L : i \in 1..h \/ i \in (h + 1)..L
      BY <1>1, <1>10
    <2>4. \A i \in (h + 1)..L : i \in 1..L /\ \A j \in 1..h : packets[i] # packets[j]
      BY <1>1, <1>10 DEF Distinct
    <2> QED
      BY <1>11, <2>1, <2>2, <2>3, <2>4
  <1>15. Len(rest) = 0 \/ stored + bytes - Bytes(Dropped(id)) <= Capacity
    BY <1>10, <1>12 DEF Dropped, h
  <1> QED
    BY <1>11, <1>12, <1>13, <1>14, <1>15 DEF h

LEMMA AddStep ==
  ASSUME BufferAssumption, BufferInv,
         NEW id \in Ids, NEW t \in Timeouts, NEW lt \in Lifetimes, add(id, t, lt)
  PROVE  /\ BufferInv' /\ handed' = {}
         /\ Dropped(id) \subseteq Buffered /\ Buffered' = (Buffered \ Dropped(id)) \cup {id}
  <1> DEFINE out == Dropped(id)
             rest == SubSeq(packets, HeadDrop(Length[id]) + 1, Len(packets))
             kept == Without(timers, out)
             tm == With(kept, id, Timer(t))
             D == (Buffered \ out) \cup {id}
  <1>1. /\ out \subseteq Buffered
        /\ rest \in Seq(Ids) /\ Distinct(rest) /\ Elements(rest) = Buffered \ out
        /\ Len(rest) = 0 \/ stored + Length[id] - Bytes(out) <= Capacity
    BY HeadsDropped
  <1>2. /\ id \notin Buffered
        /\ packets' = Append(rest, id) /\ timers' = tm
        /\ life' = With(Without(life, out), id, lt)
        /\ stored' = stored + Length[id] - Bytes(out) /\ handed' = {}
    BY DEF add, Dropped
  <1>3. IsFiniteSet(Buffered) /\ Buffered \subseteq Ids
    BY BufferedFinite DEF BufferInv
  <1>4. IsFiniteSet(Buffered \ out) /\ IsFiniteSet(D) /\ D \subseteq Ids
    <2>1. IsFiniteSet(Buffered \ out)
      BY <1>3, FS_Subset
    <2> QED
      BY <1>3, <2>1, FS_AddElement
  <1>5. /\ timers \in [Buffered -> TimerType] /\ life \in [Buffered -> 0..255]
        /\ t \in Nat /\ lt \in 0..255
    BY DEF BufferInv, Lists, BufferAssumption
  <1>6. Timer(t) \in TimerType /\ Timer(t).left = t
    BY <1>5 DEF Timer, TimerType
  <1> HIDE DEF out, rest
  <1>7. kept \in [Buffered \ out -> TimerType] /\ \A i \in Buffered \ out : kept[i] = timers[i]
    BY <1>5 DEF Without
  <1>8. tm \in [D -> TimerType] /\ \A i \in D : tm[i] = IF i = id THEN Timer(t) ELSE timers[i]
    <2> HIDE DEF kept
    <2> QED
      BY <1>6, <1>7 DEF With
  <1> HIDE DEF kept, tm
  <1>9. Buffered' = D
    BY <1>2, <1>8 DEF Buffered
  <1>10. Lists'
    <2>1. life' \in [D -> 0..255]
      <3>1. Without(life, out) \in [Buffered \ out -> 0..255]
        BY <1>5 DEF Without
      <3> QED
        BY <1>2, <1>5, <3>1 DEF With
    <2>2. /\ Append(rest, id) \in Seq(Ids) /\ Len(Append(rest, id)) = Len(rest) + 1
          /\ Len(rest) \in Nat
          /\ Append(rest, id)[Len(rest) + 1] = id
          /\ \A i \in 1..Len(rest) : Append(rest, id)[i] = rest[i]
      BY <1>1
    <2>3. Elements(packets') = D
      <3>1. Elements(Append(rest, id)) = Elements(rest) \cup {id}
        BY <1>1, <2>2 DEF Elements
      <3> QED
        BY <1>1, <1>2, <3>1
    <2>4. \A k \in 1..Len(rest) : rest[k] # id
      <3>1. id \notin Elements(rest)
        BY <1>1, <1>2
      <3> QED
        BY <1>1, <3>1 DEF Elements
    <2>5. Distinct(packets')
      <3> DEFINE a == packets'
      <3> SUFFICES ASSUME NEW i \in 1..(Len(rest) + 1), NEW j \in 1..(Len(rest) + 1), a[i] = a[j]
                   PROVE  i = j
        BY <1>2, <2>2 DEF Distinct
      <3>1. CASE i = Len(rest) + 1 \/ j = Len(rest) + 1
        BY <1>2, <2>2, <2>4, <3>1
      <3>2. CASE i # Len(rest) + 1 /\ j # Len(rest) + 1
        <4>1. i \in 1..Len(rest) /\ j \in 1..Len(rest) /\ rest[i] = rest[j]
          BY <1>2, <2>2, <3>2
        <4> QED
          BY <1>1, <4>1 DEF Distinct
      <3> QED
        BY <3>1, <3>2
    <2> QED
      BY <1>2, <1>8, <1>9, <2>1, <2>2, <2>3, <2>5 DEF Lists
  <1>11. Counters'
    <2>1. count \in [Ids -> Nat] /\ fade \in [Ids -> Int] /\ CountsContending /\ FadeTicks \in Nat
      BY DEF BufferInv, Counters, BufferAssumption
    <2> DEFINE cr == CounterRemove(count, fade, out)
               ca == CounterAdd(cr[1], cr[2], id)
    <2>2. count' = ca[1] /\ fade' = ca[2]
      BY DEF add, out, Dropped
    <2>3. CASE Fading
      <3>1. cr = <<count, fade>>
        BY <2>3 DEF CounterRemove
      <3> DEFINE fd == [fade EXCEPT ![id] = FadeTicks]
      <3>2. /\ count' = [i \in Ids |-> IF Expired(fd[i]) THEN 0
                                       ELSE IF i = id THEN count[i] + 1 ELSE count[i]]
            /\ fade' = fd
        BY <2>2, <2>3, <3>1 DEF CounterAdd
      <3>3. count' \in [Ids -> Nat] /\ fade' \in [Ids -> Int]
        BY <2>1, <3>2
      <3> QED
        BY <2>3, <3>3 DEF Counters, CountsContending
    <2>4. CASE ~Fading
      <3>1. cr = <<[i \in Ids |-> IF i \in out THEN 0 ELSE count[i]], fade>>
        BY <2>4 DEF CounterRemove
      <3>2. /\ count' = [[i \in Ids |-> IF i \in out THEN 0 ELSE count[i]] EXCEPT ![id] = 1]
            /\ fade' = fade
        BY <2>2, <2>4, <3>1 DEF CounterAdd
      <3>3. count' \in [Ids -> Nat] /\ fade' \in [Ids -> Int]
        BY <2>1, <3>2
      <3>4. \A i \in Ids : count'[i] > 0 <=> i \in D
        BY <1>1, <1>2, <2>1, <2>4, <3>2 DEF CountsContending
      <3> QED
        BY <1>9, <3>3, <3>4 DEF Counters, CountsContending
    <2> QED
      BY <2>3, <2>4
  <1>12. Flushes'
    <2>1. Timely(timers) /\ Deadline(wake) /\ FlushPending
      BY DEF BufferInv, Flushes
    <2>2. InTime(t)
      BY <1>5 DEF InTime
    <2>3. Timely(tm)
      BY <1>5, <1>6, <1>8, <2>1, <2>2 DEF Timely
    <2>4. Deadline(schedule_timer(tm)) /\ schedule_timer(tm) # {}
      BY <1>4, <1>8, <2>3, Scheduling
    <2>5. wake' = schedule_timer(tm) \/ (wake' = wake /\ Buffered # {})
      <3>0. PICK first : \E changed \in Rescheduled(out, Timer(t), first) :
                           wake' = IF changed THEN schedule_timer(tm) ELSE wake
        BY DEF add, out, Dropped, kept, tm
      <3>1. PICK changed \in Rescheduled(out, Timer(t), first) :
              wake' = IF changed THEN schedule_timer(tm) ELSE wake
        BY <3>0
      <3>2. CASE timers = <<>>
        BY <3>1, <3>2 DEF Rescheduled
      <3>3. CASE timers # <<>>
        <4>1. Buffered # {}
          BY <1>5, <3>3
        <4> QED
          BY <3>1, <4>1
      <3> QED
        BY <3>2, <3>3
    <2>6. Deadline(wake') /\ wake' # {}
      BY <2>1, <2>4, <2>5 DEF FlushPending
    <2>7. Timely(timers)'
      BY <1>2, <2>3 DEF Timely, InTime
    <2>8. Deadline(wake)'
      BY <2>6 DEF Deadline, InTime, AtMostOne
    <2> QED
      BY <2>6, <2>7, <2>8 DEF Flushes, FlushPending
  <1>13. Fits'
    <2>1. Bytes(D) = Bytes(Buffered \ out) + Length[id]
      BY <1>2, <1>3, <1>4, BytesPlus
    <2>2. Bytes(Buffered \ out) = Bytes(Buffered) - Bytes(out)
      BY <1>1, <1>3, BytesMinus
    <2>3. IsFiniteSet(out) /\ out \subseteq Ids
      BY <1>1, <1>3, FS_Subset
    <2>4. Bytes(Buffered) \in Nat /\ Bytes(out) \in Nat /\ Length[id] \in Nat
      BY <1>3, <2>3, BytesWithout DEF BufferAssumption
    <2>5. stored' = Bytes(D)
      BY <1>2, <2>1, <2>2, <2>4 DEF BufferInv, Fits
    <2>6. stored' <= Capacity \/ Len(packets') = 1
      BY <1>1, <1>2
    <2> QED
      BY <1>9, <2>5, <2>6 DEF Fits, CapacityKept
  <1> QED
    BY <1>1, <1>2, <1>9, <1>10, <1>11, <1>12, <1>13 DEF BufferInv, out

-----------------------------------------------------------------------------
LEMMA BufferInit ==
  ASSUME BufferAssumption, Init
  PROVE  BufferInv /\ Buffered = {}
  <1>1. DOMAIN timers = {} /\ timers \in [{} -> TimerType] /\ life \in [{} -> 0..255]
    BY DEF Init
  <1>2. Buffered = {} /\ packets = <<>> /\ handed = {} /\ wake = {} /\ stored = 0
    BY <1>1 DEF Init, Buffered
  <1>3. Lists
    BY <1>1, <1>2 DEF Lists, Distinct, Elements
  <1>4. Counters
    BY <1>2 DEF Init, Counters, CountsContending
  <1>5. Flushes
    BY <1>1, <1>2 DEF Flushes, Timely, Deadline, AtMostOne, FlushPending
  <1>6. Bytes({}) = 0
    BY BytesEquation, FS_EmptySet
  <1>7. Fits
    BY <1>2, <1>6 DEF Fits, CapacityKept, BufferAssumption
  <1> QED
    BY <1>2, <1>3, <1>4, <1>5, <1>7 DEF BufferInv

\* A trigger flushes the packets whose timers have expired, or waits.
LEMMA TriggerStep ==
  ASSUME BufferAssumption, BufferInv, NEW d \in 1..MaxStep, trigger(d)
  PROVE  /\ BufferInv'
         /\ \E out \in SUBSET Buffered : Buffered' = Buffered \ out /\ handed' \subseteq out
  <1>1. CASE flush(Later(d), Faded(d))
    BY <1>1, FlushStep
  <1>2. CASE ~flush(Later(d), Faded(d))
    <2>1. /\ timers' = Later(d) /\ fade' = Faded(d) /\ wake' = {w - d : w \in wake}
          /\ handed' = {} /\ UNCHANGED <<packets, life, stored, count>>
      BY <1>2 DEF trigger
    <2>2. BufferInv' /\ Buffered' = Buffered
      BY <2>1, WaitStep
    <2>3. Buffered' = Buffered \ {} /\ {} \in SUBSET Buffered /\ handed' \subseteq {}
      BY <2>1, <2>2
    <2> QED
      BY <2>2, <2>3
  <1> QED
    BY <1>1, <1>2

\* Every operation keeps the invariant and is one of the abstract contention.
LEMMA BufferNext ==
  ASSUME BufferAssumption, BufferInv, Next
  PROVE  BufferInv' /\ C!Next
  <1>1. ASSUME NEW id \in Ids, NEW t \in Timeouts, NEW l \in Lifetimes, add(id, t, l)
        PROVE  BufferInv' /\ C!Next
    <2>1. /\ BufferInv' /\ handed' = {} /\ Dropped(id) \in SUBSET Buffered
          /\ Buffered' = (Buffered \ Dropped(id)) \cup {id}
      BY <1>1, AddStep
    <2>2. C!Enter(id)
      BY <2>1 DEF C!Enter
    <2> QED
      BY <2>1, <2>2 DEF C!Next
  <1>2. ASSUME NEW out \in SUBSET Buffered, Buffered' = Buffered \ out, handed' \subseteq out
        PROVE  C!Next
    BY <1>2 DEF C!Next, C!Leave
  <1>3. ASSUME NEW id \in Ids, remove(id) \/ fetch(id)
        PROVE  BufferInv' /\ C!Next
    <2>1. TakeOut(id) /\ handed' \subseteq {id}
      BY <1>3 DEF remove, fetch
    <2>2. BufferInv' /\ id \in Buffered /\ Buffered' = Buffered \ {id}
      BY <2>1, TakeOutStep
    <2>3. {id} \in SUBSET Buffered
      BY <2>2
    <2> QED
      BY <1>2, <2>1, <2>2, <2>3
  <1>4. ASSUME NEW id \in Ids, NEW t \in Timeouts, update(id, t)
        PROVE  BufferInv' /\ C!Next
    <2>1. BufferInv' /\ Buffered' = Buffered /\ handed' = {}
      BY <1>4, UpdateStep DEF update
    <2>2. {} \in SUBSET Buffered /\ Buffered' = Buffered \ {} /\ handed' \subseteq {}
      BY <2>1
    <2> QED
      BY <1>2, <2>1, <2>2
  <1>5. ASSUME NEW d \in 1..MaxStep, trigger(d)
        PROVE  BufferInv' /\ C!Next
    BY <1>2, <1>5, TriggerStep
  <1> QED
    BY <1>1, <1>3, <1>4, <1>5 DEF Next, Trigger

(***************************************************************************)
(* The invariant holds in every reachable state.                           *)
(***************************************************************************)
THEOREM BufferHolds ==
  ASSUME BufferAssumption
  PROVE  Spec => []BufferInv
  <1>1. Init => BufferInv
    BY BufferInit
  <1>2. BufferInv /\ [Next]_vars => BufferInv'
    <2> SUFFICES ASSUME BufferInv, [Next]_vars
                 PROVE  BufferInv'
      OBVIOUS
    <2>1. CASE Next
      BY <2>1, BufferNext
    <2>2. CASE UNCHANGED vars
      BY <2>2 DEF vars, BufferInv, Lists, Counters, Flushes, Fits, CountsContending, Timely,
                  Deadline, InTime, AtMostOne, FlushPending, CapacityKept, Buffered
    <2> QED
      BY <2>1, <2>2
  <1> QED
    BY <1>1, <1>2, PTL DEF Spec

(***************************************************************************)
(* CbfPacketBuffer::add, update, remove, fetch and flush: the list, the    *)
(* timers and the byte count agree whatever is dropped, overheard or       *)
(* flushed, for packets of all sizes; head drop keeps the buffer within    *)
(* its capacity, except for a single packet that is too large, and the     *)
(* counters exist exactly for the packets that contend.                    *)
(***************************************************************************)
THEOREM BooksAgree ==
  ASSUME BufferAssumption
  PROVE  Spec => []BufferIsSound
  <1>1. BufferInv => TypeOK /\ Accounting /\ CapacityKept /\ CountsContending
    <2> SUFFICES ASSUME BufferInv
                 PROVE  TypeOK /\ Accounting /\ CapacityKept /\ CountsContending
      OBVIOUS
    <2>1. /\ IsFiniteSet(Buffered) /\ Buffered \subseteq Ids
          /\ Cardinality(Buffered) = Len(packets)
      BY BufferedFinite DEF BufferInv
    <2>2. Bytes(Buffered) \in Nat
      BY <2>1, BytesWithout
    <2>3. Accounting /\ CapacityKept /\ CountsContending
      BY <2>1 DEF BufferInv, Lists, Counters, Fits, Accounting
    <2>4. \A id \in Buffered :
            timers[id].left \in Int /\ timers[id].age \in Nat /\ life[id] \in 0..255
      BY DEF BufferInv, Lists, TimerType
    <2>5. DOMAIN life = Buffered /\ packets \in Seq(Ids) /\ handed \subseteq Ids
      BY DEF BufferInv, Lists
    <2>6. stored \in Int /\ wake \subseteq Int /\ count \in [Ids -> Nat] /\ fade \in [Ids -> Int]
      BY <2>2 DEF BufferInv, Counters, Flushes, Deadline, Fits
    <2> QED
      BY <2>1, <2>3, <2>4, <2>5, <2>6 DEF TypeOK
  <1>2. BufferInv => BufferIsSound
    BY <1>1 DEF BufferIsSound
  <1> QED
    BY <1>2, BufferHolds, PTL

(***************************************************************************)
(* schedule_timer, remove_timer and the comparison of iterators in add:    *)
(* the buffer never sleeps on a packet, and a scheduled flush is never     *)
(* further away than one of the timeouts, also when update leaves it where *)
(* it is or the dangling iterator hides that the first timer has changed.  *)
(***************************************************************************)
THEOREM FlushIsScheduled ==
  ASSUME BufferAssumption
  PROVE  Spec => []FlushInTime
  <1>1. BufferInv => FlushInTime
    BY DEF BufferInv, Flushes, Deadline, InTime, FlushWithinTimeout, FlushInTime
  <1> QED
    BY <1>1, BufferHolds, PTL

(***************************************************************************)
(* The buffer with its timers, bytes and counters implements the abstract  *)
(* contention: a packet leaves once, silently or handed over.              *)
(***************************************************************************)
THEOREM ImplementsContention ==
  ASSUME BufferAssumption
  PROVE  Spec => ContentionSpec
  <1>1. Init => C!Init
    BY BufferInit DEF C!Init, Init
  <1>2. BufferInv /\ [Next]_vars => [C!Next]_(C!vars)
    <2> SUFFICES ASSUME BufferInv, [Next]_vars
                 PROVE  [C!Next]_(C!vars)
      OBVIOUS
    <2>1. CASE Next
      BY <2>1, BufferNext
    <2>2. CASE UNCHANGED vars
      BY <2>2 DEF vars, C!vars, Buffered
    <2> QED
      BY <2>1, <2>2
  <1> QED
    BY <1>1, <1>2, BufferHolds, PTL DEF Spec, ContentionSpec, C!Spec

-----------------------------------------------------------------------------
(***************************************************************************)
(* Fading counters.  They outlast their packets if the lifetime of a       *)
(* counter is enough for as many of the longest timeouts as a packet may   *)
(* be counted: it is four of them by default (mib.cpp).  While a packet is *)
(* buffered its counter has time left for the timer, for the scheduled     *)
(* flush, and for each of the updates that may still come.                 *)
(***************************************************************************)
Longest(M) == M \in Nat /\ (\A t \in Timeouts : t <= M) /\ MaxCounter * M <= FadeTicks
Outlasts == Fading => \E M : Longest(M)

Spare(c, M) == IF c < MaxCounter THEN (MaxCounter - c) * M ELSE 0
Lasts(f, c, left, w, M) ==
  c >= 1 /\ f >= Spare(c, M) /\ f >= Spare(c, M) + left /\ \A n \in w : f >= Spare(c, M) + n
Lasting(M) == Fading => \A id \in Buffered : Lasts(fade[id], count[id], timers[id].left, wake, M)

LEMMA SpareIs ==
  ASSUME BufferAssumption, NEW M, Longest(M), NEW c \in Nat
  PROVE  /\ Spare(c, M) \in Nat
         /\ c < MaxCounter => Spare(c, M) = Spare(c + 1, M) + M
         /\ c >= 1 => Spare(c, M) + M <= FadeTicks
  <1>1. M \in Nat /\ MaxCounter \in Nat /\ MaxCounter >= 1 /\ MaxCounter * M <= FadeTicks /\ FadeTicks \in Nat
    BY DEF Longest, BufferAssumption
  <1>2. \A k \in Nat : k * M \in Nat /\ (k + 1) * M = k * M + M
    BY <1>1
  <1>3. \A j, k \in Nat : (j + k) * M = j * M + k * M
    BY <1>1
  <1>4. CASE c < MaxCounter
    <2> DEFINE k == MaxCounter - (c + 1)
    <2>1. k \in Nat /\ MaxCounter - c = k + 1 /\ MaxCounter = (k + 1) + c
      BY <1>1, <1>4
    <2>2. Spare(c, M) = k * M + M
      BY <1>2, <1>4, <2>1 DEF Spare
    <2>3. Spare(c + 1, M) = k * M
      <3>1. CASE c + 1 < MaxCounter
        BY <3>1 DEF Spare
      <3>2. CASE ~(c + 1 < MaxCounter)
        <4>1. k = 0
          BY <1>1, <1>4, <3>2
        <4>2. 0 * M = 0
          BY <1>1
        <4> QED
          BY <3>2, <4>1, <4>2 DEF Spare
      <3> QED
        BY <3>1, <3>2
    <2>4. c >= 1 => MaxCounter * M >= k * M + M + M
      <3> SUFFICES ASSUME c >= 1
                   PROVE  MaxCounter * M >= k * M + M + M
        OBVIOUS
      <3>1. c - 1 \in Nat /\ c = (c - 1) + 1
        OBVIOUS
      <3>2. c * M = (c - 1) * M + M /\ (c - 1) * M \in Nat
        BY <1>2, <3>1
      <3>3. MaxCounter * M = (k + 1) * M + c * M /\ (k + 1) * M = k * M + M /\ k * M \in Nat
        BY <1>2, <1>3, <2>1
      <3> QED
        BY <1>1, <3>2, <3>3
    <2>5. k * M \in Nat
      BY <1>2, <2>1
    <2> HIDE DEF k
    <2> QED
      BY <1>1, <1>4, <2>2, <2>3, <2>4, <2>5
  <1>5. CASE ~(c < MaxCounter)
    <2>1. Spare(c, M) = 0
      BY <1>5 DEF Spare
    <2>2. MaxCounter - 1 \in Nat /\ MaxCounter = (MaxCounter - 1) + 1
      BY <1>1
    <2>3. MaxCounter * M = (MaxCounter - 1) * M + M /\ (MaxCounter - 1) * M \in Nat
      BY <1>2, <2>2
    <2>4. M <= FadeTicks
      BY <1>1, <2>3
    <2> QED
      BY <1>1, <1>5, <2>1, <2>4
  <1> QED
    BY <1>4, <1>5

\* The first timers expire before the others.
LEMMA FirstExpires ==
  ASSUME NEW D, NEW tm \in [D -> TimerType], NEW id \in D, NEW n \in schedule_timer(tm)
  PROVE  n <= tm[id].left
  BY DEF schedule_timer, Earliest

\* What is known of a buffered packet whose counter fades.
LEMMA Counted ==
  ASSUME BufferAssumption, BufferInv, NEW M, Longest(M), Fading, Lasting(M), NEW id \in Buffered
  PROVE  /\ id \in Ids /\ count[id] \in Nat /\ fade[id] \in Int /\ timers[id].left \in Int /\ wake \subseteq Int
         /\ Spare(count[id], M) \in Nat /\ fade[id] \in Nat
         /\ Lasts(fade[id], count[id], timers[id].left, wake, M)
  <1>1. id \in Ids /\ timers[id].left \in Int
    BY BufferedFinite DEF BufferInv, Lists, TimerType
  <1>2. count[id] \in Nat /\ fade[id] \in Int /\ wake \subseteq Int
    BY <1>1 DEF BufferInv, Counters, Flushes, Deadline
  <1>3. Spare(count[id], M) \in Nat
    BY <1>2, SpareIs
  <1>4. Lasts(fade[id], count[id], timers[id].left, wake, M)
    BY DEF Lasting
  <1>5. fade[id] >= Spare(count[id], M)
    BY <1>4 DEF Lasts
  <1>6. fade[id] \in Nat
    <2> HIDE DEF Spare
    <2> QED
      BY <1>2, <1>3, <1>5
  <1> QED
    BY <1>1, <1>2, <1>3, <1>4, <1>6

\* A counter with its time unchanged covers another deadline that is not later.
LEMMA StillLasts ==
  ASSUME NEW f \in Int, NEW c \in Nat, NEW left \in Int, NEW w, NEW M, Spare(c, M) \in Nat,
         Lasts(f, c, left, w, M), NEW v, v \subseteq Int, \A n \in v : n \in w \/ n <= left
  PROVE  Lasts(f, c, left, v, M)
  <1> DEFINE S == Spare(c, M)
  <1>1. S \in Nat /\ c >= 1 /\ f >= S /\ f >= S + left /\ \A n \in w : f >= S + n
    BY DEF Lasts
  <1> HIDE DEF S
  <1>2. \A n \in v : f >= S + n
    BY <1>1
  <1> QED
    BY <1>1, <1>2 DEF Lasts, S

\* A packet that stays, its timer and its counter as they were.
LEMMA Untouched ==
  ASSUME BufferAssumption, BufferInv, NEW M, Longest(M), Fading, Lasting(M), NEW id \in Buffered,
         fade'[id] = fade[id], count'[id] = count[id], timers'[id].left = timers[id].left,
         NEW v, v \subseteq Int, \A n \in v : n \in wake \/ n <= timers[id].left
  PROVE  Lasts(fade'[id], count'[id], timers'[id].left, v, M)
  <1>1. /\ count[id] \in Nat /\ fade[id] \in Int /\ timers[id].left \in Int
        /\ Spare(count[id], M) \in Nat /\ Lasts(fade[id], count[id], timers[id].left, wake, M)
    BY Counted
  <1>2. Lasts(fade[id], count[id], timers[id].left, v, M)
    BY <1>1, StillLasts
  <1> QED
    BY <1>2

LEMMA TakeOutLasts ==
  ASSUME BufferAssumption, BufferInv, NEW M, Longest(M), Fading, Lasting(M),
         NEW id \in Ids, TakeOut(id), handed' \subseteq {id}
  PROVE  Lasting(M)'
  <1>1. BufferInv' /\ id \in Buffered /\ Buffered' = Buffered \ {id}
    BY TakeOutStep
  <1>2. count' = count /\ fade' = fade /\ wake' \in remove_timer(timers, id)
    BY DEF TakeOut, CounterRemove
  <1>3. timers \in [Buffered -> TimerType]
    BY DEF BufferInv, Lists
  <1> DEFINE rest == Without(timers, {id})
  <1>4. rest \in [Buffered \ {id} -> TimerType] /\ \A o \in Buffered \ {id} : rest[o] = timers[o]
    BY <1>3 DEF Without
  <1>5. timers' = rest /\ (wake' = wake \/ wake' = schedule_timer(rest))
    BY <1>2 DEF TakeOut, remove_timer
  <1>6. wake' \subseteq Int
    BY <1>1 DEF BufferInv, Flushes, Deadline
  <1> HIDE DEF rest
  <1>7. ASSUME NEW o \in Buffered \ {id}
        PROVE  Lasts(fade'[o], count'[o], timers'[o].left, wake', M)
    <2>1. \A n \in schedule_timer(rest) : n <= rest[o].left
      BY <1>4, FirstExpires
    <2>2. \A n \in wake' : n \in wake \/ n <= timers[o].left
      BY <1>4, <1>5, <2>1
    <2>3. o \in Buffered /\ fade'[o] = fade[o] /\ count'[o] = count[o] /\ timers'[o].left = timers[o].left
      BY <1>2, <1>4, <1>5
    <2> QED
      BY <1>6, <2>2, <2>3, Untouched
  <1> QED
    BY <1>1, <1>7 DEF Lasting

(***************************************************************************)
(* update: one of the spare timeouts is used up by the new timer.          *)
(***************************************************************************)
LEMMA UpdateLasts ==
  ASSUME BufferAssumption, BufferInv, NEW M, Longest(M), Fading, Lasting(M),
         NEW id \in Ids, NEW t \in Timeouts, update(id, t)
  PROVE  Lasting(M)'
  <1>1. BufferInv' /\ Buffered' = Buffered /\ wake' = wake /\ id \in Buffered
    BY UpdateStep DEF update
  <1>2. /\ count[id] \in Nat /\ fade[id] \in Nat /\ timers[id].left \in Int /\ wake \subseteq Int
        /\ Spare(count[id], M) \in Nat /\ Lasts(fade[id], count[id], timers[id].left, wake, M)
    BY <1>1, Counted
  <1>3. count[id] >= 1 /\ fade[id] >= Spare(count[id], M)
    BY <1>2 DEF Lasts
  <1>4. ~Expired(fade[id]) /\ count[id] # 0
    BY <1>2, <1>3 DEF Expired
  <1>5. count[id] < MaxCounter
    BY <1>4 DEF update, counter
  <1>6. count' = [count EXCEPT ![id] = @ + 1] /\ fade' = fade
    BY <1>4 DEF update, CounterIncrement
  <1>7. count \in [Ids -> Nat] /\ timers \in [Buffered -> TimerType]
    BY DEF BufferInv, Counters, Lists
  <1>8. timers' = [timers EXCEPT ![id] = Timer(t)] /\ Timer(t).left = t
    BY DEF update, Timer
  <1>9. Lasts(fade'[id], count'[id], timers'[id].left, wake', M)
    <2> DEFINE c == count[id]
               S == Spare(c + 1, M)
    <2>1. Spare(c, M) = S + M /\ S \in Nat /\ M \in Nat /\ t <= M /\ t \in Nat
      <3>1. c + 1 \in Nat
        BY <1>2
      <3>2. S \in Nat /\ Spare(c, M) = Spare(c + 1, M) + M
        BY <1>2, <1>5, <3>1, SpareIs
      <3> QED
        BY <3>2 DEF Longest, BufferAssumption
    <2>2. count'[id] = c + 1 /\ timers'[id].left = t /\ fade'[id] = fade[id]
      BY <1>1, <1>6, <1>7, <1>8
    <2>3. \A n \in wake : n <= M
      BY <2>1 DEF BufferInv, Flushes, Deadline, InTime, Longest, BufferAssumption
    <2> HIDE DEF S
    <2>4. fade[id] >= S /\ fade[id] >= S + t
      BY <1>2, <1>3, <2>1
    <2>5. \A n \in wake : fade[id] >= S + n
      BY <1>2, <1>3, <2>1, <2>3
    <2>6. c + 1 >= 1
      BY <1>2
    <2>7. Lasts(fade[id], c + 1, t, wake, M)
      BY <2>4, <2>5, <2>6 DEF Lasts, S
    <2> QED
      BY <1>1, <2>2, <2>7
  <1>10. ASSUME NEW o \in Buffered, o # id
         PROVE  Lasts(fade'[o], count'[o], timers'[o].left, wake', M)
    <2>1. o \in Ids
      BY Counted
    <2>2. fade'[o] = fade[o] /\ count'[o] = count[o] /\ timers'[o].left = timers[o].left
      BY <1>6, <1>7, <1>8, <1>10, <2>1
    <2> QED
      BY <1>1, <1>2, <2>2, Untouched
  <1> QED
    BY <1>1, <1>9, <1>10 DEF Lasting

(***************************************************************************)
(* Time goes on: for the timers, the flush and the counters alike.         *)
(***************************************************************************)
LEMMA LaterLasts ==
  ASSUME NEW f \in Int, NEW c \in Nat, NEW left \in Int, NEW w, w \subseteq Int, NEW M,
         Spare(c, M) \in Nat, Lasts(f, c, left, w, M), NEW d \in Nat,
         NEW v, \A n \in v : (\E m \in w : n = m - d) \/ n <= left - d,
         v \subseteq Int, left - d > 0 \/ \E n \in w : n - d > 0
  PROVE  Lasts(f - d, c, left - d, v, M)
  <1> DEFINE S == Spare(c, M)
  <1>1. S \in Nat /\ c >= 1 /\ f >= S /\ f >= S + left /\ \A n \in w : f >= S + n
    BY DEF Lasts
  <1> HIDE DEF S
  <1>2. \A n \in w : f - d >= S + (n - d)
    BY <1>1
  <1>3. f - d >= S + (left - d)
    BY <1>1
  <1>4. \A n \in v : f - d >= S + n
    BY <1>1, <1>2, <1>3
  <1>5. f - d >= S
    BY <1>1, <1>2, <1>3
  <1> QED
    BY <1>1, <1>3, <1>4, <1>5 DEF Lasts, S

LEMMA TriggerLasts ==
  ASSUME BufferAssumption, BufferInv, NEW M, Longest(M), Fading, Lasting(M),
         NEW d \in 1..MaxStep, trigger(d)
  PROVE  Lasting(M)'
  <1>1. BufferInv' /\ wake \subseteq Int /\ wake' \subseteq Int /\ d \in Nat /\ wake' = wake'
    BY TriggerStep DEF BufferInv, Flushes, Deadline, BufferAssumption
  <1>2. \A id \in Buffered : Later(d)[id].left = timers[id].left - d
    BY DEF Later
  <1>3. ASSUME NEW id \in Buffered
        PROVE  Faded(d)[id] = fade[id] - d
    <2>1. /\ id \in Ids /\ count[id] \in Nat /\ fade[id] \in Nat
          /\ Lasts(fade[id], count[id], timers[id].left, wake, M)
      BY Counted
    <2>2. count[id] > 0 /\ fade[id] >= 0
      BY <2>1 DEF Lasts
    <2> QED
      BY <2>1, <2>2 DEF Faded
  <1>4. ASSUME NEW id \in Buffered, timers'[id].left = timers[id].left - d,
               fade'[id] = fade[id] - d, count'[id] = count[id],
               \A n \in wake' : (\E m \in wake : n = m - d) \/ n <= timers[id].left - d,
               timers[id].left - d > 0 \/ \E n \in wake : n - d > 0
        PROVE  Lasts(fade'[id], count'[id], timers'[id].left, wake', M)
    <2>1. /\ count[id] \in Nat /\ fade[id] \in Int /\ timers[id].left \in Int
          /\ Spare(count[id], M) \in Nat /\ Lasts(fade[id], count[id], timers[id].left, wake, M)
      BY Counted
    <2> DEFINE v == wake'
    <2>2. v \subseteq Int /\ \A n \in v : (\E m \in wake : n = m - d) \/ n <= timers[id].left - d
      BY <1>1, <1>4
    <2> HIDE DEF v
    <2>3. Lasts(fade[id] - d, count[id], timers[id].left - d, v, M)
      BY <1>1, <1>4, <2>1, <2>2, LaterLasts
    <2> QED
      BY <1>4, <2>3 DEF v
  <1>5. CASE flush(Later(d), Faded(d))
    <2> DEFINE tm == Later(d)
               fd == Faded(d)
               due == Due(tm)
               rest == Without(tm, due)
    <2>1. Buffered' = Buffered \ due
      BY <1>5, FlushStep
    <2>2. tm \in [Buffered -> TimerType]
      BY TimersLater
    <2>3. count' = count /\ fade' = fd /\ timers' = rest /\ wake' = schedule_timer(rest)
      BY <1>5 DEF flush, CounterRemove
    <2> HIDE DEF tm, fd
    <2>4. rest \in [Buffered \ due -> TimerType] /\ \A o \in Buffered \ due : rest[o] = tm[o]
      BY <2>2 DEF Without
    <2>5. ASSUME NEW id \in Buffered \ due
          PROVE  Lasts(fade'[id], count'[id], timers'[id].left, wake', M)
      <3>1. tm[id].left = timers[id].left - d /\ fd[id] = fade[id] - d
        BY <1>2, <1>3 DEF tm, fd
      <3>2. ~(tm[id].left <= 0) /\ tm[id].left \in Int
        BY <2>2 DEF Due, TimerType
      <3>3. \A n \in schedule_timer(rest) : n <= rest[id].left
        <4> HIDE DEF rest, due
        <4> QED
          BY <2>4, FirstExpires
      <3> HIDE DEF rest, due
      <3>4. timers'[id].left = timers[id].left - d /\ fade'[id] = fade[id] - d /\ count'[id] = count[id]
        BY <2>3, <2>4, <3>1
      <3>5. \A n \in wake' : n <= timers[id].left - d
        BY <2>3, <2>4, <3>1, <3>3
      <3>6. timers[id].left - d > 0
        BY <3>1, <3>2
      <3> QED
        BY <1>4, <3>4, <3>5, <3>6
    <2> QED
      BY <2>1, <2>5 DEF Lasting
  <1>6. CASE ~flush(Later(d), Faded(d))
    <2>1. /\ \A w \in wake : w - d > 0
          /\ timers' = Later(d) /\ fade' = Faded(d) /\ wake' = {w - d : w \in wake}
          /\ handed' = {} /\ UNCHANGED <<packets, life, stored, count>>
      BY <1>6 DEF trigger
    <2>2. Buffered' = Buffered
      BY <2>1, WaitStep
    <2>3. ASSUME NEW id \in Buffered
          PROVE  Lasts(fade'[id], count'[id], timers'[id].left, wake', M)
      <3>1. wake # {}
        BY DEF BufferInv, Flushes, FlushPending
      <3>2. timers'[id].left = timers[id].left - d /\ fade'[id] = fade[id] - d /\ count'[id] = count[id]
        BY <1>2, <1>3, <2>1
      <3>3. \E n \in wake : n - d > 0
        BY <2>1, <3>1
      <3>4. \A n \in wake' : \E m \in wake : n = m - d
        BY <2>1
      <3> QED
        BY <1>4, <3>2, <3>3, <3>4
    <2> QED
      BY <2>2, <2>3 DEF Lasting
  <1> QED
    BY <1>5, <1>6

(***************************************************************************)
(* add: the new counter has its whole lifetime, which covers as many       *)
(* timeouts as there may be updates.                                       *)
(***************************************************************************)
LEMMA AddLasts ==
  ASSUME BufferAssumption, BufferInv, NEW M, Longest(M), Fading, Lasting(M),
         NEW id \in Ids, NEW t \in Timeouts, NEW lt \in Lifetimes, add(id, t, lt)
  PROVE  Lasting(M)'
  <1> DEFINE out == Dropped(id)
             kept == Without(timers, out)
             tm == With(kept, id, Timer(t))
             D == (Buffered \ out) \cup {id}
             fd == [fade EXCEPT ![id] = FadeTicks]
  <1>1. BufferInv' /\ Buffered' = D
    BY AddStep
  <1>2. /\ count \in [Ids -> Nat] /\ fade \in [Ids -> Int] /\ timers \in [Buffered -> TimerType]
        /\ FadeTicks \in Nat /\ t \in Nat /\ M \in Nat /\ t <= M
    BY DEF BufferInv, Counters, Lists, BufferAssumption, Longest
  <1>3. id \notin Buffered /\ timers' = tm
    BY DEF add, Dropped
  <1>4. /\ count' = [i \in Ids |-> IF Expired(fd[i]) THEN 0
                                   ELSE IF i = id THEN count[i] + 1 ELSE count[i]]
        /\ fade' = fd
    BY DEF add, CounterRemove, CounterAdd
  <1>5. wake' = schedule_timer(tm) \/ wake' = wake
    <2>0. PICK first : \E changed \in Rescheduled(out, Timer(t), first) :
                         wake' = IF changed THEN schedule_timer(tm) ELSE wake
      BY DEF add, Dropped
    <2> QED
      BY <2>0
  <1>6. Timer(t) \in TimerType /\ Timer(t).left = t
    BY <1>2 DEF Timer, TimerType
  <1> HIDE DEF out
  <1>7. kept \in [Buffered \ out -> TimerType] /\ \A i \in Buffered \ out : kept[i] = timers[i]
    BY <1>2 DEF Without
  <1>8. tm \in [D -> TimerType] /\ \A i \in D : tm[i] = IF i = id THEN Timer(t) ELSE timers[i]
    <2> HIDE DEF kept
    <2> QED
      BY <1>6, <1>7 DEF With
  <1> HIDE DEF kept, tm
  <1>9. wake' \subseteq Int /\ \A n \in wake' : n <= M
    <2>1. wake' \subseteq Int /\ \A n \in wake' : \E s \in Timeouts : n <= s
      BY <1>1 DEF BufferInv, Flushes, Deadline, InTime
    <2>2. \A s \in Timeouts : s \in Nat /\ s <= M
      BY DEF Longest, BufferAssumption
    <2> QED
      BY <1>2, <2>1, <2>2
  <1>10. Lasts(fade'[id], count'[id], timers'[id].left, wake', M)
    <2> DEFINE c == count[id] + 1
               S == Spare(c, M)
               v == wake'
    <2>1. c \in Nat /\ c >= 1
      BY <1>2
    <2>2. S \in Nat /\ S + M <= FadeTicks
      <3> HIDE DEF c
      <3> QED
        BY <2>1, SpareIs
    <2>3. fade'[id] = FadeTicks /\ count'[id] = c /\ timers'[id].left = t
      BY <1>2, <1>3, <1>4, <1>6, <1>8 DEF Expired
    <2>4. v \subseteq Int /\ \A n \in v : n <= M
      BY <1>9
    <2> HIDE DEF S, c, v
    <2>5. FadeTicks >= S /\ FadeTicks >= S + t /\ \A n \in v : FadeTicks >= S + n
      BY <1>2, <2>2, <2>4
    <2>6. Lasts(FadeTicks, c, t, v, M)
      BY <2>1, <2>5 DEF Lasts, S
    <2> QED
      BY <2>3, <2>6 DEF v
  <1>11. ASSUME NEW o \in Buffered \ out
         PROVE  Lasts(fade'[o], count'[o], timers'[o].left, wake', M)
    <2>1. o \in Buffered /\ o \in D /\ o # id
      BY <1>3
    <2>2. o \in Ids /\ fade[o] \in Nat
      BY <2>1, Counted
    <2>3. fade'[o] = fade[o] /\ count'[o] = count[o] /\ timers'[o].left = timers[o].left
      BY <1>2, <1>3, <1>4, <1>8, <2>1, <2>2 DEF Expired
    <2>4. \A n \in schedule_timer(tm) : n <= tm[o].left
      BY <1>8, <2>1, FirstExpires
    <2>5. tm[o].left = timers[o].left
      BY <1>8, <2>1
    <2>6. \A n \in wake' : n \in wake \/ n <= timers[o].left
      BY <1>5, <2>4, <2>5
    <2> QED
      BY <1>9, <2>1, <2>3, <2>6, Untouched
  <1> QED
    BY <1>1, <1>10, <1>11 DEF Lasting

(***************************************************************************)
(* A counter and its packet: it is counted until it leaves.                *)
(***************************************************************************)
LEMMA LastingStep ==
  ASSUME BufferAssumption, BufferInv, NEW M, Longest(M), Fading, Lasting(M), [Next]_vars
  PROVE  Lasting(M)'
  <1>1. ASSUME NEW id \in Ids, NEW t \in Timeouts, NEW l \in Lifetimes, add(id, t, l)
        PROVE  Lasting(M)'
    BY <1>1, AddLasts
  <1>2. ASSUME NEW id \in Ids, remove(id) \/ fetch(id)
        PROVE  Lasting(M)'
    <2>1. TakeOut(id) /\ handed' \subseteq {id}
      BY <1>2 DEF remove, fetch
    <2> QED
      BY <2>1, TakeOutLasts
  <1>3. ASSUME NEW id \in Ids, NEW t \in Timeouts, update(id, t)
        PROVE  Lasting(M)'
    BY <1>3, UpdateLasts
  <1>4. ASSUME NEW d \in 1..MaxStep, trigger(d)
        PROVE  Lasting(M)'
    BY <1>4, TriggerLasts
  <1>5. CASE UNCHANGED vars
    BY <1>5 DEF vars, Lasting, Buffered
  <1> QED
    BY <1>1, <1>2, <1>3, <1>4, <1>5 DEF Next, Trigger

(***************************************************************************)
(* CbfCounter, contending and fading: a packet that contends is counted    *)
(* until it leaves, whatever is overheard and however late the runtime     *)
(* is, if fading counters live as long as MaxCounter of the longest        *)
(* timeouts.                                                               *)
(***************************************************************************)
THEOREM CountedWhileContending ==
  ASSUME BufferAssumption, Outlasts
  PROVE  Spec => []ContendingIsCounted
  <1>1. CASE ~Fading
    <2>1. BufferInv => ContendingIsCounted
      <3> SUFFICES ASSUME BufferInv, NEW id \in Buffered
                   PROVE  counter(id) >= 1
        BY DEF ContendingIsCounted
      <3>1. id \in Ids /\ count[id] \in Nat /\ count[id] > 0
        BY <1>1, BufferedFinite DEF BufferInv, Counters, CountsContending
      <3> QED
        BY <1>1, <3>1 DEF counter
    <2> QED
      BY <2>1, BufferHolds, PTL
  <1>2. CASE Fading
    <2>1. PICK M : Longest(M)
      BY <1>2 DEF Outlasts
    <2>2. Init => Lasting(M)
      BY BufferInit DEF Lasting
    <2>3. BufferInv /\ Lasting(M) /\ [Next]_vars => Lasting(M)'
      BY <1>2, <2>1, LastingStep
    <2>4. BufferInv /\ Lasting(M) => ContendingIsCounted
      <3> SUFFICES ASSUME BufferInv, Lasting(M), NEW id \in Buffered
                   PROVE  counter(id) >= 1
        BY DEF ContendingIsCounted
      <3>1. /\ count[id] \in Nat /\ fade[id] \in Nat
            /\ Lasts(fade[id], count[id], timers[id].left, wake, M)
        BY <1>2, <2>1, Counted
      <3>2. ~Expired(fade[id]) /\ count[id] >= 1
        BY <3>1 DEF Lasts, Expired
      <3> QED
        BY <3>2 DEF counter
    <2> QED
      BY <2>2, <2>3, <2>4, BufferHolds, PTL DEF Spec
  <1> QED
    BY <1>1, <1>2

-----------------------------------------------------------------------------
(***************************************************************************)
(* Store carry forward: PacketBuffer.                                      *)
(***************************************************************************)
\* Induction up to n, with a set in the place of a predicate.
LEMMA UpTo ==
  ASSUME NEW n \in Nat, NEW T, 0 \in T, \A k \in 1..n : k - 1 \in T => k \in T
  PROVE  0..n \subseteq T
  <1> DEFINE Bad == {k \in 0..n : k \notin T}
  <1> SUFFICES ASSUME Bad # {} PROVE FALSE
    OBVIOUS
  <1>1. PICK k \in Bad : \A y \in Bad : k <= y
    <2>1. Bad \subseteq Nat
      OBVIOUS
    <2> HIDE DEF Bad
    <2> QED
      BY <2>1, Least
  <1>2. k \in 1..n /\ k \notin T
    OBVIOUS
  <1>3. k - 1 \in 0..n /\ ~(k <= k - 1)
    BY <1>2
  <1>4. k - 1 \notin Bad
    <2> HIDE DEF Bad
    <2> QED
      BY <1>1, <1>3
  <1> QED
    BY <1>2, <1>3, <1>4

\* A recursion over 0..n has a function: z at 0, and step of the argument and
\* the value before.
Follows(n, V, z, step) ==
  \E f \in [0..n -> V] : f[0] = z /\ \A i \in 1..n : f[i] = step[i][f[i - 1]]
LEMMA Recursion ==
  ASSUME NEW n \in Nat, NEW V, NEW z \in V, NEW step \in [1..n -> [V -> V]]
  PROVE  Follows(n, V, z, step)
  <1> DEFINE Upto(m, f) == f[0] = z /\ \A i \in 1..m : f[i] = step[i][f[i - 1]]
             T == {m \in 0..n : \E f \in [0..m -> V] : Upto(m, f)}
  <1>1. 0 \in T
    <2> DEFINE f == [i \in 0..0 |-> z]
    <2>1. f \in [0..0 -> V] /\ Upto(0, f) /\ 0 \in 0..n
      OBVIOUS
    <2> HIDE DEF f
    <2> QED
      BY <2>1
  <1>2. ASSUME NEW m \in 1..n, m - 1 \in T
        PROVE  m \in T
    <2>1. PICK f \in [0..(m - 1) -> V] : Upto(m - 1, f)
      BY <1>2
    <2>2. m \in Nat /\ m - 1 \in 0..(m - 1) /\ m \notin 0..(m - 1) /\ 0..m = 0..(m - 1) \cup {m} /\ m # 0
      OBVIOUS
    <2> DEFINE last == step[m][f[m - 1]]
               g == [i \in 0..m |-> IF i = m THEN last ELSE f[i]]
    <2>3. last \in V
      BY <2>2
    <2>4. g \in [0..m -> V]
      BY <2>2, <2>3
    <2>5. g[m] = last /\ \A i \in 0..(m - 1) : g[i] = f[i]
      BY <2>2
    <2> HIDE DEF g
    <2>6. g[0] = z
      BY <2>1, <2>2, <2>5
    <2>7. ASSUME NEW i \in 1..m
          PROVE  g[i] = step[i][g[i - 1]]
      <3>1. CASE i = m
        BY <2>2, <2>5, <3>1
      <3>2. CASE i # m
        <4>1. i \in 1..(m - 1) /\ i \in 0..(m - 1) /\ i - 1 \in 0..(m - 1)
          BY <2>2, <3>2
        <4> QED
          BY <2>1, <2>5, <4>1
      <3> QED
        BY <3>1, <3>2
    <2>8. g \in [0..m -> V] /\ Upto(m, g)
      BY <2>4, <2>6, <2>7
    <2>9. m \in 0..n
      OBVIOUS
    <2> HIDE DEF Upto
    <2> QED
      BY <2>8, <2>9
  <1>3. 0..n \subseteq T
    <2> HIDE DEF T
    <2> QED
      BY <1>1, <1>2, UpTo
  <1>4. n \in T
    <2> HIDE DEF T
    <2> QED
      BY <1>3
  <1> QED
    BY <1>4 DEF Follows

-----------------------------------------------------------------------------
(***************************************************************************)
(* Bytes.  Sums(f, s) says that f has the bytes of the first 0, 1 .. nodes *)
(* of s.                                                                   *)
(***************************************************************************)
Held == [id : ScfIds, life : 0..255, age : 0..AgeCap]
ScfSums(f, s) == f \in [0..Len(s) -> Nat] /\ f[0] = 0 /\ \A i \in 1..Len(s) : f[i] = f[i - 1] + ScfLength[s[i].id]

LEMMA LengthType ==
  ASSUME Scf!PacketBufferAssumption, NEW e \in Held
  PROVE  ScfLength[e.id] \in Nat /\ ScfLength[e.id] > 0
  <1>1. e.id \in ScfIds /\ ScfLength \in [ScfIds -> Nat \ {0}]
    BY DEF Scf!PacketBufferAssumption, Held
  <1> QED
    BY <1>1

LEMMA BytesIs ==
  ASSUME Scf!PacketBufferAssumption, NEW s \in Seq(Held)
  PROVE  \E f : ScfSums(f, s) /\ Scf!Bytes(s) = f[Len(s)]
  <1> DEFINE N == Len(s)
             P(f) == f = [i \in 0..Len(s) |-> IF i = 0 THEN 0 ELSE f[i - 1] + ScfLength[s[i].id]]
             sum == CHOOSE f : P(f)
             step == [i \in 1..N |-> [x \in Nat |-> x + ScfLength[s[i].id]]]
  <1>1. N \in Nat /\ \A i \in 1..N : ScfLength[s[i].id] \in Nat
    <2>1. N \in Nat /\ \A i \in 1..N : s[i] \in Held
      OBVIOUS
    <2> QED
      BY <2>1, LengthType
  <1>2. step \in [1..N -> [Nat -> Nat]]
    BY <1>1
  <1>3. PICK f \in [0..N -> Nat] : f[0] = 0 /\ \A i \in 1..N : f[i] = step[i][f[i - 1]]
    <2>1. N \in Nat /\ 0 \in Nat
      BY <1>1
    <2> HIDE DEF N, step
    <2>2. Follows(N, Nat, 0, step)
      BY <1>2, <2>1, Recursion
    <2> QED
      BY <2>2 DEF Follows
  <1>4. ASSUME NEW i \in 1..N
        PROVE  f[i] = f[i - 1] + ScfLength[s[i].id]
    <2>1. i - 1 \in 0..N /\ f[i - 1] \in Nat
      BY <1>1
    <2>2. step[i][f[i - 1]] = f[i - 1] + ScfLength[s[i].id]
      BY <2>1
    <2> QED
      BY <1>3, <2>2
  <1>5. ScfSums(f, s)
    BY <1>3, <1>4 DEF ScfSums
  <1>6. P(f)
    BY <1>1, <1>3, <1>4
  <1>7. P(sum)
    <2> HIDE DEF P
    <2> QED
      BY <1>6, Zenon
  <1>8. Scf!Bytes(s) = sum[Len(s)]
    BY DEF Scf!Bytes
  <1> HIDE DEF sum
  <1>9. sum = f
    <2> DEFINE T == {i \in 0..N : sum[i] = f[i]}
    <2>1. DOMAIN sum = 0..N /\ \A i \in 0..N : sum[i] = IF i = 0 THEN 0 ELSE sum[i - 1] + ScfLength[s[i].id]
      BY <1>7
    <2>2. 0 \in T
      BY <1>1, <1>3, <2>1
    <2>3. ASSUME NEW i \in 1..N, i - 1 \in T PROVE i \in T
      BY <1>1, <1>4, <2>1, <2>3
    <2>4. 0..N \subseteq T
      <3> HIDE DEF T, N
      <3> QED
        BY <1>1, <2>2, <2>3, UpTo
    <2>5. \A i \in 0..N : sum[i] = f[i]
      BY <2>4
    <2>6. sum = [i \in 0..N |-> sum[i]]
      BY <1>7
    <2> QED
      BY <1>3, <2>5, <2>6
  <1> QED
    BY <1>5, <1>8, <1>9

LEMMA BytesType ==
  ASSUME Scf!PacketBufferAssumption, NEW s \in Seq(Held)
  PROVE  Scf!Bytes(s) \in Nat
  <1>1. PICK f : ScfSums(f, s) /\ Scf!Bytes(s) = f[Len(s)]
    BY BytesIs
  <1>2. Len(s) \in 0..Len(s)
    OBVIOUS
  <1> QED
    BY <1>1, <1>2 DEF ScfSums

LEMMA NoBytes ==
  ASSUME Scf!PacketBufferAssumption
  PROVE  Scf!Bytes(<<>>) = 0
  <1> DEFINE none == <<>>
  <1>1. none \in Seq(Held) /\ Len(none) = 0
    OBVIOUS
  <1> HIDE DEF none
  <1>2. PICK f : ScfSums(f, none) /\ Scf!Bytes(none) = f[Len(none)]
    BY <1>1, BytesIs
  <1>3. Scf!Bytes(none) = 0
    BY <1>1, <1>2 DEF ScfSums
  <1> QED
    BY <1>3 DEF none

\* The bytes of a part of s.
LEMMA BytesOfPart ==
  ASSUME Scf!PacketBufferAssumption, NEW s \in Seq(Held), NEW f, ScfSums(f, s),
         NEW m \in Nat, NEW n \in Nat, m <= n, n <= Len(s), NEW t \in Seq(Held),
         Len(t) = n - m, \A i \in 1..(n - m) : t[i].id = s[m + i].id
  PROVE  Scf!Bytes(t) = f[n] - f[m]
  <1>1. PICK g : ScfSums(g, t) /\ Scf!Bytes(t) = g[Len(t)]
    BY BytesIs
  <1> DEFINE d == n - m
             T == {i \in 0..d : g[i] = f[m + i] - f[m]}
  <1>2. d \in Nat /\ Len(s) \in Nat
    OBVIOUS
  <1>3. \A i \in 0..d : m + i \in 0..Len(s)
    BY <1>2
  <1>4. \A i \in 0..Len(s) : f[i] \in Nat
    BY DEF ScfSums
  <1>5. 0 \in T
    BY <1>1, <1>2, <1>3, <1>4 DEF ScfSums
  <1>6. ASSUME NEW i \in 1..d, i - 1 \in T
        PROVE  i \in T
    <2>1. m + i \in 1..Len(s) /\ (m + i) - 1 = m + (i - 1) /\ i \in 1..Len(t) /\ i - 1 \in 0..d /\ i \in 0..d
      BY <1>2
    <2>2. t[i].id = s[m + i].id
      OBVIOUS
    <2>3. f[m + i] = f[m + (i - 1)] + ScfLength[t[i].id]
      BY <2>1, <2>2 DEF ScfSums
    <2>4. g[i] = g[i - 1] + ScfLength[t[i].id]
      BY <1>1, <2>1 DEF ScfSums
    <2>5. ScfLength[t[i].id] \in Nat
      <3>1. t[i] \in Held
        BY <2>1
      <3> QED
        BY <3>1, LengthType
    <2>6. g[i - 1] = f[m + (i - 1)] - f[m]
      BY <1>6
    <2>7. f[m] \in Nat /\ f[m + (i - 1)] \in Nat
      BY <1>3, <1>4, <2>1
    <2> QED
      BY <2>1, <2>3, <2>4, <2>5, <2>6, <2>7
  <1>7. 0..d \subseteq T
    <2> HIDE DEF T, d
    <2> QED
      BY <1>2, <1>5, <1>6, UpTo
  <1>8. d \in T /\ m + d = n
    BY <1>2, <1>7
  <1> QED
    BY <1>1, <1>8

LEMMA BytesAppend ==
  ASSUME Scf!PacketBufferAssumption, NEW s \in Seq(Held), NEW e \in Held
  PROVE  Scf!Bytes(Append(s, e)) = Scf!Bytes(s) + ScfLength[e.id]
  <1> DEFINE t == Append(s, e)
             l == Len(s)
  <1>1. t \in Seq(Held) /\ Len(t) = l + 1 /\ t[l + 1] = e /\ l \in Nat /\ \A i \in 1..l : t[i] = s[i]
    OBVIOUS
  <1> HIDE DEF t
  <1>2. PICK f : ScfSums(f, t) /\ Scf!Bytes(t) = f[Len(t)]
    BY <1>1, BytesIs
  <1>3. Scf!Bytes(s) = f[l] - f[0]
    <2>1. \A i \in 1..(l - 0) : s[i].id = t[0 + i].id
      BY <1>1
    <2>2. 0 <= l /\ l <= Len(t) /\ Len(s) = l - 0 /\ 0 \in Nat
      BY <1>1
    <2> HIDE DEF l
    <2> QED
      BY <1>1, <1>2, <2>1, <2>2, BytesOfPart
  <1>4. f[l + 1] = f[l] + ScfLength[e.id] /\ f[0] = 0 /\ f[l] \in Nat
    <2>1. l + 1 \in 1..Len(t) /\ (l + 1) - 1 = l /\ l \in 0..Len(t)
      BY <1>1
    <2> HIDE DEF l
    <2> QED
      BY <1>1, <1>2, <2>1 DEF ScfSums
  <1> QED
    BY <1>1, <1>2, <1>3, <1>4 DEF t

-----------------------------------------------------------------------------
(***************************************************************************)
(* Kept.  K has what is kept of the first 0, 1 .. elements of q; h says    *)
(* where the elements that are kept, r, come from.                         *)
(***************************************************************************)
Keeps(K, V, q, S) ==
  /\ K \in [0..Len(q) -> Seq(V)] /\ K[0] = <<>> /\ K[Len(q)] = Scf!Kept(q, S)
  /\ \A i \in 1..Len(q) : K[i] = IF q[i] \in S THEN Append(K[i - 1], q[i]) ELSE K[i - 1]

LEMMA KeptTable ==
  ASSUME NEW V, NEW q \in Seq(V), NEW S
  PROVE  \E K : Keeps(K, V, q, S)
  <1> DEFINE N == Len(q)
             P(f) == f = [i \in 0..Len(q) |-> IF i = 0 THEN <<>>
                            ELSE IF q[i] \in S THEN Append(f[i - 1], q[i]) ELSE f[i - 1]]
             kept == CHOOSE f : P(f)
             step == [i \in 1..N |-> [x \in Seq(V) |-> IF q[i] \in S THEN Append(x, q[i]) ELSE x]]
  <1>1. N \in Nat /\ <<>> \in Seq(V) /\ \A i \in 1..N : q[i] \in V
    OBVIOUS
  <1>2. step \in [1..N -> [Seq(V) -> Seq(V)]]
    <2>1. \A i \in 1..N, x \in Seq(V) : (IF q[i] \in S THEN Append(x, q[i]) ELSE x) \in Seq(V)
      BY <1>1
    <2> QED
      BY <2>1
  <1>3. PICK f \in [0..N -> Seq(V)] : f[0] = <<>> /\ \A i \in 1..N : f[i] = step[i][f[i - 1]]
    <2> HIDE DEF N, step
    <2>1. Follows(N, Seq(V), <<>>, step)
      BY <1>1, <1>2, Recursion
    <2> QED
      BY <2>1 DEF Follows
  <1>4. ASSUME NEW i \in 1..N
        PROVE  f[i] = IF q[i] \in S THEN Append(f[i - 1], q[i]) ELSE f[i - 1]
    <2>1. i - 1 \in 0..N /\ f[i - 1] \in Seq(V)
      <3> HIDE DEF step
      <3>1. i - 1 \in 0..N
        BY <1>1
      <3> QED
        BY <3>1
    <2>2. step[i][f[i - 1]] = IF q[i] \in S THEN Append(f[i - 1], q[i]) ELSE f[i - 1]
      BY <2>1
    <2> QED
      BY <1>3, <2>2
  <1>5. P(f)
    <2> HIDE DEF step
    <2>1. f = [i \in 0..N |-> f[i]]
      OBVIOUS
    <2>2. ASSUME NEW i \in 0..N
          PROVE  f[i] = IF i = 0 THEN <<>> ELSE IF q[i] \in S THEN Append(f[i - 1], q[i]) ELSE f[i - 1]
      <3>1. i = 0 \/ i \in 1..N
        BY <1>1
      <3> HIDE DEF N
      <3> QED
        BY <1>3, <1>4, <3>1
    <2> QED
      BY <2>1, <2>2
  <1>6. P(kept)
    <2> HIDE DEF P
    <2> QED
      BY <1>5, Zenon
  <1>7. Scf!Kept(q, S) = kept[N]
    BY DEF Scf!Kept
  <1> HIDE DEF kept
  <1>8. \A i \in 0..N : kept[i] = f[i]
    <2> DEFINE T == {i \in 0..N : kept[i] = f[i]}
    <2>1. \A i \in 0..N : kept[i] = IF i = 0 THEN <<>>
                             ELSE IF q[i] \in S THEN Append(kept[i - 1], q[i]) ELSE kept[i - 1]
      BY <1>6
    <2>2. 0 \in T
      <3> HIDE DEF step
      <3> QED
        BY <1>1, <1>3, <2>1
    <2>3. ASSUME NEW i \in 1..N, i - 1 \in T PROVE i \in T
      <3>1. i \in 0..N /\ i # 0 /\ kept[i - 1] = f[i - 1]
        BY <1>1, <2>3
      <3>2. kept[i] = IF q[i] \in S THEN Append(kept[i - 1], q[i]) ELSE kept[i - 1]
        <4> HIDE DEF N
        <4> QED
          BY <2>1, <3>1
      <3>3. f[i] = IF q[i] \in S THEN Append(f[i - 1], q[i]) ELSE f[i - 1]
        BY <1>4
      <3>4. kept[i] = f[i]
        <4> HIDE DEF N, step, T
        <4> QED
          BY <3>1, <3>2, <3>3
      <3> QED
        BY <3>1, <3>4
    <2>4. 0..N \subseteq T
      <3> HIDE DEF T, N
      <3> QED
        BY <1>1, <2>2, <2>3, UpTo
    <2> QED
      BY <2>4
  <1>9. f[N] = Scf!Kept(q, S)
    BY <1>1, <1>7, <1>8
  <1>10. Keeps(f, V, q, S)
    BY <1>3, <1>4, <1>9 DEF Keeps
  <1> QED
    BY <1>10

From(r, n, q, S, h) ==
  /\ h \in [1..Len(r) -> 1..n]
  /\ \A k \in 1..Len(r) : r[k] = q[h[k]] /\ q[h[k]] \in S
  /\ \A j, k \in 1..Len(r) : j < k => h[j] < h[k]
  /\ \A i \in 1..n : q[i] \in S => \E k \in 1..Len(r) : h[k] = i

LEMMA KeptIs ==
  ASSUME NEW V, NEW q \in Seq(V), NEW S
  PROVE  Scf!Kept(q, S) \in Seq(V) /\ \E h : From(Scf!Kept(q, S), Len(q), q, S, h)
  <1> DEFINE N == Len(q)
  <1>0. N \in Nat
    OBVIOUS
  <1>1. PICK kept : Keeps(kept, V, q, S)
    BY KeptTable
  <1>5. /\ kept \in [0..N -> Seq(V)] /\ kept[0] = <<>> /\ kept[N] = Scf!Kept(q, S)
        /\ \A i \in 1..N : kept[i] = IF q[i] \in S THEN Append(kept[i - 1], q[i]) ELSE kept[i - 1]
    BY <1>1 DEF Keeps
  <1> DEFINE T == {n \in 0..N : \E h : From(kept[n], n, q, S, h)}
  <1>6. 0 \in T
    <2>1. kept[0] = <<>> /\ 0 \in 0..N
      BY <1>0, <1>5
    <2>2. From(<<>>, 0, q, S, <<>>)
      BY DEF From
    <2> HIDE DEF N
    <2>3. From(kept[0], 0, q, S, <<>>)
      BY <2>1, <2>2
    <2> QED
      BY <2>1, <2>3
  <1>7. ASSUME NEW n \in 1..N, n - 1 \in T
        PROVE  n \in T
    <2> DEFINE r == kept[n - 1]
    <2>1. n \in 0..N /\ n # 0 /\ n - 1 \in Nat /\ n \in Nat
      BY <1>0
    <2>2. kept[n] = IF q[n] \in S THEN Append(r, q[n]) ELSE r
      BY <1>5, <2>1
    <2>3. r \in Seq(V) /\ Len(r) \in Nat
      <3>1. n - 1 \in 0..N
        BY <1>0
      <3> QED
        BY <1>5, <3>1
    <2>4. PICK h : From(r, n - 1, q, S, h)
      BY <1>7
    <2>5. q[n] \in V
      BY <1>7
    <2> HIDE DEF r
    <2>6. CASE q[n] \notin S
      <3>1. From(r, n, q, S, h)
        BY <2>1, <2>4, <2>6 DEF From
      <3> QED
        BY <2>1, <2>2, <2>3, <2>6, <3>1
    <2>7. CASE q[n] \in S
      <3> DEFINE m == Len(r) + 1
                 s == Append(r, q[n])
                 g == [k \in 1..m |-> IF k = m THEN n ELSE h[k]]
      <3>1. s \in Seq(V) /\ Len(s) = m /\ s[m] = q[n] /\ \A k \in 1..Len(r) : s[k] = r[k]
        BY <2>3, <2>5
      <3>2. m \in Nat /\ \A k \in 1..m : k = m \/ k \in 1..Len(r)
        BY <2>3
      <3>3. /\ h \in [1..Len(r) -> 1..(n - 1)]
            /\ \A k \in 1..Len(r) : r[k] = q[h[k]] /\ q[h[k]] \in S
            /\ \A j, k \in 1..Len(r) : j < k => h[j] < h[k]
            /\ \A i \in 1..(n - 1) : q[i] \in S => \E k \in 1..Len(r) : h[k] = i
        BY <2>4 DEF From
      <3>4. g[m] = n /\ \A k \in 1..Len(r) : g[k] = h[k] /\ h[k] \in 1..(n - 1)
        BY <2>3, <3>3
      <3>5. g \in [1..m -> 1..n]
        BY <2>1, <3>2, <3>3
      <3> HIDE DEF g, s
      <3>6. \A k \in 1..m : s[k] = q[g[k]] /\ q[g[k]] \in S
        BY <2>7, <3>1, <3>2, <3>3, <3>4
      <3>7. \A j, k \in 1..m : j < k => g[j] < g[k]
        <4> SUFFICES ASSUME NEW j \in 1..m, NEW k \in 1..m, j < k
                     PROVE  g[j] < g[k]
          OBVIOUS
        <4>1. j \in 1..Len(r) /\ g[j] = h[j] /\ h[j] \in 1..(n - 1)
          BY <2>3, <3>4
        <4>2. CASE k = m
          BY <2>1, <3>4, <4>1, <4>2
        <4>3. CASE k \in 1..Len(r)
          BY <3>3, <3>4, <4>1, <4>3
        <4> QED
          BY <3>2, <4>2, <4>3
      <3>8. \A i \in 1..n : q[i] \in S => \E k \in 1..m : g[k] = i
        <4> SUFFICES ASSUME NEW i \in 1..n, q[i] \in S
                     PROVE  \E k \in 1..m : g[k] = i
          OBVIOUS
        <4>1. CASE i = n
          BY <2>3, <3>4, <4>1
        <4>2. CASE i \in 1..(n - 1)
          <5>1. PICK k \in 1..Len(r) : h[k] = i
            BY <3>3, <4>2
          <5> QED
            BY <2>3, <3>4, <5>1
        <4> QED
          BY <4>1, <4>2
      <3>9. From(s, n, q, S, g)
        BY <3>1, <3>5, <3>6, <3>7, <3>8 DEF From
      <3>10. kept[n] = s
        BY <2>2, <2>7 DEF s
      <3> HIDE DEF m
      <3> QED
        BY <2>1, <3>1, <3>9, <3>10
    <2> QED
      BY <2>6, <2>7
  <1>8. 0..N \subseteq T
    <2> HIDE DEF T, N
    <2> QED
      BY <1>0, <1>6, <1>7, UpTo
  <1>9. N \in T
    <2> HIDE DEF T
    <2> QED
      BY <1>0, <1>8
  <1> QED
    BY <1>5, <1>9

-----------------------------------------------------------------------------
(***************************************************************************)
(* drop_expired.                                                           *)
(***************************************************************************)
LEMMA AliveType ==
  ASSUME NEW s \in Seq(Held)
  PROVE  Scf!AliveIn(s) \in Seq(Held) /\ Scf!DeadIn(s) \in Seq(Held)
  BY KeptIs DEF Scf!AliveIn, Scf!DeadIn

\* What is dropped is what is missing.
LEMMA BytesApart ==
  ASSUME Scf!PacketBufferAssumption, NEW s \in Seq(Held)
  PROVE  Scf!Bytes(Scf!AliveIn(s)) + Scf!Bytes(Scf!DeadIn(s)) = Scf!Bytes(s)
  <1> DEFINE A == {n \in Scf!ToSet(s) : Scf!Alive(n)}
             D == {n \in Scf!ToSet(s) : Scf!is_expired(n)}
             N == Len(s)
  <1>1. PICK K : Keeps(K, Held, s, A)
    BY KeptTable
  <1>2. PICK L : Keeps(L, Held, s, D)
    BY KeptTable
  <1>3. PICK f : ScfSums(f, s) /\ Scf!Bytes(s) = f[N]
    BY BytesIs
  <1>4. N \in Nat /\ \A i \in 1..N : s[i] \in Held /\ (s[i] \in A <=> s[i] \notin D)
    <2>1. \A i \in 1..N : s[i] \in Held /\ s[i] \in Scf!ToSet(s)
      BY DEF Scf!ToSet
    <2> QED
      BY <2>1 DEF Scf!Alive
  <1>5. K[N] = Scf!AliveIn(s) /\ L[N] = Scf!DeadIn(s)
    BY <1>1, <1>2 DEF Keeps, Scf!AliveIn, Scf!DeadIn
  <1> HIDE DEF A, D
  <1> DEFINE T == {i \in 0..N : Scf!Bytes(K[i]) + Scf!Bytes(L[i]) = f[i]}
  <1>6. 0 \in T
    <2>1. Scf!Bytes(<<>>) = 0
      BY NoBytes
    <2> QED
      BY <1>1, <1>2, <1>3, <1>4, <2>1 DEF Keeps, ScfSums
  <1>7. ASSUME NEW i \in 1..N, i - 1 \in T
        PROVE  i \in T
    <2>1. i - 1 \in 0..N /\ i \in 0..N /\ Scf!Bytes(K[i - 1]) + Scf!Bytes(L[i - 1]) = f[i - 1] /\ s[i] \in Held
      BY <1>4, <1>7
    <2>2. K[i - 1] \in Seq(Held) /\ L[i - 1] \in Seq(Held)
      BY <1>1, <1>2, <2>1 DEF Keeps
    <2>3. /\ K[i] = IF s[i] \in A THEN Append(K[i - 1], s[i]) ELSE K[i - 1]
          /\ L[i] = IF s[i] \in D THEN Append(L[i - 1], s[i]) ELSE L[i - 1]
          /\ f[i] = f[i - 1] + ScfLength[s[i].id]
      BY <1>1, <1>2, <1>3 DEF Keeps, ScfSums
    <2>4. /\ Scf!Bytes(Append(K[i - 1], s[i])) = Scf!Bytes(K[i - 1]) + ScfLength[s[i].id]
          /\ Scf!Bytes(Append(L[i - 1], s[i])) = Scf!Bytes(L[i - 1]) + ScfLength[s[i].id]
      BY <2>1, <2>2, BytesAppend
    <2>5. Scf!Bytes(K[i - 1]) \in Nat /\ Scf!Bytes(L[i - 1]) \in Nat /\ ScfLength[s[i].id] \in Nat
      BY <2>1, <2>2, BytesType, LengthType
    <2>6. Scf!Bytes(K[i]) + Scf!Bytes(L[i]) = f[i]
      <3>1. CASE s[i] \in A
        <4>1. Scf!Bytes(K[i]) = Scf!Bytes(K[i - 1]) + ScfLength[s[i].id] /\ Scf!Bytes(L[i]) = Scf!Bytes(L[i - 1])
          BY <1>4, <2>3, <2>4, <3>1
        <4> QED
          BY <2>1, <2>3, <2>5, <4>1
      <3>2. CASE s[i] \notin A
        <4>1. Scf!Bytes(L[i]) = Scf!Bytes(L[i - 1]) + ScfLength[s[i].id] /\ Scf!Bytes(K[i]) = Scf!Bytes(K[i - 1])
          BY <1>4, <2>3, <2>4, <3>2
        <4> QED
          BY <2>1, <2>3, <2>5, <4>1
      <3> QED
        BY <3>1, <3>2
    <2> QED
      BY <2>1, <2>6
  <1>8. 0..N \subseteq T
    <2> HIDE DEF T, N
    <2> QED
      BY <1>4, <1>6, <1>7, UpTo
  <1>9. N \in T
    <2> HIDE DEF T
    <2> QED
      BY <1>4, <1>8
  <1> QED
    BY <1>3, <1>5, <1>9

\* What is alive from place i on is what comes after the place p of the i-th.
After(s, i, p) ==
  /\ p \in 1..Len(Scf!AliveIn(s)) /\ Scf!AliveIn(s)[p] = s[i]
  /\ \A f : ScfSums(f, Scf!AliveIn(s)) => Scf!Bytes(Scf!AliveIn(SubSeq(s, i, Len(s)))) = f[Len(Scf!AliveIn(s))] - f[p - 1]

LEMMA AliveFrom ==
  ASSUME Scf!PacketBufferAssumption, NEW s \in Seq(Held), NEW i \in 1..Len(s), Scf!Alive(s[i])
  PROVE  \E p : After(s, i, p)
  <1> DEFINE A == {n \in Scf!ToSet(s) : Scf!Alive(n)}
             N == Len(s)
             t == SubSeq(s, i, N)
             B == {n \in Scf!ToSet(t) : Scf!Alive(n)}
             live == Scf!AliveIn(s)
  <1>1. PICK K : Keeps(K, Held, s, A)
    BY KeptTable
  <1>2. N \in Nat /\ i \in Nat /\ 1 <= i /\ i <= N /\ i - 1 \in 0..N
    OBVIOUS
  <1> DEFINE m == N - (i - 1)
  <1>3. t \in Seq(Held) /\ Len(t) = m /\ m \in Nat /\ \A j \in 1..m : t[j] = s[(i - 1) + j]
    <2>1. t \in Seq(Held) /\ Len(t) = m /\ \A j \in 1..m : t[j] = s[i + j - 1]
      <3> HIDE DEF N
      <3>1. N = Len(s)
        BY DEF N
      <3> QED
        BY <1>2, <3>1, SubSeqProperties
    <2>2. \A j \in 1..m : i + j - 1 = (i - 1) + j
      BY <1>2
    <2> HIDE DEF t
    <2> QED
      BY <1>2, <2>1, <2>2
  <1> HIDE DEF t
  <1>4. PICK L : Keeps(L, Held, t, B)
    BY <1>3, KeptTable
  <1>5. K[N] = live /\ L[m] = Scf!AliveIn(t)
    BY <1>1, <1>3, <1>4 DEF Keeps, Scf!AliveIn
  <1>6. \A j \in 1..m : (t[j] \in B <=> Scf!Alive(t[j])) /\ t[j] \in Held /\ (s[(i - 1) + j] \in A <=> Scf!Alive(t[j]))
    <2>1. \A j \in 1..m : t[j] \in Scf!ToSet(t)
      BY <1>3 DEF Scf!ToSet
    <2>2. \A j \in 1..m : (i - 1) + j \in 1..N
      BY <1>2
    <2>3. \A j \in 1..N : s[j] \in Scf!ToSet(s)
      BY DEF Scf!ToSet
    <2> QED
      BY <1>3, <2>1, <2>2, <2>3
  <1> HIDE DEF A, B
  <1> DEFINE p == Len(K[i - 1]) + 1
             T == {j \in 0..m : /\ Scf!Bytes(L[j]) = Scf!Bytes(K[(i - 1) + j]) - Scf!Bytes(K[i - 1])
                                /\ Len(K[i - 1]) + (IF j = 0 THEN 0 ELSE 1) <= Len(K[(i - 1) + j])
                                /\ \A x \in 1..Len(K[i - 1]) : K[(i - 1) + j][x] = K[i - 1][x]
                                /\ j > 0 => K[(i - 1) + j][p] = s[i]}
  <1>7. 0 \in T
    <2>0. (i - 1) + 0 = i - 1 /\ 0 \in 0..m
      BY <1>2, <1>3
    <2>1. K[i - 1] \in Seq(Held) /\ L[0] = <<>>
      <3> HIDE DEF m
      <3> QED
        BY <1>1, <1>2, <1>4 DEF Keeps
    <2>2. Scf!Bytes(K[i - 1]) \in Nat /\ Len(K[i - 1]) \in Nat
      BY <2>1, BytesType
    <2> HIDE DEF m
    <2>3. Scf!Bytes(L[0]) = Scf!Bytes(K[(i - 1) + 0]) - Scf!Bytes(K[i - 1])
      BY <2>0, <2>1, <2>2, NoBytes
    <2> QED
      BY <2>0, <2>1, <2>2, <2>3
  <1>8. ASSUME NEW j \in 1..m, j - 1 \in T
        PROVE  j \in T
    <2> DEFINE k == (i - 1) + (j - 1)
               e == t[j]
    <2>1. /\ (i - 1) + j \in 1..N /\ ((i - 1) + j) - 1 = k /\ k \in 0..N
          /\ j - 1 \in 0..m /\ j \in 0..m /\ j # 0 /\ (j - 1 > 0 \/ j = 1)
      <3> HIDE DEF T, N
      <3>1. m = N - (i - 1) /\ m \in Nat /\ N \in Nat /\ i \in Nat /\ 1 <= i /\ i <= N
        BY <1>2, <1>3
      <3> HIDE DEF m, k
      <3>2. j \in Int /\ 1 <= j /\ j <= m /\ k = (i - 1) + (j - 1)
        BY <3>1 DEF k
      <3> QED
        BY <3>1, <3>2
    <2>2. /\ Scf!Bytes(L[j - 1]) = Scf!Bytes(K[k]) - Scf!Bytes(K[i - 1])
          /\ Len(K[i - 1]) + (IF j - 1 = 0 THEN 0 ELSE 1) <= Len(K[k])
          /\ \A x \in 1..Len(K[i - 1]) : K[k][x] = K[i - 1][x]
          /\ j - 1 > 0 => K[k][p] = s[i]
      BY <1>8
    <2>3. e = s[(i - 1) + j] /\ e \in Held /\ (j = 1 => e = s[i] /\ k = i - 1)
      BY <1>2, <1>3, <1>6
    <2>4. K[k] \in Seq(Held) /\ L[j - 1] \in Seq(Held) /\ K[i - 1] \in Seq(Held) /\ L[j - 1] \in Seq(Held)
      <3> HIDE DEF m, k
      <3> QED
        BY <1>1, <1>2, <1>3, <1>4, <2>1 DEF Keeps
    <2>5. /\ K[(i - 1) + j] = IF Scf!Alive(e) THEN Append(K[k], e) ELSE K[k]
          /\ L[j] = IF Scf!Alive(e) THEN Append(L[j - 1], e) ELSE L[j - 1]
      <3>1. K[(i - 1) + j] = IF s[(i - 1) + j] \in A THEN Append(K[k], e) ELSE K[k]
        <4> HIDE DEF k, e
        <4> QED
          BY <1>1, <2>1, <2>3 DEF Keeps
      <3>2. L[j] = IF e \in B THEN Append(L[j - 1], e) ELSE L[j - 1]
        <4> HIDE DEF k
        <4> QED
          BY <1>3, <1>4 DEF Keeps
      <3> QED
        BY <1>6, <3>1, <3>2
    <2> HIDE DEF k, e, m
    <2>6. /\ Scf!Bytes(K[k]) \in Nat /\ Scf!Bytes(L[j - 1]) \in Nat /\ Scf!Bytes(K[i - 1]) \in Nat /\ ScfLength[e.id] \in Nat
      BY <2>3, <2>4, BytesType, LengthType
    <2>9. Len(K[k]) \in Nat /\ Len(K[i - 1]) \in Nat
      BY <2>4
    <2>10. Len(K[i - 1]) <= Len(K[k]) /\ (j - 1 > 0 => Len(K[i - 1]) + 1 <= Len(K[k]))
      <3> DEFINE l == Len(K[i - 1])
                 w == Len(K[k])
      <3>1. l + (IF j - 1 = 0 THEN 0 ELSE 1) <= w /\ l \in Nat /\ w \in Nat
        BY <2>2, <2>9
      <3> HIDE DEF l, w, T, p
      <3>2. l <= w /\ (j - 1 > 0 => l + 1 <= w)
        BY <3>1
      <3> QED
        BY <3>2 DEF l, w
    <2>7. CASE Scf!Alive(e)
      <3>1. K[(i - 1) + j] = Append(K[k], e) /\ L[j] = Append(L[j - 1], e)
        BY <2>5, <2>7
      <3>2. Scf!Bytes(K[(i - 1) + j]) = Scf!Bytes(K[k]) + ScfLength[e.id] /\ Scf!Bytes(L[j]) = Scf!Bytes(L[j - 1]) + ScfLength[e.id]
        BY <2>3, <2>4, <3>1, BytesAppend
      <3>3. Scf!Bytes(L[j]) = Scf!Bytes(K[(i - 1) + j]) - Scf!Bytes(K[i - 1])
        BY <2>2, <2>6, <3>2
      <3>4. Len(Append(K[k], e)) = Len(K[k]) + 1 /\ Append(K[k], e)[Len(K[k]) + 1] = e
            /\ \A x \in 1..Len(K[k]) : Append(K[k], e)[x] = K[k][x]
        BY <2>3, <2>4
      <3>5. Len(K[i - 1]) + 1 <= Len(K[(i - 1) + j])
        <4>1. Len(K[(i - 1) + j]) = Len(K[k]) + 1
          BY <3>1, <3>4
        <4> HIDE DEF T, p
        <4> QED
          BY <2>9, <2>10, <4>1
      <3>6. \A x \in 1..Len(K[i - 1]) : K[(i - 1) + j][x] = K[i - 1][x]
        <4>1. \A x \in 1..Len(K[i - 1]) : x \in 1..Len(K[k])
          BY <2>9, <2>10
        <4> QED
          BY <2>2, <3>1, <3>4, <4>1
      <3>7. K[(i - 1) + j][p] = s[i]
        <4>1. CASE j = 1
          BY <2>3, <3>1, <3>4, <4>1
        <4>2. CASE j - 1 > 0
          <5>1. p \in 1..Len(K[k])
            BY <2>9, <2>10, <4>2
          <5> QED
            BY <2>2, <3>1, <3>4, <4>2, <5>1
        <4> QED
          BY <2>1, <4>1, <4>2
      <3> HIDE DEF p
      <3> QED
        BY <2>1, <3>3, <3>5, <3>6, <3>7
    <2>8. CASE ~Scf!Alive(e)
      <3>1. K[(i - 1) + j] = K[k] /\ L[j] = L[j - 1] /\ j # 1
        BY <2>3, <2>5, <2>8
      <3>2. j - 1 > 0 /\ ~(j - 1 = 0)
        BY <2>1, <3>1
      <3>3. K[(i - 1) + j][p] = s[i]
        BY <2>2, <3>1, <3>2
      <3> HIDE DEF p
      <3> QED
        BY <2>1, <2>2, <3>1, <3>2, <3>3
    <2> QED
      BY <2>7, <2>8
  <1>9. m \in T
    <2>1. 0..m \subseteq T
      <3> HIDE DEF T, m
      <3> QED
        BY <1>3, <1>7, <1>8, UpTo
    <2> HIDE DEF T
    <2> QED
      BY <1>3, <2>1
  <1>10. K[i - 1] \in Seq(Held) /\ live \in Seq(Held) /\ Len(K[i - 1]) \in Nat /\ Len(live) \in Nat
    <2>1. K[i - 1] \in Seq(Held) /\ live \in Seq(Held)
      BY <1>1, <1>2, <1>5, AliveType DEF Keeps
    <2> QED
      BY <2>1
  <1>11. /\ Scf!Bytes(Scf!AliveIn(t)) = Scf!Bytes(live) - Scf!Bytes(K[i - 1])
         /\ p <= Len(live) /\ live[p] = s[i]
         /\ \A x \in 1..Len(K[i - 1]) : live[x] = K[i - 1][x]
    <2>1. (i - 1) + m = N /\ m > 0 /\ m # 0
      BY <1>2
    <2>2. /\ Scf!Bytes(L[m]) = Scf!Bytes(K[(i - 1) + m]) - Scf!Bytes(K[i - 1])
          /\ Len(K[i - 1]) + (IF m = 0 THEN 0 ELSE 1) <= Len(K[(i - 1) + m])
          /\ \A x \in 1..Len(K[i - 1]) : K[(i - 1) + m][x] = K[i - 1][x]
          /\ m > 0 => K[(i - 1) + m][p] = s[i]
      BY <1>9
    <2> HIDE DEF m, live
    <2> QED
      BY <1>5, <1>10, <2>1, <2>2
  <1>12. ASSUME NEW f, ScfSums(f, live)
         PROVE  Scf!Bytes(Scf!AliveIn(t)) = f[Len(live)] - f[p - 1]
    <2> DEFINE l == Len(K[i - 1])
               w == Len(live)
    <2>1. p - 1 = l /\ l \in Nat /\ w \in Nat /\ l <= w
      BY <1>10, <1>11
    <2>2. f[0] = 0 /\ f[l] \in Nat /\ f[w] \in Nat
      BY <1>12, <2>1 DEF ScfSums
    <2>3. Scf!Bytes(K[i - 1]) = f[l] - f[0]
      <3> DEFINE t1 == K[i - 1]
      <3>1. \A x \in 1..(l - 0) : t1[x].id = live[0 + x].id
        BY <1>10, <1>11
      <3>2. Len(t1) = l - 0 /\ 0 <= l /\ 0 \in Nat /\ l \in Nat /\ l <= Len(live)
        BY <2>1
      <3>3. t1 \in Seq(Held) /\ live \in Seq(Held) /\ ScfSums(f, live)
        BY <1>10, <1>12
      <3> HIDE DEF l, w, live, t1
      <3>4. Scf!Bytes(t1) = f[l] - f[0]
        BY <3>1, <3>2, <3>3, BytesOfPart
      <3> QED
        BY <3>4 DEF t1
    <2>4. Scf!Bytes(live) = f[w] - f[0]
      <3>1. \A x \in 1..(w - 0) : live[x].id = live[0 + x].id
        BY <1>10
      <3>2. Len(live) = w - 0 /\ 0 <= w /\ 0 \in Nat /\ w <= Len(live)
        BY <2>1
      <3> HIDE DEF l, w, live
      <3> QED
        BY <1>10, <1>12, <2>1, <3>1, <3>2, BytesOfPart
    <2> HIDE DEF l, w, live, p
    <2>5. Scf!Bytes(Scf!AliveIn(t)) = f[w] - f[l]
      BY <1>11, <2>2, <2>3, <2>4
    <2> QED
      BY <2>1, <2>5 DEF w
  <1>13. p \in 1..Len(live)
    BY <1>10, <1>11
  <1> HIDE DEF p
  <1>14. After(s, i, p)
    BY <1>11, <1>12, <1>13 DEF After, t
  <1> QED
    BY <1>14

-----------------------------------------------------------------------------
(***************************************************************************)
(* drop_head and push.                                                     *)
(***************************************************************************)
LEMMA HeadAndTail ==
  ASSUME Scf!PacketBufferAssumption, NEW s \in Seq(Held), NEW f, ScfSums(f, s), NEW k \in 0..Len(s)
  PROVE  /\ SubSeq(s, 1, k) \in Seq(Held) /\ SubSeq(s, k + 1, Len(s)) \in Seq(Held)
         /\ Len(SubSeq(s, k + 1, Len(s))) = Len(s) - k
         /\ \A i \in 1..(Len(s) - k) : SubSeq(s, k + 1, Len(s))[i] = s[k + i]
         /\ Scf!Bytes(SubSeq(s, 1, k)) = f[k] /\ Scf!Bytes(SubSeq(s, k + 1, Len(s))) = f[Len(s)] - f[k]
         /\ f[k] \in Nat /\ f[Len(s)] \in Nat /\ f[Len(s)] - f[k] \in Nat
  <1> DEFINE N == Len(s)
             a == SubSeq(s, 1, k)
             b == SubSeq(s, k + 1, N)
             n == N - k
  <1>1. N \in Nat /\ k \in Nat /\ k <= N /\ n \in Nat
    OBVIOUS
  <1>2. a \in Seq(Held) /\ Len(a) = k /\ \A i \in 1..k : a[i] = s[i]
    BY <1>1
  <1>3. b \in Seq(Held) /\ Len(b) = n /\ \A i \in 1..n : b[i] = s[k + i]
    <2>1. \A i \in (k + 1)..N : s[i] \in Held
      BY <1>1
    <2>2. k + 1 \in Int /\ N \in Int
      BY <1>1
    <2>3. /\ b \in Seq(Held) /\ Len(b) = IF k + 1 <= N THEN N - (k + 1) + 1 ELSE 0
          /\ \A i \in 1..(N - (k + 1) + 1) : b[i] = s[k + 1 + i - 1]
      <3> HIDE DEF N
      <3> QED
        BY <2>1, <2>2, SubSeqProperties
    <2> HIDE DEF N, b
    <2>4. Len(b) = n /\ N - (k + 1) + 1 = n
      BY <1>1, <2>3
    <2>5. \A i \in 1..n : k + 1 + i - 1 = k + i
      BY <1>1
    <2> QED
      BY <2>3, <2>4, <2>5
  <1>4. f[0] = 0 /\ f[k] \in Nat /\ f[N] \in Nat
    BY <1>1 DEF ScfSums
  <1>5. Scf!Bytes(a) = f[k] - f[0]
    <2>1. Len(a) = k - 0 /\ 0 <= k /\ 0 \in Nat /\ k <= Len(s) /\ \A i \in 1..(k - 0) : a[i].id = s[0 + i].id
      BY <1>1, <1>2
    <2> HIDE DEF a, N, n
    <2> QED
      BY <1>1, <1>2, <2>1, BytesOfPart
  <1>6. Scf!Bytes(b) = f[N] - f[k]
    <2>1. Len(b) = N - k /\ N <= Len(s) /\ \A i \in 1..(N - k) : b[i].id = s[k + i].id
      BY <1>1, <1>3
    <2> HIDE DEF b, N
    <2> QED
      BY <1>1, <1>3, <2>1, BytesOfPart
  <1>7. Scf!Bytes(b) \in Nat
    <2> HIDE DEF b
    <2> QED
      BY <1>3, BytesType
  <1> QED
    BY <1>1, <1>2, <1>3, <1>4, <1>5, <1>6, <1>7

\* Room(k, ..): without its first k nodes the buffer has room.
Room(k, f, st, bytes) == ScfCapacity - (st - f[k]) >= bytes

LEMMA HeadsAre ==
  ASSUME Scf!PacketBufferAssumption, NEW s \in Seq(Held), NEW f, ScfSums(f, s), NEW st \in Nat, NEW bytes \in Nat
  PROVE  /\ Scf!Heads(s, st, bytes) \in 0..Len(s)
         /\ Scf!Heads(s, st, bytes) = Len(s) \/ Room(Scf!Heads(s, st, bytes), f, st, bytes)
         /\ \A j \in 0..(Scf!Heads(s, st, bytes) - 1) : ~Room(j, f, st, bytes)
  <1> DEFINE N == Len(s)
             T == {k \in 0..N : k = N \/ Room(k, f, st, bytes)}
             P(k) == /\ k = Len(s) \/ ScfCapacity - (st - Scf!Bytes(SubSeq(s, 1, k))) >= bytes
                     /\ \A j \in 0..(k - 1) : ScfCapacity - (st - Scf!Bytes(SubSeq(s, 1, j))) < bytes
  <1>1. N \in Nat /\ N \in T /\ T \subseteq Nat
    OBVIOUS
  <1>2. \A k \in 0..N : Scf!Bytes(SubSeq(s, 1, k)) = f[k] /\ f[k] \in Nat
    BY HeadAndTail
  <1>3. \A k \in 0..N : Room(k, f, st, bytes) \/ ScfCapacity - (st - f[k]) < bytes
    <2>1. ScfCapacity \in Nat
      BY DEF Scf!PacketBufferAssumption
    <2> QED
      BY <1>2, <2>1 DEF Room
  <1>4. PICK k \in T : \A j \in T : k <= j
    <2> HIDE DEF T
    <2> QED
      BY <1>1, Least
  <1>5. k \in 0..N /\ P(k)
    <2>1. k \in 0..N /\ (k = N \/ Room(k, f, st, bytes))
      OBVIOUS
    <2>2. ASSUME NEW j \in 0..(k - 1)
          PROVE  ScfCapacity - (st - Scf!Bytes(SubSeq(s, 1, j))) < bytes
      <3>1. j \in 0..N /\ ~(k <= j)
        BY <1>1, <2>1
      <3>2. j \notin T
        <4> HIDE DEF T
        <4> QED
          BY <1>4, <3>1
      <3>3. ~Room(j, f, st, bytes)
        BY <3>1, <3>2
      <3> QED
        BY <1>2, <1>3, <3>1, <3>3
    <2>3. k = Len(s) \/ ScfCapacity - (st - Scf!Bytes(SubSeq(s, 1, k))) >= bytes
      BY <1>2, <2>1 DEF Room
    <2> QED
      BY <2>1, <2>2, <2>3
  <1> DEFINE h == CHOOSE x \in 0..N : P(x)
  <1>6. h \in 0..N /\ P(h)
    <2> HIDE DEF P, N
    <2> QED
      BY <1>5
  <1>7. Scf!Heads(s, st, bytes) = h
    BY DEF Scf!Heads
  <1> HIDE DEF h
  <1>8. h = Len(s) \/ Room(h, f, st, bytes)
    BY <1>2, <1>6 DEF Room
  <1>9. \A j \in 0..(h - 1) : ~Room(j, f, st, bytes)
    <2>1. ScfCapacity \in Nat
      BY DEF Scf!PacketBufferAssumption
    <2>2. \A j \in 0..(h - 1) : j \in 0..N
      BY <1>1, <1>6
    <2> QED
      BY <1>2, <1>6, <2>1, <2>2 DEF Room
  <1> QED
    BY <1>6, <1>7, <1>8, <1>9

\* b is a buffer whose books are right.
Books(b) == b[1] \in Seq(Held) /\ b[2] = Scf!Bytes(b[1]) /\ b[2] <= ScfCapacity

\* r has nodes of b, in their order, and possibly n behind them.
Thinned(r, b, n) ==
  \E g \in [1..Len(r[1]) -> 1..(Len(b[1]) + 1)] :
    /\ \A j, k \in 1..Len(r[1]) : j < k => g[j] < g[k]
    /\ \A k \in 1..Len(r[1]) : r[1][k] = IF g[k] = Len(b[1]) + 1 THEN n ELSE b[1][g[k]]

\* A node that is alive in b and not in r would not have fitted with those behind.
Needed(r, b, n) ==
  \A i \in 1..Len(b[1]) :
    Scf!Alive(b[1][i]) /\ (\A j \in 1..Len(r[1]) : r[1][j] # b[1][i]) =>
      Scf!Bytes(Scf!AliveIn(SubSeq(b[1], i, Len(b[1])))) + ScfLength[n.id] > ScfCapacity

LEMMA PushIs ==
  ASSUME Scf!PacketBufferAssumption, NEW b, Books(b), NEW n \in Held
  PROVE  Books(Scf!Push(b, n)) /\ Thinned(Scf!Push(b, n), b, n) /\ Needed(Scf!Push(b, n), b, n)
  <1> DEFINE s == b[1]
             live == Scf!AliveIn(s)
             bytes == b[2] - Scf!Bytes(Scf!DeadIn(s))
             k == Scf!Heads(live, bytes, ScfLength[n.id])
             rest == SubSeq(live, k + 1, Len(live))
             left == bytes - Scf!Bytes(SubSeq(live, 1, k))
             r == Scf!Push(b, n)
             fits == ScfCapacity - left >= ScfLength[n.id]
  <1>1. s \in Seq(Held) /\ b[2] = Scf!Bytes(s) /\ b[2] \in Nat /\ Scf!Bytes(s) <= ScfCapacity /\ Len(s) \in Nat
    BY BytesType DEF Books
  <1>2. live \in Seq(Held) /\ Scf!DeadIn(s) \in Seq(Held) /\ Len(live) \in Nat
    BY <1>1, AliveType
  <1>3. ScfLength[n.id] \in Nat /\ ScfCapacity \in Nat
    BY LengthType DEF Scf!PacketBufferAssumption
  <1>4. bytes = Scf!Bytes(live) /\ bytes \in Nat /\ bytes <= ScfCapacity
    <2>1. Scf!Bytes(live) + Scf!Bytes(Scf!DeadIn(s)) = Scf!Bytes(s)
      BY <1>1, BytesApart
    <2>2. Scf!Bytes(live) \in Nat /\ Scf!Bytes(Scf!DeadIn(s)) \in Nat /\ Scf!Bytes(s) \in Nat
      BY <1>1, <1>2, BytesType
    <2> HIDE DEF live
    <2> QED
      BY <1>1, <1>3, <2>1, <2>2
  <1>5. PICK f : ScfSums(f, live) /\ Scf!Bytes(live) = f[Len(live)]
    BY <1>2, BytesIs
  <1>6. r = IF fits THEN <<Append(rest, n), left + ScfLength[n.id]>> ELSE <<rest, left>>
    BY DEF Scf!Push
  <1> HIDE DEF live, r, bytes
  <1>7. /\ k \in 0..Len(live)
        /\ k = Len(live) \/ Room(k, f, bytes, ScfLength[n.id])
        /\ \A j \in 0..(k - 1) : ~Room(j, f, bytes, ScfLength[n.id])
    BY <1>2, <1>3, <1>4, <1>5, HeadsAre
  <1> HIDE DEF k
  <1>8. /\ rest \in Seq(Held) /\ Len(rest) = Len(live) - k
        /\ \A i \in 1..(Len(live) - k) : rest[i] = live[k + i]
        /\ Scf!Bytes(SubSeq(live, 1, k)) = f[k] /\ Scf!Bytes(rest) = f[Len(live)] - f[k]
        /\ f[k] \in Nat /\ f[Len(live)] - f[k] \in Nat /\ f[Len(live)] \in Nat
    BY <1>2, <1>5, <1>7, HeadAndTail
  <1>9. left = Scf!Bytes(rest) /\ left \in Nat /\ left <= ScfCapacity
    <2> HIDE DEF rest
    <2> QED
      BY <1>3, <1>4, <1>5, <1>8
  <1> HIDE DEF rest, left
  <1>10. Scf!Bytes(Append(rest, n)) = left + ScfLength[n.id]
    BY <1>8, <1>9, BytesAppend
  <1>11. Books(r)
    <2>1. CASE fits
      <3>1. r[1] = Append(rest, n) /\ r[2] = left + ScfLength[n.id]
        BY <1>6, <2>1
      <3>2. left + ScfLength[n.id] <= ScfCapacity
        BY <1>3, <1>9, <2>1
      <3> QED
        BY <1>8, <1>10, <3>1, <3>2 DEF Books
    <2>2. CASE ~fits
      BY <1>6, <1>8, <1>9, <2>2 DEF Books
    <2> QED
      BY <2>1, <2>2
  <1>12. PICK h : From(live, Len(s), s, {x \in Scf!ToSet(s) : Scf!Alive(x)}, h)
    BY <1>1, KeptIs DEF Scf!AliveIn, live
  <1>13. /\ h \in [1..Len(live) -> 1..Len(s)]
         /\ \A i \in 1..Len(live) : live[i] = s[h[i]]
         /\ \A i, j \in 1..Len(live) : i < j => h[i] < h[j]
    BY <1>12 DEF From
  <1> DEFINE m == Len(live) - k
             top == Len(s) + 1
  <1>14. m \in Nat /\ top \in Nat /\ k \in Nat /\ Len(rest) = m /\ \A i \in 1..m : k + i \in 1..Len(live) /\ rest[i] = live[k + i]
    BY <1>1, <1>2, <1>7, <1>8
  <1>15. Thinned(r, b, n)
    <2> DEFINE g == [i \in 1..Len(r[1]) |-> IF i = m + 1 THEN top ELSE h[k + i]]
    <2>1. \A i \in 1..m : h[k + i] \in 1..Len(s) /\ h[k + i] < top /\ h[k + i] # top /\ rest[i] = s[h[k + i]]
      <3> SUFFICES ASSUME NEW i \in 1..m
                   PROVE  h[k + i] \in 1..Len(s) /\ h[k + i] < top /\ h[k + i] # top /\ rest[i] = s[h[k + i]]
        OBVIOUS
      <3>1. k + i \in 1..Len(live) /\ rest[i] = live[k + i]
        BY <1>14
      <3>2. h[k + i] \in 1..Len(s) /\ live[k + i] = s[h[k + i]]
        BY <1>13, <3>1
      <3>3. h[k + i] < top /\ h[k + i] # top
        BY <1>1, <3>2
      <3> QED
        BY <3>1, <3>2, <3>3
    <2>2. \A i, j \in 1..m : i < j => h[k + i] < h[k + j]
      <3> SUFFICES ASSUME NEW i \in 1..m, NEW j \in 1..m, i < j
                   PROVE  h[k + i] < h[k + j]
        OBVIOUS
      <3>1. k + i \in 1..Len(live) /\ k + j \in 1..Len(live)
        BY <1>14
      <3>2. k + i < k + j
        BY <1>14
      <3> HIDE DEF m
      <3> QED
        BY <1>13, <3>1, <3>2
    <2>3. CASE fits
      <3>1. r[1] = Append(rest, n) /\ Len(r[1]) = m + 1 /\ r[1][m + 1] = n /\ \A i \in 1..m : r[1][i] = rest[i]
        <4>1. r[1] = Append(rest, n) /\ rest \in Seq(Held) /\ Len(rest) = m
          BY <1>6, <1>8, <1>14, <2>3
        <4> HIDE DEF m
        <4> QED
          BY <4>1, AppendProperties
      <3>2. \A i \in 1..(m + 1) : i = m + 1 \/ (i \in 1..m /\ i < m + 1 /\ i # m + 1)
        <4>1. m \in Nat
          BY <1>14
        <4> HIDE DEF m
        <4> QED
          BY <4>1
      <3>3. g = [i \in 1..(m + 1) |-> IF i = m + 1 THEN top ELSE h[k + i]]
        BY <3>1
      <3> HIDE DEF m, top
      <3>4. g[m + 1] = top /\ \A i \in 1..m : g[i] = h[k + i]
        BY <1>14, <3>2, <3>3
      <3>5. g \in [1..(m + 1) -> 1..top]
        <4>1. ASSUME NEW i \in 1..(m + 1)
              PROVE  (IF i = m + 1 THEN top ELSE h[k + i]) \in 1..top
          <5>1. Len(s) \in Nat /\ top = Len(s) + 1
            BY <1>1 DEF top
          <5>2. CASE i = m + 1
            BY <5>1, <5>2
          <5>3. CASE i \in 1..m /\ i # m + 1
            <6>1. h[k + i] \in 1..Len(s)
              BY <2>1, <5>3
            <6> QED
              BY <5>1, <5>3, <6>1
          <5> QED
            BY <3>2, <5>2, <5>3
        <4> QED
          BY <3>3, <4>1
      <3> HIDE DEF g
      <3>6. ASSUME NEW i \in 1..(m + 1), NEW j \in 1..(m + 1), i < j
            PROVE  g[i] < g[j]
        <4>1. i \in 1..m /\ g[i] = h[k + i] /\ h[k + i] < top
          <5>1. m \in Nat
            BY <1>14
          <5>2. i \in 1..m
            BY <3>6, <5>1
          <5> QED
            BY <2>1, <3>4, <5>2
        <4>2. CASE j = m + 1
          BY <3>4, <4>1, <4>2
        <4>3. CASE j \in 1..m
          BY <2>2, <3>4, <3>6, <4>1, <4>3
        <4> QED
          BY <3>2, <4>2, <4>3
      <3>7. ASSUME NEW i \in 1..(m + 1)
            PROVE  r[1][i] = IF g[i] = top THEN n ELSE b[1][g[i]]
        <4>1. CASE i = m + 1
          BY <3>1, <3>4, <4>1
        <4>2. CASE i \in 1..m
          BY <2>1, <3>1, <3>4, <4>2
        <4> QED
          BY <3>2, <4>1, <4>2
      <3>8. Len(b[1]) + 1 = top
        BY DEF top
      <3> QED
        BY <3>1, <3>5, <3>6, <3>7, <3>8 DEF Thinned
    <2>4. CASE ~fits
      <3>1. r[1] = rest /\ Len(r[1]) = m /\ m + 1 \notin 1..m
        BY <1>6, <1>14, <2>4
      <3>2. g = [i \in 1..m |-> IF i = m + 1 THEN top ELSE h[k + i]] /\ \A i \in 1..m : i # m + 1
        BY <3>1
      <3> HIDE DEF m, top
      <3>3. \A i \in 1..m : g[i] = h[k + i]
        BY <3>2
      <3>4. g \in [1..m -> 1..top]
        <4>1. \A i \in 1..m : (IF i = m + 1 THEN top ELSE h[k + i]) \in 1..top
          BY <1>1, <2>1, <3>2 DEF top
        <4> QED
          BY <3>2, <4>1
      <3> HIDE DEF g
      <3>5. Len(b[1]) + 1 = top
        BY DEF top
      <3>6. \A i \in 1..m : r[1][i] = IF g[i] = top THEN n ELSE b[1][g[i]]
        BY <2>1, <3>1, <3>3
      <3>7. \A i, j \in 1..m : i < j => g[i] < g[j]
        BY <2>2, <3>3
      <3> QED
        BY <3>1, <3>4, <3>5, <3>6, <3>7 DEF Thinned
    <2> QED
      BY <2>3, <2>4
  <1>16. Needed(r, b, n)
    <2> SUFFICES ASSUME NEW i \in 1..Len(s), Scf!Alive(s[i]), \A j \in 1..Len(r[1]) : r[1][j] # s[i]
                 PROVE  Scf!Bytes(Scf!AliveIn(SubSeq(s, i, Len(s)))) + ScfLength[n.id] > ScfCapacity
      BY DEF Needed
    <2>1. PICK p : After(s, i, p)
      BY <1>1, AliveFrom
    <2>2. /\ p \in 1..Len(live) /\ live[p] = s[i]
          /\ Scf!Bytes(Scf!AliveIn(SubSeq(s, i, Len(s)))) = f[Len(live)] - f[p - 1]
      BY <1>5, <2>1 DEF After, live
    <2>3. \A j \in 1..m : \E x \in 1..Len(r[1]) : r[1][x] = rest[j]
      <3>1. CASE fits
        <4>1. r[1] = Append(rest, n) /\ Len(r[1]) = m + 1 /\ \A j \in 1..m : r[1][j] = rest[j]
          <5>1. r[1] = Append(rest, n) /\ rest \in Seq(Held) /\ Len(rest) = m
            BY <1>6, <1>8, <1>14, <3>1
          <5> HIDE DEF m
          <5> QED
            BY <5>1, AppendProperties
        <4>2. \A j \in 1..m : j \in 1..(m + 1)
          BY <1>14
        <4> HIDE DEF m
        <4> QED
          BY <4>1, <4>2
      <3>2. CASE ~fits
        BY <1>6, <1>14, <3>2
      <3> QED
        BY <3>1, <3>2
    <2>4. p <= k
      <3> SUFFICES ASSUME p > k PROVE FALSE
        BY <1>14, <2>2
      <3>1. p - k \in 1..m /\ k + (p - k) = p
        BY <1>2, <1>14, <2>2
      <3>2. rest[p - k] = s[i]
        BY <1>14, <2>2, <3>1
      <3> QED
        BY <2>3, <3>1, <3>2
    <2>5. p - 1 \in 0..(k - 1)
      BY <1>14, <2>2, <2>4
    <2>6. ~Room(p - 1, f, bytes, ScfLength[n.id])
      BY <1>7, <2>5
    <2>7. f[p - 1] \in Nat
      <3>1. p - 1 \in 0..Len(live)
        BY <1>2, <2>2
      <3> QED
        BY <1>5, <3>1 DEF ScfSums
    <2> DEFINE v == f[p - 1]
               w == f[Len(live)]
               l == ScfLength[n.id]
    <2>8. v \in Nat /\ w \in Nat /\ l \in Nat /\ bytes = w /\ ~(ScfCapacity - (bytes - v) >= l)
      BY <1>3, <1>4, <1>5, <1>8, <2>6, <2>7 DEF Room
    <2> HIDE DEF v, w, l
    <2>9. w - v + l > ScfCapacity
      BY <1>3, <2>8
    <2>10. Scf!Bytes(Scf!AliveIn(SubSeq(s, i, Len(s)))) = w - v
      BY <2>2 DEF v, w
    <2> QED
      BY <2>9, <2>10 DEF l
  <1> QED
    BY <1>11, <1>15, <1>16 DEF r

-----------------------------------------------------------------------------
(***************************************************************************)
(* The invariant.  In order of arrival: a says which of the arrived        *)
(* packets each node holds.  Passed on once: what has been sent had        *)
(* arrived and is in no node.                                              *)
(***************************************************************************)
Apart(s) == \A i, j \in 1..Len(s) : s[i] = s[j] => i = j
Matches(ns, arr, a) ==
  /\ a \in [1..Len(ns) -> 1..Len(arr)]
  /\ \A i, j \in 1..Len(ns) : i < j => a[i] < a[j]
  /\ \A i \in 1..Len(ns) : ns[i].id = arr[a[i]]
Gone(ns, arr, out) ==
  /\ Apart(out)
  /\ \A k \in 1..Len(out) : (\E i \in 1..Len(arr) : arr[i] = out[k]) /\ \A i \in 1..Len(ns) : ns[i].id # out[k]

StoreInv ==
  /\ Books(<<nodes, scfBytes>>)
  /\ arrived \in Seq(ScfIds) /\ sent \in Seq(ScfIds)
  /\ Apart(arrived) /\ (\E a : Matches(nodes, arrived, a)) /\ Gone(nodes, arrived, sent)

LEMMA StoreInit == Scf!PacketBufferAssumption /\ Scf!Init => StoreInv
  <1> SUFFICES ASSUME Scf!PacketBufferAssumption, Scf!Init PROVE StoreInv
    OBVIOUS
  <1>1. nodes = <<>> /\ scfBytes = 0 /\ arrived = <<>> /\ sent = <<>> /\ ScfCapacity \in Nat
    BY DEF Scf!Init, Scf!PacketBufferAssumption
  <1>2. <<>> \in Seq(Held) /\ <<>> \in Seq(ScfIds) /\ Len(<<>>) = 0
    OBVIOUS
  <1>3. Books(<<nodes, scfBytes>>)
    BY <1>1, <1>2, NoBytes DEF Books
  <1>4. Matches(<<>>, <<>>, <<>>)
    BY <1>2 DEF Matches
  <1>5. Apart(<<>>) /\ Gone(<<>>, <<>>, <<>>)
    BY <1>2 DEF Apart, Gone
  <1> QED
    BY <1>1, <1>2, <1>3, <1>4, <1>5 DEF StoreInv

LEMMA PushStep ==
  ASSUME Scf!PacketBufferAssumption, StoreInv, NEW id \in ScfIds, NEW l \in ScfLifetimes, Scf!push(id, l)
  PROVE  StoreInv' /\ Needed(<<nodes', scfBytes'>>, <<nodes, scfBytes>>, Scf!Node(id, l))
  <1> DEFINE b == <<nodes, scfBytes>>
             n == Scf!Node(id, l)
             r == Scf!Push(b, n)
             top == Len(nodes) + 1
             last == Len(arrived) + 1
  <1>1. /\ b[1] = nodes /\ b[2] = scfBytes /\ Books(b) /\ nodes \in Seq(Held)
        /\ arrived \in Seq(ScfIds) /\ sent \in Seq(ScfIds) /\ Apart(arrived) /\ Gone(nodes, arrived, sent)
    BY DEF StoreInv, Books
  <1>2. n \in Held /\ n.id = id
    BY DEF Scf!PacketBufferAssumption, Held, Scf!Node
  <1>3. nodes' = r[1] /\ scfBytes' = r[2] /\ arrived' = Append(arrived, id) /\ sent' = sent
    BY DEF Scf!push
  <1>4. id \notin Scf!ToSet(arrived)
    BY DEF Scf!push
  <1> HIDE DEF b, n, r
  <1>5. Books(r) /\ Thinned(r, b, n) /\ Needed(r, b, n)
    BY <1>1, <1>2, PushIs DEF r
  <1>6. PICK g \in [1..Len(nodes') -> 1..top] :
          /\ \A j, k \in 1..Len(nodes') : j < k => g[j] < g[k]
          /\ \A k \in 1..Len(nodes') : nodes'[k] = IF g[k] = top THEN n ELSE nodes[g[k]]
    BY <1>1, <1>3, <1>5 DEF Thinned
  <1>7. PICK a : Matches(nodes, arrived, a)
    BY DEF StoreInv
  <1>8. /\ a \in [1..Len(nodes) -> 1..Len(arrived)]
        /\ \A i, j \in 1..Len(nodes) : i < j => a[i] < a[j]
        /\ \A i \in 1..Len(nodes) : nodes[i].id = arrived[a[i]]
    BY <1>7 DEF Matches
  <1>9. /\ Len(nodes) \in Nat /\ Len(arrived) \in Nat /\ nodes' \in Seq(Held) /\ Len(nodes') \in Nat
        /\ arrived' \in Seq(ScfIds) /\ Len(arrived') = last /\ arrived'[last] = id
        /\ \A i \in 1..Len(arrived) : arrived'[i] = arrived[i] /\ arrived[i] # id
    <2>1. nodes' \in Seq(Held)
      BY <1>3, <1>5 DEF Books
    <2>2. \A i \in 1..Len(arrived) : arrived[i] \in Scf!ToSet(arrived)
      BY <1>1 DEF Scf!ToSet
    <2>3. /\ arrived' \in Seq(ScfIds) /\ Len(arrived') = last /\ arrived'[last] = id
          /\ \A i \in 1..Len(arrived) : arrived'[i] = arrived[i]
      BY <1>1, <1>3
    <2>4. Len(nodes) \in Nat /\ Len(arrived) \in Nat /\ Len(nodes') \in Nat
      BY <1>1, <2>1
    <2>5. \A i \in 1..Len(arrived) : arrived[i] # id
      BY <1>4, <2>2
    <2> QED
      BY <2>1, <2>3, <2>4, <2>5
  <1> DEFINE a2 == [k \in 1..Len(nodes') |-> IF g[k] = top THEN last ELSE a[g[k]]]
  <1>10. \A k \in 1..Len(nodes') : g[k] = top \/ (g[k] \in 1..Len(nodes) /\ g[k] # top)
    BY <1>6, <1>9
  <1>11. Matches(nodes', arrived', a2)
    <2>1. ASSUME NEW k \in 1..Len(nodes')
          PROVE  a2[k] \in 1..last /\ nodes'[k].id = arrived'[a2[k]]
      <3>1. CASE g[k] = top
        <4>1. a2[k] = last /\ last \in 1..last /\ nodes'[k] = n
          BY <1>6, <1>9, <3>1
        <4> QED
          BY <1>2, <1>9, <4>1
      <3>2. CASE g[k] \in 1..Len(nodes) /\ g[k] # top
        <4>1. a2[k] = a[g[k]] /\ nodes'[k] = nodes[g[k]] /\ a[g[k]] \in 1..Len(arrived)
          BY <1>6, <1>8, <3>2
        <4>2. a2[k] \in 1..last
          BY <1>9, <4>1
        <4> QED
          BY <1>8, <1>9, <3>2, <4>1, <4>2
      <3> QED
        BY <1>10, <3>1, <3>2
    <2>2. ASSUME NEW j \in 1..Len(nodes'), NEW k \in 1..Len(nodes'), j < k
          PROVE  a2[j] < a2[k]
      <3>1. g[j] < g[k] /\ g[j] # top /\ g[j] \in 1..Len(nodes)
        BY <1>6, <1>9, <1>10, <2>2
      <3>2. a2[j] = a[g[j]] /\ a[g[j]] \in 1..Len(arrived)
        BY <1>8, <3>1
      <3>3. CASE g[k] = top
        <4>1. a2[k] = last
          BY <3>3
        <4> QED
          BY <1>9, <3>2, <4>1
      <3>4. CASE g[k] \in 1..Len(nodes) /\ g[k] # top
        <4>1. a2[k] = a[g[k]]
          BY <3>4
        <4> HIDE DEF a2
        <4> QED
          BY <1>8, <3>1, <3>2, <3>4, <4>1
      <3> QED
        BY <1>10, <3>3, <3>4
    <2>3. a2 \in [1..Len(nodes') -> 1..Len(arrived')]
      BY <1>9, <2>1
    <2> HIDE DEF a2
    <2> QED
      BY <2>1, <2>2, <2>3 DEF Matches
  <1>12. Apart(arrived')
    <2> SUFFICES ASSUME NEW i \in 1..last, NEW j \in 1..last, arrived'[i] = arrived'[j]
                 PROVE  i = j
      BY <1>9 DEF Apart
    <2>1. (i = last \/ i \in 1..Len(arrived)) /\ (j = last \/ j \in 1..Len(arrived))
      BY <1>9
    <2> HIDE DEF last
    <2> QED
      BY <1>1, <1>9, <2>1 DEF Apart
  <1>13. Gone(nodes', arrived', sent')
    <2>1. ASSUME NEW k \in 1..Len(sent)
          PROVE  (\E i \in 1..last : arrived'[i] = sent[k]) /\ \A i \in 1..Len(nodes') : nodes'[i].id # sent[k]
      <3>1. PICK i \in 1..Len(arrived) : arrived[i] = sent[k]
        BY <1>1 DEF Gone
      <3>2. i \in 1..last /\ arrived'[i] = sent[k] /\ sent[k] # id
        BY <1>9, <3>1
      <3>3. ASSUME NEW x \in 1..Len(nodes')
            PROVE  nodes'[x].id # sent[k]
        <4>1. CASE g[x] = top
          BY <1>2, <1>6, <3>2, <4>1
        <4>2. CASE g[x] \in 1..Len(nodes) /\ g[x] # top
          BY <1>1, <1>6, <4>2 DEF Gone
        <4> QED
          BY <1>10, <4>1, <4>2
      <3> QED
        BY <3>2, <3>3
    <2> QED
      BY <1>1, <1>3, <1>9, <2>1 DEF Gone
  <1>14. <<nodes', scfBytes'>>[1] = r[1] /\ <<nodes', scfBytes'>>[2] = r[2]
    BY <1>3
  <1>15. Books(<<nodes', scfBytes'>>) /\ Needed(<<nodes', scfBytes'>>, b, n)
    BY <1>5, <1>14 DEF Books, Needed
  <1>16. StoreInv'
    BY <1>1, <1>3, <1>9, <1>11, <1>12, <1>13, <1>15 DEF StoreInv
  <1> QED
    BY <1>15, <1>16 DEF b, n

LEMMA TickStep ==
  ASSUME Scf!PacketBufferAssumption, StoreInv, Scf!Tick
  PROVE  StoreInv'
  <1>1. /\ nodes \in Seq(Held) /\ scfBytes = Scf!Bytes(nodes) /\ scfBytes <= ScfCapacity /\ Len(nodes) \in Nat
        /\ arrived \in Seq(ScfIds) /\ sent \in Seq(ScfIds) /\ Apart(arrived) /\ Gone(nodes, arrived, sent)
    BY DEF StoreInv, Books
  <1>2. /\ nodes' = [i \in DOMAIN nodes |-> [nodes[i] EXCEPT !.age = IF @ < AgeCap THEN @ + 1 ELSE @]]
        /\ scfBytes' = scfBytes /\ arrived' = arrived /\ sent' = sent
    BY DEF Scf!Tick
  <1>3. \A i \in 1..Len(nodes) : nodes'[i] \in Held /\ nodes'[i].id = nodes[i].id
    <2> SUFFICES ASSUME NEW i \in 1..Len(nodes)
                 PROVE  nodes'[i] \in Held /\ nodes'[i].id = nodes[i].id
      OBVIOUS
    <2>1. nodes[i] \in Held /\ AgeCap \in Nat
      BY <1>1 DEF Scf!PacketBufferAssumption
    <2>2. i \in DOMAIN nodes
      BY <1>1
    <2>3. nodes'[i] = [nodes[i] EXCEPT !.age = IF @ < AgeCap THEN @ + 1 ELSE @]
      BY <1>2, <2>2
    <2> DEFINE e == nodes[i]
    <2>4. e \in Held /\ nodes'[i] = [e EXCEPT !.age = IF @ < AgeCap THEN @ + 1 ELSE @]
      BY <2>1, <2>3
    <2> HIDE DEF e
    <2>5. nodes'[i] \in Held /\ nodes'[i].id = e.id
      <3> DEFINE v == IF e.age < AgeCap THEN e.age + 1 ELSE e.age
      <3>1. e.age \in 0..AgeCap /\ e \in [id : ScfIds, life : 0..255, age : 0..AgeCap]
        BY <2>4 DEF Held
      <3>2. v \in 0..AgeCap
        BY <2>1, <3>1
      <3>3. nodes'[i] = [e EXCEPT !.age = v]
        BY <2>4
      <3> HIDE DEF v
      <3> QED
        BY <3>1, <3>2, <3>3 DEF Held
    <2> QED
      BY <2>5 DEF e
  <1>4. nodes' \in Seq(Held) /\ Len(nodes') = Len(nodes)
    <2>1. nodes' = [i \in 1..Len(nodes) |-> nodes'[i]]
      BY <1>1, <1>2
    <2> QED
      BY <1>1, <1>3, <2>1
  <1>5. Scf!Bytes(nodes') = Scf!Bytes(nodes)
    <2>1. PICK f : ScfSums(f, nodes) /\ Scf!Bytes(nodes) = f[Len(nodes)]
      BY <1>1, BytesIs
    <2>2. Scf!Bytes(nodes') = f[Len(nodes)] - f[0]
      <3> DEFINE N == Len(nodes)
                 t == nodes'
      <3>1. N \in Nat /\ 0 \in Nat /\ 0 <= N /\ N <= Len(nodes) /\ Len(t) = N - 0 /\ t \in Seq(Held)
            /\ \A i \in 1..(N - 0) : t[i].id = nodes[0 + i].id
        BY <1>1, <1>3, <1>4
      <3> HIDE DEF N, t
      <3>2. Scf!Bytes(t) = f[N] - f[0]
        BY <1>1, <2>1, <3>1, BytesOfPart
      <3> QED
        BY <3>2 DEF N, t
    <2>3. f[0] = 0 /\ f[Len(nodes)] \in Nat
      BY <1>1, <2>1 DEF ScfSums
    <2> QED
      BY <2>1, <2>2, <2>3
  <1>6. PICK a : Matches(nodes, arrived, a)
    BY DEF StoreInv
  <1>7. Matches(nodes', arrived', a)
    BY <1>2, <1>3, <1>4, <1>6 DEF Matches
  <1>8. Gone(nodes', arrived', sent')
    BY <1>1, <1>2, <1>3, <1>4 DEF Gone
  <1> QED
    BY <1>1, <1>2, <1>4, <1>5, <1>7, <1>8 DEF StoreInv, Books

-----------------------------------------------------------------------------
(***************************************************************************)
(* flush: the nodes e that are put back are pushed one after the other.    *)
(***************************************************************************)
Nothing == <<<<>>, 0>>
Drawn(ns, e, j) ==
  \E h \in [1..Len(ns) -> 1..j] :
    /\ \A i, k \in 1..Len(ns) : i < k => h[i] < h[k]
    /\ \A k \in 1..Len(ns) : ns[k] = e[h[k]]

LEMMA NothingBooks ==
  ASSUME Scf!PacketBufferAssumption
  PROVE  Books(Nothing) /\ Nothing[1] = <<>>
  <1>1. <<>> \in Seq(Held) /\ ScfCapacity \in Nat
    BY DEF Scf!PacketBufferAssumption
  <1>2. Nothing[1] = <<>> /\ Nothing[2] = 0
    BY DEF Nothing
  <1> QED
    BY <1>1, <1>2, NoBytes DEF Books

LEMMA PushesExist ==
  ASSUME Scf!PacketBufferAssumption, NEW m \in Nat, NEW e \in [1..m -> Held]
  PROVE  \E f : /\ DOMAIN f = 0..m /\ f = [j \in 0..m |-> f[j]] /\ f[0] = Nothing
                /\ \A j \in 1..m : f[j] = Scf!Push(f[j - 1], e[j])
  <1> DEFINE V == {b \in Seq(Held) \X (0..ScfCapacity) : b[2] = Scf!Bytes(b[1])}
             step == [j \in 1..m |-> [b \in V |-> Scf!Push(b, e[j])]]
  <1>1. \A b \in V : Books(b)
    BY DEF Books, Scf!PacketBufferAssumption
  <1>2. ASSUME NEW b, Books(b), b = <<b[1], b[2]>>
        PROVE  b \in V
    <2>1. b[1] \in Seq(Held) /\ b[2] = Scf!Bytes(b[1]) /\ b[2] <= ScfCapacity /\ b[2] \in Nat /\ ScfCapacity \in Nat
      BY <1>2, BytesType DEF Books, Scf!PacketBufferAssumption
    <2>2. b[2] \in 0..ScfCapacity
      BY <2>1
    <2> QED
      BY <1>2, <2>1, <2>2
  <1> HIDE DEF V
  <1>3. Nothing \in V
    <2>1. Nothing = <<Nothing[1], Nothing[2]>>
      BY DEF Nothing
    <2> QED
      BY <1>2, <2>1, NothingBooks
  <1>4. step \in [1..m -> [V -> V]]
    <2>1. ASSUME NEW j \in 1..m, NEW b \in V
          PROVE  Scf!Push(b, e[j]) \in V
      <3>1. Books(Scf!Push(b, e[j]))
        BY <1>1, PushIs
      <3>2. Scf!Push(b, e[j]) = <<Scf!Push(b, e[j])[1], Scf!Push(b, e[j])[2]>>
        BY DEF Scf!Push
      <3> QED
        BY <1>2, <3>1, <3>2
    <2> QED
      BY <2>1
  <1>5. Follows(m, V, Nothing, step)
    <2> HIDE DEF step
    <2> QED
      BY <1>3, <1>4, Recursion
  <1>6. PICK f \in [0..m -> V] : f[0] = Nothing /\ \A j \in 1..m : f[j] = step[j][f[j - 1]]
    <2> HIDE DEF step
    <2> QED
      BY <1>5 DEF Follows
  <1>7. ASSUME NEW j \in 1..m
        PROVE  f[j] = Scf!Push(f[j - 1], e[j])
    <2>1. f[j - 1] \in V
      <3>1. j - 1 \in 0..m
        OBVIOUS
      <3> HIDE DEF step
      <3> QED
        BY <3>1
    <2>2. step[j][f[j - 1]] = Scf!Push(f[j - 1], e[j])
      BY <2>1
    <2> HIDE DEF step
    <2> QED
      BY <1>6, <2>2
  <1> HIDE DEF step
  <1>8. DOMAIN f = 0..m /\ f = [j \in 0..m |-> f[j]]
    OBVIOUS
  <1> QED
    BY <1>6, <1>7, <1>8

LEMMA PushesAre ==
  ASSUME Scf!PacketBufferAssumption, NEW m \in Nat, NEW e \in [1..m -> Held], NEW f, f[0] = Nothing,
         \A j \in 1..m : f[j] = Scf!Push(f[j - 1], e[j])
  PROVE  Books(f[m]) /\ Drawn(f[m][1], e, m)
  <1> DEFINE T == {j \in 0..m : Books(f[j]) /\ Drawn(f[j][1], e, j)}
  <1>1. 0 \in T
    <2>1. Drawn(<<>>, e, 0)
      <3> DEFINE none == <<>>
      <3>1. Len(none) = 0 /\ none \in [1..0 -> 1..0]
        OBVIOUS
      <3>2. \A i \in 1..0 : FALSE
        OBVIOUS
      <3> HIDE DEF none
      <3>3. Drawn(none, e, 0)
        BY <3>1, <3>2 DEF Drawn
      <3> QED
        BY <3>3 DEF none
    <2>2. Books(f[0]) /\ Drawn(f[0][1], e, 0)
      <3>1. Nothing[1] = <<>> /\ Books(Nothing)
        BY NothingBooks
      <3>2. Drawn(Nothing[1], e, 0)
        BY <2>1, <3>1, Zenon
      <3> QED
        BY <3>1, <3>2, Zenon
    <2>3. 0 \in 0..m
      OBVIOUS
    <2> QED
      BY <2>2, <2>3, Zenon
  <1>2. ASSUME NEW j \in 1..m, j - 1 \in T
        PROVE  j \in T
    <2> DEFINE b == f[j - 1]
               r == f[j]
               top == Len(b[1]) + 1
    <2>1. Books(b) /\ Drawn(b[1], e, j - 1) /\ e[j] \in Held /\ r = Scf!Push(b, e[j]) /\ j \in 0..m
      BY <1>2
    <2> HIDE DEF b, r
    <2>2. Books(r) /\ Thinned(r, b, e[j])
      BY <2>1, PushIs
    <2>3. Len(b[1]) \in Nat /\ Len(r[1]) \in Nat
      BY <2>1, <2>2 DEF Books
    <2>4. PICK h \in [1..Len(b[1]) -> 1..(j - 1)] :
            /\ \A i, k \in 1..Len(b[1]) : i < k => h[i] < h[k]
            /\ \A k \in 1..Len(b[1]) : b[1][k] = e[h[k]]
      BY <2>1 DEF Drawn
    <2>5. PICK g \in [1..Len(r[1]) -> 1..top] :
            /\ \A i, k \in 1..Len(r[1]) : i < k => g[i] < g[k]
            /\ \A k \in 1..Len(r[1]) : r[1][k] = IF g[k] = top THEN e[j] ELSE b[1][g[k]]
      BY <2>2 DEF Thinned
    <2> DEFINE L == Len(b[1])
    <2>6. \A k \in 1..Len(r[1]) : g[k] = top \/ (g[k] \in 1..Len(b[1]) /\ g[k] # top)
      <3>1. L \in Nat /\ top = L + 1
        BY <2>3
      <3> HIDE DEF L, top
      <3>2. \A x \in 1..top : x = top \/ (x \in 1..L /\ x # top)
        BY <3>1
      <3>3. \A k \in 1..Len(r[1]) : g[k] \in 1..top
        BY <2>5
      <3> QED
        BY <3>2, <3>3 DEF L
    <2> DEFINE h2 == [k \in 1..Len(r[1]) |-> IF g[k] = top THEN j ELSE h[g[k]]]
    <2>7. ASSUME NEW k \in 1..Len(r[1])
          PROVE  h2[k] \in 1..j /\ r[1][k] = e[h2[k]]
      <3>1. CASE g[k] = top
        BY <2>5, <3>1
      <3>2. CASE g[k] \in 1..Len(b[1]) /\ g[k] # top
        <4>1. h2[k] = h[g[k]] /\ r[1][k] = b[1][g[k]] /\ h[g[k]] \in 1..(j - 1)
          BY <2>4, <2>5, <3>2
        <4>2. h2[k] \in 1..j
          BY <4>1
        <4> QED
          BY <2>4, <3>2, <4>1, <4>2
      <3> QED
        BY <2>6, <3>1, <3>2
    <2>8. ASSUME NEW i \in 1..Len(r[1]), NEW k \in 1..Len(r[1]), i < k
          PROVE  h2[i] < h2[k]
      <3>1. g[i] < g[k] /\ g[i] # top /\ g[i] \in 1..Len(b[1])
        <4>1. L \in Nat /\ top = L + 1
          BY <2>3
        <4>2. g[i] < g[k] /\ g[i] \in 1..top /\ g[k] \in 1..top
          BY <2>5, <2>8
        <4> HIDE DEF L, top
        <4>3. g[i] # top
          BY <4>1, <4>2
        <4> QED
          BY <2>6, <4>2, <4>3
      <3>2. h2[i] = h[g[i]] /\ h[g[i]] \in 1..(j - 1)
        BY <2>4, <3>1
      <3>3. CASE g[k] = top
        <4>1. h2[k] = j
          BY <3>3
        <4> QED
          BY <3>2, <4>1
      <3>4. CASE g[k] \in 1..Len(b[1]) /\ g[k] # top
        <4>1. h2[k] = h[g[k]]
          BY <3>4
        <4> HIDE DEF h2
        <4> QED
          BY <2>4, <3>1, <3>2, <3>4, <4>1
      <3> QED
        BY <2>6, <3>3, <3>4
    <2>9. h2 \in [1..Len(r[1]) -> 1..j]
      BY <2>7
    <2> HIDE DEF h2
    <2>10. Drawn(r[1], e, j)
      BY <2>7, <2>8, <2>9 DEF Drawn
    <2> QED
      BY <2>1, <2>2, <2>10 DEF r
  <1>3. 0..m \subseteq T
    <2> HIDE DEF T
    <2> QED
      BY <1>1, <1>2, UpTo
  <1>4. m \in T
    <2> HIDE DEF T
    <2> QED
      BY <1>3
  <1> QED
    BY <1>4

\* The places of the packets that are processed.
LEMMA ProcessedIs ==
  ASSUME nodes \in Seq(Held), NEW S
  PROVE  /\ Scf!Processed(S) \in Seq(1..Len(nodes))
         /\ \A i, j \in 1..Len(Scf!Processed(S)) : i < j => Scf!Processed(S)[i] < Scf!Processed(S)[j]
         /\ \A i \in 1..Len(Scf!Processed(S)) : nodes[Scf!Processed(S)[i]].id \in S
  <1> DEFINE N == Len(nodes)
             ix == [i \in DOMAIN nodes |-> i]
             P == {i \in DOMAIN nodes : Scf!Alive(nodes[i]) /\ nodes[i].id \in S}
             p == Scf!Processed(S)
  <1>1. N \in Nat /\ DOMAIN nodes = 1..N
    OBVIOUS
  <1>2. ix \in Seq(1..N) /\ Len(ix) = N /\ \A i \in 1..N : ix[i] = i
    BY <1>1
  <1>3. p = Scf!Kept(ix, P)
    BY DEF Scf!Processed
  <1> HIDE DEF ix, N, p
  <1>4. p \in Seq(1..N) /\ \E h : From(p, N, ix, P, h)
    BY <1>2, <1>3, KeptIs
  <1>5. PICK h : From(p, N, ix, P, h)
    BY <1>4
  <1>6. \A k \in 1..Len(p) : h[k] \in 1..N /\ p[k] = h[k] /\ p[k] \in P
    <2>1. \A k \in 1..Len(p) : h[k] \in 1..N /\ p[k] = ix[h[k]] /\ ix[h[k]] \in P
      BY <1>5 DEF From
    <2> HIDE DEF P
    <2> QED
      BY <1>2, <2>1
  <1>7. \A i, j \in 1..Len(p) : i < j => h[i] < h[j]
    BY <1>5 DEF From
  <1>8. \A i, j \in 1..Len(p) : i < j => p[i] < p[j]
    <2> HIDE DEF P
    <2> QED
      BY <1>6, <1>7
  <1>9. \A i \in 1..Len(p) : nodes[p[i]].id \in S
    BY <1>6
  <1> QED
    BY <1>4, <1>8, <1>9 DEF p, N

\* Lifetime::encode and reduce_lifetime give a byte.
LEMMA ScfReducedByte ==
  ASSUME NEW r \in 0..255, NEW q \in Nat, NEW l \in Scf!LT!ReduceLifetime(r, q)
  PROVE  l \in 0..255
  <1> DEFINE ms == Scf!LT!Decode(r) - q
  <1>1. Scf!LT!Decode(r) \in Int
    BY DEF Scf!LT!Decode, Scf!LT!Unit
  <1>2. CASE l \in Scf!LT!Encode(ms)
    <2>1. ms \in Int
      BY <1>1
    <2> HIDE DEF ms
    <2>2. PICK m \in Scf!LT!Round(ms, Scf!LT!BaseFor(ms)) : l = Scf!LT!Set(Scf!LT!BaseFor(ms), m)
      BY <1>2 DEF Scf!LT!Encode
    <2>3. Scf!LT!BaseFor(ms) \in 0..3
      BY <2>1 DEF Scf!LT!BaseFor
    <2>4. m \in Int
      BY <2>1, <2>2, <2>3 DEF Scf!LT!Round, Scf!LT!Unit
    <2> QED
      BY <2>2, <2>3, <2>4 DEF Scf!LT!Set
  <1> QED
    BY <1>2 DEF Scf!LT!ReduceLifetime, Scf!LT!Zero

LEMMA ChargedIs ==
  ASSUME Scf!PacketBufferAssumption, nodes \in Seq(Held), NEW rest \in Scf!Charged, NEW i \in 1..Len(nodes)
  PROVE  Scf!Node(nodes[i].id, rest[i]) \in Held
  <1>1. i \in DOMAIN nodes /\ nodes[i] \in Held /\ AgeCap \in Nat /\ ScfTickMs \in Nat
    BY DEF Scf!PacketBufferAssumption
  <1>2. nodes[i].id \in ScfIds /\ nodes[i].life \in 0..255 /\ nodes[i].age \in Nat
    BY <1>1 DEF Held
  <1>3. rest[i] \in Scf!LT!ReduceLifetime(nodes[i].life, nodes[i].age * ScfTickMs)
    BY <1>1 DEF Scf!Charged
  <1>4. nodes[i].age * ScfTickMs \in Nat
    BY <1>1, <1>2
  <1>5. rest[i] \in 0..255
    BY <1>2, <1>3, <1>4, ScfReducedByte
  <1> QED
    BY <1>1, <1>2, <1>5 DEF Scf!Node, Held

\* What flush has pushed after each of the packets it puts back.
Pushed(back, rest) ==
  LET pushed[j \in 0..Len(back)] ==
        IF j = 0 THEN <<<<>>, 0>> ELSE Scf!Push(pushed[j - 1], Scf!Node(nodes[back[j]].id, rest[back[j]]))
  IN  pushed

LEMMA PushedIs ==
  ASSUME Scf!PacketBufferAssumption, nodes \in Seq(Held), NEW rest \in Scf!Charged,
         NEW back \in Seq(1..Len(nodes)), NEW m, m = Len(back),
         NEW e, e = [j \in 1..m |-> Scf!Node(nodes[back[j]].id, rest[back[j]])]
  PROVE  Books(Pushed(back, rest)[m]) /\ Drawn(Pushed(back, rest)[m][1], e, m)
  <1> DEFINE P(f) == f = [j \in 0..Len(back) |->
                            IF j = 0 THEN <<<<>>, 0>>
                            ELSE Scf!Push(f[j - 1], Scf!Node(nodes[back[j]].id, rest[back[j]]))]
             chosen == CHOOSE f : P(f)
  <1>1. m \in Nat
    OBVIOUS
  <1>2. e \in [1..m -> Held]
    <2>1. ASSUME NEW j \in 1..m
          PROVE  Scf!Node(nodes[back[j]].id, rest[back[j]]) \in Held
      <3>1. back[j] \in 1..Len(nodes)
        OBVIOUS
      <3> QED
        BY <3>1, ChargedIs
    <2> QED
      BY <2>1
  <1>3. PICK f : /\ DOMAIN f = 0..m /\ f = [j \in 0..m |-> f[j]] /\ f[0] = Nothing
                 /\ \A j \in 1..m : f[j] = Scf!Push(f[j - 1], e[j])
    BY <1>1, <1>2, PushesExist
  <1>4. P(f)
    <2>1. ASSUME NEW j \in 0..m
          PROVE  f[j] = IF j = 0 THEN <<<<>>, 0>>
                        ELSE Scf!Push(f[j - 1], Scf!Node(nodes[back[j]].id, rest[back[j]]))
      <3>1. CASE j = 0
        BY <1>3, <3>1 DEF Nothing
      <3>2. CASE j # 0
        <4>1. j \in 1..m
          BY <1>1, <3>2
        <4>2. e[j] = Scf!Node(nodes[back[j]].id, rest[back[j]])
          BY <4>1
        <4> QED
          BY <1>3, <3>2, <4>1, <4>2
      <3> QED
        BY <3>1, <3>2
    <2> QED
      BY <1>3, <2>1
  <1>5. P(chosen)
    <2> HIDE DEF P
    <2> QED
      BY <1>4, Zenon
  <1>6. Pushed(back, rest) = chosen
    BY DEF Pushed
  <1>7. chosen = [j \in 0..m |-> IF j = 0 THEN <<<<>>, 0>>
                                 ELSE Scf!Push(chosen[j - 1], Scf!Node(nodes[back[j]].id, rest[back[j]]))]
    <2> HIDE DEF chosen
    <2> QED
      BY <1>5
  <1> HIDE DEF chosen, P
  <1>8. chosen[0] = Nothing
    BY <1>1, <1>7 DEF Nothing
  <1>9. ASSUME NEW j \in 1..m
        PROVE  chosen[j] = Scf!Push(chosen[j - 1], e[j])
    <2>1. j \in 0..m /\ j # 0
      BY <1>1
    <2>2. e[j] = Scf!Node(nodes[back[j]].id, rest[back[j]])
      OBVIOUS
    <2> QED
      BY <1>7, <2>1, <2>2
  <1>10. Books(chosen[m]) /\ Drawn(chosen[m][1], e, m)
    BY <1>1, <1>2, <1>8, <1>9, PushesAre
  <1> QED
    BY <1>6, <1>10

LEMMA ScfElements ==
  ASSUME NEW V, NEW s \in Seq(V)
  PROVE  \A j \in 1..Len(s) : s[j] \in V
  OBVIOUS

\* An element of s \o t is one of s or one of t.
LEMMA Joined ==
  ASSUME NEW V, NEW s \in Seq(V), NEW t \in Seq(V)
  PROVE  /\ s \o t \in Seq(V)
         /\ \A k \in 1..Len(s \o t) :
              \/ k \in 1..Len(s) /\ (s \o t)[k] = s[k]
              \/ k - Len(s) \in 1..Len(t) /\ (s \o t)[k] = t[k - Len(s)]
  <1> DEFINE m == Len(s)
             n == Len(t)
  <1>1. m \in Nat /\ n \in Nat
    OBVIOUS
  <1>2. /\ s \o t \in Seq(V) /\ Len(s \o t) = m + n
        /\ \A k \in 1..(m + n) : (s \o t)[k] = IF k <= m THEN s[k] ELSE t[k - m]
    OBVIOUS
  <1> HIDE DEF m, n
  <1>3. \A k \in 1..(m + n) : (k \in 1..m /\ k <= m) \/ (k - m \in 1..n /\ ~(k <= m))
    BY <1>1
  <1> QED
    BY <1>2, <1>3 DEF m, n

\* The nodes that are put back keep their order; those passed on are others.
LEMMA ScfFlushStep ==
  ASSUME Scf!PacketBufferAssumption, StoreInv, NEW stuck, Scf!flush(stuck)
  PROVE  StoreInv'
  <1> DEFINE N == Len(nodes)
             back == Scf!Processed(stuck)
             out == Scf!Processed(ScfIds \ stuck)
             m == Len(back)
             o == [j \in DOMAIN out |-> nodes[out[j]].id]
  <1>1. /\ Books(<<nodes, scfBytes>>) /\ nodes \in Seq(Held) /\ arrived \in Seq(ScfIds) /\ sent \in Seq(ScfIds)
        /\ Apart(arrived) /\ Gone(nodes, arrived, sent) /\ N \in Nat
    BY DEF StoreInv, Books
  <1>2. PICK a : Matches(nodes, arrived, a)
    BY DEF StoreInv
  <1>3. /\ a \in [1..N -> 1..Len(arrived)] /\ \A i, j \in 1..N : i < j => a[i] < a[j]
        /\ \A i \in 1..N : nodes[i].id = arrived[a[i]]
    BY <1>2 DEF Matches
  <1>4. PICK rest \in Scf!Charged :
          /\ nodes' = Pushed(back, rest)[m][1] /\ scfBytes' = Pushed(back, rest)[m][2]
          /\ sent' = sent \o o
    BY DEF Scf!flush, Pushed
  <1>5. arrived' = arrived
    BY DEF Scf!flush
  <1>6. /\ back \in Seq(1..N) /\ \A i, j \in 1..m : i < j => back[i] < back[j]
        /\ \A i \in 1..m : nodes[back[i]].id \in stuck
    BY <1>1, ProcessedIs
  <1>7. /\ out \in Seq(1..N) /\ \A i, j \in 1..Len(out) : i < j => out[i] < out[j]
        /\ \A i \in 1..Len(out) : nodes[out[i]].id \in ScfIds \ stuck
    BY <1>1, ProcessedIs
  <1> HIDE DEF N, back, out
  <1> DEFINE e == [j \in 1..m |-> Scf!Node(nodes[back[j]].id, rest[back[j]])]
  <1>8. Books(Pushed(back, rest)[m]) /\ Drawn(Pushed(back, rest)[m][1], e, m)
    <2> HIDE DEF e, m
    <2>1. m = Len(back) /\ e = [j \in 1..m |-> Scf!Node(nodes[back[j]].id, rest[back[j]])]
      BY DEF m, e
    <2>2. back \in Seq(1..Len(nodes))
      BY <1>6 DEF N
    <2> QED
      BY <1>1, <2>1, <2>2, PushedIs
  <1>9. Books(<<nodes', scfBytes'>>)
    <2>1. <<nodes', scfBytes'>>[1] = nodes' /\ <<nodes', scfBytes'>>[2] = scfBytes'
      OBVIOUS
    <2> QED
      BY <1>4, <1>8, <2>1 DEF Books
  <1>10. nodes' \in Seq(Held) /\ Len(nodes') \in Nat
    BY <1>9 DEF Books
  <1>11. PICK h \in [1..Len(nodes') -> 1..m] :
           /\ \A i, k \in 1..Len(nodes') : i < k => h[i] < h[k]
           /\ \A k \in 1..Len(nodes') : nodes'[k] = e[h[k]]
    BY <1>4, <1>8 DEF Drawn
  <1>12. \A j \in 1..m : back[j] \in 1..N /\ e[j].id = nodes[back[j]].id
    <2>1. \A j \in 1..m : back[j] \in 1..N
      BY <1>6, ScfElements
    <2>2. \A j \in 1..m : e[j] = Scf!Node(nodes[back[j]].id, rest[back[j]])
      OBVIOUS
    <2>3. \A x, y : Scf!Node(x, y).id = x
      BY DEF Scf!Node
    <2> HIDE DEF e, m
    <2> QED
      BY <2>1, <2>2, <2>3
  <1> HIDE DEF e, m, o
  <1>13. \A k \in 1..Len(nodes') : /\ h[k] \in 1..m /\ back[h[k]] \in 1..N
                                   /\ nodes'[k].id = nodes[back[h[k]]].id /\ nodes'[k].id \in stuck
    BY <1>6, <1>11, <1>12
  <1>14. Matches(nodes', arrived', [k \in 1..Len(nodes') |-> a[back[h[k]]]])
    <2> DEFINE a2 == [k \in 1..Len(nodes') |-> a[back[h[k]]]]
    <2>1. a2 \in [1..Len(nodes') -> 1..Len(arrived')]
      BY <1>3, <1>5, <1>13
    <2>2. ASSUME NEW i \in 1..Len(nodes'), NEW k \in 1..Len(nodes'), i < k
          PROVE  a2[i] < a2[k]
      <3>1. h[i] < h[k]
        BY <1>11, <2>2
      <3>2. back[h[i]] < back[h[k]]
        BY <1>6, <1>13, <3>1
      <3> QED
        BY <1>3, <1>13, <3>2
    <2>3. \A k \in 1..Len(nodes') : nodes'[k].id = arrived'[a2[k]]
      BY <1>3, <1>5, <1>13
    <2> HIDE DEF a2
    <2>4. Matches(nodes', arrived', a2)
      BY <2>1, <2>2, <2>3 DEF Matches
    <2> QED
      BY <2>4 DEF a2
  <1> DEFINE n == Len(out)
  <1>15. /\ o \in Seq(ScfIds) /\ Len(o) = n /\ n \in Nat
         /\ \A j \in 1..n : out[j] \in 1..N /\ o[j] = nodes[out[j]].id /\ o[j] \in ScfIds \ stuck
    <2>a. out \in Seq(1..N)
      BY <1>7
    <2>b. DOMAIN out = 1..n /\ n \in Nat
      BY <2>a
    <2>c. \A j \in 1..n : out[j] \in 1..N
      BY <2>a, ScfElements
    <2>1. DOMAIN out = 1..n /\ n \in Nat /\ \A j \in 1..n : out[j] \in 1..N
      BY <2>b, <2>c
    <2>2. \A j \in 1..n : nodes[out[j]].id \in ScfIds \ stuck
      BY <1>7
    <2>3. o = [j \in 1..n |-> nodes[out[j]].id]
      BY <2>1 DEF o
    <2> HIDE DEF n
    <2>4. o \in Seq(ScfIds) /\ Len(o) = n
      BY <2>1, <2>2, <2>3
    <2> QED
      BY <2>1, <2>2, <2>3, <2>4
  <1> HIDE DEF n
  <1>16. /\ sent' \in Seq(ScfIds)
         /\ \A k \in 1..Len(sent') :
              \/ k \in 1..Len(sent) /\ sent'[k] = sent[k]
              \/ k - Len(sent) \in 1..n /\ sent'[k] = o[k - Len(sent)]
    BY <1>1, <1>4, <1>15, Joined
  <1>17. /\ Apart(sent)
         /\ \A k \in 1..Len(sent) : \E i \in 1..Len(arrived) : arrived[i] = sent[k]
         /\ \A k \in 1..Len(sent), i \in 1..N : nodes[i].id # sent[k]
    BY <1>1 DEF Gone, N
  <1>18. \A j \in 1..n : /\ a[out[j]] \in 1..Len(arrived) /\ o[j] = arrived[a[out[j]]]
                         /\ \A k \in 1..Len(sent) : o[j] # sent[k]
    BY <1>3, <1>15, <1>17
  <1>19. \A i, j \in 1..n : o[i] = o[j] => i = j
    <2> SUFFICES ASSUME NEW i \in 1..n, NEW j \in 1..n, o[i] = o[j] PROVE i = j
      OBVIOUS
    <2>1. a[out[i]] = a[out[j]]
      <3>1. /\ a[out[i]] \in 1..Len(arrived) /\ a[out[j]] \in 1..Len(arrived)
            /\ arrived[a[out[i]]] = arrived[a[out[j]]]
        BY <1>18
      <3>2. \A k, l \in 1..Len(arrived) : arrived[k] = arrived[l] => k = l
        BY <1>1 DEF Apart
      <3> QED
        BY <3>1, <3>2, Zenon
    <2>2. ~(out[i] < out[j]) /\ ~(out[j] < out[i])
      <3>1. a[out[i]] \in Nat /\ a[out[j]] \in Nat
        BY <1>18
      <3> QED
        BY <1>3, <1>15, <2>1, <3>1
    <2>3. ~(i < j) /\ ~(j < i)
      BY <1>7, <2>2 DEF n
    <2> QED
      BY <1>15, <2>3
  <1>20. Apart(sent')
    <2> SUFFICES ASSUME NEW i \in 1..Len(sent'), NEW j \in 1..Len(sent'), sent'[i] = sent'[j]
                 PROVE  i = j
      BY DEF Apart
    <2> DEFINE L == Len(sent)
    <2>1. L \in Nat /\ Len(sent') \in Nat
      BY <1>1, <1>16
    <2>2. CASE i \in 1..L /\ j \in 1..L /\ sent'[i] = sent[i] /\ sent'[j] = sent[j]
      BY <1>17, <2>2 DEF Apart
    <2>3. CASE i - L \in 1..n /\ j - L \in 1..n /\ sent'[i] = o[i - L] /\ sent'[j] = o[j - L]
      <3>1. i - L = j - L
        BY <1>19, <2>3
      <3> HIDE DEF L
      <3> QED
        BY <2>1, <3>1
    <2> QED
      BY <1>16, <1>18, <2>2, <2>3
  <1>21. ASSUME NEW k \in 1..Len(sent')
         PROVE  /\ \E i \in 1..Len(arrived') : arrived'[i] = sent'[k]
                /\ \A i \in 1..Len(nodes') : nodes'[i].id # sent'[k]
    <2>1. CASE k \in 1..Len(sent) /\ sent'[k] = sent[k]
      BY <1>5, <1>13, <1>17, <2>1
    <2>2. CASE k - Len(sent) \in 1..n /\ sent'[k] = o[k - Len(sent)]
      BY <1>5, <1>13, <1>15, <1>18, <2>2
    <2> QED
      BY <1>16, <2>1, <2>2
  <1>22. Gone(nodes', arrived', sent')
    BY <1>20, <1>21 DEF Gone
  <1> QED
    BY <1>1, <1>5, <1>9, <1>14, <1>16, <1>22 DEF StoreInv

LEMMA StoreNext ==
  ASSUME Scf!PacketBufferAssumption, StoreInv, [Scf!Next]_(Scf!vars)
  PROVE  StoreInv'
  <1>1. ASSUME NEW id \in ScfIds, NEW l \in ScfLifetimes, Scf!push(id, l)
        PROVE  StoreInv'
    BY <1>1, PushStep
  <1>2. CASE Scf!Flush
    <2>1. PICK stuck : Scf!flush(stuck)
      BY <1>2 DEF Scf!Flush
    <2> QED
      BY <2>1, ScfFlushStep
  <1>3. CASE Scf!Tick
    BY <1>3, TickStep
  <1>4. CASE UNCHANGED Scf!vars
    <2>1. nodes' = nodes /\ scfBytes' = scfBytes /\ arrived' = arrived /\ sent' = sent
      BY <1>4 DEF Scf!vars
    <2> QED
      BY <2>1 DEF StoreInv, Books
  <1> QED
    BY <1>1, <1>2, <1>3, <1>4 DEF Scf!Next

THEOREM StoreSound == Scf!PacketBufferAssumption => (Scf!Spec => []StoreInv)
  <1> SUFFICES ASSUME Scf!PacketBufferAssumption PROVE Scf!Spec => []StoreInv
    OBVIOUS
  <1>1. Scf!Init => StoreInv
    BY StoreInit
  <1>2. StoreInv /\ [Scf!Next]_(Scf!vars) => StoreInv'
    BY StoreNext
  <1> QED
    BY <1>1, <1>2, PTL DEF Scf!Spec

-----------------------------------------------------------------------------
(***************************************************************************)
(* What the invariant says of the packets.                                 *)
(***************************************************************************)
LEMMA StoreTyped == Scf!PacketBufferAssumption /\ StoreInv => Scf!TypeOK
  <1> SUFFICES ASSUME Scf!PacketBufferAssumption, StoreInv PROVE Scf!TypeOK
    OBVIOUS
  <1>1. nodes \in Seq(Held) /\ scfBytes = Scf!Bytes(nodes) /\ arrived \in Seq(ScfIds) /\ sent \in Seq(ScfIds)
    BY DEF StoreInv, Books
  <1>2. scfBytes \in Nat
    BY <1>1, BytesType
  <1>3. \A i \in DOMAIN nodes : nodes[i] \in Held
    BY <1>1
  <1> QED
    BY <1>1, <1>2, <1>3 DEF Scf!TypeOK, Held

LEMMA StoreAccounts == StoreInv => Scf!Accounting
  BY DEF StoreInv, Books, Scf!Accounting

\* Packets that differ in their places differ.
LEMMA NodesApart ==
  ASSUME StoreInv, NEW i \in 1..Len(nodes), NEW j \in 1..Len(nodes), nodes[i].id = nodes[j].id
  PROVE  i = j
  <1>1. nodes \in Seq(Held) /\ Apart(arrived) /\ Len(nodes) \in Nat
    BY DEF StoreInv, Books
  <1>2. PICK a : Matches(nodes, arrived, a)
    BY DEF StoreInv
  <1>3. /\ a \in [1..Len(nodes) -> 1..Len(arrived)]
        /\ \A x, y \in 1..Len(nodes) : x < y => a[x] < a[y]
        /\ \A x \in 1..Len(nodes) : nodes[x].id = arrived[a[x]]
    BY <1>2 DEF Matches
  <1>4. a[i] = a[j]
    BY <1>1, <1>3 DEF Apart
  <1>5. a[i] \in 1..Len(arrived) /\ a[j] \in 1..Len(arrived)
    BY <1>3
  <1>6. ~(i < j) /\ ~(j < i)
    BY <1>3, <1>4, <1>5
  <1> QED
    BY <1>6

LEMMA StoreOnce == StoreInv => Scf!AtMostOnce
  <1> SUFFICES ASSUME StoreInv PROVE Scf!AtMostOnce
    OBVIOUS
  <1> DEFINE p == Scf!Packets(nodes)
             N == Len(nodes)
             S == Len(sent)
             both == p \o sent
  <1>1. nodes \in Seq(Held) /\ sent \in Seq(ScfIds) /\ Gone(nodes, arrived, sent) /\ N \in Nat /\ S \in Nat
    BY DEF StoreInv, Books
  <1>2. p \in Seq(ScfIds) /\ Len(p) = N /\ \A i \in 1..N : p[i] = nodes[i].id
    <2>1. DOMAIN nodes = 1..N /\ \A i \in 1..N : nodes[i] \in Held
      BY <1>1
    <2>2. p = [i \in 1..N |-> nodes[i].id] /\ \A i \in 1..N : nodes[i].id \in ScfIds
      BY <2>1 DEF Scf!Packets, Held
    <2> HIDE DEF N, p
    <2> QED
      BY <1>1, <2>2
  <1> HIDE DEF p
  <1>3. /\ both \in Seq(ScfIds)
        /\ \A k \in 1..Len(both) :
             \/ k \in 1..N /\ both[k] = p[k]
             \/ k - N \in 1..S /\ both[k] = sent[k - N]
    BY <1>1, <1>2, Joined
  <1>4. /\ \A i, j \in 1..S : sent[i] = sent[j] => i = j
        /\ \A k \in 1..S, i \in 1..N : nodes[i].id # sent[k]
    BY <1>1 DEF Gone, Apart
  <1> HIDE DEF N, S, both
  <1>5. ASSUME NEW i \in 1..Len(both), NEW j \in 1..Len(both), both[i] = both[j]
        PROVE  i = j
    <2>1. CASE i \in 1..N /\ j \in 1..N /\ both[i] = p[i] /\ both[j] = p[j]
      <3>1. nodes[i].id = nodes[j].id
        BY <1>2, <1>5, <2>1
      <3> QED
        BY <2>1, <3>1, NodesApart DEF N
    <2>2. CASE i - N \in 1..S /\ j - N \in 1..S /\ both[i] = sent[i - N] /\ both[j] = sent[j - N]
      <3>1. i - N = j - N
        BY <1>4, <1>5, <2>2
      <3>2. i \in Int /\ j \in Int
        BY <1>3
      <3> QED
        BY <1>1, <3>1, <3>2
    <2>3. CASE i \in 1..N /\ j - N \in 1..S /\ both[i] = p[i] /\ both[j] = sent[j - N]
      <3>1. nodes[i].id = sent[j - N]
        BY <1>2, <1>5, <2>3
      <3>2. nodes[i].id # sent[j - N]
        BY <1>4, <2>3, Zenon
      <3> QED
        BY <3>1, <3>2, Zenon
    <2>4. CASE i - N \in 1..S /\ j \in 1..N /\ both[i] = sent[i - N] /\ both[j] = p[j]
      <3>1. nodes[j].id = sent[i - N]
        BY <1>2, <1>5, <2>4
      <3>2. nodes[j].id # sent[i - N]
        BY <1>4, <2>4, Zenon
      <3> QED
        BY <3>1, <3>2, Zenon
    <2>5. /\ \/ i \in 1..N /\ both[i] = p[i]
             \/ i - N \in 1..S /\ both[i] = sent[i - N]
          /\ \/ j \in 1..N /\ both[j] = p[j]
             \/ j - N \in 1..S /\ both[j] = sent[j - N]
      BY <1>3, Zenon
    <2> QED
      BY <2>1, <2>2, <2>3, <2>4, <2>5, Zenon
  <1>6. DOMAIN both = 1..Len(both)
    BY <1>3
  <1> QED
    BY <1>5, <1>6 DEF Scf!AtMostOnce, Scf!IsInjective, both, p

LEMMA StoreOrder == StoreInv => Scf!OldestFirst
  <1> SUFFICES ASSUME StoreInv, NEW i \in DOMAIN nodes, NEW j \in DOMAIN nodes, i < j
               PROVE  Scf!Position(nodes[i].id) < Scf!Position(nodes[j].id)
    BY DEF Scf!OldestFirst
  <1>1. nodes \in Seq(Held) /\ arrived \in Seq(ScfIds) /\ Apart(arrived)
    BY DEF StoreInv, Books
  <1>2. PICK a : Matches(nodes, arrived, a)
    BY DEF StoreInv
  <1>3. /\ a \in [1..Len(nodes) -> 1..Len(arrived)]
        /\ \A x, y \in 1..Len(nodes) : x < y => a[x] < a[y]
        /\ \A x \in 1..Len(nodes) : nodes[x].id = arrived[a[x]]
    BY <1>2 DEF Matches
  <1>4. DOMAIN nodes = 1..Len(nodes) /\ DOMAIN arrived = 1..Len(arrived)
    BY <1>1
  <1>5. ASSUME NEW x \in 1..Len(nodes)
        PROVE  Scf!Position(nodes[x].id) = a[x]
    <2>1. a[x] \in DOMAIN arrived /\ arrived[a[x]] = nodes[x].id
      BY <1>3, <1>4
    <2>2. \A y \in DOMAIN arrived : arrived[y] = nodes[x].id => y = a[x]
      BY <1>1, <1>4, <2>1 DEF Apart
    <2> QED
      BY <2>1, <2>2 DEF Scf!Position
  <1> QED
    BY <1>3, <1>4, <1>5

LEMMA StoreDrops ==
  ASSUME Scf!PacketBufferAssumption, StoreInv, [Scf!Next]_(Scf!vars), arrived' # arrived,
         NEW i \in DOMAIN nodes, Scf!Thrown(i)
  PROVE  Scf!Bytes(Scf!AliveIn(SubSeq(nodes, i, Len(nodes)))) + ScfLength[Scf!Last(arrived')] > ScfCapacity
  <1>1. PICK id \in ScfIds, l \in ScfLifetimes : Scf!push(id, l)
    BY DEF Scf!Next, Scf!Flush, Scf!flush, Scf!Tick, Scf!vars
  <1>2. StoreInv' /\ Needed(<<nodes', scfBytes'>>, <<nodes, scfBytes>>, Scf!Node(id, l))
    BY <1>1, PushStep
  <1>3. nodes \in Seq(Held) /\ arrived \in Seq(ScfIds) /\ nodes' \in Seq(Held)
    BY <1>2 DEF StoreInv, Books
  <1>4. arrived' = Append(arrived, id) /\ Scf!Node(id, l).id = id
    BY <1>1 DEF Scf!push, Scf!Node
  <1>5. Scf!Last(arrived') = id
    BY <1>3, <1>4 DEF Scf!Last
  <1>6. \A j \in 1..Len(nodes') : nodes'[j] # nodes[i]
    <2>1. \A j \in DOMAIN nodes' : nodes'[j].id # nodes[i].id
      BY DEF Scf!Thrown
    <2>2. DOMAIN nodes' = 1..Len(nodes')
      BY <1>3
    <2> QED
      BY <2>1, <2>2
  <1>7. /\ i \in 1..Len(nodes) /\ Scf!Alive(nodes[i])
        /\ <<nodes, scfBytes>>[1] = nodes /\ <<nodes', scfBytes'>>[1] = nodes'
    BY <1>3 DEF Scf!Thrown
  <1>8. Scf!Bytes(Scf!AliveIn(SubSeq(nodes, i, Len(nodes)))) + ScfLength[Scf!Node(id, l).id] > ScfCapacity
    BY <1>2, <1>6, <1>7 DEF Needed
  <1> QED
    BY <1>4, <1>5, <1>8

-----------------------------------------------------------------------------
(***************************************************************************)
(* The byte count is that of the nodes and fits (packet_buffer.cpp, free). *)
(***************************************************************************)
THEOREM BooksAreRight == Scf!PacketBufferAssumption => (Scf!Spec => [](Scf!TypeOK /\ Scf!Accounting))
  <1> SUFFICES ASSUME Scf!PacketBufferAssumption PROVE Scf!Spec => [](Scf!TypeOK /\ Scf!Accounting)
    OBVIOUS
  <1>1. Scf!Spec => []StoreInv
    BY StoreSound
  <1>2. StoreInv => Scf!TypeOK /\ Scf!Accounting
    BY StoreTyped, StoreAccounts
  <1> QED
    BY <1>1, <1>2, PTL

(***************************************************************************)
(* No packet is in two places, and the oldest are in front, however often  *)
(* a flush puts packets back (packet_buffer.cpp, flush).                   *)
(***************************************************************************)
THEOREM OnceAndInOrder == Scf!PacketBufferAssumption => (Scf!Spec => [](Scf!AtMostOnce /\ Scf!OldestFirst))
  <1> SUFFICES ASSUME Scf!PacketBufferAssumption PROVE Scf!Spec => [](Scf!AtMostOnce /\ Scf!OldestFirst)
    OBVIOUS
  <1>1. Scf!Spec => []StoreInv
    BY StoreSound
  <1>2. StoreInv => Scf!AtMostOnce /\ Scf!OldestFirst
    BY StoreOnce, StoreOrder
  <1> QED
    BY <1>1, <1>2, PTL

(***************************************************************************)
(* push throws out no packet that could have stayed (packet_buffer.cpp,    *)
(* drop).                                                                  *)
(***************************************************************************)
THEOREM DropsNoMore == Scf!PacketBufferAssumption => (Scf!Spec => Scf!LeastDropped)
  <1> SUFFICES ASSUME Scf!PacketBufferAssumption PROVE Scf!Spec => Scf!LeastDropped
    OBVIOUS
  <1>1. Scf!Spec => []StoreInv
    BY StoreSound
  <1>2. StoreInv /\ [Scf!Next]_(Scf!vars) =>
          [arrived' # arrived =>
             \A i \in DOMAIN nodes : Scf!Thrown(i) =>
               Scf!Bytes(Scf!AliveIn(SubSeq(nodes, i, Len(nodes)))) + ScfLength[Scf!Last(arrived')] > ScfCapacity]_(Scf!vars)
    BY StoreDrops
  <1> QED
    BY <1>1, <1>2, PTL DEF Scf!Spec, Scf!LeastDropped
=============================================================================

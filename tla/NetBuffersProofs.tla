-------------------------- MODULE NetBuffersProofs --------------------------
(***************************************************************************)
(* Proofs about NetBuffers: that the queues keep the bytes and their order *)
(* and the reader finds the frames again, for every size of the buffers,   *)
(* of the headers and of the pieces that the socket returns.               *)
(*                                                                         *)
(* What a queue holds, where its buffers begin and what try_rpc_read makes *)
(* of it are functions defined by recursion; the first section is about    *)
(* those, as in PersistenceProofs.                                         *)
(***************************************************************************)
EXTENDS NetBuffers, TLAPS, SequenceTheorems, FiniteSetTheorems, WellFoundedInduction

------------------------------------------------------------------------------
(* Induction *)

\* A set of numbers that is not empty has a smallest one.
LEMMA LeastNatural ==
  ASSUME NEW T \in SUBSET Nat, T # {}
  PROVE  \E m \in T : \A k \in T : m <= k
<1> DEFINE below(n) == 0 .. n
           F == {below(n) : n \in T}
<1>1. F \subseteq FiniteSubsetsOf(Nat) /\ F # {}
  <2>1. \A n \in T : below(n) \in SUBSET Nat /\ IsFiniteSet(below(n))
    BY FS_Interval
  <2> QED
    BY <2>1 DEF FiniteSubsetsOf
<1>2. PICK X \in F : \A Y \in F : ~(<<Y, X>> \in StrictSubsetOrdering(Nat))
  <2> HIDE DEF F
  <2> QED
    BY <1>1, FS_StrictSubsetOrderingWellFounded, WFMin
<1>3. PICK m \in T : X = below(m)
  OBVIOUS
<1>4. ASSUME NEW k \in T, k < m
      PROVE  FALSE
  <2>1. below(k) \in F /\ below(k) \subseteq X /\ below(k) # X
    <3>1. m \in below(m) /\ ~(m \in below(k)) /\ below(k) \subseteq below(m)
      BY <1>4
    <3> QED
      BY <1>3, <3>1
  <2>2. below(k) \in SUBSET Nat /\ X \in SUBSET Nat
    BY <1>3
  <2>3. <<below(k), X>> \in StrictSubsetOrdering(Nat)
    BY <2>1, <2>2 DEF StrictSubsetOrdering
  <2> QED
    BY <1>2, <2>1, <2>3
<1> QED
  BY <1>4

\* Induction up to N, for a set in the place of a predicate.
LEMMA InductionUpTo ==
  ASSUME NEW N \in Nat, NEW S, 0 \in S,
         \A n \in 0 .. N - 1 : n \in S => n + 1 \in S
  PROVE  \A n \in 0 .. N : n \in S
<1> SUFFICES ASSUME NEW x \in 0 .. N, x \notin S
             PROVE  FALSE
  OBVIOUS
<1> DEFINE T == {n \in Nat : n <= N /\ n \notin S}
<1>1. x \in T /\ T \subseteq Nat
  OBVIOUS
<1>2. PICK m \in T : \A k \in T : m <= k
  BY <1>1, LeastNatural
<1>3. m # 0 /\ m - 1 \in 0 .. N - 1
  BY <1>2
<1>4. m - 1 \in S
  BY <1>2, <1>3
<1>5. (m - 1) + 1 = m
  BY <1>2
<1> QED
  BY <1>3, <1>4, <1>5, <1>2

\* f begins with v, and each further value is what D makes of the one before.
Recurs(f, N, V, v, D) ==
  /\ f \in [0 .. N -> V] /\ f[0] = v
  /\ \A n \in 0 .. N - 1 : f[n + 1] = D[n][f[n]]

StaysIn(D, N, V) == \A n \in 0 .. N - 1 : \A x \in V : D[n][x] \in V

\* There is such a function.
LEMMA Recursion ==
  ASSUME NEW N \in Nat, NEW V, NEW v \in V, NEW D, StaysIn(D, N, V)
  PROVE  \E f : Recurs(f, N, V, v, D)
<1> DEFINE S == {n \in Nat : \E f : Recurs(f, n, V, v, D)}
<1>1. 0 \in S
  <2>1. Recurs([k \in 0 .. 0 |-> v], 0, V, v, D)
    BY DEF Recurs
  <2> QED
    BY <2>1
<1>2. ASSUME NEW n \in 0 .. N - 1, n \in S
      PROVE  n + 1 \in S
  <2>1. PICK g : Recurs(g, n, V, v, D)
    BY <1>2
  <2>2. /\ n \in Nat /\ n + 1 \in Nat /\ (n + 1) - 1 = n
        /\ g \in [0 .. n -> V] /\ g[0] = v
        /\ \A k \in 0 .. n - 1 : g[k + 1] = D[k][g[k]]
    BY <2>1 DEF Recurs
  <2>3. g[n] \in V /\ D[n][g[n]] \in V
    BY <2>2 DEF StaysIn
  <2> DEFINE h == [k \in 0 .. n + 1 |-> IF k = n + 1 THEN D[n][g[n]] ELSE g[k]]
  <2>4. h \in [0 .. n + 1 -> V]
    <3>1. \A k \in 0 .. n : g[k] \in V
      BY <2>2
    <3> QED
      BY <2>3, <3>1
  <2>5. h[n + 1] = D[n][g[n]] /\ \A k \in 0 .. n : h[k] = g[k]
    BY <2>2
  <2> HIDE DEF h
  <2>6. ASSUME NEW k \in 0 .. n
        PROVE  h[k + 1] = D[k][h[k]]
    <3>1. CASE k = n
      BY <2>5, <3>1
    <3>2. CASE k # n
      <4>1. k \in 0 .. n - 1 /\ k + 1 \in 0 .. n
        BY <2>2, <3>2
      <4>2. g[k + 1] = D[k][g[k]]
        BY <2>2, <4>1
      <4> QED
        BY <2>5, <4>1, <4>2
    <3> QED
      BY <3>1, <3>2
  <2>7. h[0] = v
    BY <2>2, <2>5
  <2>8. Recurs(h, n + 1, V, v, D)
    BY <2>2, <2>4, <2>6, <2>7 DEF Recurs
  <2> QED
    BY <2>2, <2>8
<1>3. \A n \in 0 .. N : n \in S
  <2> HIDE DEF S
  <2> QED
    BY <1>1, <1>2, InductionUpTo
<1> QED
  BY <1>3

\* The items of a concatenation.
Joins(q, a, b) ==
  /\ Len(q) = Len(a) + Len(b)
  /\ \A p \in 1 .. Len(a) : q[p] = a[p]
  /\ \A p \in 1 .. Len(b) : q[Len(a) + p] = b[p]

LEMMA Concat ==
  ASSUME NEW S, NEW a \in Seq(S), NEW b \in Seq(S)
  PROVE  a \o b \in Seq(S) /\ Joins(a \o b, a, b)
<1> DEFINE q == a \o b
<1>1. /\ q \in Seq(S) /\ Len(q) = Len(a) + Len(b)
      /\ \A i \in 1 .. Len(a) + Len(b) : q[i] = IF i <= Len(a) THEN a[i] ELSE b[i - Len(a)]
  BY ConcatProperties
<1> HIDE DEF q
<1>2. PICK m \in Nat, n \in Nat : m = Len(a) /\ n = Len(b)
  OBVIOUS
<1>3. ASSUME NEW p \in 1 .. m
      PROVE  q[p] = a[p]
  BY <1>1, <1>2
<1>4. ASSUME NEW p \in 1 .. n
      PROVE  q[m + p] = b[p]
  <2>1. m + p \in 1 .. m + n /\ ~(m + p <= m) /\ (m + p) - m = p
    OBVIOUS
  <2> QED
    BY <1>1, <1>2, <2>1
<1> QED
  BY <1>1, <1>2, <1>3, <1>4 DEF Joins, q

------------------------------------------------------------------------------
(* Sequences of sequences *)

\* Where each sequence of q ends in all of them together.
Offsets(q, off) ==
  /\ off \in [0 .. Len(q) -> Nat] /\ off[0] = 0
  /\ \A k \in 1 .. Len(q) : off[k] = off[k - 1] + Len(q[k])

\* s is the sequences of q one after the other.
Laid(s, q, off) ==
  /\ Len(s) = off[Len(q)]
  /\ \A k \in 1 .. Len(q) : \A j \in 1 .. Len(q[k]) : s[off[k - 1] + j] = q[k][j]

LEMMA OffsetsGrow ==
  ASSUME NEW S, NEW q \in Seq(Seq(S)), NEW off, Offsets(q, off)
  PROVE  \A i \in 0 .. Len(q) : \A j \in 0 .. i : off[j] <= off[i]
<1> DEFINE T == {i \in 0 .. Len(q) : \A j \in 0 .. i : off[j] <= off[i]}
<1>1. PICK n \in Nat : n = Len(q)
  OBVIOUS
<1>2. /\ off \in [0 .. n -> Nat] /\ off[0] = 0
      /\ \A k \in 1 .. n : off[k] = off[k - 1] + Len(q[k])
  BY <1>1 DEF Offsets
<1>3. \A k \in 1 .. n : Len(q[k]) \in Nat
  <2>1. \A k \in 1 .. n : q[k] \in Seq(S)
    BY <1>1
  <2> QED
    BY <2>1
<1>4. 0 \in T
  BY <1>1, <1>2
<1>5. ASSUME NEW i \in 0 .. n - 1, i \in T
      PROVE  i + 1 \in T
  <2>1. i + 1 \in 1 .. n /\ (i + 1) - 1 = i
    OBVIOUS
  <2>2. off[i + 1] = off[i] + Len(q[i + 1]) /\ Len(q[i + 1]) \in Nat
    BY <1>2, <1>3, <2>1
  <2>3. off[i] <= off[i + 1] /\ off[i] \in Nat /\ off[i + 1] \in Nat
    BY <1>2, <2>1, <2>2
  <2>4. ASSUME NEW j \in 0 .. i + 1
        PROVE  off[j] <= off[i + 1]
    <3>1. CASE j = i + 1
      BY <2>3, <3>1
    <3>2. CASE j # i + 1
      <4>1. j \in 0 .. i /\ off[j] \in Nat
        BY <1>2, <3>2
      <4>2. off[j] <= off[i]
        BY <1>5, <4>1
      <4> QED
        BY <2>3, <4>1, <4>2
    <3> QED
      BY <3>1, <3>2
  <2> QED
    BY <1>1, <2>1, <2>4
<1>6. \A i \in 0 .. n : i \in T
  <2> HIDE DEF T
  <2> QED
    BY <1>4, <1>5, InductionUpTo
<1> QED
  BY <1>1, <1>6

\* Every place is in one of the sequences.
Covers(q, off) ==
  \A p \in 1 .. off[Len(q)] : \E k \in 1 .. Len(q) : \E j \in 1 .. Len(q[k]) : p = off[k - 1] + j

LEMMA OffsetsCover ==
  ASSUME NEW S, NEW q \in Seq(Seq(S)), NEW off, Offsets(q, off)
  PROVE  Covers(q, off)
<1> SUFFICES ASSUME NEW p \in 1 .. off[Len(q)]
             PROVE  \E k \in 1 .. Len(q) : \E j \in 1 .. Len(q[k]) : p = off[k - 1] + j
  BY DEF Covers
<1>1. PICK n \in Nat : n = Len(q)
  OBVIOUS
<1>2. /\ off \in [0 .. n -> Nat] /\ off[0] = 0
      /\ \A k \in 1 .. n : off[k] = off[k - 1] + Len(q[k])
  BY <1>1 DEF Offsets
<1> DEFINE T == {k \in 0 .. n : p <= off[k]}
<1>3. n \in T /\ T \subseteq Nat
  BY <1>1, <1>2
<1>4. PICK k \in T : \A i \in T : k <= i
  BY <1>3, LeastNatural
<1>5. k \in 1 .. n /\ k - 1 \in 0 .. n /\ ~(k - 1 \in T)
  <2>1. k # 0
    BY <1>2, <1>4
  <2> QED
    BY <1>4, <2>1
<1>6. off[k - 1] < p /\ p <= off[k] /\ off[k - 1] \in Nat /\ off[k] \in Nat
  BY <1>2, <1>4, <1>5
<1>7. q[k] \in Seq(S) /\ Len(q[k]) \in Nat
  BY <1>1, <1>5
<1>8. off[k] = off[k - 1] + Len(q[k])
  BY <1>2, <1>5
<1>9. p - off[k - 1] \in 1 .. Len(q[k]) /\ p = off[k - 1] + (p - off[k - 1])
  BY <1>6, <1>7, <1>8
<1> QED
  BY <1>1, <1>5, <1>9

LEMMA LaidUnique ==
  ASSUME NEW S, NEW q \in Seq(Seq(S)), NEW off, Offsets(q, off), NEW s \in Seq(S), NEW t \in Seq(S),
         Laid(s, q, off), Laid(t, q, off)
  PROVE  s = t
<1>1. Len(s) = off[Len(q)] /\ Len(t) = Len(s)
  BY DEF Laid
<1>2. ASSUME NEW p \in 1 .. Len(s)
      PROVE  s[p] = t[p]
  <2>1. PICK k \in 1 .. Len(q) : \E j \in 1 .. Len(q[k]) : p = off[k - 1] + j
    <3>1. p \in 1 .. off[Len(q)]
      BY <1>1
    <3>2. Covers(q, off)
      BY OffsetsCover
    <3> QED
      BY ONLY <3>1, <3>2 DEF Covers
  <2>2. PICK j \in 1 .. Len(q[k]) : p = off[k - 1] + j
    BY <2>1
  <2>3. s[off[k - 1] + j] = q[k][j] /\ t[off[k - 1] + j] = q[k][j]
    BY DEF Laid
  <2> QED
    BY <2>2, <2>3
<1> QED
  BY <1>1, <1>2, SeqEqual

\* The recursion of FlattenSeq has its equations.
Flattens(f, q) ==
  /\ f[1] = q[1] /\ \A i \in 1 .. Len(q) - 1 : f[i + 1] = f[i] \o q[i + 1]
  /\ FlattenSeq(q) = f[Len(q)]

LEMMA FlattenRecurs ==
  ASSUME NEW S, NEW q \in Seq(Seq(S)), q # <<>>
  PROVE  \E f : Flattens(f, q)
<1>1. PICK n \in Nat : n = Len(q)
  OBVIOUS
<1>2. n # 0 /\ n - 1 \in Nat /\ \A i \in 1 .. n : q[i] \in Seq(S)
  BY <1>1
<1> DEFINE Unfolded(g) == g = [i \in 1 .. Len(q) |-> IF i = 1 THEN q[i] ELSE g[i - 1] \o q[i]]
           flatten[i \in 1 .. Len(q)] == IF i = 1 THEN q[i] ELSE flatten[i - 1] \o q[i]
           D == [k \in 0 .. n - 2 |-> [x \in Seq(S) |-> x \o q[k + 2]]]
<1>3. \A k \in 0 .. n - 2 : \A x \in Seq(S) : D[k][x] = x \o q[k + 2] /\ D[k][x] \in Seq(S)
  <2>1. ASSUME NEW k \in 0 .. n - 2, NEW x \in Seq(S)
        PROVE  x \o q[k + 2] \in Seq(S)
    <3>1. q[k + 2] \in Seq(S)
      BY <1>2
    <3> QED
      BY <3>1, ConcatProperties
  <2> QED
    BY <2>1
<1> HIDE DEF D
<1>4. StaysIn(D, n - 1, Seq(S)) /\ q[1] \in Seq(S)
  <2>1. (n - 1) - 1 = n - 2 /\ 1 \in 1 .. n
    BY <1>2
  <2> QED
    BY <1>2, <1>3, <2>1 DEF StaysIn
<1>5. PICK g : Recurs(g, n - 1, Seq(S), q[1], D)
  BY <1>2, <1>4, Recursion
<1>6. /\ g \in [0 .. n - 1 -> Seq(S)] /\ g[0] = q[1]
      /\ \A k \in 0 .. n - 2 : g[k + 1] = D[k][g[k]]
  <2>1. (n - 1) - 1 = n - 2
    BY <1>2
  <2> QED
    BY <1>5, <2>1 DEF Recurs
<1> DEFINE h == [i \in 1 .. Len(q) |-> g[i - 1]]
<1>7. Unfolded(h)
  <2>1. ASSUME NEW i \in 1 .. n, i # 1
        PROVE  g[i - 1] = g[(i - 1) - 1] \o q[i]
    <3>1. i - 2 \in 0 .. n - 2 /\ i - 2 \in 0 .. n - 1 /\ (i - 2) + 1 = i - 1 /\ (i - 2) + 2 = i /\ (i - 1) - 1 = i - 2
      BY <2>1
    <3>2. g[i - 2] \in Seq(S) /\ g[(i - 2) + 1] = D[i - 2][g[i - 2]]
      BY <1>6, <3>1
    <3>3. D[i - 2][g[i - 2]] = g[i - 2] \o q[(i - 2) + 2]
      BY <1>3, <3>1, <3>2
    <3> QED
      BY <3>1, <3>2, <3>3
  <2>2. ASSUME NEW i \in 1 .. n
        PROVE  h[i] = IF i = 1 THEN q[i] ELSE h[i - 1] \o q[i]
    <3>1. CASE i = 1
      <4>1. h[i] = g[i - 1] /\ i - 1 = 0
        BY <1>1, <3>1
      <4> QED
        BY <1>6, <3>1, <4>1
    <3>2. CASE i # 1
      <4>1. i - 1 \in 1 .. n
        BY <3>2
      <4>2. h[i] = g[i - 1] /\ h[i - 1] = g[(i - 1) - 1]
        BY <1>1, <4>1
      <4> QED
        BY <2>1, <3>2, <4>2
    <3> QED
      BY <3>1, <3>2
  <2>3. h = [i \in 1 .. Len(q) |-> h[i]]
    OBVIOUS
  <2> HIDE DEF h
  <2> QED
    BY <1>1, <2>2, <2>3
<1>8. Unfolded(flatten)
  <2>1. \E f : Unfolded(f)
    BY <1>7
  <2> QED
    BY <2>1
<1>9. FlattenSeq(q) = flatten[Len(q)]
  BY <1>1, <1>2 DEF FlattenSeq
<1> HIDE DEF flatten
<1>10. flatten[1] = q[1] /\ \A i \in 1 .. n - 1 : flatten[i + 1] = flatten[i] \o q[i + 1]
  <2>1. \A i \in 1 .. n : flatten[i] = IF i = 1 THEN q[i] ELSE flatten[i - 1] \o q[i]
    BY <1>1, <1>8
  <2>2. ASSUME NEW i \in 1 .. n - 1
        PROVE  flatten[i + 1] = flatten[i] \o q[i + 1]
    <3>1. i + 1 \in 1 .. n /\ i + 1 # 1 /\ (i + 1) - 1 = i
      OBVIOUS
    <3> QED
      BY <2>1, <3>1
  <2>3. 1 \in 1 .. n
    BY <1>2
  <2> QED
    BY <2>1, <2>2, <2>3
<1> QED
  BY <1>1, <1>9, <1>10 DEF Flattens

\* FlattenSeq lays the sequences out one after the other.
LEMMA FlattenLaid ==
  ASSUME NEW S, NEW q \in Seq(Seq(S)), NEW off, Offsets(q, off)
  PROVE  FlattenSeq(q) \in Seq(S) /\ Laid(FlattenSeq(q), q, off)
<1>1. PICK n \in Nat : n = Len(q)
  OBVIOUS
<1>2. /\ off \in [0 .. n -> Nat] /\ off[0] = 0
      /\ \A k \in 1 .. n : off[k] = off[k - 1] + Len(q[k])
  BY <1>1 DEF Offsets
<1>3. \A k \in 1 .. n : q[k] \in Seq(S) /\ Len(q[k]) \in Nat
  <2>1. \A k \in 1 .. n : q[k] \in Seq(S)
    BY <1>1
  <2> QED
    BY <2>1
<1>4. CASE n = 0
  <2>1. Len(q) = 0
    BY <1>1, <1>4
  <2>2. q = <<>>
    BY <2>1
  <2>3. FlattenSeq(q) = q
    BY <2>1 DEF FlattenSeq
  <2>4. FlattenSeq(q) \in Seq(S) /\ Len(FlattenSeq(q)) = 0
    <3>1. FlattenSeq(q) = <<>>
      BY <2>2, <2>3
    <3>2. <<>> \in Seq(S) /\ Len(<<>>) = 0
      OBVIOUS
    <3> QED
      BY <3>1, <3>2
  <2>5. off[Len(q)] = 0
    BY <1>1, <1>2, <1>4
  <2>6. \A k \in 1 .. Len(q) : FALSE
    BY <2>1
  <2>7. Len(FlattenSeq(q)) = off[Len(q)]
    BY <2>4, <2>5
  <2> QED
    BY <2>4, <2>6, <2>7 DEF Laid
<1>5. CASE n # 0
  <2>1. PICK f : Flattens(f, q)
    BY <1>1, <1>5, FlattenRecurs
  <2>2. /\ f[1] = q[1] /\ \A i \in 1 .. n - 1 : f[i + 1] = f[i] \o q[i + 1]
        /\ FlattenSeq(q) = f[n]
    BY <1>1, <2>1 DEF Flattens
  <2> DEFINE Holds(i) == /\ f[i] \in Seq(S) /\ Len(f[i]) = off[i]
                         /\ \A k \in 1 .. i : \A j \in 1 .. Len(q[k]) : f[i][off[k - 1] + j] = q[k][j]
             T == {i \in 0 .. n : i = 0 \/ Holds(i)}
  <2>3. 0 \in T
    OBVIOUS
  <2>4. Holds(1)
    <3>1. 1 \in 1 .. n /\ 1 - 1 = 0 /\ \A k \in 1 .. 1 : k = 1
      BY <1>5
    <3>2. f[1] \in Seq(S) /\ Len(f[1]) \in Nat /\ off[1] = off[0] + Len(q[1])
      BY <1>2, <1>3, <2>2, <3>1
    <3>3. Len(f[1]) = off[1]
      BY <1>2, <2>2, <3>2
    <3>4. ASSUME NEW j \in 1 .. Len(q[1])
          PROVE  f[1][off[0] + j] = q[1][j]
      BY <1>2, <2>2
    <3> QED
      BY <3>1, <3>2, <3>3, <3>4
  <2>5. ASSUME NEW i \in 1 .. n - 1, Holds(i)
        PROVE  Holds(i + 1)
    <3>1. i + 1 \in 1 .. n /\ (i + 1) - 1 = i
      OBVIOUS
    <3>2. PICK a \in Seq(S), b \in Seq(S) : a = f[i] /\ b = q[i + 1]
      BY <1>3, <2>5, <3>1
    <3> DEFINE c == f[i + 1]
    <3>3. c \in Seq(S) /\ Len(c) = Len(a) + Len(b)
          /\ (\A p \in 1 .. Len(a) : c[p] = a[p])
          /\ (\A p \in 1 .. Len(b) : c[Len(a) + p] = b[p])
      <4>1. c = a \o b
        BY <2>2, <3>2
      <4> HIDE DEF c
      <4> QED
        BY <4>1, Concat DEF Joins
    <3>4. Len(a) = off[i] /\ off[i + 1] = off[i] + Len(b)
      BY <1>2, <2>5, <3>1, <3>2
    <3> HIDE DEF c
    <3>5. ASSUME NEW k \in 1 .. i + 1, NEW j \in 1 .. Len(q[k])
          PROVE  c[off[k - 1] + j] = q[k][j]
      <4>1. CASE k = i + 1
        BY <3>1, <3>2, <3>3, <3>4, <4>1
      <4>2. CASE k # i + 1
        <5>1. k \in 1 .. i /\ k \in 1 .. n /\ k - 1 \in 0 .. n /\ k \in 0 .. i
          BY <4>2
        <5>2. a[off[k - 1] + j] = q[k][j]
          BY <2>5, <3>2, <5>1
        <5>3. off[k] = off[k - 1] + Len(q[k]) /\ off[k - 1] \in Nat /\ Len(q[k]) \in Nat
          BY <1>2, <1>3, <5>1
        <5>4. off[k] <= off[i] /\ off[i] \in Nat /\ off[k] \in Nat
          <6>1. i \in 0 .. Len(q) /\ k \in 0 .. i /\ k \in 0 .. n /\ i \in 0 .. n
            BY <1>1, <5>1
          <6> QED
            BY <1>2, <6>1, OffsetsGrow
        <5>5. off[k - 1] + j \in 1 .. Len(a)
          <6>1. PICK x \in Nat, y \in Nat, z \in Nat : x = off[k - 1] /\ y = Len(q[k]) /\ z = off[i]
            BY <5>3, <5>4
          <6>2. x + y <= z /\ j \in 1 .. y /\ Len(a) = z
            BY <3>4, <5>3, <5>4, <6>1
          <6>3. x + j \in 1 .. z
            BY <6>2
          <6> QED
            BY <6>1, <6>2, <6>3
        <5> QED
          BY <3>3, <5>2, <5>5
      <4> QED
        BY <4>1, <4>2
    <3> QED
      BY <3>2, <3>3, <3>4, <3>5 DEF c
  <2> HIDE DEF Holds
  <2>6. ASSUME NEW i \in 0 .. n - 1, i \in T
        PROVE  i + 1 \in T
    <3>1. CASE i = 0
      BY <1>5, <2>4, <3>1
    <3>2. CASE i # 0
      <4>1. i \in 1 .. n - 1 /\ i + 1 \in 0 .. n
        BY <3>2
      <4> QED
        BY <2>5, <2>6, <3>2, <4>1
    <3> QED
      BY <3>1, <3>2
  <2>7. \A i \in 0 .. n : i \in T
    <3> HIDE DEF T
    <3> QED
      BY <2>3, <2>6, InductionUpTo
  <2>8. Holds(n)
    BY <1>5, <2>7
  <2> QED
    BY <1>1, <2>2, <2>8 DEF Holds, Laid
<1> QED
  BY <1>4, <1>5

LEMMA FlattenIs ==
  ASSUME NEW S, NEW q \in Seq(Seq(S)), NEW off, Offsets(q, off), NEW s \in Seq(S), Laid(s, q, off)
  PROVE  FlattenSeq(q) = s
BY FlattenLaid, LaidUnique

\* A part of a sequence.
LEMMA PartIs ==
  ASSUME NEW S, NEW s \in Seq(S), NEW a \in Nat \ {0}, NEW b \in Nat, b <= Len(s), a <= b + 1
  PROVE  /\ SubSeq(s, a, b) \in Seq(S) /\ Len(SubSeq(s, a, b)) = b + 1 - a
         /\ \A i \in 1 .. b + 1 - a : SubSeq(s, a, b)[i] = s[a + i - 1]
<1>1. \A i \in a .. b : s[i] \in S
  <2>1. PICK n \in Nat : n = Len(s)
    OBVIOUS
  <2>2. \A i \in 1 .. n : s[i] \in S
    BY <2>1
  <2>3. \A i \in a .. b : i \in 1 .. n
    BY <2>1
  <2> QED
    BY <2>2, <2>3
<1>2. /\ SubSeq(s, a, b) \in Seq(S)
      /\ Len(SubSeq(s, a, b)) = IF a <= b THEN b - a + 1 ELSE 0
      /\ \A i \in 1 .. b - a + 1 : SubSeq(s, a, b)[i] = s[a + i - 1]
  BY <1>1, SubSeqProperties
<1>3. b - a + 1 = b + 1 - a
  OBVIOUS
<1> QED
  BY <1>2, <1>3

\* What follows the first n, up to the b-th.
LEMMA BehindIs ==
  ASSUME NEW S, NEW s \in Seq(S), NEW n \in Nat, NEW b \in Nat, n <= b, b <= Len(s)
  PROVE  /\ SubSeq(s, n + 1, b) \in Seq(S) /\ Len(SubSeq(s, n + 1, b)) = b - n
         /\ \A i \in 1 .. b - n : SubSeq(s, n + 1, b)[i] = s[n + i]
<1>1. n + 1 \in Nat \ {0} /\ n + 1 <= b + 1
  OBVIOUS
<1>2. /\ SubSeq(s, n + 1, b) \in Seq(S) /\ Len(SubSeq(s, n + 1, b)) = b + 1 - (n + 1)
      /\ \A i \in 1 .. b + 1 - (n + 1) : SubSeq(s, n + 1, b)[i] = s[(n + 1) + i - 1]
  BY <1>1, PartIs
<1>3. b + 1 - (n + 1) = b - n
  OBVIOUS
<1>4. \A i \in 1 .. b - n : (n + 1) + i - 1 = n + i
  OBVIOUS
<1> QED
  BY <1>2, <1>3, <1>4

------------------------------------------------------------------------------
(* What a queue holds *)

\* The bytes of each buffer.
BytesOf(q) == [k \in DOMAIN q |-> q[k].bytes]

LEMMA BufferType ==
  ASSUME NEW S, NEW b \in Buffer(S)
  PROVE  /\ b.bytes \in Seq(S) /\ Len(b.bytes) \in Nat /\ b.used \in Nat
         /\ Len(b.bytes) <= b.used /\ b.used <= BufferSize
<1>1. b.bytes \in Seq(S) /\ b.used \in 0 .. BufferSize /\ Len(b.bytes) <= b.used
  BY DEF Buffer
<1>2. BufferSize \in Nat
  BY SizesAssumption
<1> QED
  BY <1>1, <1>2

LEMMA BytesAre ==
  ASSUME NEW S, NEW q \in Seq(Buffer(S))
  PROVE  /\ BytesOf(q) \in Seq(Seq(S)) /\ Len(BytesOf(q)) = Len(q)
         /\ \A k \in 1 .. Len(q) : BytesOf(q)[k] = q[k].bytes /\ q[k].bytes \in Seq(S)
<1>1. PICK n \in Nat : n = Len(q)
  OBVIOUS
<1>2. ASSUME NEW k \in 1 .. n
      PROVE  q[k].bytes \in Seq(S)
  <2>1. q[k] \in Buffer(S)
    BY <1>1
  <2> QED
    BY <2>1, BufferType
<1>3. BytesOf(q) = [k \in 1 .. n |-> q[k].bytes]
  BY <1>1 DEF BytesOf
<1>4. BytesOf(q) \in [1 .. n -> Seq(S)]
  BY <1>2, <1>3
<1>5. BytesOf(q) \in Seq(Seq(S)) /\ Len(BytesOf(q)) = n
  BY <1>4, <1>3
<1> QED
  BY <1>1, <1>2, <1>3, <1>5

\* Sum is where the buffers end in the queue.
LEMMA SumIs ==
  ASSUME NEW S, NEW q \in Seq(Buffer(S))
  PROVE  Offsets(BytesOf(q), Sum(q))
<1>1. PICK n \in Nat : n = Len(q)
  OBVIOUS
<1>2. \A k \in 1 .. n : q[k].bytes \in Seq(S) /\ Len(q[k].bytes) \in Nat
  <2>1. \A k \in 1 .. n : q[k].bytes \in Seq(S)
    BY <1>1, BytesAre
  <2> QED
    BY <2>1
<1> DEFINE Unfolded(g) ==
             g = [k \in 0 .. Len(q) |-> IF k = 0 THEN 0 ELSE g[k - 1] + Len(q[k].bytes)]
           upTo[k \in 0 .. Len(q)] == IF k = 0 THEN 0 ELSE upTo[k - 1] + Len(q[k].bytes)
           D == [k \in 0 .. n - 1 |-> [x \in Nat |-> x + Len(q[k + 1].bytes)]]
<1>3. \A k \in 0 .. n - 1 : \A x \in Nat : D[k][x] = x + Len(q[k + 1].bytes)
  OBVIOUS
<1> HIDE DEF D
<1>4. StaysIn(D, n, Nat)
  <2>1. ASSUME NEW k \in 0 .. n - 1, NEW x \in Nat
        PROVE  D[k][x] \in Nat
    <3>1. k + 1 \in 1 .. n
      OBVIOUS
    <3>2. Len(q[k + 1].bytes) \in Nat
      BY <1>2, <3>1
    <3>3. D[k][x] = x + Len(q[k + 1].bytes)
      BY <1>3
    <3> QED
      BY <3>2, <3>3
  <2> QED
    BY <2>1 DEF StaysIn
<1>5. PICK g : Recurs(g, n, Nat, 0, D)
  BY <1>4, Recursion
<1>6. /\ g \in [0 .. n -> Nat] /\ g[0] = 0
      /\ \A k \in 0 .. n - 1 : g[k + 1] = D[k][g[k]]
  BY <1>5 DEF Recurs
<1>7. \A k \in 1 .. n : g[k] = g[k - 1] + Len(q[k].bytes)
  <2>1. ASSUME NEW k \in 1 .. n
        PROVE  g[k] = g[k - 1] + Len(q[k].bytes)
    <3>1. k - 1 \in 0 .. n - 1 /\ (k - 1) + 1 = k /\ k - 1 \in 0 .. n
      OBVIOUS
    <3> QED
      BY <1>3, <1>6, <3>1
  <2> QED
    BY <2>1
<1>8. Unfolded(g)
  <2>1. \A k \in 0 .. n : k # 0 => k \in 1 .. n
    OBVIOUS
  <2> QED
    BY <1>1, <1>6, <1>7, <2>1
<1>9. Unfolded(upTo)
  <2>1. \E f : Unfolded(f)
    BY <1>8
  <2> QED
    BY <2>1
<1>10. Sum(q) = upTo
  BY DEF Sum
<1> HIDE DEF upTo
<1>11. upTo[0] = 0 /\ \A k \in 1 .. n : upTo[k] = upTo[k - 1] + Len(q[k].bytes)
  <2>1. \A k \in 0 .. n : upTo[k] = IF k = 0 THEN 0 ELSE upTo[k - 1] + Len(q[k].bytes)
    BY <1>1, <1>9
  <2>2. 0 \in 0 .. n /\ \A k \in 1 .. n : k \in 0 .. n /\ k # 0
    OBVIOUS
  <2> QED
    BY <2>1, <2>2
<1>12. upTo = g
  <2> DEFINE T == {k \in 0 .. n : upTo[k] = g[k]}
  <2>1. 0 \in T
    BY <1>6, <1>11
  <2>2. ASSUME NEW k \in 0 .. n - 1, k \in T
        PROVE  k + 1 \in T
    <3>1. k + 1 \in 1 .. n /\ (k + 1) - 1 = k /\ k + 1 \in 0 .. n
      OBVIOUS
    <3>2. upTo[k + 1] = upTo[k] + Len(q[k + 1].bytes) /\ g[k + 1] = g[k] + Len(q[k + 1].bytes)
      BY <1>7, <1>11, <3>1
    <3> QED
      BY <2>2, <3>1, <3>2
  <2>3. \A k \in 0 .. n : k \in T
    <3> HIDE DEF T
    <3> QED
      BY <2>1, <2>2, InductionUpTo
  <2>4. upTo = [k \in 0 .. n |-> upTo[k]]
    BY <1>1, <1>9
  <2> QED
    BY <1>6, <2>3, <2>4
<1>13. Len(BytesOf(q)) = n /\ \A k \in 1 .. n : BytesOf(q)[k] = q[k].bytes
  BY <1>1, BytesAre
<1>14. \A k \in 1 .. n : g[k] = g[k - 1] + Len(BytesOf(q)[k])
  BY <1>7, <1>13
<1>15. Offsets(BytesOf(q), g)
  BY <1>6, <1>13, <1>14 DEF Offsets
<1> QED
  BY <1>10, <1>12, <1>15

LEMMA UnreadIs ==
  ASSUME NEW S, NEW q \in Seq(Buffer(S)), NEW off, Offsets(BytesOf(q), off),
         NEW s \in Seq(S), Laid(s, BytesOf(q), off)
  PROVE  Unread(q) = s
<1>1. BytesOf(q) \in Seq(Seq(S))
  BY BytesAre
<1>2. FlattenSeq(BytesOf(q)) = s
  BY <1>1, FlattenIs
<1> QED
  BY <1>2 DEF Unread, BytesOf

\* The bytes of the k-th buffer are those behind the first Sum(q)[k - 1].
LEMMA UnreadAre ==
  ASSUME NEW S, NEW q \in Seq(Buffer(S))
  PROVE  /\ Unread(q) \in Seq(S)
         /\ Sum(q) \in [0 .. Len(q) -> Nat] /\ Sum(q)[0] = 0
         /\ \A k \in 1 .. Len(q) : Sum(q)[k] = Sum(q)[k - 1] + Len(q[k].bytes)
         /\ Len(Unread(q)) = Sum(q)[Len(q)]
         /\ \A k \in 1 .. Len(q) : \A j \in 1 .. Len(q[k].bytes) :
              Unread(q)[Sum(q)[k - 1] + j] = q[k].bytes[j]
         /\ \A i \in 0 .. Len(q) : \A j \in 0 .. i : Sum(q)[j] <= Sum(q)[i]
<1>1. PICK b, off : b = BytesOf(q) /\ off = Sum(q)
  OBVIOUS
<1>2. /\ b \in Seq(Seq(S)) /\ Len(b) = Len(q)
      /\ \A k \in 1 .. Len(q) : b[k] = q[k].bytes
  BY <1>1, BytesAre
<1>3. Offsets(b, off)
  BY <1>1, SumIs
<1>4. FlattenSeq(b) \in Seq(S) /\ Laid(FlattenSeq(b), b, off)
  BY <1>2, <1>3, FlattenLaid
<1>5. \A i \in 0 .. Len(b) : \A j \in 0 .. i : off[j] <= off[i]
  BY <1>2, <1>3, OffsetsGrow
<1>6. Unread(q) = FlattenSeq(b)
  BY <1>1 DEF Unread, BytesOf
<1>7. /\ off \in [0 .. Len(q) -> Nat] /\ off[0] = 0
      /\ \A k \in 1 .. Len(q) : off[k] = off[k - 1] + Len(q[k].bytes)
  BY <1>2, <1>3 DEF Offsets
<1>8. /\ Len(Unread(q)) = off[Len(q)]
      /\ \A k \in 1 .. Len(q) : \A j \in 1 .. Len(q[k].bytes) : Unread(q)[off[k - 1] + j] = q[k].bytes[j]
  <2>1. PICK s : s = FlattenSeq(b)
    OBVIOUS
  <2>2. PICK l \in Nat : l = Len(q) /\ l = Len(b)
    BY <1>2
  <2>3. Len(s) = off[l]
    BY <1>4, <2>1, <2>2 DEF Laid
  <2>4. \A k \in 1 .. l : \A j \in 1 .. Len(b[k]) : s[off[k - 1] + j] = b[k][j]
    BY <1>4, <2>1, <2>2 DEF Laid
  <2>5. \A k \in 1 .. l : \A j \in 1 .. Len(q[k].bytes) : s[off[k - 1] + j] = q[k].bytes[j]
    BY <1>2, <2>2, <2>4
  <2> QED
    BY <1>6, <2>1, <2>2, <2>3, <2>5
<1> QED
  BY <1>1, <1>2, <1>4, <1>5, <1>6, <1>7, <1>8

LEMMA UnreadEmpty == Unread(<<>>) = <<>>
<1>1. [k \in DOMAIN <<>> |-> <<>>[k].bytes] = <<>>
  OBVIOUS
<1>2. FlattenSeq(<<>>) = <<>>
  BY DEF FlattenSeq
<1> QED
  BY <1>1, <1>2 DEF Unread

------------------------------------------------------------------------------
(* Reading from a queue *)

\* Numbers from 1 on without a gap are as many as the last of them.
LEMMA Beginning ==
  ASSUME NEW N \in Nat, NEW A \in SUBSET (1 .. N), \A k \in A : \A j \in 1 .. k : j \in A
  PROVE  \E m \in 0 .. N : A = 1 .. m /\ Cardinality(A) = m
<1> DEFINE T == {k \in 1 .. N + 1 : k \notin A}
<1>1. N + 1 \in T /\ T \subseteq Nat
  OBVIOUS
<1>2. PICK k \in T : \A i \in T : k <= i
  BY <1>1, LeastNatural
<1>3. k - 1 \in 0 .. N
  BY <1>2
<1>4. A = 1 .. k - 1
  <2>1. ASSUME NEW i \in A
        PROVE  i \in 1 .. k - 1
    <3>1. i \in 1 .. N /\ (i >= k => k \in 1 .. i)
      BY <1>2
    <3>2. ~(i >= k)
      BY <1>2, <3>1
    <3> QED
      BY <1>2, <3>1, <3>2
  <2>2. ASSUME NEW i \in 1 .. k - 1
        PROVE  i \in A
    <3>1. i \in 1 .. N + 1 /\ ~(k <= i)
      BY <1>2
    <3> QED
      BY <1>2, <3>1
  <2> QED
    BY <2>1, <2>2
<1>5. Cardinality(1 .. k - 1) = k - 1
  BY <1>3, FS_Interval
<1> QED
  BY <1>3, <1>4, <1>5

\* What Dropped leaves: without m buffers, and n bytes of the next one.
LEMMA DroppedIs ==
  ASSUME NEW S, NEW q \in Seq(Buffer(S)), NEW m \in 0 .. Len(q), NEW n \in Nat,
         IF m = Len(q) THEN n = 0 ELSE n <= Len(q[m + 1].bytes)
  PROVE  /\ Dropped(q, m, n) \in Seq(Buffer(S))
         /\ Unread(Dropped(q, m, n)) = SubSeq(Unread(q), Sum(q)[m] + n + 1, Len(Unread(q)))
         /\ Dropped(q, m, n) # <<>> => q # <<>> /\ Last(Dropped(q, m, n)).used = Last(q).used
<1>l. PICK l \in Nat, u \in Seq(S) : l = Len(q) /\ u = Unread(q)
  BY UnreadAre
<1>o. PICK off : off = Sum(q)
  OBVIOUS
<1>1. l = Len(q) /\ off = Sum(q) /\ u = Unread(q)
  BY <1>l, <1>o
<1>2. /\ off \in [0 .. l -> Nat] /\ off[0] = 0 /\ Len(u) = off[l]
      /\ \A k \in 1 .. l : off[k] = off[k - 1] + Len(q[k].bytes)
      /\ \A k \in 1 .. l : \A j \in 1 .. Len(q[k].bytes) : u[off[k - 1] + j] = q[k].bytes[j]
      /\ \A i \in 0 .. l : \A j \in 0 .. i : off[j] <= off[i]
  <2>1. /\ Sum(q) \in [0 .. Len(q) -> Nat] /\ Sum(q)[0] = 0
        /\ \A k \in 1 .. Len(q) : Sum(q)[k] = Sum(q)[k - 1] + Len(q[k].bytes)
        /\ Len(Unread(q)) = Sum(q)[Len(q)]
        /\ \A k \in 1 .. Len(q) : \A j \in 1 .. Len(q[k].bytes) :
             Unread(q)[Sum(q)[k - 1] + j] = q[k].bytes[j]
        /\ \A i \in 0 .. Len(q) : \A j \in 0 .. i : Sum(q)[j] <= Sum(q)[i]
    BY UnreadAre
  <2> QED
    BY ONLY <2>1, <1>1
<1>3. \A k \in 1 .. l : /\ q[k] \in Buffer(S) /\ q[k].bytes \in Seq(S) /\ Len(q[k].bytes) \in Nat
                        /\ q[k].used \in 0 .. BufferSize /\ Len(q[k].bytes) <= q[k].used
  <2>1. ASSUME NEW k \in 1 .. l
        PROVE  /\ q[k] \in Buffer(S) /\ q[k].bytes \in Seq(S) /\ Len(q[k].bytes) \in Nat
               /\ q[k].used \in 0 .. BufferSize /\ Len(q[k].bytes) <= q[k].used
    <3>1. q[k] \in Buffer(S)
      BY <1>1
    <3>2. q[k].used \in 0 .. BufferSize
      BY <3>1 DEF Buffer
    <3> QED
      BY <3>1, <3>2, BufferType
  <2> QED
    BY <2>1
<1>4. PICK d : d = Dropped(q, m, n)
  OBVIOUS
<1>5. CASE m = l
  <2>1. d = <<>>
    BY <1>1, <1>4, <1>5 DEF Dropped
  <2>2. n = 0 /\ off[m] + n + 1 > Len(u) /\ off[m] + n + 1 \in Int /\ Len(u) \in Int
    BY <1>1, <1>2, <1>5
  <2>3. SubSeq(u, off[m] + n + 1, Len(u)) = <<>>
    BY <2>2, SubSeqEmpty
  <2>4. d \in Seq(Buffer(S))
    BY <2>1
  <2> QED
    BY <1>1, <1>4, <2>1, <2>3, <2>4, UnreadEmpty
<1>6. CASE m # l
  <2>1. m + 1 \in 1 .. l /\ n <= Len(q[m + 1].bytes) /\ l - m \in Nat \ {0}
    BY <1>1, <1>6
  <2>2. PICK x \in Seq(S) : x = SubSeq(q[m + 1].bytes, n + 1, Len(q[m + 1].bytes))
          /\ Len(x) = Len(q[m + 1].bytes) - n
          /\ \A i \in 1 .. Len(x) : x[i] = q[m + 1].bytes[n + i]
    <3>1. PICK b \in Seq(S), e \in Nat : b = q[m + 1].bytes /\ e = Len(b) /\ n <= e
      BY <1>3, <2>1
    <3>2. /\ SubSeq(b, n + 1, e) \in Seq(S) /\ Len(SubSeq(b, n + 1, e)) = e - n
          /\ \A i \in 1 .. e - n : SubSeq(b, n + 1, e)[i] = b[n + i]
      BY <3>1, BehindIs
    <3> QED
      BY <3>1, <3>2
  <2>3. d = [k \in 1 .. l - m |-> IF k = 1 THEN [q[m + 1] EXCEPT !.bytes = x] ELSE q[m + k]]
    BY <1>1, <1>4, <2>2 DEF Dropped
  <2>4. PICK y : y = [q[m + 1] EXCEPT !.bytes = x]
    OBVIOUS
  <2>5. y \in Buffer(S) /\ y.bytes = x /\ y.used = q[m + 1].used
    <3>1. q[m + 1] \in [bytes : Seq(S), used : 0 .. BufferSize]
      BY <1>3, <2>1 DEF Buffer
    <3>2. y \in [bytes : Seq(S), used : 0 .. BufferSize] /\ y.bytes = x /\ y.used = q[m + 1].used
      BY <2>4, <3>1
    <3>3. Len(x) <= q[m + 1].used
      BY <1>3, <2>1, <2>2
    <3> QED
      BY <3>2, <3>3 DEF Buffer
  <2>6. d[1] = y /\ \A k \in 2 .. l - m : d[k] = q[m + k]
    BY <2>1, <2>3, <2>4
  <2>7. d \in Seq(Buffer(S)) /\ Len(d) = l - m
    <3>1. \A k \in 1 .. l - m : d[k] \in Buffer(S)
      <4>1. \A k \in 2 .. l - m : m + k \in 1 .. l
        BY <2>1
      <4>2. \A k \in 1 .. l - m : k = 1 \/ k \in 2 .. l - m
        OBVIOUS
      <4> QED
        BY <1>3, <2>5, <2>6, <4>1, <4>2
    <3>2. d = [k \in 1 .. l - m |-> d[k]]
      BY <2>3
    <3>3. d \in [1 .. l - m -> Buffer(S)]
      BY <3>1, <3>2
    <3>4. PICK c \in Nat : c = l - m
      BY <2>1
    <3>5. d \in Seq(Buffer(S)) /\ Len(d) = c
      BY <3>3, <3>4
    <3> QED
      BY <3>4, <3>5
  <2> DEFINE z == [k \in 0 .. l - m |-> IF k = 0 THEN 0 ELSE off[m + k] - (off[m] + n)]
             t == SubSeq(u, off[m] + n + 1, Len(u))
  <2>8. off[m] \in Nat /\ off[m] + n <= off[m + 1] /\ off[m + 1] <= off[l] /\ off[m + 1] \in Nat
        /\ off[l] \in Nat
    <3>1. m + 1 \in 1 .. l /\ (m + 1) - 1 = m /\ m \in 0 .. l /\ m + 1 \in 0 .. l /\ l \in 0 .. l
      BY <1>1, <2>1
    <3>2. off[m + 1] = off[m] + Len(q[m + 1].bytes) /\ Len(q[m + 1].bytes) \in Nat
      BY <1>2, <1>3, <3>1
    <3>3. off[m] \in Nat /\ off[m + 1] \in Nat /\ off[l] \in Nat
      BY <1>2, <3>1
    <3>4. off[m + 1] <= off[l]
      BY <1>2, <3>1
    <3> QED
      BY <2>1, <3>2, <3>3, <3>4
  <2>9. PICK g \in Nat : g = off[m] + n
    BY <2>8
  <2>10. PICK e \in Nat, r \in Nat : e = off[l] /\ r = off[m + 1] /\ g <= r /\ r <= e
    BY <2>8, <2>9
  <2>11. /\ t \in Seq(S) /\ Len(t) = e - g
         /\ \A i \in 1 .. e - g : t[i] = u[g + i]
    <3>0. Len(u) = e /\ Len(u) \in Nat
      BY <1>2, <2>10
    <3>1. g <= e /\ e = Len(u) /\ e <= Len(u)
      BY <3>0, <2>10
    <3>2. /\ SubSeq(u, g + 1, e) \in Seq(S) /\ Len(SubSeq(u, g + 1, e)) = e - g
          /\ \A i \in 1 .. e - g : SubSeq(u, g + 1, e)[i] = u[g + i]
      BY <3>1, BehindIs
    <3> QED
      BY <2>9, <3>1, <3>2
  <2>12. z \in [0 .. l - m -> Nat] /\ z[0] = 0 /\ \A k \in 1 .. l - m : z[k] = off[m + k] - g
    <3>1. ASSUME NEW k \in 1 .. l - m
          PROVE  off[m + k] - g \in Nat
      <4>1. m + k \in 0 .. l /\ m + 1 \in 0 .. m + k
        BY <2>1
      <4>2. PICK v \in Nat : v = off[m + k]
        BY <1>2, <4>1
      <4>3. r <= v
        BY <1>2, <2>10, <4>1, <4>2
      <4>4. v - g \in Nat
        BY <2>10, <4>3
      <4> QED
        BY <4>2, <4>4
    <3>2. \A k \in 0 .. l - m : k # 0 => k \in 1 .. l - m
      OBVIOUS
    <3>3. z = [k \in 0 .. l - m |-> IF k = 0 THEN 0 ELSE off[m + k] - g]
      BY <2>9
    <3> HIDE DEF z
    <3>4. \A k \in 1 .. l - m : z[k] = off[m + k] - g
      BY <3>3
    <3>5. z[0] = 0
      BY <2>1, <3>3
    <3> QED
      BY <3>1, <3>2, <3>3, <3>4, <3>5
  <2> HIDE DEF t, z
  <2>13. Len(BytesOf(d)) = l - m /\ BytesOf(d)[1] = x
         /\ \A k \in 2 .. l - m : BytesOf(d)[k] = q[m + k].bytes
    <3>1. Len(BytesOf(d)) = l - m /\ \A k \in 1 .. l - m : BytesOf(d)[k] = d[k].bytes
      BY <2>7, BytesAre
    <3>2. 1 \in 1 .. l - m /\ \A k \in 2 .. l - m : k \in 1 .. l - m
      BY <2>1
    <3> QED
      BY <2>5, <2>6, <3>1, <3>2
  <2>14. ASSUME NEW k \in 1 .. l - m
         PROVE  /\ z[k] = z[k - 1] + Len(BytesOf(d)[k])
                /\ \A j \in 1 .. Len(BytesOf(d)[k]) : t[z[k - 1] + j] = BytesOf(d)[k][j]
    <3>1. m + k \in 1 .. l /\ (m + k) - 1 \in 0 .. l /\ m + k \in 0 .. l /\ l \in 0 .. l
      BY <2>1
    <3>2. PICK c \in Nat, a \in Nat : c = Len(q[m + k].bytes) /\ a = off[(m + k) - 1]
      BY <1>2, <1>3, <3>1
    <3>3. off[m + k] = a + c
      BY <1>2, <3>1, <3>2
    <3>4. a + c <= e
      BY <1>2, <2>10, <3>1, <3>3
    <3>5. \A j \in 1 .. c : u[a + j] = q[m + k].bytes[j]
      BY <1>2, <3>1, <3>2
    <3>6. z[k] = (a + c) - g
      BY <2>12, <3>3
    <3>7. CASE k = 1
      <4>1. k - 1 = 0 /\ (m + k) - 1 = m /\ m + k = m + 1
        BY <3>7
      <4>2. a + n = g /\ n <= c
        BY <2>1, <2>9, <3>2, <4>1
      <4>3. Len(x) = c - n /\ \A i \in 1 .. c - n : x[i] = q[m + k].bytes[n + i]
        BY <2>2, <3>2, <4>1
      <4>4. z[k - 1] = 0 /\ BytesOf(d)[k] = x
        BY <2>12, <2>13, <3>7, <4>1
      <4>5. (a + c) - g = 0 + (c - n)
        BY <4>2
      <4>6. ASSUME NEW j \in 1 .. c - n
            PROVE  t[0 + j] = x[j]
        <5>1. j \in 1 .. e - g /\ g + j = a + (n + j) /\ n + j \in 1 .. c /\ 0 + j = j
          BY <3>4, <4>2
        <5>2. t[j] = u[g + j]
          BY <2>11, <5>1
        <5> QED
          BY <3>5, <4>3, <5>1, <5>2
      <4> QED
        BY <3>6, <4>3, <4>4, <4>5, <4>6
    <3>8. CASE k # 1
      <4>1. k \in 2 .. l - m /\ k - 1 \in 1 .. l - m /\ m + (k - 1) = (m + k) - 1
            /\ m + 1 \in 0 .. (m + k) - 1
        BY <3>8
      <4>2. BytesOf(d)[k] = q[m + k].bytes
        BY <2>13, <4>1
      <4>3. g <= a
        <5>1. r <= a
          BY <1>2, <2>10, <3>1, <3>2, <4>1
        <5> QED
          BY <2>10, <5>1
      <4>4. z[k - 1] = a - g
        BY <2>12, <3>2, <4>1
      <4>5. (a + c) - g = (a - g) + c
        BY <4>3
      <4>6. ASSUME NEW j \in 1 .. c
            PROVE  t[(a - g) + j] = q[m + k].bytes[j]
        <5>1. (a - g) + j \in 1 .. e - g /\ g + ((a - g) + j) = a + j
          BY <3>4, <4>3
        <5>2. t[(a - g) + j] = u[g + ((a - g) + j)]
          BY <2>11, <5>1
        <5> QED
          BY <3>5, <5>1, <5>2
      <4> QED
        BY <3>2, <3>6, <4>2, <4>4, <4>5, <4>6
    <3> QED
      BY <3>7, <3>8
  <2>15. Offsets(BytesOf(d), z)
    BY <2>12, <2>13, <2>14 DEF Offsets
  <2>16. Laid(t, BytesOf(d), z)
    <3>1. l - m \in 1 .. l - m /\ m + (l - m) = l
      BY <1>1, <2>1
    <3>2. Len(t) = z[l - m]
      BY <2>10, <2>11, <2>12, <3>1
    <3> QED
      BY <2>13, <2>14, <3>2 DEF Laid
  <2>17. Unread(d) = t
    BY <2>7, <2>11, <2>15, <2>16, UnreadIs
  <2>18. q # <<>> /\ Last(d).used = Last(q).used
    <3>1. Last(d) = d[l - m] /\ Last(q) = q[l] /\ q # <<>>
      BY <1>1, <2>1, <2>7 DEF Last
    <3>2. CASE l - m = 1
      <4>1. m + 1 = l
        BY <1>1, <3>2
      <4> QED
        BY <2>5, <2>6, <3>1, <3>2, <4>1
    <3>3. CASE l - m # 1
      <4>1. l - m \in 2 .. l - m /\ m + (l - m) = l
        BY <2>1, <3>3
      <4>2. d[l - m] = q[m + (l - m)]
        BY <2>6, <4>1
      <4>3. d[l - m] = q[l]
        BY <4>1, <4>2
      <4> QED
        BY <3>1, <4>3
    <3> QED
      BY <3>2, <3>3
  <2> QED
    BY <1>1, <1>4, <2>7, <2>17, <2>18 DEF t
<1> QED
  BY <1>1, <1>5, <1>6

\* tgln_read_in: what is read is gone from the queue, which ends as before.
LEMMA ReadInIs ==
  ASSUME NEW S, NEW q \in Seq(Buffer(S)), NEW n \in Nat, n <= Len(Unread(q))
  PROVE  /\ ReadIn(q, n) \in Seq(Buffer(S))
         /\ Unread(ReadIn(q, n)) = SubSeq(Unread(q), n + 1, Len(Unread(q)))
         /\ ReadIn(q, n) # <<>> => q # <<>> /\ Last(ReadIn(q, n)).used = Last(q).used
<1>l. PICK l \in Nat, u \in Seq(S) : l = Len(q) /\ u = Unread(q)
  BY UnreadAre
<1>o. PICK off : off = Sum(q)
  OBVIOUS
<1>1. l = Len(q) /\ off = Sum(q) /\ u = Unread(q)
  BY <1>l, <1>o
<1>2. /\ off \in [0 .. l -> Nat] /\ off[0] = 0 /\ Len(u) = off[l]
      /\ \A k \in 1 .. l : off[k] = off[k - 1] + Len(q[k].bytes)
      /\ \A i \in 0 .. l : \A j \in 0 .. i : off[j] <= off[i]
  BY <1>1, UnreadAre
<1> DEFINE A == {k \in DOMAIN q : Sum(q)[k - 1] < n /\ Sum(q)[k] <= n}
<1>3. A \in SUBSET (1 .. l) /\ \A k \in 1 .. l : k \in A <=> off[k - 1] < n /\ off[k] <= n
  BY <1>1
<1>4. ASSUME NEW k \in A, NEW j \in 1 .. k
      PROVE  j \in A
  <2>1. k \in 1 .. l /\ j \in 1 .. l /\ k - 1 \in 0 .. l /\ j - 1 \in 0 .. k - 1 /\ j \in 0 .. k
        /\ k \in 0 .. l /\ j \in 0 .. l /\ j - 1 \in 0 .. l
    BY <1>3
  <2>2. off[j - 1] <= off[k - 1] /\ off[j] <= off[k]
    BY <1>2, <2>1
  <2>3. PICK a \in Nat, b \in Nat, c \in Nat, d \in Nat :
          a = off[j - 1] /\ b = off[k - 1] /\ c = off[j] /\ d = off[k]
    BY <1>2, <2>1
  <2>4. a < n /\ c <= n
    <3>1. a <= b /\ c <= d
      BY <2>2, <2>3
    <3>2. b < n /\ d <= n
      BY <1>3, <2>1, <2>3
    <3> QED
      BY <3>1, <3>2
  <2> QED
    BY <1>3, <2>1, <2>3, <2>4
<1> HIDE DEF A
<1>5. PICK m \in 0 .. l : A = 1 .. m /\ Cardinality(A) = m
  BY <1>3, <1>4, Beginning
<1>6. PICK e \in Nat : e = off[m]
  BY <1>2
<1>7. e <= n
  <2>1. CASE m = 0
    BY <1>2, <1>6, <2>1
  <2>2. CASE m # 0
    <3>1. m \in 1 .. l /\ m \in A
      BY <1>5, <2>2
    <3> QED
      BY <1>3, <1>6, <3>1
  <2> QED
    BY <2>1, <2>2
<1>8. IF m = Len(q) THEN n - e = 0 ELSE n - e <= Len(q[m + 1].bytes)
  <2>1. CASE m = l
    <3>1. n <= e
      BY <1>1, <1>2, <1>6, <2>1
    <3> QED
      BY <1>1, <1>7, <2>1, <3>1
  <2>2. CASE m # l
    <3>1. m + 1 \in 1 .. l /\ m + 1 \notin A /\ (m + 1) - 1 = m
      BY <1>5, <2>2
    <3>2. PICK c \in Nat, d \in Nat : c = Len(q[m + 1].bytes) /\ d = off[m + 1]
      <4>1. q[m + 1] \in Buffer(S)
        BY <1>1, <3>1
      <4>2. Len(q[m + 1].bytes) \in Nat
        BY <4>1, BufferType
      <4>3. off[m + 1] \in Nat
        BY <1>2, <3>1
      <4> QED
        BY <4>2, <4>3
    <3>3. d = e + c
      BY <1>2, <1>6, <3>1, <3>2
    <3>4. ~(e < n /\ d <= n)
      BY <1>3, <1>6, <3>1, <3>2
    <3>5. n - e <= c
      BY <1>7, <3>3, <3>4
    <3> QED
      BY <1>1, <2>2, <3>2, <3>5
  <2> QED
    BY <2>1, <2>2
<1>9. PICK x \in Nat : x = n - e
  BY <1>7
<1>10. ReadIn(q, n) = Dropped(q, m, x)
  BY <1>1, <1>5, <1>6, <1>9 DEF ReadIn, A
<1>11. m \in 0 .. Len(q) /\ IF m = Len(q) THEN x = 0 ELSE x <= Len(q[m + 1].bytes)
  BY <1>1, <1>8, <1>9
<1>12. /\ Dropped(q, m, x) \in Seq(Buffer(S))
       /\ Unread(Dropped(q, m, x)) = SubSeq(Unread(q), Sum(q)[m] + x + 1, Len(Unread(q)))
       /\ Dropped(q, m, x) # <<>> => q # <<>> /\ Last(Dropped(q, m, x)).used = Last(q).used
  BY <1>11, DroppedIs
<1>13. Sum(q)[m] + x + 1 = n + 1
  <2>1. e + x + 1 = n + 1
    BY <1>9
  <2> QED
    BY <1>1, <1>6, <2>1
<1> QED
  BY <1>10, <1>12, <1>13

\* The loop of try_write: what was sent is gone from the queue.
LEMMA SentIs ==
  ASSUME NEW S, NEW q \in Seq(Buffer(S)), NEW n \in Nat, n <= Len(Unread(q))
  PROVE  /\ Sent(q, n) \in Seq(Buffer(S))
         /\ Unread(Sent(q, n)) = SubSeq(Unread(q), n + 1, Len(Unread(q)))
<1>l. PICK l \in Nat, u \in Seq(S) : l = Len(q) /\ u = Unread(q)
  BY UnreadAre
<1>o. PICK off : off = Sum(q)
  OBVIOUS
<1>1. l = Len(q) /\ off = Sum(q) /\ u = Unread(q)
  BY <1>l, <1>o
<1>2. /\ off \in [0 .. l -> Nat] /\ off[0] = 0 /\ Len(u) = off[l]
      /\ \A k \in 1 .. l : off[k] = off[k - 1] + Len(q[k].bytes)
      /\ \A i \in 0 .. l : \A j \in 0 .. i : off[j] <= off[i]
  BY <1>1, UnreadAre
<1> DEFINE A == {k \in DOMAIN q : Sum(q)[k] <= n}
<1>3. A \in SUBSET (1 .. l) /\ \A k \in 1 .. l : k \in A <=> off[k] <= n
  BY <1>1
<1>4. ASSUME NEW k \in A, NEW j \in 1 .. k
      PROVE  j \in A
  <2>1. k \in 1 .. l /\ j \in 1 .. l /\ j \in 0 .. k /\ k \in 0 .. l /\ j \in 0 .. l
    BY <1>3
  <2>2. off[j] <= off[k]
    BY <1>2, <2>1
  <2>3. PICK c \in Nat, d \in Nat : c = off[j] /\ d = off[k]
    BY <1>2, <2>1
  <2>4. c <= n
    BY <1>3, <2>1, <2>2, <2>3
  <2> QED
    BY <1>3, <2>1, <2>3, <2>4
<1> HIDE DEF A
<1>5. PICK m \in 0 .. l : A = 1 .. m /\ Cardinality(A) = m
  BY <1>3, <1>4, Beginning
<1>6. PICK e \in Nat : e = off[m]
  BY <1>2
<1>7. e <= n
  <2>1. CASE m = 0
    BY <1>2, <1>6, <2>1
  <2>2. CASE m # 0
    <3>1. m \in 1 .. l /\ m \in A
      BY <1>5, <2>2
    <3> QED
      BY <1>3, <1>6, <3>1
  <2> QED
    BY <2>1, <2>2
<1>8. IF m = Len(q) THEN n - e = 0 ELSE n - e <= Len(q[m + 1].bytes)
  <2>1. CASE m = l
    <3>1. n <= e
      BY <1>1, <1>2, <1>6, <2>1
    <3> QED
      BY <1>1, <1>7, <2>1, <3>1
  <2>2. CASE m # l
    <3>1. m + 1 \in 1 .. l /\ m + 1 \notin A /\ (m + 1) - 1 = m
      BY <1>5, <2>2
    <3>2. PICK c \in Nat, d \in Nat : c = Len(q[m + 1].bytes) /\ d = off[m + 1]
      <4>1. q[m + 1] \in Buffer(S)
        BY <1>1, <3>1
      <4>2. Len(q[m + 1].bytes) \in Nat
        BY <4>1, BufferType
      <4>3. off[m + 1] \in Nat
        BY <1>2, <3>1
      <4> QED
        BY <4>2, <4>3
    <3>3. d = e + c
      BY <1>2, <1>6, <3>1, <3>2
    <3>4. ~(d <= n)
      BY <1>3, <3>1, <3>2
    <3>5. n - e <= c
      BY <3>3, <3>4
    <3> QED
      BY <1>1, <2>2, <3>2, <3>5
  <2> QED
    BY <2>1, <2>2
<1>9. PICK x \in Nat : x = n - e
  BY <1>7
<1>10. Sent(q, n) = Dropped(q, m, x)
  BY <1>1, <1>5, <1>6, <1>9 DEF Sent, A
<1>11. m \in 0 .. Len(q) /\ IF m = Len(q) THEN x = 0 ELSE x <= Len(q[m + 1].bytes)
  BY <1>1, <1>8, <1>9
<1>12. /\ Dropped(q, m, x) \in Seq(Buffer(S))
       /\ Unread(Dropped(q, m, x)) = SubSeq(Unread(q), Sum(q)[m] + x + 1, Len(Unread(q)))
  BY <1>11, DroppedIs
<1>13. Sum(q)[m] + x + 1 = n + 1
  <2>1. e + x + 1 = n + 1
    BY <1>9
  <2> QED
    BY <1>1, <1>6, <2>1
<1> QED
  BY <1>10, <1>12, <1>13

\* tgln_read_in_lookup, of what there is.
LEMMA LookupIs ==
  ASSUME NEW S, NEW q \in Seq(Buffer(S)), NEW n \in Nat, n <= Len(Unread(q))
  PROVE  Lookup(q, n) = SubSeq(Unread(q), 1, n)
<1>1. Len(Unread(q)) \in Nat
  <2>1. Unread(q) \in Seq(S)
    BY UnreadAre
  <2> QED
    BY <2>1
<1> QED
  BY <1>1 DEF Lookup

------------------------------------------------------------------------------
(* Sequences of sequences, one behind another *)

LEMMA OffsetsExist ==
  ASSUME NEW S, NEW q \in Seq(Seq(S))
  PROVE  \E off : Offsets(q, off)
<1>1. PICK n \in Nat : n = Len(q)
  OBVIOUS
<1>2. \A k \in 1 .. n : q[k] \in Seq(S) /\ Len(q[k]) \in Nat
  <2>1. \A k \in 1 .. n : q[k] \in Seq(S)
    BY <1>1
  <2> QED
    BY <2>1
<1> DEFINE D == [k \in 0 .. n - 1 |-> [x \in Nat |-> x + Len(q[k + 1])]]
<1>3. \A k \in 0 .. n - 1 : \A x \in Nat : D[k][x] = x + Len(q[k + 1])
  OBVIOUS
<1> HIDE DEF D
<1>4. StaysIn(D, n, Nat)
  <2>1. ASSUME NEW k \in 0 .. n - 1, NEW x \in Nat
        PROVE  D[k][x] \in Nat
    <3>1. k + 1 \in 1 .. n
      OBVIOUS
    <3>2. Len(q[k + 1]) \in Nat /\ D[k][x] = x + Len(q[k + 1])
      BY <1>2, <1>3, <3>1
    <3> QED
      BY <3>2
  <2> QED
    BY <2>1 DEF StaysIn
<1>5. PICK g : Recurs(g, n, Nat, 0, D)
  BY <1>4, Recursion
<1>6. /\ g \in [0 .. n -> Nat] /\ g[0] = 0
      /\ \A k \in 0 .. n - 1 : g[k + 1] = D[k][g[k]]
  BY <1>5 DEF Recurs
<1>7. ASSUME NEW k \in 1 .. n
      PROVE  g[k] = g[k - 1] + Len(q[k])
  <2>1. k - 1 \in 0 .. n - 1 /\ (k - 1) + 1 = k /\ k - 1 \in 0 .. n
    OBVIOUS
  <2>2. g[k - 1] \in Nat
    BY <1>6, <2>1
  <2> QED
    BY <1>3, <1>6, <2>1, <2>2
<1>8. Offsets(q, g)
  BY <1>1, <1>6, <1>7 DEF Offsets
<1> QED
  BY <1>8

\* Two of them, one behind the other.
LEMMA FlattenJoin ==
  ASSUME NEW S, NEW a \in Seq(Seq(S)), NEW b \in Seq(Seq(S))
  PROVE  /\ FlattenSeq(a) \in Seq(S) /\ FlattenSeq(b) \in Seq(S)
         /\ FlattenSeq(a \o b) = FlattenSeq(a) \o FlattenSeq(b)
<1>1. PICK la \in Nat, lb \in Nat : la = Len(a) /\ lb = Len(b)
  OBVIOUS
<1>2. PICK f : Offsets(a, f)
  BY OffsetsExist
<1>3. PICK g : Offsets(b, g)
  BY OffsetsExist
<1>4. PICK s \in Seq(S) : s = FlattenSeq(a) /\ Laid(s, a, f)
  BY <1>2, FlattenLaid
<1>5. PICK t \in Seq(S) : t = FlattenSeq(b) /\ Laid(t, b, g)
  BY <1>3, FlattenLaid
<1>6. /\ f \in [0 .. la -> Nat] /\ f[0] = 0
      /\ \A k \in 1 .. la : f[k] = f[k - 1] + Len(a[k])
  BY <1>1, <1>2 DEF Offsets
<1>7. /\ g \in [0 .. lb -> Nat] /\ g[0] = 0
      /\ \A k \in 1 .. lb : g[k] = g[k - 1] + Len(b[k])
  BY <1>1, <1>3 DEF Offsets
<1>8. PICK ns \in Nat, nt \in Nat : ns = f[la] /\ nt = g[lb]
  BY <1>6, <1>7
<1>9. Len(s) = ns /\ \A k \in 1 .. la : \A j \in 1 .. Len(a[k]) : s[f[k - 1] + j] = a[k][j]
  BY <1>1, <1>4, <1>8 DEF Laid
<1>10. Len(t) = nt /\ \A k \in 1 .. lb : \A j \in 1 .. Len(b[k]) : t[g[k - 1] + j] = b[k][j]
  BY <1>1, <1>5, <1>8 DEF Laid
<1>11. PICK c \in Seq(Seq(S)) : c = a \o b /\ Joins(c, a, b)
  BY Concat
<1>12. PICK u \in Seq(S) : u = s \o t /\ Joins(u, s, t)
  BY Concat
<1>13. /\ Len(c) = la + lb
       /\ \A k \in 1 .. la : c[k] = a[k]
       /\ \A k \in 1 .. lb : c[la + k] = b[k]
  BY <1>1, <1>11 DEF Joins
<1>14. /\ Len(u) = ns + nt
       /\ \A p \in 1 .. ns : u[p] = s[p]
       /\ \A p \in 1 .. nt : u[ns + p] = t[p]
  BY <1>9, <1>10, <1>12 DEF Joins
<1> DEFINE h == [k \in 0 .. la + lb |-> IF k <= la THEN f[k] ELSE ns + g[k - la]]
<1>15. /\ \A k \in 0 .. la : h[k] = f[k]
       /\ \A k \in 0 .. lb : h[la + k] = ns + g[k]
  <2>1. ASSUME NEW k \in 0 .. lb
        PROVE  h[la + k] = ns + g[k]
    <3>1. CASE k = 0
      BY <1>7, <1>8, <3>1
    <3>2. CASE k # 0
      <4>1. la + k \in 0 .. la + lb /\ ~(la + k <= la) /\ (la + k) - la = k
        BY <3>2
      <4> QED
        BY <4>1
    <3> QED
      BY <3>1, <3>2
  <2>2. \A k \in 0 .. la : k \in 0 .. la + lb /\ k <= la
    OBVIOUS
  <2>3. \A k \in 0 .. la : h[k] = f[k]
    BY <2>2
  <2> HIDE DEF h
  <2> QED
    BY <2>1, <2>3
<1>16. h \in [0 .. la + lb -> Nat]
  <2>1. \A k \in 0 .. la + lb : k <= la \/ k - la \in 0 .. lb
    OBVIOUS
  <2> QED
    BY <1>6, <1>7, <2>1
<1> HIDE DEF h
<1>17. ASSUME NEW k \in 1 .. la
       PROVE  /\ h[k] = h[k - 1] + Len(c[k])
              /\ \A j \in 1 .. Len(c[k]) : u[h[k - 1] + j] = c[k][j]
  <2>1. k \in 0 .. la /\ k - 1 \in 0 .. la
    OBVIOUS
  <2>2. a[k] \in Seq(S)
    BY <1>1
  <2>3. PICK x \in Nat, y \in Nat, z \in Nat : x = f[k - 1] /\ y = Len(a[k]) /\ z = f[k]
    <3>1. f[k - 1] \in Nat /\ f[k] \in Nat
      BY <1>6, <2>1
    <3>2. Len(a[k]) \in Nat
      BY <2>2
    <3> QED
      BY <3>1, <3>2
  <2>4. z = x + y /\ h[k] = z /\ h[k - 1] = x /\ c[k] = a[k]
    BY <1>6, <1>13, <1>15, <2>1, <2>3
  <2>5. z <= ns
    <3>1. la \in 0 .. Len(a) /\ k \in 0 .. la
      BY <1>1
    <3> QED
      BY <1>2, <1>8, <2>3, <3>1, OffsetsGrow
  <2>6. ASSUME NEW j \in 1 .. y
        PROVE  u[x + j] = a[k][j]
    <3>1. x + j \in 1 .. ns
      BY <2>4, <2>5
    <3> QED
      BY <1>9, <1>14, <2>3, <3>1
  <2> QED
    BY <2>3, <2>4, <2>6
<1>18. ASSUME NEW i \in 1 .. lb
       PROVE  /\ h[la + i] = h[(la + i) - 1] + Len(c[la + i])
              /\ \A j \in 1 .. Len(c[la + i]) : u[h[(la + i) - 1] + j] = c[la + i][j]
  <2>1. i \in 0 .. lb /\ i - 1 \in 0 .. lb /\ (la + i) - 1 = la + (i - 1)
    OBVIOUS
  <2>2. b[i] \in Seq(S)
    BY <1>1
  <2>3. PICK x \in Nat, y \in Nat, z \in Nat : x = g[i - 1] /\ y = Len(b[i]) /\ z = g[i]
    <3>1. g[i - 1] \in Nat /\ g[i] \in Nat
      BY <1>7, <2>1
    <3>2. Len(b[i]) \in Nat
      BY <2>2
    <3> QED
      BY <3>1, <3>2
  <2>4. z = x + y /\ h[la + i] = ns + z /\ h[(la + i) - 1] = ns + x /\ c[la + i] = b[i]
    BY <1>7, <1>13, <1>15, <2>1, <2>3
  <2>5. z <= nt
    <3>1. lb \in 0 .. Len(b) /\ i \in 0 .. lb
      BY <1>1
    <3> QED
      BY <1>3, <1>8, <2>3, <3>1, OffsetsGrow
  <2>6. ASSUME NEW j \in 1 .. y
        PROVE  u[(ns + x) + j] = b[i][j]
    <3>0. z = x + y /\ z <= nt
      BY <2>4, <2>5
    <3>1. x + j \in 1 .. nt /\ (ns + x) + j = ns + (x + j)
      BY <3>0
    <3>2. u[ns + (x + j)] = t[x + j]
      BY <1>14, <3>1
    <3> QED
      BY <1>10, <2>3, <3>1, <3>2
  <2>7. ns + z = (ns + x) + y
    BY <2>4
  <2> QED
    BY <2>3, <2>4, <2>6, <2>7
<1>19. ASSUME NEW k \in 1 .. la + lb
       PROVE  /\ h[k] = h[k - 1] + Len(c[k])
              /\ \A j \in 1 .. Len(c[k]) : u[h[k - 1] + j] = c[k][j]
  <2>1. CASE k <= la
    <3>1. k \in 1 .. la
      BY <2>1
    <3> QED
      BY <1>17, <3>1
  <2>2. CASE ~(k <= la)
    <3>1. PICK i \in 1 .. lb : k = la + i
      <4>1. k - la \in 1 .. lb /\ k = la + (k - la)
        BY <2>2
      <4> QED
        BY <4>1
    <3> QED
      BY <1>18, <3>1
  <2> QED
    BY <2>1, <2>2
<1>20. Offsets(c, h)
  <2>1. h[0] = 0
    BY <1>6, <1>15
  <2> QED
    BY <1>13, <1>16, <1>19, <2>1 DEF Offsets
<1>21. Laid(u, c, h)
  <2>1. Len(u) = h[la + lb]
    <3>1. lb \in 0 .. lb
      OBVIOUS
    <3> QED
      BY <1>8, <1>14, <1>15, <3>1
  <2> QED
    BY <1>13, <1>19, <2>1 DEF Laid
<1>22. FlattenSeq(c) = u
  BY <1>20, <1>21, FlattenIs
<1> QED
  BY <1>4, <1>5, <1>11, <1>12, <1>22

LEMMA FlattenOne ==
  ASSUME NEW S, NEW a \in Seq(S)
  PROVE  FlattenSeq(<<a>>) = a
<1> DEFINE q == <<a>>
<1>1. q \in Seq(Seq(S)) /\ Len(q) = 1 /\ q[1] = a /\ q # <<>>
  OBVIOUS
<1> HIDE DEF q
<1>2. PICK f : Flattens(f, q)
  BY <1>1, FlattenRecurs
<1> QED
  BY <1>1, <1>2 DEF Flattens, q

------------------------------------------------------------------------------
(* Writing to a queue *)

LEMMA BytesJoin ==
  ASSUME NEW S, NEW q \in Seq(Buffer(S)), NEW r \in Seq(Buffer(S))
  PROVE  BytesOf(q \o r) = BytesOf(q) \o BytesOf(r)
<1>1. PICK m \in Nat, n \in Nat : m = Len(q) /\ n = Len(r)
  OBVIOUS
<1>2. PICK c \in Seq(Buffer(S)) : c = q \o r /\ Joins(c, q, r)
  BY Concat
<1>3. PICK x \in Seq(Seq(S)), y \in Seq(Seq(S)) :
        /\ x = BytesOf(q) /\ Len(x) = m /\ (\A k \in 1 .. m : x[k] = q[k].bytes)
        /\ y = BytesOf(r) /\ Len(y) = n /\ (\A k \in 1 .. n : y[k] = r[k].bytes)
  <2>1. PICK x \in Seq(Seq(S)) :
          x = BytesOf(q) /\ Len(x) = m /\ (\A k \in 1 .. m : x[k] = q[k].bytes)
    BY <1>1, BytesAre
  <2>2. PICK y \in Seq(Seq(S)) :
          y = BytesOf(r) /\ Len(y) = n /\ (\A k \in 1 .. n : y[k] = r[k].bytes)
    BY <1>1, BytesAre
  <2> QED
    BY <2>1, <2>2
<1>4. PICK z \in Seq(Seq(S)) : z = x \o y /\ Joins(z, x, y)
  BY Concat
<1>5. /\ Len(c) = m + n
      /\ (\A p \in 1 .. m : c[p] = q[p]) /\ (\A p \in 1 .. n : c[m + p] = r[p])
  BY <1>1, <1>2 DEF Joins
<1>6. /\ Len(z) = m + n
      /\ (\A p \in 1 .. m : z[p] = x[p]) /\ (\A p \in 1 .. n : z[m + p] = y[p])
  BY <1>3, <1>4 DEF Joins
<1>7. PICK w \in Seq(Seq(S)) :
        w = BytesOf(c) /\ Len(w) = Len(c) /\ \A k \in 1 .. Len(c) : w[k] = c[k].bytes
  BY BytesAre
<1>8. Len(w) = m + n /\ \A k \in 1 .. m + n : w[k] = c[k].bytes
  BY <1>5, <1>7
<1>9. ASSUME NEW k \in 1 .. m + n
      PROVE  w[k] = z[k]
  <2>1. CASE k <= m
    <3>1. k \in 1 .. m
      BY <2>1
    <3>2. x[k] = q[k].bytes
      BY <1>3, <3>1
    <3>3. c[k] = q[k] /\ z[k] = x[k]
      BY <1>5, <1>6, <3>1
    <3>4. w[k] = c[k].bytes
      BY <1>8
    <3> QED
      BY <3>2, <3>3, <3>4
  <2>2. CASE ~(k <= m)
    <3>1. PICK p \in 1 .. n : k = m + p
      <4>1. k - m \in 1 .. n /\ k = m + (k - m)
        BY <2>2
      <4> QED
        BY <4>1
    <3>2. y[p] = r[p].bytes
      BY <1>3
    <3>3. c[m + p] = r[p] /\ z[m + p] = y[p]
      BY <1>5, <1>6
    <3>4. w[k] = c[k].bytes
      BY <1>8
    <3> QED
      BY <3>1, <3>2, <3>3, <3>4
  <2> QED
    BY <2>1, <2>2
<1>10. w = z
  <2>1. PICK k \in Nat : k = m + n
    OBVIOUS
  <2>2. Len(w) = k /\ Len(z) = k /\ \A p \in 1 .. k : w[p] = z[p]
    BY <1>6, <1>8, <1>9, <2>1
  <2> QED
    BY <2>2, SeqEqual
<1> QED
  BY <1>2, <1>3, <1>4, <1>7, <1>10

LEMMA UnreadJoin ==
  ASSUME NEW S, NEW q \in Seq(Buffer(S)), NEW r \in Seq(Buffer(S))
  PROVE  q \o r \in Seq(Buffer(S)) /\ Unread(q \o r) = Unread(q) \o Unread(r)
<1>1. BytesOf(q) \in Seq(Seq(S)) /\ BytesOf(r) \in Seq(Seq(S))
  BY BytesAre
<1>2. FlattenSeq(BytesOf(q) \o BytesOf(r)) = FlattenSeq(BytesOf(q)) \o FlattenSeq(BytesOf(r))
  BY <1>1, FlattenJoin
<1>3. FlattenSeq(BytesOf(q \o r)) = FlattenSeq(BytesOf(q)) \o FlattenSeq(BytesOf(r))
  BY <1>2, BytesJoin
<1>4. q \o r \in Seq(Buffer(S))
  BY Concat
<1> QED
  BY <1>3, <1>4 DEF Unread, BytesOf

LEMMA UnreadOne ==
  ASSUME NEW S, NEW b \in Buffer(S)
  PROVE  <<b>> \in Seq(Buffer(S)) /\ Unread(<<b>>) = b.bytes
<1> DEFINE q == <<b>>
<1>1. q \in Seq(Buffer(S)) /\ Len(q) = 1 /\ q[1] = b
  OBVIOUS
<1>2. b.bytes \in Seq(S)
  BY BufferType
<1> HIDE DEF q
<1>3. BytesOf(q) = <<b.bytes>>
  <2>1. DOMAIN q = 1 .. 1
    BY <1>1
  <2>2. BytesOf(q) = [k \in 1 .. 1 |-> q[k].bytes]
    BY <2>1 DEF BytesOf
  <2>3. \A k \in 1 .. 1 : k = 1
    OBVIOUS
  <2>4. [k \in 1 .. 1 |-> q[k].bytes] = [k \in 1 .. 1 |-> b.bytes]
    BY <1>1, <2>3
  <2>5. <<b.bytes>> = [k \in 1 .. 1 |-> b.bytes]
    OBVIOUS
  <2> QED
    BY <2>2, <2>4, <2>5
<1>4. FlattenSeq(BytesOf(q)) = b.bytes
  BY <1>2, <1>3, FlattenOne
<1> QED
  BY <1>1, <1>4 DEF Unread, BytesOf, q

\* The tail of a queue, and what is before it.
HeadOf(q) == IF q = <<>> THEN <<Empty>> ELSE q

LEMMA TailIs ==
  ASSUME NEW S, NEW q \in Seq(Buffer(S)), q # <<>>
  PROVE  /\ Front(q) \in Seq(Buffer(S)) /\ Last(q) \in Buffer(S)
         /\ Room(Last(q)) \in 0 .. BufferSize
         /\ q = Front(q) \o <<Last(q)>>
<1>1. PICK n \in Nat : n = Len(q)
  OBVIOUS
<1>2. n # 0 /\ n - 1 \in Nat
  BY <1>1
<1>3. Last(q) = q[n] /\ q[n] \in Buffer(S)
  BY <1>1, <1>2 DEF Last
<1>4. /\ Front(q) \in Seq(Buffer(S)) /\ Len(Front(q)) = n - 1
      /\ \A i \in 1 .. n - 1 : Front(q)[i] = q[i]
  <2>1. Front(q) = SubSeq(q, 1, n - 1)
    BY <1>1 DEF Front
  <2>2. 1 \in Nat \ {0} /\ n - 1 <= Len(q) /\ 1 <= (n - 1) + 1 /\ (n - 1) + 1 - 1 = n - 1
    BY <1>1, <1>2
  <2>3. \A i \in 1 .. n - 1 : 1 + i - 1 = i
    OBVIOUS
  <2>4. /\ SubSeq(q, 1, n - 1) \in Seq(Buffer(S)) /\ Len(SubSeq(q, 1, n - 1)) = (n - 1) + 1 - 1
        /\ \A i \in 1 .. (n - 1) + 1 - 1 : SubSeq(q, 1, n - 1)[i] = q[1 + i - 1]
    BY <1>2, <2>2, PartIs
  <2> QED
    BY <2>1, <2>2, <2>3, <2>4
<1>5. Room(Last(q)) \in 0 .. BufferSize
  <2>1. BufferSize \in Nat
    BY SizesAssumption
  <2>2. q[n].used \in Nat /\ q[n].used <= BufferSize
    BY <1>3, BufferType
  <2> QED
    BY <1>3, <2>1, <2>2 DEF Room
<1>6. PICK f \in Seq(Buffer(S)), l \in Seq(Buffer(S)) :
        f = Front(q) /\ l = <<q[n]>> /\ Len(l) = 1 /\ l[1] = q[n] /\ Len(f) = n - 1
  <2>1. <<q[n]>> \in Seq(Buffer(S)) /\ Len(<<q[n]>>) = 1 /\ <<q[n]>>[1] = q[n]
    BY <1>3
  <2>2. Front(q) \in Seq(Buffer(S)) /\ Len(Front(q)) = n - 1
    BY <1>4
  <2> QED
    BY <2>1, <2>2
<1>7. PICK c \in Seq(Buffer(S)) : c = f \o l /\ Joins(c, f, l)
  BY Concat
<1>8. PICK m \in Nat : m = n - 1 /\ m + 1 = n
  BY <1>2
<1>9. Len(c) = n /\ (\A p \in 1 .. m : c[p] = f[p]) /\ c[n] = q[n]
  <2>1. Len(c) = m + 1 /\ (\A p \in 1 .. m : c[p] = f[p]) /\ \A p \in 1 .. 1 : c[m + p] = l[p]
    BY <1>6, <1>7, <1>8 DEF Joins
  <2>2. 1 \in 1 .. 1
    OBVIOUS
  <2> QED
    BY <1>6, <1>8, <2>1, <2>2
<1>10. \A p \in 1 .. n : c[p] = q[p]
  <2>1. \A p \in 1 .. n : p = n \/ p \in 1 .. m
    BY <1>8
  <2> QED
    BY <1>4, <1>6, <1>8, <1>9, <2>1
<1>11. c = q
  BY <1>1, <1>9, <1>10, SeqEqual
<1> QED
  BY <1>3, <1>4, <1>5, <1>6, <1>7, <1>11

\* The first step of both loops: there is a tail.
LEMMA HeadIs ==
  ASSUME NEW S, NEW q \in Seq(Buffer(S))
  PROVE  /\ HeadOf(q) \in Seq(Buffer(S)) /\ HeadOf(q) # <<>>
         /\ Unread(HeadOf(q)) = Unread(q)
         /\ (q # <<>> => Room(Last(q)) > 0) => Room(Last(HeadOf(q))) > 0
<1>1. CASE q # <<>>
  BY <1>1 DEF HeadOf
<1>2. CASE q = <<>>
  <2>1. BufferSize \in Nat \ {0}
    BY SizesAssumption
  <2>2. Empty \in Buffer(S) /\ Empty.bytes = <<>> /\ Empty.used = 0
    BY <2>1 DEF Empty, Buffer
  <2>3. HeadOf(q) = <<Empty>>
    BY <1>2 DEF HeadOf
  <2>4. Unread(<<Empty>>) = <<>> /\ <<Empty>> \in Seq(Buffer(S))
    BY <2>2, UnreadOne
  <2>5. Last(<<Empty>>) = Empty /\ <<Empty>> # <<>>
    BY DEF Last
  <2>6. Room(Empty) > 0
    BY <2>1, <2>2 DEF Room
  <2> QED
    BY <1>2, <2>3, <2>4, <2>5, <2>6, UnreadEmpty
<1> QED
  BY <1>1, <1>2

\* Bytes put into the room of the tail.
TailWith(q, x) == Front(q) \o <<Extended(Last(q), x)>>

Fits(q, x) == Len(x) <= Room(Last(q))

LEMMA ExtendedIs ==
  ASSUME NEW S, NEW q \in Seq(Buffer(S)), q # <<>>, NEW x \in Seq(S), Fits(q, x)
  PROVE  /\ TailWith(q, x) \in Seq(Buffer(S)) /\ TailWith(q, x) # <<>>
         /\ Unread(TailWith(q, x)) = Unread(q) \o x
         /\ Room(Last(TailWith(q, x))) = Room(Last(q)) - Len(x)
<1> DEFINE r == TailWith(q, x)
<1>1. PICK f \in Seq(Buffer(S)), b \in Buffer(S) :
        f = Front(q) /\ b = Last(q) /\ q = f \o <<b>> /\ Room(b) \in 0 .. BufferSize
  BY TailIs
<1>2. PICK n \in Nat, u \in Nat, y \in Seq(S), z \in Nat, w \in Nat :
        n = Len(x) /\ u = b.used /\ y = b.bytes /\ z = Len(y) /\ z <= u /\ w = BufferSize
  <2>1. BufferSize \in Nat /\ Len(x) \in Nat
    BY SizesAssumption
  <2>2. b.bytes \in Seq(S) /\ b.used \in Nat /\ Len(b.bytes) \in Nat /\ Len(b.bytes) <= b.used
    BY BufferType
  <2> QED
    BY <2>1, <2>2
<1>3. Room(b) = w - u /\ n <= w - u
  BY <1>1, <1>2 DEF Room, Fits
<1>4. PICK c \in Seq(S) : c = y \o x /\ Len(c) = z + n
  <2>1. PICK c \in Seq(S) : c = y \o x /\ Joins(c, y, x)
    BY Concat
  <2>2. Len(c) = Len(y) + Len(x)
    BY <2>1 DEF Joins
  <2> QED
    BY <1>2, <2>1, <2>2
<1>5. PICK e : e = Extended(b, x)
  OBVIOUS
<1>6. e = [bytes |-> c, used |-> u + n]
  BY <1>2, <1>4, <1>5 DEF Extended
<1>7. e.bytes = c /\ e.used = u + n /\ e \in Buffer(S)
  <2>1. u + n \in 0 .. w /\ z + n <= u + n
    BY <1>2, <1>3
  <2>2. e.bytes = c /\ e.used = u + n
    BY ONLY <1>6
  <2>3. e \in [bytes : Seq(S), used : 0 .. BufferSize]
    BY <1>2, <1>6, <2>1
  <2>4. Len(e.bytes) <= e.used
    BY <1>4, <2>1, <2>2
  <2> QED
    BY <2>2, <2>3, <2>4 DEF Buffer
<1>8. <<e>> \in Seq(Buffer(S)) /\ Unread(<<e>>) = c /\ <<b>> \in Seq(Buffer(S)) /\ Unread(<<b>>) = y
  BY <1>2, <1>7, UnreadOne
<1>9. r = f \o <<e>> /\ r \in Seq(Buffer(S)) /\ Unread(r) = Unread(f) \o c
  <2>1. r = f \o <<e>>
    BY <1>1, <1>5 DEF TailWith
  <2> HIDE DEF r
  <2> QED
    BY <1>8, <2>1, UnreadJoin
<1> HIDE DEF r
<1>10. Unread(q) = Unread(f) \o y /\ Unread(f) \in Seq(S)
  <2>1. Unread(f \o <<b>>) = Unread(f) \o Unread(<<b>>)
    BY <1>8, UnreadJoin
  <2>2. Unread(f) \in Seq(S)
    BY UnreadAre
  <2> QED
    BY <1>1, <1>8, <2>1, <2>2
<1>11. Unread(r) = Unread(q) \o x
  <2>1. Unread(f) \o (y \o x) = (Unread(f) \o y) \o x
    <3>1. Unread(f) \in Seq(S) /\ y \in Seq(S) /\ x \in Seq(S)
      BY <1>10
    <3> QED
      BY ONLY <3>1, ConcatAssociative
  <2> QED
    BY <1>4, <1>9, <1>10, <2>1
<1>12. r # <<>> /\ Last(r) = e
  <2>1. PICK k \in Nat, l \in Seq(Buffer(S)) : k = Len(f) /\ l = <<e>> /\ Len(l) = 1 /\ l[1] = e
    <3>1. Len(<<e>>) = 1 /\ <<e>>[1] = e
      OBVIOUS
    <3>2. PICK l \in Seq(Buffer(S)) : l = <<e>>
      BY <1>8
    <3>3. Len(l) = 1 /\ l[1] = e
      BY <3>1, <3>2
    <3>4. PICK k \in Nat : k = Len(f)
      OBVIOUS
    <3> QED
      BY <3>2, <3>3, <3>4
  <2>2. Joins(r, f, l)
    BY <1>9, <2>1, Concat
  <2>3. Len(r) = k + 1 /\ \A p \in 1 .. 1 : r[k + p] = l[p]
    BY <2>1, <2>2 DEF Joins
  <2>4. 1 \in 1 .. 1 /\ k + 1 # 0
    OBVIOUS
  <2>5. r[Len(r)] = e /\ Len(r) # 0
    BY <2>1, <2>3, <2>4
  <2> QED
    BY <2>5 DEF Last
<1>13. Room(e) = (w - u) - n
  BY <1>2, <1>7 DEF Room
<1> QED
  BY <1>1, <1>2, <1>3, <1>9, <1>11, <1>12, <1>13 DEF r

\* Where the buffers that Buffers makes end: each is filled, but for the last.
LEMMA Multiples ==
  ASSUME NEW b \in Nat, NEW count \in Nat, NEW k \in 1 .. count
  PROVE  /\ (k - 1) * b \in Nat /\ k * b \in Nat /\ (k - 1) * b + b = k * b
         /\ (count - 1) * b \in Nat /\ (k - 1) * b <= (count - 1) * b
         /\ k # count => k * b <= (count - 1) * b
<1>1. PICK d \in Nat, e \in Nat : d = k - 1 /\ count = k + e
  <2>1. k - 1 \in Nat /\ count - k \in Nat /\ count = k + (count - k)
    OBVIOUS
  <2> QED
    BY <2>1
<1>2. d * b \in Nat /\ e * b \in Nat
  OBVIOUS
<1>3. k = d + 1 /\ k * b = d * b + b
  BY <1>1
<1>4. count - 1 = d + e /\ (count - 1) * b = d * b + e * b
  BY <1>1, <1>3
<1>5. ASSUME k # count
      PROVE  b <= e * b
  <2>1. PICK g \in Nat : e = g + 1
    <3>1. e - 1 \in Nat /\ e = (e - 1) + 1
      BY <1>1, <1>5
    <3> QED
      BY <3>1
  <2>2. e * b = g * b + b /\ g * b \in Nat
    BY <2>1
  <2> QED
    BY <2>2
<1>6. PICK x \in Nat, y \in Nat : x = d * b /\ y = e * b
  BY <1>2
<1>7. (k - 1) * b = x /\ k * b = x + b /\ (count - 1) * b = x + y /\ (k # count => b <= y)
  BY <1>1, <1>3, <1>4, <1>5, <1>6
<1> QED
  BY <1>7

\* count buffers are enough for the rest, and no more than it needs.
Enough(count, rest) == (count - 1) * BufferSize <= rest /\ rest <= count * BufferSize

\* What does not fit into the tail, in buffers of its own.
LEMMA BuffersAre ==
  ASSUME NEW S, NEW bytes \in Seq(S), NEW n \in 0 .. Len(bytes),
         NEW count \in Nat \ {0}, Enough(count, Len(bytes) - n)
  PROVE  /\ Buffers(bytes, n + 1, count) \in Seq(Buffer(S))
         /\ Buffers(bytes, n + 1, count) # <<>>
         /\ Unread(Buffers(bytes, n + 1, count)) = SubSeq(bytes, n + 1, Len(bytes))
         /\ Room(Last(Buffers(bytes, n + 1, count))) = count * BufferSize - (Len(bytes) - n)
<1>0. PICK r : r = Buffers(bytes, n + 1, count)
  OBVIOUS
<1>1. PICK b \in Nat, l \in Nat : b = BufferSize /\ l = Len(bytes) /\ n \in 0 .. l
  BY SizesAssumption
<1>a. PICK rest \in Nat : rest = Len(bytes) - n /\ l = n + rest
  <2>1. l - n \in Nat /\ l = n + (l - n)
    BY <1>1
  <2> QED
    BY <1>1, <2>1
<1>b. (count - 1) * BufferSize <= rest /\ rest <= count * BufferSize
  BY <1>a DEF Enough
<1> DEFINE End(k) == IF k = count THEN rest ELSE k * b
<1>2. ASSUME NEW k \in 1 .. count
      PROVE  /\ (k - 1) * b \in Nat /\ End(k) \in Nat
             /\ (k - 1) * b <= End(k) /\ End(k) <= rest /\ End(k) - (k - 1) * b <= b
             /\ r[k] = Filled(SubSeq(bytes, (n + (k - 1) * b) + 1, n + End(k)))
  <2>1. /\ (k - 1) * b \in Nat /\ k * b \in Nat /\ (k - 1) * b + b = k * b
        /\ (count - 1) * b \in Nat /\ (k - 1) * b <= (count - 1) * b
        /\ k # count => k * b <= (count - 1) * b
    BY Multiples
  <2>2. PICK x \in Nat, y \in Nat, z \in Nat :
          x = (k - 1) * b /\ y = k * b /\ z = (count - 1) * b
    BY <2>1
  <2>3. z <= rest /\ (k = count => rest <= y) /\ x + b = y /\ x <= z /\ (k # count => y <= z)
    BY <1>1, <1>b, <2>1, <2>2
  <2>4. PICK e \in Nat : e = End(k) /\ e = IF k = count THEN rest ELSE y
    BY <2>2
  <2>5. x <= e /\ e <= rest /\ e - x <= b
    BY <2>3, <2>4
  <2>6. r[k] = Filled(SubSeq(bytes, (n + 1) + x, IF (n + 1) + y > l THEN l ELSE (n + 1) + y - 1))
    BY <1>0, <1>1, <2>2 DEF Buffers
  <2>7. (IF (n + 1) + y > l THEN l ELSE (n + 1) + y - 1) = n + e /\ (n + 1) + x = (n + x) + 1
    <3>1. CASE k = count
      <4>1. e = rest /\ rest <= y
        BY <2>3, <2>4, <3>1
      <4> QED
        BY <1>1, <1>a, <4>1
    <3>2. CASE k # count
      <4>1. e = y /\ y <= rest
        BY <2>3, <2>4, <3>2
      <4> QED
        BY <1>1, <1>a, <4>1
    <3> QED
      BY <3>1, <3>2
  <2> HIDE DEF End
  <2> QED
    BY <2>2, <2>4, <2>5, <2>6, <2>7
<1> DEFINE t == SubSeq(bytes, n + 1, Len(bytes))
           off == [k \in 0 .. count |-> IF k = 0 THEN 0 ELSE End(k)]
<1>3. t \in Seq(S) /\ Len(t) = rest /\ \A i \in 1 .. rest : t[i] = bytes[n + i]
  <2>1. n <= l /\ l <= Len(bytes) /\ l - n = rest /\ n \in Nat
    BY <1>1, <1>a
  <2>2. /\ SubSeq(bytes, n + 1, l) \in Seq(S) /\ Len(SubSeq(bytes, n + 1, l)) = l - n
        /\ \A i \in 1 .. l - n : SubSeq(bytes, n + 1, l)[i] = bytes[n + i]
    BY <2>1, BehindIs
  <2> QED
    BY <1>1, <2>1, <2>2
<1>4. ASSUME NEW k \in 1 .. count
      PROVE  /\ r[k] \in Buffer(S)
             /\ off[k] \in Nat /\ off[k - 1] = (k - 1) * b
             /\ off[k] = off[k - 1] + Len(r[k].bytes)
             /\ r[k].used = off[k] - (k - 1) * b
             /\ \A j \in 1 .. Len(r[k].bytes) : t[off[k - 1] + j] = r[k].bytes[j]
  <2>1. PICK x \in Nat, e \in Nat : x = (k - 1) * b /\ e = End(k)
    BY <1>2
  <2>2. x <= e /\ e <= rest /\ e - x <= b
    BY <1>2, <2>1
  <2>3. PICK p \in Seq(S) : /\ p = SubSeq(bytes, (n + x) + 1, n + e) /\ Len(p) = e - x
                            /\ \A i \in 1 .. e - x : p[i] = bytes[(n + x) + i]
    <3>1. n + x \in Nat /\ n + e \in Nat /\ n + x <= n + e /\ n + e <= Len(bytes)
          /\ (n + e) - (n + x) = e - x
      BY <1>1, <1>a, <2>2
    <3>2. /\ SubSeq(bytes, (n + x) + 1, n + e) \in Seq(S)
          /\ Len(SubSeq(bytes, (n + x) + 1, n + e)) = (n + e) - (n + x)
          /\ \A i \in 1 .. (n + e) - (n + x) :
               SubSeq(bytes, (n + x) + 1, n + e)[i] = bytes[(n + x) + i]
      BY <3>1, BehindIs
    <3> QED
      BY <3>1, <3>2
  <2>4. r[k] = [bytes |-> p, used |-> e - x]
    <3>1. r[k] = Filled(p)
      BY <1>2, <2>1, <2>3
    <3> QED
      BY <2>3, <3>1 DEF Filled
  <2>5. r[k].bytes = p /\ r[k].used = e - x
    BY ONLY <2>4
  <2>6. r[k] \in Buffer(S)
    <3>1. e - x \in 0 .. BufferSize
      BY <1>1, <2>2
    <3>2. r[k] \in [bytes : Seq(S), used : 0 .. BufferSize]
      BY <2>4, <3>1
    <3>3. Len(r[k].bytes) <= r[k].used
      <4>1. Len(p) <= e - x
        BY <2>2, <2>3
      <4> QED
        BY <2>5, <4>1
    <3> QED
      BY <3>2, <3>3 DEF Buffer
  <2>7. off[k] = e
    BY <2>1
  <2>8. off[k - 1] = x
    <3>1. CASE k = 1
      BY <2>1, <3>1
    <3>2. CASE k # 1
      <4>1. k - 1 \in 0 .. count /\ k - 1 # 0 /\ k - 1 # count
        BY <3>2
      <4> QED
        BY <2>1, <4>1
    <3> QED
      BY <3>1, <3>2
  <2>9. ASSUME NEW j \in 1 .. e - x
        PROVE  t[x + j] = p[j]
    <3>1. x + j \in 1 .. rest /\ n + (x + j) = (n + x) + j
      BY <1>1, <2>2
    <3> HIDE DEF t
    <3> QED
      BY <1>3, <2>3, <3>1
  <2> HIDE DEF off, t, End
  <2>10. e = x + (e - x)
    OBVIOUS
  <2> QED
    BY <2>1, <2>3, <2>5, <2>6, <2>7, <2>8, <2>9, <2>10
<1>5. off[0] = 0 /\ off[count] = rest /\ off \in [0 .. count -> Nat]
  <2>1. \A k \in 0 .. count : k # 0 => k \in 1 .. count
    OBVIOUS
  <2>2. \A k \in 1 .. count : End(k) \in Nat
    BY <1>2
  <2> HIDE DEF End
  <2>3. off \in [0 .. count -> Nat] /\ off[0] = 0
    BY <2>1, <2>2
  <2>4. off[count] = rest
    BY DEF End
  <2> QED
    BY <2>3, <2>4
<1> HIDE DEF t, off, End
<1>6. r \in Seq(Buffer(S)) /\ Len(r) = count
  <2>1. r = [k \in 1 .. count |-> r[k]]
    BY <1>0 DEF Buffers
  <2>2. r \in [1 .. count -> Buffer(S)]
    BY <1>4, <2>1
  <2> QED
    BY <2>2
<1>7. PICK y \in Seq(Seq(S)) : /\ y = BytesOf(r) /\ Len(y) = count
                               /\ \A k \in 1 .. count : y[k] = r[k].bytes
  BY <1>6, BytesAre
<1>8. Offsets(y, off)
  <2>1. \A k \in 1 .. count : off[k] = off[k - 1] + Len(y[k])
    BY <1>4, <1>7
  <2> QED
    BY <1>5, <1>7, <2>1 DEF Offsets
<1>9. Laid(t, y, off)
  <2>1. ASSUME NEW k \in 1 .. count
        PROVE  \A j \in 1 .. Len(y[k]) : t[off[k - 1] + j] = y[k][j]
    <3>1. \A j \in 1 .. Len(r[k].bytes) : t[off[k - 1] + j] = r[k].bytes[j]
      BY <1>4
    <3>2. y[k] = r[k].bytes
      BY <1>7
    <3> QED
      BY <3>1, <3>2
  <2>2. Len(t) = off[count]
    BY <1>3, <1>5
  <2> QED
    BY <1>7, <2>1, <2>2 DEF Laid
<1>10. Unread(r) = t
  BY <1>3, <1>6, <1>7, <1>8, <1>9, UnreadIs
<1>11. r # <<>> /\ Last(r) = r[count]
  <2>1. r # <<>>
    BY <1>6
  <2> QED
    BY <1>6, <2>1 DEF Last
<1>12. Room(Last(r)) = count * b - rest
  <2>1. count \in 1 .. count
    OBVIOUS
  <2>2. r[count].used = rest - (count - 1) * b
    BY <1>4, <1>5, <2>1
  <2>3. (count - 1) * b \in Nat /\ (count - 1) * b + b = count * b /\ count * b \in Nat
    BY <2>1, Multiples
  <2>4. PICK x \in Nat, y2 \in Nat : x = (count - 1) * b /\ y2 = count * b
    BY <2>3
  <2>5. b - (rest - x) = y2 - rest
    BY <2>3, <2>4
  <2> QED
    BY <1>1, <1>11, <2>2, <2>4, <2>5 DEF Room
<1> QED
  BY <1>0, <1>1, <1>a, <1>6, <1>10, <1>11, <1>12 DEF t

\* How many buffers what does not fit takes.
LEMMA Quotients ==
  ASSUME NEW rest \in Nat
  PROVE  LET n == rest \div BufferSize + 1
             m == (rest + BufferSize - 1) \div BufferSize
         IN  /\ n \in Nat \ {0} /\ Enough(n, rest) /\ rest < n * BufferSize
             /\ rest > 0 => m \in Nat \ {0} /\ Enough(m, rest)
<1> DEFINE k == rest \div BufferSize
           a == rest + BufferSize - 1
           m == a \div BufferSize
<1>1. BufferSize \in Nat \ {0} /\ a \in Nat
  <2>1. BufferSize \in Nat \ {0}
    BY SizesAssumption
  <2> QED
    BY <2>1
<1>2. k \in Nat /\ k * BufferSize <= rest /\ rest < k * BufferSize + BufferSize
  BY <1>1
<1>3. m \in Nat /\ m * BufferSize <= a /\ a < m * BufferSize + BufferSize
  BY <1>1
<1>4. (k + 1) - 1 = k /\ (k + 1) * BufferSize = k * BufferSize + BufferSize
  BY <1>1, <1>2
<1>5. (m - 1) * BufferSize = m * BufferSize - BufferSize
  BY <1>1, <1>3
<1>6. rest > 0 => m # 0
  <2>1. m = 0 => m * BufferSize = 0
    BY <1>1
  <2> QED
    BY <1>1, <1>3, <2>1
<1> QED
  BY <1>1, <1>2, <1>3, <1>4, <1>5, <1>6 DEF Enough

\* A sequence is what fits and what does not.
LEMMA PartsJoin ==
  ASSUME NEW S, NEW s \in Seq(S), NEW n \in 0 .. Len(s)
  PROVE  /\ SubSeq(s, 1, n) \in Seq(S) /\ Len(SubSeq(s, 1, n)) = n
         /\ SubSeq(s, n + 1, Len(s)) \in Seq(S)
         /\ s = SubSeq(s, 1, n) \o SubSeq(s, n + 1, Len(s))
<1>1. PICK l \in Nat : l = Len(s) /\ n <= l
  OBVIOUS
<1>2. PICK a \in Seq(S) : a = SubSeq(s, 1, n) /\ Len(a) = n /\ \A i \in 1 .. n : a[i] = s[i]
  <2>1. 1 \in Nat \ {0} /\ n \in Nat /\ n <= Len(s) /\ 1 <= n + 1 /\ n + 1 - 1 = n
    BY <1>1
  <2>2. \A i \in 1 .. n : 1 + i - 1 = i
    OBVIOUS
  <2>3. /\ SubSeq(s, 1, n) \in Seq(S) /\ Len(SubSeq(s, 1, n)) = n + 1 - 1
        /\ \A i \in 1 .. n + 1 - 1 : SubSeq(s, 1, n)[i] = s[1 + i - 1]
    BY <2>1, PartIs
  <2> QED
    BY <2>1, <2>2, <2>3
<1>3. PICK b \in Seq(S) : /\ b = SubSeq(s, n + 1, l) /\ Len(b) = l - n
                          /\ \A i \in 1 .. l - n : b[i] = s[n + i]
  <2>1. n \in Nat /\ n <= l /\ l <= Len(s)
    BY <1>1
  <2>2. /\ SubSeq(s, n + 1, l) \in Seq(S) /\ Len(SubSeq(s, n + 1, l)) = l - n
        /\ \A i \in 1 .. l - n : SubSeq(s, n + 1, l)[i] = s[n + i]
    BY <2>1, BehindIs
  <2> QED
    BY <2>2
<1>4. PICK c \in Seq(S) : c = a \o b /\ Joins(c, a, b)
  BY Concat
<1>5. PICK m \in Nat : m = l - n /\ l = n + m
  <2>1. l - n \in Nat /\ l = n + (l - n)
    BY <1>1
  <2> QED
    BY <2>1
<1>6. /\ Len(c) = n + m
      /\ (\A p \in 1 .. n : c[p] = a[p]) /\ (\A p \in 1 .. m : c[n + p] = b[p])
  BY <1>2, <1>3, <1>4, <1>5 DEF Joins
<1>7. ASSUME NEW i \in 1 .. l
      PROVE  c[i] = s[i]
  <2>1. CASE i <= n
    <3>1. i \in 1 .. n
      BY <2>1
    <3> QED
      BY <1>2, <1>6, <3>1
  <2>2. CASE ~(i <= n)
    <3>1. PICK p \in 1 .. m : i = n + p
      <4>1. i - n \in 1 .. m /\ i = n + (i - n)
        BY <1>5, <2>2
      <4> QED
        BY <4>1
    <3> QED
      BY <1>3, <1>5, <1>6, <3>1
  <2> QED
    BY <2>1, <2>2
<1>8. c = s
  <2>1. Len(c) = l /\ Len(s) = l
    BY <1>1, <1>5, <1>6
  <2> QED
    BY <1>7, <2>1, SeqEqual
<1> QED
  BY <1>1, <1>2, <1>3, <1>4, <1>8

\* Both loops, given how many new buffers they make.
Filling(q, bytes, n, count) ==
  /\ n \in 0 .. Len(bytes) /\ n = Room(Last(q))
  /\ count \in Nat \ {0} /\ Enough(count, Len(bytes) - n)

Full(q, bytes, n, count) == TailWith(q, SubSeq(bytes, 1, n)) \o Buffers(bytes, n + 1, count)

\* r holds what q holds, and the bytes behind it.
Extends(S, r, q, bytes) ==
  r \in Seq(Buffer(S)) /\ r # <<>> /\ Unread(r) = Unread(q) \o bytes

Ends(r, bytes, n, count) == Room(Last(r)) = count * BufferSize - (Len(bytes) - n)

LEMMA FilledIs ==
  ASSUME NEW S, NEW q \in Seq(Buffer(S)), q # <<>>, NEW bytes \in Seq(S),
         NEW n \in Nat, NEW count \in Nat, Filling(q, bytes, n, count),
         NEW r, r = Full(q, bytes, n, count)
  PROVE  Extends(S, r, q, bytes) /\ Ends(r, bytes, n, count)
<1>0. /\ n \in 0 .. Len(bytes) /\ n = Room(Last(q))
      /\ count \in Nat \ {0} /\ Enough(count, Len(bytes) - n)
  BY DEF Filling
<1>1. PICK l \in Nat : l = Len(bytes) /\ n \in 0 .. l
  BY <1>0
<1>2. PICK x \in Seq(S), y \in Seq(S) :
        /\ x = SubSeq(bytes, 1, n) /\ Len(x) = n
        /\ y = SubSeq(bytes, n + 1, Len(bytes)) /\ bytes = x \o y
  <2>1. /\ SubSeq(bytes, 1, n) \in Seq(S) /\ Len(SubSeq(bytes, 1, n)) = n
        /\ SubSeq(bytes, n + 1, Len(bytes)) \in Seq(S)
        /\ bytes = SubSeq(bytes, 1, n) \o SubSeq(bytes, n + 1, Len(bytes))
    BY <1>0, PartsJoin
  <2> QED
    BY <2>1
<1>3. PICK a : a = TailWith(q, x)
  OBVIOUS
<1>4. a \in Seq(Buffer(S)) /\ a # <<>> /\ Unread(a) = Unread(q) \o x
  <2>1. Fits(q, x)
    BY <1>0, <1>1, <1>2 DEF Fits
  <2> QED
    BY <1>3, <2>1, ExtendedIs
<1>5. PICK b : b = Buffers(bytes, n + 1, count)
  OBVIOUS
<1>6. /\ b \in Seq(Buffer(S)) /\ b # <<>> /\ Unread(b) = y
      /\ Room(Last(b)) = count * BufferSize - (Len(bytes) - n)
  <2>1. /\ Buffers(bytes, n + 1, count) \in Seq(Buffer(S))
        /\ Buffers(bytes, n + 1, count) # <<>>
        /\ Unread(Buffers(bytes, n + 1, count)) = SubSeq(bytes, n + 1, Len(bytes))
        /\ Room(Last(Buffers(bytes, n + 1, count))) = count * BufferSize - (Len(bytes) - n)
    BY <1>0, BuffersAre
  <2> QED
    BY <1>2, <1>5, <2>1
<1>8. r = a \o b
  BY <1>2, <1>3, <1>5 DEF Full
<1>9. r \in Seq(Buffer(S)) /\ Unread(r) = Unread(a) \o Unread(b)
  BY <1>4, <1>6, <1>8, UnreadJoin
<1>10. Unread(r) = Unread(q) \o bytes
  <2>1. PICK u \in Seq(S) : u = Unread(q)
    BY UnreadAre
  <2>2. (u \o x) \o y = u \o (x \o y)
    <3>1. u \in Seq(S) /\ x \in Seq(S) /\ y \in Seq(S)
      OBVIOUS
    <3> QED
      BY ONLY <3>1, ConcatAssociative
  <2> QED
    BY <2>1, <1>2, <1>4, <1>6, <1>9, <2>2
<1>11. r # <<>> /\ Last(r) = Last(b)
  <2>1. PICK i \in Nat, j \in Nat : i = Len(a) /\ j = Len(b)
    BY <1>4, <1>6
  <2>2. j # 0
    BY <1>6, <2>1
  <2>3. Joins(r, a, b)
    BY <1>4, <1>6, <1>8, Concat
  <2>4. Len(r) = i + j /\ \A p \in 1 .. j : r[i + p] = b[p]
    BY <2>1, <2>3 DEF Joins
  <2>5. j \in 1 .. j /\ i + j # 0
    BY <2>2
  <2>6. r[Len(r)] = b[Len(b)] /\ Len(r) # 0
    BY <2>1, <2>4, <2>5
  <2> QED
    BY <2>6 DEF Last
<1>12. Extends(S, r, q, bytes)
  BY <1>9, <1>10, <1>11 DEF Extends
<1> QED
  BY <1>6, <1>11, <1>12 DEF Ends

\* The loop of try_read: what recv returned is at the end, and the tail has room.
LEMMA ReceivedIs ==
  ASSUME NEW S, NEW q \in Seq(Buffer(S)), q # <<>> => Room(Last(q)) > 0, NEW bytes \in Seq(S)
  PROVE  /\ Received(q, bytes) \in Seq(Buffer(S)) /\ Received(q, bytes) # <<>>
         /\ Room(Last(Received(q, bytes))) > 0
         /\ Unread(Received(q, bytes)) = Unread(q) \o bytes
<1>1. PICK h \in Seq(Buffer(S)) : /\ h = HeadOf(q) /\ h # <<>>
                                  /\ Unread(h) = Unread(q) /\ Room(Last(h)) > 0
  BY HeadIs
<1>2. PICK n \in Nat, l \in Nat : n = Room(Last(h)) /\ l = Len(bytes)
  <2>1. Room(Last(h)) \in 0 .. BufferSize /\ BufferSize \in Nat
    BY <1>1, TailIs, SizesAssumption
  <2> QED
    BY <2>1
<1>3. PICK r : r = Received(q, bytes)
  OBVIOUS
<1>4. CASE l < n
  <2>1. r = TailWith(h, bytes)
    BY <1>1, <1>2, <1>3, <1>4 DEF Received, HeadOf, TailWith
  <2>2. Fits(h, bytes)
    BY <1>2, <1>4 DEF Fits
  <2>3. /\ r \in Seq(Buffer(S)) /\ r # <<>> /\ Unread(r) = Unread(h) \o bytes
        /\ Room(Last(r)) = Room(Last(h)) - Len(bytes)
    BY <1>1, <2>1, <2>2, ExtendedIs
  <2>4. Room(Last(r)) > 0
    BY <1>2, <1>4, <2>3
  <2> QED
    BY <1>1, <1>3, <2>3, <2>4
<1>5. CASE ~(l < n)
  <2>1. PICK rest \in Nat : rest = l - n
    BY <1>5
  <2> DEFINE c == rest \div BufferSize + 1
  <2>2. c \in Nat \ {0} /\ Enough(c, rest) /\ rest < c * BufferSize
    BY Quotients
  <2>3. r = Full(h, bytes, n, c)
    BY <1>1, <1>2, <1>3, <1>5, <2>1 DEF Received, HeadOf, TailWith, Full
  <2> HIDE DEF c
  <2>4. PICK z \in Nat : z = c * BufferSize
    BY <2>2, SizesAssumption
  <2>5. n \in 0 .. Len(bytes) /\ Enough(c, Len(bytes) - n)
    BY <1>2, <1>5, <2>1, <2>2
  <2>6. Extends(S, r, h, bytes) /\ Ends(r, bytes, n, c)
    <3>1. Filling(h, bytes, n, c)
      BY <1>2, <2>2, <2>5 DEF Filling
    <3> QED
      BY <1>1, <2>2, <2>3, <3>1, FilledIs
  <2>7. Room(Last(r)) > 0
    BY <1>2, <2>1, <2>2, <2>4, <2>6 DEF Ends
  <2> QED
    BY <1>1, <1>3, <2>6, <2>7 DEF Extends
<1> QED
  BY <1>4, <1>5

\* The loop of tgln_write_out: what was written is at the end.
LEMMA WroteIs ==
  ASSUME NEW S, NEW q \in Seq(Buffer(S)), NEW bytes \in Seq(S)
  PROVE  /\ Wrote(q, bytes) \in Seq(Buffer(S))
         /\ Unread(Wrote(q, bytes)) = Unread(q) \o bytes
<1>1. PICK h \in Seq(Buffer(S)) : h = HeadOf(q) /\ h # <<>> /\ Unread(h) = Unread(q)
  BY HeadIs
<1>2. PICK n \in Nat, l \in Nat : n = Room(Last(h)) /\ l = Len(bytes)
  <2>1. Room(Last(h)) \in 0 .. BufferSize /\ BufferSize \in Nat
    BY <1>1, TailIs, SizesAssumption
  <2> QED
    BY <2>1
<1>3. PICK r : r = Wrote(q, bytes)
  OBVIOUS
<1>4. CASE l <= n
  <2>1. r = TailWith(h, bytes)
    BY <1>1, <1>2, <1>3, <1>4 DEF Wrote, HeadOf, TailWith
  <2>2. Fits(h, bytes)
    BY <1>2, <1>4 DEF Fits
  <2>3. r \in Seq(Buffer(S)) /\ Unread(r) = Unread(h) \o bytes
    BY <1>1, <2>1, <2>2, ExtendedIs
  <2> QED
    BY <1>1, <1>3, <2>3
<1>5. CASE ~(l <= n)
  <2>1. PICK rest \in Nat : rest = l - n /\ rest > 0
    BY <1>5
  <2> DEFINE c == (rest + BufferSize - 1) \div BufferSize
  <2>2. c \in Nat \ {0} /\ Enough(c, rest)
    BY <2>1, Quotients
  <2>3. r = Full(h, bytes, n, c)
    BY <1>1, <1>2, <1>3, <1>5, <2>1 DEF Wrote, HeadOf, TailWith, Full
  <2> HIDE DEF c
  <2>5. n \in 0 .. Len(bytes) /\ Enough(c, Len(bytes) - n)
    BY <1>2, <1>5, <2>1, <2>2
  <2>6. Extends(S, r, h, bytes)
    <3>1. Filling(h, bytes, n, c)
      BY <1>2, <2>2, <2>5 DEF Filling
    <3> QED
      BY <1>1, <2>2, <2>3, <3>1, FilledIs
  <2> QED
    BY <1>1, <1>3, <2>6 DEF Extends
<1> QED
  BY <1>4, <1>5

------------------------------------------------------------------------------
(* The server's stream *)

Bytes == Nat \X Nat

FramesOf(fs) == [n \in DOMAIN fs |-> [k \in 1 .. FrameBytes(fs[n]) |-> <<n, k>>]]

\* How many bytes the first m frames take.
Taken(fs, m) ==
  LET upTo[n \in 0 .. m] == IF n = 0 THEN 0 ELSE upTo[n - 1] + FrameBytes(fs[n])
  IN  upTo[m]

LEMMA StreamDef == Stream = FlattenSeq(FramesOf(frames)) /\ Consumed = Taken(frames, Len(executed))
<1>1. Stream = FlattenSeq(FramesOf(frames))
  BY DEF Stream, Frame, FramesOf
<1>2. Consumed = Taken(frames, Len(executed))
  BY DEF Consumed, Taken
<1> QED
  BY <1>1, <1>2

LEMMA SizeIs ==
  ASSUME NEW len \in FrameLengths
  PROVE  /\ HeaderBytes(len) \in Nat \ {0} /\ Word * len \in Nat
         /\ FrameBytes(len) \in Nat \ {0} /\ FrameBytes(len) = HeaderBytes(len) + Word * len
<1>1. len \in Nat /\ Word \in Nat /\ LongHeader \in Nat \ {0} /\ MaxShort \in Nat
  BY SizesAssumption
<1>2. HeaderBytes(len) \in Nat \ {0}
  BY <1>1 DEF HeaderBytes
<1>3. Word * len \in Nat
  BY <1>1
<1> QED
  BY <1>2, <1>3 DEF FrameBytes

LEMMA FramesAre ==
  ASSUME NEW fs \in Seq(FrameLengths)
  PROVE  /\ FramesOf(fs) \in Seq(Seq(Bytes)) /\ Len(FramesOf(fs)) = Len(fs)
         /\ \A n \in 1 .. Len(fs) :
              /\ fs[n] \in FrameLengths
              /\ FramesOf(fs)[n] = [k \in 1 .. FrameBytes(fs[n]) |-> <<n, k>>]
              /\ Len(FramesOf(fs)[n]) = FrameBytes(fs[n])
              /\ \A k \in 1 .. FrameBytes(fs[n]) : FramesOf(fs)[n][k] = <<n, k>>
<1>1. PICK l \in Nat : l = Len(fs) /\ DOMAIN fs = 1 .. l
  OBVIOUS
<1>2. PICK q : q = FramesOf(fs)
  OBVIOUS
<1>3. q = [n \in 1 .. l |-> [k \in 1 .. FrameBytes(fs[n]) |-> <<n, k>>]]
  BY <1>1, <1>2 DEF FramesOf
<1>4. ASSUME NEW n \in 1 .. l
      PROVE  /\ fs[n] \in FrameLengths
             /\ q[n] = [k \in 1 .. FrameBytes(fs[n]) |-> <<n, k>>]
             /\ q[n] \in Seq(Bytes) /\ Len(q[n]) = FrameBytes(fs[n])
             /\ \A k \in 1 .. FrameBytes(fs[n]) : q[n][k] = <<n, k>>
  <2>1. fs[n] \in FrameLengths
    BY <1>1
  <2>2. PICK b \in Nat : b = FrameBytes(fs[n])
    BY <2>1, SizeIs
  <2>3. PICK f : f = [k \in 1 .. b |-> <<n, k>>]
    OBVIOUS
  <2>4. f \in [1 .. b -> Bytes] /\ \A k \in 1 .. b : f[k] = <<n, k>>
    BY <2>3 DEF Bytes
  <2>5. f \in Seq(Bytes) /\ Len(f) = b
    BY <2>4
  <2>6. q[n] = f
    BY <1>3, <2>2, <2>3
  <2> QED
    BY <2>1, <2>2, <2>3, <2>4, <2>5, <2>6
<1>5. q \in Seq(Seq(Bytes)) /\ Len(q) = l
  <2>1. q \in [1 .. l -> Seq(Bytes)]
    BY <1>3, <1>4
  <2> QED
    BY <2>1
<1> QED
  BY <1>1, <1>2, <1>4, <1>5

LEMMA TakenIs ==
  ASSUME NEW fs \in Seq(FrameLengths), NEW off, Offsets(FramesOf(fs), off), NEW m \in 0 .. Len(fs)
  PROVE  Taken(fs, m) = off[m]
<1>1. PICK l \in Nat : l = Len(fs) /\ m \in 0 .. l
  OBVIOUS
<1>2. PICK q : q = FramesOf(fs) /\ Len(q) = l
  BY <1>1, FramesAre
<1>3. \A n \in 1 .. l : fs[n] \in FrameLengths /\ Len(q[n]) = FrameBytes(fs[n])
  BY <1>1, <1>2, FramesAre
<1>4. /\ off \in [0 .. l -> Nat] /\ off[0] = 0
      /\ \A n \in 1 .. l : off[n] = off[n - 1] + Len(q[n])
  BY <1>2 DEF Offsets
<1>5. \A n \in 1 .. l : off[n] = off[n - 1] + FrameBytes(fs[n])
  BY <1>3, <1>4
<1> DEFINE Unfolded(g) ==
             g = [n \in 0 .. m |-> IF n = 0 THEN 0 ELSE g[n - 1] + FrameBytes(fs[n])]
           upTo[n \in 0 .. m] == IF n = 0 THEN 0 ELSE upTo[n - 1] + FrameBytes(fs[n])
           h == [n \in 0 .. m |-> off[n]]
<1>6. Unfolded(h)
  <2>1. ASSUME NEW n \in 0 .. m
        PROVE  h[n] = IF n = 0 THEN 0 ELSE h[n - 1] + FrameBytes(fs[n])
    <3>1. CASE n = 0
      BY <1>4, <3>1
    <3>2. CASE n # 0
      <4>1. n \in 1 .. l /\ n - 1 \in 0 .. m
        BY <1>1, <3>2
      <4>2. h[n] = off[n] /\ h[n - 1] = off[n - 1]
        BY <4>1
      <4> QED
        BY <1>5, <3>2, <4>1, <4>2
    <3> QED
      BY <3>1, <3>2
  <2>2. h = [n \in 0 .. m |-> h[n]]
    OBVIOUS
  <2> HIDE DEF h
  <2> QED
    BY <2>1, <2>2
<1>7. Unfolded(upTo)
  <2>1. \E f : Unfolded(f)
    BY <1>6
  <2> QED
    BY <2>1
<1>8. Taken(fs, m) = upTo[m]
  BY DEF Taken
<1> HIDE DEF upTo, h
<1>9. upTo[0] = 0 /\ \A n \in 1 .. m : upTo[n] = upTo[n - 1] + FrameBytes(fs[n])
  <2>1. \A n \in 0 .. m : upTo[n] = IF n = 0 THEN 0 ELSE upTo[n - 1] + FrameBytes(fs[n])
    BY <1>7
  <2>2. 0 \in 0 .. m /\ \A n \in 1 .. m : n \in 0 .. m /\ n # 0
    BY <1>1
  <2> QED
    BY <2>1, <2>2
<1> DEFINE T == {n \in 0 .. m : upTo[n] = off[n]}
<1>10. 0 \in T
  BY <1>1, <1>4, <1>9
<1>11. ASSUME NEW n \in 0 .. m - 1, n \in T
       PROVE  n + 1 \in T
  <2>1. n + 1 \in 1 .. m /\ n + 1 \in 1 .. l /\ (n + 1) - 1 = n /\ n + 1 \in 0 .. m
    BY <1>1
  <2>2. upTo[n + 1] = upTo[n] + FrameBytes(fs[n + 1]) /\ off[n + 1] = off[n] + FrameBytes(fs[n + 1])
    BY <1>5, <1>9, <2>1
  <2> QED
    BY <1>11, <2>1, <2>2
<1>12. \A n \in 0 .. m : n \in T
  <2> HIDE DEF T
  <2> QED
    BY <1>1, <1>10, <1>11, InductionUpTo
<1>13. m \in T
  <2> HIDE DEF T
  <2> QED
    BY <1>1, <1>12
<1> QED
  BY <1>8, <1>13

\* Where the frames are in the stream s.
Carries(s, fs) ==
  /\ s \in Seq(Bytes)
  /\ Taken(fs, 0) = 0 /\ Taken(fs, Len(fs)) = Len(s)
  /\ \A m \in 0 .. Len(fs) : Taken(fs, m) \in Nat /\ \A n \in 0 .. m : Taken(fs, n) <= Taken(fs, m)
  /\ \A m \in 1 .. Len(fs) : fs[m] \in FrameLengths /\ Taken(fs, m) = Taken(fs, m - 1) + FrameBytes(fs[m])
  /\ \A m \in 1 .. Len(fs) : \A k \in 1 .. FrameBytes(fs[m]) : s[Taken(fs, m - 1) + k] = <<m, k>>

LEMMA StreamIs ==
  ASSUME NEW fs \in Seq(FrameLengths), NEW s, s = FlattenSeq(FramesOf(fs))
  PROVE  Carries(s, fs)
<1>1. PICK l \in Nat : l = Len(fs)
  OBVIOUS
<1>2. PICK q \in Seq(Seq(Bytes)) : q = FramesOf(fs) /\ Len(q) = l
  BY <1>1, FramesAre
<1>3. \A n \in 1 .. l : /\ fs[n] \in FrameLengths /\ Len(q[n]) = FrameBytes(fs[n])
                        /\ \A k \in 1 .. FrameBytes(fs[n]) : q[n][k] = <<n, k>>
  BY <1>1, <1>2, FramesAre
<1>4. PICK off : Offsets(q, off)
  BY OffsetsExist
<1>5. /\ off \in [0 .. l -> Nat] /\ off[0] = 0
      /\ \A n \in 1 .. l : off[n] = off[n - 1] + Len(q[n])
  BY <1>2, <1>4 DEF Offsets
<1>6. s \in Seq(Bytes) /\ Laid(s, q, off)
  BY <1>2, <1>4, FlattenLaid
<1>7. ASSUME NEW m \in 0 .. l
      PROVE  Taken(fs, m) = off[m] /\ off[m] \in Nat /\ \A n \in 0 .. m : off[n] <= off[m]
  <2>1. Taken(fs, m) = off[m]
    <3>1. m \in 0 .. Len(fs) /\ Offsets(FramesOf(fs), off)
      BY <1>1, <1>2, <1>4
    <3> QED
      BY <3>1, TakenIs
  <2>2. \A n \in 0 .. m : off[n] <= off[m]
    <3>1. m \in 0 .. Len(q)
      BY <1>2
    <3> QED
      BY <1>4, <3>1, OffsetsGrow
  <2> QED
    BY <1>5, <2>1, <2>2
<1>8. ASSUME NEW m \in 1 .. l
      PROVE  /\ Taken(fs, m - 1) = off[m - 1]
             /\ Taken(fs, m) = Taken(fs, m - 1) + FrameBytes(fs[m])
             /\ \A k \in 1 .. FrameBytes(fs[m]) : s[Taken(fs, m - 1) + k] = <<m, k>>
  <2>1. m \in 0 .. l /\ m - 1 \in 0 .. l
    OBVIOUS
  <2>2. Taken(fs, m - 1) = off[m - 1] /\ Taken(fs, m) = off[m]
    BY <1>7, <2>1
  <2>3. Len(q[m]) = FrameBytes(fs[m]) /\ \A k \in 1 .. FrameBytes(fs[m]) : q[m][k] = <<m, k>>
    BY <1>3
  <2>4. \A k \in 1 .. Len(q[m]) : s[off[m - 1] + k] = q[m][k]
    BY <1>2, <1>6 DEF Laid
  <2>5. off[m] = off[m - 1] + FrameBytes(fs[m])
    BY <1>5, <2>3
  <2>6. \A k \in 1 .. FrameBytes(fs[m]) : s[off[m - 1] + k] = <<m, k>>
    BY <2>3, <2>4
  <2> QED
    BY <2>2, <2>5, <2>6
<1>9. Taken(fs, 0) = 0 /\ Taken(fs, l) = Len(s)
  <2>1. 0 \in 0 .. l /\ l \in 0 .. l
    OBVIOUS
  <2>2. PICK e \in Nat : e = off[l]
    BY <1>5, <2>1
  <2>3. Len(s) = e
    BY <1>2, <1>6, <2>2 DEF Laid
  <2> QED
    BY <1>5, <1>7, <2>1, <2>2, <2>3
<1>10. \A m \in 0 .. l : Taken(fs, m) \in Nat /\ \A n \in 0 .. m : Taken(fs, n) <= Taken(fs, m)
  <2>1. \A m \in 0 .. l : \A n \in 0 .. m : n \in 0 .. l
    OBVIOUS
  <2> QED
    BY <1>7, <2>1
<1> QED
  BY <1>1, <1>3, <1>6, <1>8, <1>9, <1>10 DEF Carries

\* What is behind the first m of a part.
LEMMA BehindBehind ==
  ASSUME NEW S, NEW s \in Seq(S), NEW n \in Nat, NEW b \in Nat, n <= b, b <= Len(s),
         NEW u, u = SubSeq(s, n + 1, b), NEW m \in Nat, m <= b - n
  PROVE  SubSeq(u, m + 1, Len(u)) = SubSeq(s, (n + m) + 1, b)
<1>1. u \in Seq(S) /\ Len(u) = b - n /\ \A i \in 1 .. b - n : u[i] = s[n + i]
  BY BehindIs
<1>2. PICK c \in Nat : c = b - n
  OBVIOUS
<1>3. PICK x \in Seq(S) : /\ x = SubSeq(u, m + 1, c) /\ Len(x) = c - m
                          /\ \A i \in 1 .. c - m : x[i] = u[m + i]
  <2>1. m <= c /\ c <= Len(u)
    BY <1>1, <1>2
  <2>2. /\ SubSeq(u, m + 1, c) \in Seq(S) /\ Len(SubSeq(u, m + 1, c)) = c - m
        /\ \A i \in 1 .. c - m : SubSeq(u, m + 1, c)[i] = u[m + i]
    BY <1>1, <2>1, BehindIs
  <2> QED
    BY <2>2
<1>4. PICK y \in Seq(S) : /\ y = SubSeq(s, (n + m) + 1, b) /\ Len(y) = b - (n + m)
                          /\ \A i \in 1 .. b - (n + m) : y[i] = s[(n + m) + i]
  <2>1. n + m \in Nat /\ n + m <= b
    OBVIOUS
  <2>2. /\ SubSeq(s, (n + m) + 1, b) \in Seq(S) /\ Len(SubSeq(s, (n + m) + 1, b)) = b - (n + m)
        /\ \A i \in 1 .. b - (n + m) : SubSeq(s, (n + m) + 1, b)[i] = s[(n + m) + i]
    BY <2>1, BehindIs
  <2> QED
    BY <2>2
<1>5. PICK k \in Nat : k = c - m /\ k = b - (n + m)
  BY <1>2
<1>6. ASSUME NEW i \in 1 .. k
      PROVE  x[i] = y[i]
  <2>1. m + i \in 1 .. b - n /\ n + (m + i) = (n + m) + i
    BY <1>2, <1>5
  <2>2. x[i] = u[m + i] /\ y[i] = s[(n + m) + i]
    BY <1>3, <1>4, <1>5
  <2>3. u[m + i] = s[n + (m + i)]
    BY <1>1, <2>1
  <2> QED
    BY <2>1, <2>2, <2>3
<1>7. x = y
  <2>1. Len(x) = k /\ Len(y) = k
    BY <1>3, <1>4, <1>5
  <2> QED
    BY <1>6, <2>1, SeqEqual
<1> QED
  BY <1>1, <1>2, <1>3, <1>4, <1>7

\* After one more frame all that was in the stream is where it was.
Grows(s, fs, t, gs) ==
  /\ gs \in Seq(FrameLengths) /\ Len(gs) = Len(fs) + 1 /\ s \in Seq(Bytes)
  /\ \A n \in 1 .. Len(fs) : gs[n] = fs[n]
  /\ Len(s) <= Len(t) /\ \A i \in 1 .. Len(s) : t[i] = s[i]
  /\ \A m \in 0 .. Len(fs) : Taken(gs, m) = Taken(fs, m)

LEMMA PostIs ==
  ASSUME NEW fs \in Seq(FrameLengths), NEW len \in FrameLengths, NEW s, NEW t, NEW gs,
         gs = Append(fs, len), s = FlattenSeq(FramesOf(fs)), t = FlattenSeq(FramesOf(gs))
  PROVE  Grows(s, fs, t, gs)
<1>1. PICK l \in Nat : l = Len(fs)
  OBVIOUS
<1>2. /\ gs \in Seq(FrameLengths) /\ Len(gs) = l + 1 /\ gs[l + 1] = len
      /\ \A n \in 1 .. l : gs[n] = fs[n]
  <2>1. /\ Append(fs, len) \in Seq(FrameLengths) /\ Len(Append(fs, len)) = Len(fs) + 1
        /\ \A i \in 1 .. Len(fs) : Append(fs, len)[i] = fs[i]
        /\ Append(fs, len)[Len(fs) + 1] = len
    BY AppendProperties
  <2> QED
    BY <1>1, <2>1
<1>3. PICK p \in Seq(Seq(Bytes)) :
        /\ p = FramesOf(fs) /\ Len(p) = l
        /\ \A n \in 1 .. l : p[n] = [k \in 1 .. FrameBytes(fs[n]) |-> <<n, k>>]
  BY <1>1, FramesAre
<1>4. PICK q \in Seq(Seq(Bytes)) :
        /\ q = FramesOf(gs) /\ Len(q) = l + 1
        /\ \A n \in 1 .. l + 1 : q[n] = [k \in 1 .. FrameBytes(gs[n]) |-> <<n, k>>]
  <2>1. PICK k \in Nat : k = l + 1
    OBVIOUS
  <2>2. Len(gs) = k
    BY <1>2, <2>1
  <2>3. PICK q : q = FramesOf(gs)
    OBVIOUS
  <2>4. /\ q \in Seq(Seq(Bytes)) /\ Len(q) = k
        /\ \A n \in 1 .. k : q[n] = [i \in 1 .. FrameBytes(gs[n]) |-> <<n, i>>]
    BY <1>2, <2>2, <2>3, FramesAre
  <2> QED
    BY <2>1, <2>3, <2>4
<1>5. PICK x \in Seq(Bytes) : x = q[l + 1]
  <2>1. l + 1 \in 1 .. l + 1
    OBVIOUS
  <2> QED
    BY <1>4, <2>1
<1>6. PICK y \in Seq(Seq(Bytes)) : y = <<x>> /\ Len(y) = 1 /\ y[1] = x
  <2>1. PICK y : y = <<x>>
    OBVIOUS
  <2>2. y \in Seq(Seq(Bytes)) /\ Len(y) = 1 /\ y[1] = x
    BY <2>1
  <2> QED
    BY <2>1, <2>2
<1>7. PICK c \in Seq(Seq(Bytes)) : c = p \o y /\ Joins(c, p, y)
  BY Concat
<1>8. q = c
  <2>1. Len(c) = l + 1 /\ (\A n \in 1 .. l : c[n] = p[n]) /\ \A n \in 1 .. 1 : c[l + n] = y[n]
    BY <1>3, <1>6, <1>7 DEF Joins
  <2>2. ASSUME NEW n \in 1 .. l + 1
        PROVE  q[n] = c[n]
    <3>1. CASE n = l + 1
      <4>1. 1 \in 1 .. 1
        OBVIOUS
      <4> QED
        BY <1>5, <1>6, <2>1, <3>1, <4>1
    <3>2. CASE n # l + 1
      <4>1. n \in 1 .. l
        BY <3>2
      <4>2. c[n] = p[n] /\ gs[n] = fs[n]
        BY <1>2, <2>1, <4>1
      <4>3. p[n] = [k \in 1 .. FrameBytes(fs[n]) |-> <<n, k>>]
        BY <1>3, <4>1
      <4>4. q[n] = [k \in 1 .. FrameBytes(gs[n]) |-> <<n, k>>]
        BY <1>4
      <4> QED
        BY <4>2, <4>3, <4>4
    <3> QED
      BY <3>1, <3>2
  <2>3. PICK k \in Nat : k = l + 1
    OBVIOUS
  <2>4. Len(q) = k /\ Len(c) = k /\ \A n \in 1 .. k : q[n] = c[n]
    BY <1>4, <2>1, <2>2, <2>3
  <2> QED
    BY <2>4, SeqEqual
<1>9. s \in Seq(Bytes) /\ Joins(t, s, x)
  <2>1. FlattenSeq(p) \in Seq(Bytes) /\ FlattenSeq(p \o y) = FlattenSeq(p) \o FlattenSeq(y)
    BY FlattenJoin
  <2>2. FlattenSeq(y) = x
    BY <1>6, FlattenOne
  <2>3. PICK z \in Seq(Bytes) : z = FlattenSeq(p)
    BY <2>1
  <2>4. Joins(z \o x, z, x)
    BY Concat
  <2>5. t = z \o x /\ s = z
    <3>1. t = FlattenSeq(p \o y)
      BY <1>4, <1>7, <1>8
    <3> QED
      BY <1>3, <2>1, <2>2, <2>3, <3>1
  <2> QED
    BY <2>3, <2>4, <2>5
<1>10. Len(s) <= Len(t) /\ \A i \in 1 .. Len(s) : t[i] = s[i]
  BY <1>9 DEF Joins
<1>11. Carries(s, fs) /\ Carries(t, gs)
  BY <1>2, StreamIs
<1> DEFINE T == {m \in 0 .. l : Taken(gs, m) = Taken(fs, m)}
<1>12. 0 \in T
  BY <1>11 DEF Carries
<1>13. ASSUME NEW m \in 0 .. l - 1, m \in T
       PROVE  m + 1 \in T
  <2>1. m + 1 \in 1 .. l /\ m + 1 \in 1 .. l + 1 /\ (m + 1) - 1 = m /\ m + 1 \in 0 .. l
    OBVIOUS
  <2>2. Taken(fs, m + 1) = Taken(fs, (m + 1) - 1) + FrameBytes(fs[m + 1])
    BY <1>1, <1>11, <2>1 DEF Carries
  <2>3. Taken(gs, m + 1) = Taken(gs, (m + 1) - 1) + FrameBytes(gs[m + 1])
    BY <1>2, <1>11, <2>1 DEF Carries
  <2>4. Taken(gs, m) = Taken(fs, m) /\ gs[m + 1] = fs[m + 1]
    BY <1>2, <1>13, <2>1
  <2> QED
    BY <2>1, <2>2, <2>3, <2>4
<1>14. \A m \in 0 .. l : m \in T
  <2> HIDE DEF T
  <2> QED
    BY <1>12, <1>13, InductionUpTo
<1> QED
  BY <1>1, <1>2, <1>9, <1>10, <1>14 DEF Grows

------------------------------------------------------------------------------
(* try_rpc_read *)

\* The words of the n-th frame.
Words(n) == SubSeq(Frame(n), HeaderBytes(frames[n]) + 1, FrameBytes(frames[n]))

\* What r is when a bytes of the stream s arrived: the queue holds what follows the
\* frames that were executed.
Good(r, s, a) ==
  /\ r \in [in : Seq(Buffer(Bytes)), in_bytes : Nat, executed : Seq(Seq(Bytes))]
  /\ r.in # <<>> => Room(Last(r.in)) > 0
  /\ Len(r.executed) <= Len(frames)
  /\ \A n \in 1 .. Len(r.executed) : r.executed[n] = Words(n)
  /\ Taken(frames, Len(r.executed)) <= a
  /\ Unread(r.in) = SubSeq(s, Taken(frames, Len(r.executed)) + 1, a)
  /\ r.in_bytes = a - Taken(frames, Len(r.executed))

\* The stream, of which a bytes arrived.
Arrived(s, a) ==
  /\ frames \in Seq(FrameLengths) /\ Carries(s, frames) /\ a \in 0 .. Len(s)

LEMMA UnreadOf ==
  ASSUME NEW s, NEW a \in Nat, Arrived(s, a), NEW r, Good(r, s, a),
         NEW e, e = Len(r.executed), NEW t, t = Taken(frames, e), NEW u, u = Unread(r.in)
  PROVE  /\ e \in 0 .. Len(frames) /\ t \in 0 .. a /\ s \in Seq(Bytes) /\ a <= Len(s)
         /\ u \in Seq(Bytes) /\ Len(u) = a - t /\ r.in_bytes = a - t /\ a - t \in Nat
         /\ \A i \in 1 .. a - t : u[i] = s[t + i]
<1>1. /\ s \in Seq(Bytes) /\ a <= Len(s) /\ frames \in Seq(FrameLengths)
      /\ \A m \in 0 .. Len(frames) : Taken(frames, m) \in Nat
  BY DEF Arrived, Carries
<1>2. /\ r.executed \in Seq(Seq(Bytes)) /\ e <= Len(frames) /\ t <= a
      /\ u = SubSeq(s, t + 1, a) /\ r.in_bytes = a - t
  BY DEF Good
<1>3. e \in 0 .. Len(frames)
  BY <1>1, <1>2
<1>4. t \in Nat
  BY <1>1, <1>3
<1>5. u \in Seq(Bytes) /\ Len(u) = a - t /\ \A i \in 1 .. a - t : u[i] = s[t + i]
  <2>1. /\ SubSeq(s, t + 1, a) \in Seq(Bytes) /\ Len(SubSeq(s, t + 1, a)) = a - t
        /\ \A i \in 1 .. a - t : SubSeq(s, t + 1, a)[i] = s[t + i]
    BY <1>1, <1>2, <1>4, BehindIs
  <2> QED
    BY <1>2, <2>1
<1> QED
  BY <1>1, <1>2, <1>3, <1>4, <1>5

\* At the head of the queue is the header of the next frame.
LEMMA HeadFrameIs ==
  ASSUME NEW s, NEW a \in Nat, Arrived(s, a), NEW r, Good(r, s, a), r.in_bytes >= 1,
         NEW e, e = Len(r.executed)
  PROVE  e + 1 \in 1 .. Len(frames) /\ HeadFrame(r) = e + 1 /\ InStep(r)
<1>1. PICK t, u : t = Taken(frames, e) /\ u = Unread(r.in)
  OBVIOUS
<1>2. /\ e \in 0 .. Len(frames) /\ t \in 0 .. a /\ s \in Seq(Bytes) /\ a <= Len(s)
      /\ u \in Seq(Bytes) /\ Len(u) = a - t /\ r.in_bytes = a - t
      /\ \A i \in 1 .. a - t : u[i] = s[t + i]
  BY <1>1, UnreadOf
<1>3. PICK l \in Nat, z \in Nat : l = Len(frames) /\ z = Len(s)
  <2>1. frames \in Seq(FrameLengths) /\ s \in Seq(Bytes)
    BY <1>2 DEF Arrived
  <2> QED
    BY <2>1
<1>4. /\ Taken(frames, l) = z
      /\ \A m \in 1 .. l : frames[m] \in FrameLengths
      /\ \A m \in 1 .. l : \A k \in 1 .. FrameBytes(frames[m]) : s[Taken(frames, m - 1) + k] = <<m, k>>
  BY <1>3 DEF Arrived, Carries
<1>5. e # l
  BY <1>1, <1>2, <1>3, <1>4
<1>6. e + 1 \in 1 .. l /\ (e + 1) - 1 = e
  BY <1>2, <1>3, <1>5
<1>7. s[t + 1] = <<e + 1, 1>>
  <2>1. 1 \in 1 .. FrameBytes(frames[e + 1])
    BY <1>4, <1>6, SizeIs
  <2> QED
    BY <1>1, <1>4, <1>6, <2>1
<1>8. 1 \in 1 .. a - t /\ u[1] = <<e + 1, 1>>
  BY <1>2, <1>7
<1>9. r.in \in Seq(Buffer(Bytes)) /\ 1 <= Len(Unread(r.in))
  BY <1>1, <1>2, <1>8 DEF Good
<1>10. Lookup(r.in, 1) = SubSeq(u, 1, 1)
  BY <1>1, <1>9, LookupIs
<1>11. SubSeq(u, 1, 1)[1] = u[1]
  <2>1. 0 + 1 = 1 /\ 0 \in Nat /\ 1 \in Nat /\ 0 <= 1 /\ 1 <= Len(u) /\ 1 - 0 = 1 /\ 1 \in 1 .. 1
    BY <1>1, <1>9
  <2>2. \A i \in 1 .. 1 - 0 : SubSeq(u, 0 + 1, 1)[i] = u[0 + i]
    BY <1>2, <2>1, BehindIs
  <2> QED
    BY <2>1, <2>2
<1>12. Lookup(r.in, 1)[1] = <<e + 1, 1>>
  BY <1>8, <1>10, <1>11
<1> QED
  BY <1>3, <1>6, <1>12 DEF HeadFrame, InStep

\* What the rest of the loop of try_rpc_read makes of it.
LEMMA ExecuteIs ==
  ASSUME NEW s, NEW a \in Nat, Arrived(s, a), NEW r, Good(r, s, a), Complete(r),
         NEW e, e = Len(r.executed)
  PROVE  Good(ExecuteHead(r), s, a) /\ Len(ExecuteHead(r).executed) = e + 1
<1>1. PICK t \in Nat, u \in Seq(Bytes) : t = Taken(frames, e) /\ u = Unread(r.in)
  <2>1. Taken(frames, e) \in 0 .. a /\ Unread(r.in) \in Seq(Bytes)
    BY UnreadOf
  <2> QED
    BY <2>1
<1>2. /\ e \in 0 .. Len(frames) /\ t \in 0 .. a /\ s \in Seq(Bytes) /\ a <= Len(s)
      /\ u \in Seq(Bytes) /\ Len(u) = a - t /\ r.in_bytes = a - t
      /\ \A i \in 1 .. a - t : u[i] = s[t + i]
  BY <1>1, UnreadOf
<1>3. e + 1 \in 1 .. Len(frames) /\ HeadFrame(r) = e + 1 /\ InStep(r)
  <2>1. r.in_bytes >= 1
    BY DEF Complete
  <2> QED
    BY <2>1, HeadFrameIs
<1>4. PICK l \in Nat : l = Len(frames) /\ frames \in Seq(FrameLengths)
  <2>1. frames \in Seq(FrameLengths)
    BY DEF Arrived
  <2> QED
    BY <2>1
<1>5. PICK len \in FrameLengths : len = frames[e + 1]
  BY <1>3, <1>4
<1>6. PICK h \in Nat, w \in Nat, f \in Nat :
        /\ h = HeaderBytes(len) /\ w = Word * len /\ f = FrameBytes(len) /\ f = h + w
  BY SizeIs
<1>7. PICK n \in Nat : n = a - t /\ f <= n
  <2>1. a - t \in Nat
    BY <1>2
  <2>2. r.in_bytes >= f
    BY <1>3, <1>5, <1>6 DEF Complete
  <2> QED
    BY <1>2, <2>1, <2>2
<1>8. /\ r.in \in Seq(Buffer(Bytes)) /\ (r.in # <<>> => Room(Last(r.in)) > 0)
      /\ r.executed \in Seq(Seq(Bytes)) /\ e <= l
      /\ \A k \in 1 .. e : r.executed[k] = Words(k)
      /\ u = SubSeq(s, t + 1, a)
  BY <1>1, <1>4 DEF Good
<1>9. PICK words, v : words = ReadIn(r.in, h) /\ v = Unread(words)
  OBVIOUS
<1>10. /\ words \in Seq(Buffer(Bytes)) /\ v = SubSeq(u, h + 1, Len(u))
       /\ words # <<>> => r.in # <<>> /\ Last(words).used = Last(r.in).used
  <2>1. h <= Len(Unread(r.in)) /\ r.in \in Seq(Buffer(Bytes))
    BY <1>1, <1>2, <1>6, <1>7, <1>8
  <2>2. /\ ReadIn(r.in, h) \in Seq(Buffer(Bytes))
        /\ Unread(ReadIn(r.in, h)) = SubSeq(Unread(r.in), h + 1, Len(Unread(r.in)))
        /\ ReadIn(r.in, h) # <<>> => r.in # <<>> /\ Last(ReadIn(r.in, h)).used = Last(r.in).used
    BY <2>1, ReadInIs
  <2> QED
    BY <1>1, <1>9, <2>2
<1>11. v \in Seq(Bytes) /\ Len(v) = n - h /\ \A i \in 1 .. n - h : v[i] = u[h + i]
  <2>1. h <= n /\ n <= Len(u)
    BY <1>2, <1>6, <1>7
  <2>2. /\ SubSeq(u, h + 1, n) \in Seq(Bytes) /\ Len(SubSeq(u, h + 1, n)) = n - h
        /\ \A i \in 1 .. n - h : SubSeq(u, h + 1, n)[i] = u[h + i]
    BY <1>2, <2>1, BehindIs
  <2>3. Len(u) = n
    BY <1>2, <1>7
  <2> QED
    BY <1>10, <2>2, <2>3
<1>12. PICK rest : rest = ReadIn(words, w)
  OBVIOUS
<1>13. w <= n - h /\ n - h \in Nat
  BY <1>6, <1>7
<1>14. /\ rest \in Seq(Buffer(Bytes)) /\ Unread(rest) = SubSeq(v, w + 1, Len(v))
       /\ rest # <<>> => words # <<>> /\ Last(rest).used = Last(words).used
  <2>1. w <= Len(Unread(words)) /\ words \in Seq(Buffer(Bytes))
    BY <1>9, <1>10, <1>11, <1>13
  <2>2. /\ ReadIn(words, w) \in Seq(Buffer(Bytes))
        /\ Unread(ReadIn(words, w)) = SubSeq(Unread(words), w + 1, Len(Unread(words)))
        /\ ReadIn(words, w) # <<>> => words # <<>> /\ Last(ReadIn(words, w)).used = Last(words).used
    BY <2>1, ReadInIs
  <2> QED
    BY <1>9, <1>12, <2>2
<1>15. rest # <<>> => Room(Last(rest)) > 0
  BY <1>8, <1>10, <1>14 DEF Room
<1>a. f = h + w /\ h + w <= n
  BY <1>6, <1>7
<1>b. n = a - t /\ t <= a
  BY <1>2, <1>7
<1>16. Unread(rest) = SubSeq(s, (t + f) + 1, a)
  <2>1. v = SubSeq(s, (t + h) + 1, a)
    <3>1. h \in Nat /\ h <= a - t /\ t \in Nat /\ t <= a
      BY <1>2, <1>6, <1>7
    <3> QED
      BY <1>2, <1>8, <1>10, <3>1, BehindBehind
  <2>2. SubSeq(v, w + 1, Len(v)) = SubSeq(s, ((t + h) + w) + 1, a)
    <3>1. w \in Nat /\ w <= a - (t + h) /\ t + h \in Nat /\ t + h <= a
      BY <1>a, <1>b
    <3> QED
      BY <1>2, <2>1, <3>1, BehindBehind
  <2>3. (t + h) + w = t + f
    BY <1>2, <1>6
  <2> QED
    BY <1>14, <2>2, <2>3
<1>17. PICK x : x = Lookup(words, w)
  OBVIOUS
<1>18. x \in Seq(Bytes) /\ Len(x) = w /\ \A i \in 1 .. w : x[i] = v[i]
  <2>1. w <= Len(Unread(words))
    BY <1>9, <1>11, <1>13
  <2>2. x = SubSeq(v, 1, w)
    BY <1>9, <1>10, <1>17, <2>1, LookupIs
  <2>3. w \in 0 .. Len(v)
    BY <1>11, <1>13
  <2>4. SubSeq(v, 1, w) \in Seq(Bytes) /\ Len(SubSeq(v, 1, w)) = w
    BY <1>11, <2>3, PartsJoin
  <2>5. \A i \in 1 .. w : SubSeq(v, 1, w)[i] = v[i]
    <3>1. 0 + 1 = 1 /\ 0 \in Nat /\ 0 <= w /\ w <= Len(v) /\ w - 0 = w
      BY <2>3
    <3>2. \A i \in 1 .. w : 0 + i = i
      OBVIOUS
    <3>3. \A i \in 1 .. w - 0 : SubSeq(v, 0 + 1, w)[i] = v[0 + i]
      BY <1>11, <3>1, BehindIs
    <3> QED
      BY <3>1, <3>2, <3>3
  <2> QED
    BY <2>2, <2>4, <2>5
<1>19. \A k \in 1 .. f : s[t + k] = <<e + 1, k>>
  <2>1. (e + 1) - 1 = e
    BY <1>2
  <2>2. \A k \in 1 .. FrameBytes(frames[e + 1]) : s[Taken(frames, (e + 1) - 1) + k] = <<e + 1, k>>
    BY <1>3 DEF Arrived, Carries
  <2> QED
    BY <1>1, <1>5, <1>6, <2>1, <2>2
<1>20. x = Words(e + 1)
  <2>1. PICK g : g = Frame(e + 1)
    OBVIOUS
  <2>2. g = [k \in 1 .. f |-> <<e + 1, k>>]
    BY <1>5, <1>6, <2>1 DEF Frame
  <2>3. g \in Seq(Bytes) /\ Len(g) = f
    <3>1. e + 1 \in Nat
      BY <1>2
    <3>2. g \in [1 .. f -> Bytes]
      BY <2>2, <3>1 DEF Bytes
    <3>3. g \in Seq(Bytes)
      BY <3>2
    <3> QED
      BY <2>2, <3>3
  <2>4. PICK y \in Seq(Bytes) : /\ y = SubSeq(g, h + 1, f) /\ Len(y) = f - h
                                /\ \A i \in 1 .. f - h : y[i] = g[h + i]
    <3>1. h <= f /\ f <= Len(g)
      BY <1>6, <2>3
    <3>2. /\ SubSeq(g, h + 1, f) \in Seq(Bytes) /\ Len(SubSeq(g, h + 1, f)) = f - h
          /\ \A i \in 1 .. f - h : SubSeq(g, h + 1, f)[i] = g[h + i]
      BY <2>3, <3>1, BehindIs
    <3> QED
      BY <3>2
  <2>5. Words(e + 1) = y
    BY <1>5, <1>6, <2>1, <2>4 DEF Words
  <2>6. f - h = w
    BY <1>6
  <2>7. ASSUME NEW i \in 1 .. w
        PROVE  x[i] = y[i]
    <3>1. i \in 1 .. n - h /\ h + i \in 1 .. a - t /\ h + i \in 1 .. f /\ t + (h + i) \in Nat
      BY <1>a, <1>b
    <3>2. x[i] = u[h + i]
      BY <1>11, <1>18, <3>1
    <3>3. u[h + i] = s[t + (h + i)]
      BY <1>2, <3>1
    <3>4. s[t + (h + i)] = <<e + 1, h + i>>
      BY <1>19, <3>1
    <3>5. y[i] = g[h + i]
      BY <2>4, <2>6
    <3>6. g[h + i] = <<e + 1, h + i>>
      BY <2>2, <3>1
    <3> QED
      BY <3>2, <3>3, <3>4, <3>5, <3>6
  <2>8. Len(x) = w /\ Len(y) = w
    BY <1>18, <2>4, <2>6
  <2>9. x = y
    BY <1>18, <2>7, <2>8, SeqEqual
  <2> QED
    BY <2>5, <2>9
<1>21. PICK d : d = Append(r.executed, x)
  OBVIOUS
<1>22. /\ d \in Seq(Seq(Bytes)) /\ Len(d) = e + 1
       /\ (\A k \in 1 .. e : d[k] = r.executed[k]) /\ d[e + 1] = x
  <2>1. /\ Append(r.executed, x) \in Seq(Seq(Bytes))
        /\ Len(Append(r.executed, x)) = Len(r.executed) + 1
        /\ \A k \in 1 .. Len(r.executed) : Append(r.executed, x)[k] = r.executed[k]
        /\ Append(r.executed, x)[Len(r.executed) + 1] = x
    BY <1>8, <1>18, AppendProperties
  <2> QED
    BY <1>21, <2>1
<1>23. \A k \in 1 .. e + 1 : d[k] = Words(k)
  <2>1. \A k \in 1 .. e + 1 : k = e + 1 \/ k \in 1 .. e
    BY <1>2
  <2> QED
    BY <1>8, <1>20, <1>22, <2>1
<1>24. Taken(frames, e + 1) = t + f
  <2>1. (e + 1) - 1 = e
    BY <1>2
  <2>2. Taken(frames, e + 1) = Taken(frames, (e + 1) - 1) + FrameBytes(frames[e + 1])
    BY <1>3 DEF Arrived, Carries
  <2> QED
    BY <1>1, <1>5, <1>6, <2>1, <2>2
<1>25. PICK z : z = ExecuteHead(r)
  OBVIOUS
<1>26. PICK m \in Nat : m = n - f /\ m = a - (t + f) /\ t + f <= a
  <2>1. n - f \in Nat /\ n - f = a - (t + f) /\ t + f <= a
    BY <1>2, <1>7
  <2> QED
    BY <2>1
<1>27. z = [in |-> rest, in_bytes |-> m, executed |-> d]
  <2>1. r.in_bytes - f = m
    BY <1>2, <1>7, <1>26
  <2> QED
    BY <1>3, <1>5, <1>6, <1>9, <1>12, <1>17, <1>21, <1>25, <2>1 DEF ExecuteHead
<1>28. /\ z \in [in : Seq(Buffer(Bytes)), in_bytes : Nat, executed : Seq(Seq(Bytes))]
       /\ z.in = rest /\ z.in_bytes = m /\ z.executed = d
  <2>1. z.in = rest /\ z.in_bytes = m /\ z.executed = d
    BY ONLY <1>27
  <2> QED
    BY <1>14, <1>22, <1>27, <2>1
<1>29. Good(z, s, a)
  <2>1. Len(z.executed) = e + 1 /\ e + 1 <= Len(frames)
    BY <1>3, <1>22, <1>28
  <2>2. \A k \in 1 .. Len(z.executed) : z.executed[k] = Words(k)
    BY <1>23, <1>28, <2>1
  <2>3. z.in # <<>> => Room(Last(z.in)) > 0
    BY <1>15, <1>28
  <2>4. Taken(frames, Len(z.executed)) = t + f
    BY <1>24, <2>1
  <2>5. Unread(z.in) = SubSeq(s, Taken(frames, Len(z.executed)) + 1, a)
    BY <1>16, <1>28, <2>4
  <2>6. z.in_bytes = a - Taken(frames, Len(z.executed)) /\ Taken(frames, Len(z.executed)) <= a
    BY <1>26, <1>28, <2>4
  <2> QED
    BY <1>28, <2>1, <2>2, <2>3, <2>5, <2>6 DEF Good
<1> QED
  BY <1>22, <1>25, <1>28, <1>29

\* One turn of the loop of try_rpc_read.
Turn(x) == IF Complete(x) /\ InStep(x) THEN ExecuteHead(x) ELSE x

\* What the first turns make of r: each of the first m executes a frame, and the
\* others change nothing.
Turns(g, e, n) ==
  \E m \in 0 .. n : /\ \A k \in 0 .. m : Len(g[k].executed) = e + k
                    /\ g[n] = g[m]
                    /\ m < n => ~Complete(g[m])

\* try_rpc_read executes frames that are complete, in order, and stops only where
\* execute refuses one or none is complete.
LEMMA RunIs ==
  ASSUME NEW s, NEW a \in Nat, Arrived(s, a), NEW r, Good(r, s, a), NEW x \in RpcRead(r)
  PROVE  Good(x.r, s, a) /\ x.stopped \in BOOLEAN /\ (~x.stopped => ~Complete(x.r))
<1>1. PICK N \in Nat : N = Len(frames)
  <2>1. frames \in Seq(FrameLengths)
    BY DEF Arrived
  <2> QED
    BY <2>1
<1> DEFINE R == [in : Seq(Buffer(Bytes)), in_bytes : Nat, executed : Seq(Seq(Bytes))]
           V == {y \in R : Good(y, s, a)}
           D == [k \in 0 .. N - 1 |-> [y \in V |-> Turn(y)]]
<1>2. r \in V /\ \A y \in V : Good(y, s, a)
  BY DEF Good
<1>3. \A y \in V : Turn(y) \in V
  <2>1. SUFFICES ASSUME NEW y \in V
                 PROVE  Turn(y) \in V
    OBVIOUS
  <2>2. Good(y, s, a)
    BY <1>2
  <2>3. CASE Complete(y) /\ InStep(y)
    <3>1. Good(ExecuteHead(y), s, a)
      BY <2>2, <2>3, ExecuteIs
    <3>2. ExecuteHead(y) \in R
      BY <3>1 DEF Good
    <3>3. Turn(y) = ExecuteHead(y)
      BY <2>3 DEF Turn
    <3> QED
      BY <3>1, <3>2, <3>3
  <2>4. CASE ~(Complete(y) /\ InStep(y))
    <3>1. Turn(y) = y
      BY <2>4 DEF Turn
    <3> QED
      BY <3>1
  <2> QED
    BY <2>3, <2>4
<1> HIDE DEF V
<1>4. PICK f : Recurs(f, N, V, r, D)
  <2>1. StaysIn(D, N, V)
    BY <1>3 DEF StaysIn
  <2> HIDE DEF D
  <2> QED
    BY <1>2, <2>1, Recursion
<1>5. f \in [0 .. N -> V] /\ f[0] = r /\ \A k \in 0 .. N - 1 : f[k + 1] = Turn(f[k])
  <2>1. /\ f \in [0 .. N -> V] /\ f[0] = r
        /\ \A k \in 0 .. N - 1 : f[k + 1] = D[k][f[k]]
    <3> HIDE DEF D
    <3> QED
      BY <1>4 DEF Recurs
  <2>2. \A k \in 0 .. N - 1 : f[k] \in V
    BY <2>1
  <2>3. \A k \in 0 .. N - 1 : D[k][f[k]] = Turn(f[k])
    BY <2>2
  <2> HIDE DEF D
  <2> QED
    BY <2>1, <2>3
<1> HIDE DEF R, D
<1> DEFINE Unfolded(g) ==
             g = [k \in 0 .. Len(frames) |->
                    IF k = 0 THEN r
                    ELSE IF Complete(g[k - 1]) /\ InStep(g[k - 1]) THEN ExecuteHead(g[k - 1])
                    ELSE g[k - 1]]
           after[k \in 0 .. Len(frames)] ==
             IF k = 0 THEN r
             ELSE IF Complete(after[k - 1]) /\ InStep(after[k - 1]) THEN ExecuteHead(after[k - 1])
             ELSE after[k - 1]
<1>6. Unfolded(f)
  <2>1. ASSUME NEW k \in 0 .. N
        PROVE  f[k] = IF k = 0 THEN r
                      ELSE IF Complete(f[k - 1]) /\ InStep(f[k - 1]) THEN ExecuteHead(f[k - 1])
                      ELSE f[k - 1]
    <3>1. CASE k = 0
      BY <1>5, <3>1
    <3>2. CASE k # 0
      <4>1. k - 1 \in 0 .. N - 1 /\ (k - 1) + 1 = k
        BY <3>2
      <4>2. f[k] = Turn(f[k - 1])
        BY <1>5, <4>1
      <4> QED
        BY <3>2, <4>2 DEF Turn
    <3> QED
      BY <3>1, <3>2
  <2>2. f = [k \in 0 .. N |-> f[k]]
    BY <1>5
  <2> QED
    BY <1>1, <2>1, <2>2
<1>7. Unfolded(after)
  <2>1. \E g : Unfolded(g)
    BY <1>6
  <2> QED
    BY <2>1
<1> DEFINE ran == Len(after[Len(frames)].executed) - Len(r.executed)
<1>8. PICK k \in 0 .. ran : x = [r |-> after[k], stopped |-> k < ran] /\ (k > 0 \/ ran = 0)
  <2>1. RpcRead(r) = {[r |-> after[k], stopped |-> k < ran] : k \in {k \in 0 .. ran : k > 0 \/ ran = 0}}
    BY DEF RpcRead
  <2> HIDE DEF after, ran
  <2> QED
    BY <2>1
<1>9. PICK g : g = after
  OBVIOUS
<1>10. PICK c : c = ran /\ c = Len(g[N].executed) - Len(r.executed)
  BY <1>1, <1>9
<1>11. g[0] = r /\ \A n \in 1 .. N : g[n] = Turn(g[n - 1])
  <2>1. \A n \in 0 .. N : g[n] = IF n = 0 THEN r
                      ELSE IF Complete(g[n - 1]) /\ InStep(g[n - 1]) THEN ExecuteHead(g[n - 1])
                      ELSE g[n - 1]
    BY <1>1, <1>7, <1>9
  <2>2. 0 \in 0 .. N /\ \A n \in 1 .. N : n \in 0 .. N /\ n # 0
    OBVIOUS
  <2> QED
    BY <2>1, <2>2 DEF Turn
<1>12. k \in 0 .. c /\ x = [r |-> g[k], stopped |-> k < c]
  BY <1>8, <1>9, <1>10
<1> HIDE DEF after, ran
<1>13. \A n \in 0 .. N : g[n] \in V
  <2> DEFINE T == {n \in 0 .. N : g[n] \in V}
  <2>1. 0 \in T
    BY <1>2, <1>11
  <2>2. ASSUME NEW n \in 0 .. N - 1, n \in T
        PROVE  n + 1 \in T
    <3>1. n + 1 \in 1 .. N /\ (n + 1) - 1 = n /\ n + 1 \in 0 .. N
      OBVIOUS
    <3>2. g[n + 1] = Turn(g[n]) /\ g[n] \in V
      BY <1>11, <2>2, <3>1
    <3> QED
      BY <1>3, <3>1, <3>2
  <2>3. \A n \in 0 .. N : n \in T
    <3> HIDE DEF T
    <3> QED
      BY <2>1, <2>2, InductionUpTo
  <2> QED
    BY <2>3
<1>14. \A n \in 0 .. N : Good(g[n], s, a)
  BY <1>2, <1>13
<1>15. PICK e \in Nat : e = Len(r.executed)
  <2>1. r.executed \in Seq(Seq(Bytes))
    BY DEF Good
  <2> QED
    BY <2>1
<1>16. \A n \in 0 .. N : Turns(g, e, n)
  <2> DEFINE T == {n \in 0 .. N : Turns(g, e, n)}
  <2>1. 0 \in T
    <3>1. Len(g[0].executed) = e + 0
      BY <1>11, <1>15
    <3> QED
      BY <3>1 DEF Turns
  <2>2. ASSUME NEW n \in 0 .. N - 1, n \in T
        PROVE  n + 1 \in T
    <3>1. n + 1 \in 1 .. N /\ (n + 1) - 1 = n /\ n + 1 \in 0 .. N /\ n \in 0 .. N
      OBVIOUS
    <3>2. g[n + 1] = Turn(g[n])
      BY <1>11, <3>1
    <3>3. PICK m \in 0 .. n : /\ \A i \in 0 .. m : Len(g[i].executed) = e + i
                              /\ g[n] = g[m]
                              /\ m < n => ~Complete(g[m])
      BY <2>2 DEF Turns
    <3>4. CASE m < n \/ ~Complete(g[n])
      <4>1. g[n + 1] = g[m] /\ ~Complete(g[m])
        BY <3>2, <3>3, <3>4 DEF Turn
      <4>2. m \in 0 .. n + 1
        OBVIOUS
      <4>3. Turns(g, e, n + 1)
        BY <3>3, <4>1, <4>2 DEF Turns
      <4> QED
        BY <3>1, <4>3
    <3>5. CASE ~(m < n) /\ Complete(g[n])
      <4>1. m = n
        BY <3>5
      <4>2. Good(g[n], s, a) /\ g[n].in_bytes >= 1
        BY <1>14, <3>1, <3>5 DEF Complete
      <4>3. Len(g[n].executed) = e + n
        BY <3>3, <4>1
      <4>4. InStep(g[n])
        BY <4>2, HeadFrameIs
      <4>5. g[n + 1] = ExecuteHead(g[n])
        BY <3>2, <3>5, <4>4 DEF Turn
      <4>6. Len(ExecuteHead(g[n]).executed) = (e + n) + 1
        <5>1. PICK y, d : y = g[n] /\ d = Len(y.executed)
          OBVIOUS
        <5>2. Good(y, s, a) /\ Complete(y) /\ d = e + n
          BY <3>5, <4>2, <4>3, <5>1
        <5>3. Len(ExecuteHead(y).executed) = d + 1
          <6>1. Len(ExecuteHead(y).executed) = Len(y.executed) + 1
            BY <5>2, ExecuteIs
          <6> QED
            BY <5>1, <6>1
        <5> QED
          BY <5>1, <5>2, <5>3
      <4>7. Len(g[n + 1].executed) = e + (n + 1)
        <5>1. (e + n) + 1 = e + (n + 1)
          OBVIOUS
        <5> QED
          BY <4>5, <4>6, <5>1
      <4>8. \A i \in 0 .. n + 1 : i = n + 1 \/ i \in 0 .. m
        BY <4>1
      <4>9. \A i \in 0 .. n + 1 : Len(g[i].executed) = e + i
        BY <3>3, <4>7, <4>8
      <4>10. n + 1 \in 0 .. n + 1 /\ ~(n + 1 < n + 1)
        OBVIOUS
      <4>11. Turns(g, e, n + 1)
        BY <4>9, <4>10 DEF Turns
      <4> QED
        BY <3>1, <4>11
    <3> QED
      BY <3>4, <3>5
  <2>3. \A n \in 0 .. N : n \in T
    <3> HIDE DEF T
    <3> QED
      BY <2>1, <2>2, InductionUpTo
  <2> QED
    BY <2>3
<1>17. PICK m \in 0 .. N : /\ \A i \in 0 .. m : Len(g[i].executed) = e + i
                           /\ g[N] = g[m]
                           /\ m < N => ~Complete(g[m])
  <2>1. N \in 0 .. N
    OBVIOUS
  <2> QED
    BY <1>16, <2>1 DEF Turns
<1>18. c = m
  <2>1. m \in 0 .. m
    OBVIOUS
  <2>2. Len(g[N].executed) = e + m
    BY <1>17, <2>1
  <2>3. c = (e + m) - e
    BY <1>10, <1>15, <2>2
  <2> QED
    BY <2>3
<1>19. x.r = g[k] /\ x.stopped = (k < c)
  BY ONLY <1>12
<1>20. k \in 0 .. N /\ k \in 0 .. m
  BY <1>12, <1>18
<1>21. ~Complete(g[m])
  <2>1. CASE m < N
    BY <1>17, <2>1
  <2>2. CASE ~(m < N)
    <3>1. SUFFICES ASSUME Complete(g[m])
                   PROVE  FALSE
      OBVIOUS
    <3>2. Good(g[m], s, a) /\ g[m].in_bytes >= 1
      BY <1>14, <3>1 DEF Complete
    <3>3. Len(g[m].executed) = e + m
      BY <1>17
    <3>4. (e + m) + 1 \in 1 .. Len(frames)
      BY <3>2, <3>3, HeadFrameIs
    <3> QED
      BY <1>1, <2>2, <3>4
  <2> QED
    BY <2>1, <2>2
<1>22. ~(k < c) => k = m
  BY <1>12, <1>18
<1>23. x.stopped \in BOOLEAN /\ (~x.stopped => k = m)
  <2>1. (k < c) \in BOOLEAN
    OBVIOUS
  <2>2. x.stopped = (k < c)
    BY <1>19
  <2> HIDE <1>19
  <2> QED
    BY <1>22, <2>1, <2>2
<1>24. Good(x.r, s, a)
  BY <1>14, <1>19, <1>20
<1> QED
  BY <1>19, <1>21, <1>23, <1>24

------------------------------------------------------------------------------
(* The out queue *)

\* The queue q holds what was written, w, and not sent yet: s was.
Queued(w, s, b, q) ==
  /\ Len(s) <= Len(w) /\ \A k \in 1 .. Len(s) : s[k] = w[k]
  /\ b = Len(w) - Len(s)
  /\ Unread(q) = SubSeq(w, Len(s) + 1, Len(w))

\* The first m of the l bytes were sent, and u are the others.
Splits(w, s, b, u, l, m) ==
  /\ l = Len(w) /\ m = Len(s) /\ m <= l /\ b = l - m /\ b \in Nat
  /\ u \in Seq(Nat) /\ Len(u) = l - m /\ \A i \in 1 .. l - m : u[i] = w[m + i]
  /\ \A k \in 1 .. m : s[k] = w[k]

LEMMA QueuedAre ==
  ASSUME NEW w \in Seq(Nat), NEW s \in Seq(Nat), NEW b, NEW q, Queued(w, s, b, q),
         NEW u, u = Unread(q)
  PROVE  \E l \in Nat, m \in Nat : Splits(w, s, b, u, l, m)
<1>1. PICK l \in Nat, m \in Nat : l = Len(w) /\ m = Len(s)
  OBVIOUS
<1>2. m <= l /\ b = l - m /\ u = SubSeq(w, m + 1, l) /\ \A k \in 1 .. m : s[k] = w[k]
  BY <1>1 DEF Queued
<1>3. /\ SubSeq(w, m + 1, l) \in Seq(Nat) /\ Len(SubSeq(w, m + 1, l)) = l - m
      /\ \A i \in 1 .. l - m : SubSeq(w, m + 1, l)[i] = w[m + i]
  <2>1. m <= l /\ l <= Len(w)
    BY <1>1, <1>2
  <2> QED
    BY <2>1, BehindIs
<1>4. u \in Seq(Nat) /\ Len(u) = l - m /\ \A i \in 1 .. l - m : u[i] = w[m + i]
  BY <1>2, <1>3
<1>5. b \in Nat
  BY <1>2
<1>6. Splits(w, s, b, u, l, m)
  BY <1>1, <1>2, <1>4, <1>5 DEF Splits
<1> QED
  BY <1>6

\* tgln_write_out: the bytes are behind the others.
LEMMA WroteQueued ==
  ASSUME NEW w \in Seq(Nat), NEW s \in Seq(Nat), NEW b, NEW q \in Seq(Buffer(Nat)),
         Queued(w, s, b, q), NEW bytes \in Seq(Nat), NEW n, n = Len(bytes),
         NEW v, v = w \o bytes
  PROVE  Queued(v, s, b + n, Wrote(q, bytes))
<1>1. PICK u, z : u = Unread(q) /\ z = Unread(Wrote(q, bytes))
  OBVIOUS
<1>2. PICK l \in Nat, m \in Nat :
           /\ l = Len(w) /\ m = Len(s) /\ m <= l /\ b = l - m /\ b \in Nat
           /\ u \in Seq(Nat) /\ Len(u) = l - m /\ \A i \in 1 .. l - m : u[i] = w[m + i]
           /\ \A k \in 1 .. m : s[k] = w[k]
  <2>1. PICK l \in Nat, m \in Nat : Splits(w, s, b, u, l, m)
    BY <1>1, QueuedAre
  <2> QED
    BY <2>1 DEF Splits
<1>3. n \in Nat
  OBVIOUS
<1>4. v \in Seq(Nat) /\ Joins(v, w, bytes)
  BY Concat
<1>5. /\ Len(v) = l + n /\ (\A k \in 1 .. l : v[k] = w[k])
      /\ \A k \in 1 .. n : v[l + k] = bytes[k]
  BY <1>2, <1>4 DEF Joins
<1>6. z = u \o bytes
  BY <1>1, WroteIs
<1>7. z \in Seq(Nat) /\ Joins(z, u, bytes)
  BY <1>2, <1>6, Concat
<1>8. PICK d \in Nat : d = l - m
  <2>1. l - m \in Nat
    BY <1>2
  <2> QED
    BY <2>1
<1>9. /\ Len(z) = d + n /\ (\A k \in 1 .. d : z[k] = u[k])
      /\ \A k \in 1 .. n : z[d + k] = bytes[k]
  BY <1>2, <1>7, <1>8 DEF Joins
<1>10. PICK e \in Nat : e = l + n /\ Len(v) = e
  BY <1>3, <1>5
<1>11. PICK y \in Seq(Nat) : /\ y = SubSeq(v, m + 1, e) /\ Len(y) = e - m
                             /\ \A i \in 1 .. e - m : y[i] = v[m + i]
  <2>1. m <= e /\ e <= Len(v)
    BY <1>2, <1>3, <1>10
  <2>2. /\ SubSeq(v, m + 1, e) \in Seq(Nat) /\ Len(SubSeq(v, m + 1, e)) = e - m
        /\ \A i \in 1 .. e - m : SubSeq(v, m + 1, e)[i] = v[m + i]
    <3>1. v \in Seq(Nat) /\ m \in Nat /\ e \in Nat
      BY <1>4
    <3> QED
      BY ONLY <2>1, <3>1, BehindIs
  <2> QED
    BY <2>2
<1>12. PICK c \in Nat : c = d + n /\ c = e - m
  <2>1. e = l + n
    BY <1>10
  <2>2. d + n \in Nat /\ d + n = e - m
    BY <1>2, <1>3, <1>8, <2>1
  <2> QED
    BY <2>2
<1>13. ASSUME NEW i \in 1 .. c
       PROVE  z[i] = y[i]
  <2>1. CASE i <= d
    <3>1. i \in 1 .. d /\ i \in 1 .. l - m /\ m + i \in 1 .. l /\ i \in 1 .. e - m
      BY <1>8, <1>12, <2>1
    <3>2. z[i] = u[i] /\ u[i] = w[m + i] /\ v[m + i] = w[m + i] /\ y[i] = v[m + i]
      BY <1>2, <1>5, <1>9, <1>11, <3>1
    <3> QED
      BY <3>2
  <2>2. CASE ~(i <= d)
    <3>1. PICK k \in 1 .. n : i = d + k
      <4>1. i - d \in 1 .. n /\ i = d + (i - d)
        BY <1>3, <1>12, <2>2
      <4> QED
        BY <4>1
    <3>2. m + i = l + k /\ i \in 1 .. e - m
      BY <1>3, <1>8, <1>12, <3>1
    <3>3. z[i] = bytes[k] /\ v[l + k] = bytes[k] /\ y[i] = v[m + i]
      BY <1>5, <1>9, <1>11, <3>1, <3>2
    <3> QED
      BY <3>2, <3>3
  <2> QED
    BY <2>1, <2>2
<1>14. z = y
  <2>1. Len(z) = c /\ Len(y) = c
    BY <1>9, <1>11, <1>12
  <2> QED
    BY <1>7, <1>13, <2>1, SeqEqual
<1>15. Len(s) <= Len(v) /\ b + n = Len(v) - Len(s)
  <2>1. m <= e /\ b + n = e - m
    BY <1>2, <1>3, <1>10
  <2> QED
    BY <1>2, <1>10, <2>1
<1>16. \A k \in 1 .. Len(s) : s[k] = v[k]
  <2>1. \A k \in 1 .. m : k \in 1 .. l
    BY <1>2
  <2> QED
    BY <1>2, <1>5, <2>1
<1> QED
  BY <1>1, <1>2, <1>10, <1>11, <1>14, <1>15, <1>16 DEF Queued

\* try_write: what send took is the beginning of the queue, and what remains follows.
LEMMA SentQueued ==
  ASSUME NEW w \in Seq(Nat), NEW s \in Seq(Nat), NEW b, NEW q \in Seq(Buffer(Nat)),
         Queued(w, s, b, q), NEW n \in Nat, n <= b, NEW x, x = Lookup(q, n),
         NEW v, v = s \o x
  PROVE  /\ x \in Seq(Nat) /\ v \in Seq(Nat) /\ Sent(q, n) \in Seq(Buffer(Nat))
         /\ Queued(w, v, b - n, Sent(q, n))
<1>1. PICK u, z : u = Unread(q) /\ z = Unread(Sent(q, n))
  OBVIOUS
<1>2. PICK l \in Nat, m \in Nat :
           /\ l = Len(w) /\ m = Len(s) /\ m <= l /\ b = l - m /\ b \in Nat
           /\ u \in Seq(Nat) /\ Len(u) = l - m /\ \A i \in 1 .. l - m : u[i] = w[m + i]
           /\ \A k \in 1 .. m : s[k] = w[k]
  <2>1. PICK l \in Nat, m \in Nat : Splits(w, s, b, u, l, m)
    BY <1>1, QueuedAre
  <2> QED
    BY <2>1 DEF Splits
<1>3. n <= Len(u)
  BY <1>2
<1>4. Sent(q, n) \in Seq(Buffer(Nat)) /\ z = SubSeq(u, n + 1, Len(u))
  BY <1>1, <1>3, SentIs
<1>5. x = SubSeq(u, 1, n)
  BY <1>1, <1>3, LookupIs
<1>6. x \in Seq(Nat) /\ Len(x) = n /\ \A i \in 1 .. n : x[i] = u[i]
  <2>1. 0 + 1 = 1 /\ 0 \in Nat /\ 0 <= n /\ n - 0 = n /\ \A i \in 1 .. n : 0 + i = i
    OBVIOUS
  <2>2. /\ SubSeq(u, 0 + 1, n) \in Seq(Nat) /\ Len(SubSeq(u, 0 + 1, n)) = n - 0
        /\ \A i \in 1 .. n - 0 : SubSeq(u, 0 + 1, n)[i] = u[0 + i]
    <3>1. u \in Seq(Nat)
      BY <1>2
    <3> QED
      BY <1>3, <2>1, <3>1, BehindIs
  <2> QED
    BY <1>5, <2>1, <2>2
<1>7. v \in Seq(Nat) /\ Joins(v, s, x)
  BY <1>6, Concat
<1>8. /\ Len(v) = m + n /\ (\A k \in 1 .. m : v[k] = s[k])
      /\ \A k \in 1 .. n : v[m + k] = x[k]
  BY <1>2, <1>6, <1>7 DEF Joins
<1>9. PICK e \in Nat : e = m + n /\ Len(v) = e /\ e <= l /\ b - n = l - e
  <2>1. m <= l /\ b = l - m
    BY <1>2
  <2>2. m + n \in Nat /\ m + n <= l /\ b - n = l - (m + n)
    BY <2>1
  <2>3. Len(v) = m + n
    BY <1>8
  <2> QED
    BY <2>2, <2>3
<1>10. z = SubSeq(w, e + 1, l)
  <2>1. u = SubSeq(w, m + 1, l)
    BY <1>1, <1>2 DEF Queued
  <2>2. SubSeq(u, n + 1, Len(u)) = SubSeq(w, (m + n) + 1, l)
    <3>1. n <= l - m /\ m <= l /\ l <= Len(w)
      BY <1>2
    <3>2. u = SubSeq(w, m + 1, l) => SubSeq(u, n + 1, Len(u)) = SubSeq(w, (m + n) + 1, l)
      BY <3>1, BehindBehind
    <3> QED
      BY <2>1, <3>2
  <2> QED
    BY <1>4, <1>9, <2>2
<1>11. ASSUME NEW k \in 1 .. e
       PROVE  v[k] = w[k]
  <2>1. CASE k <= m
    <3>1. k \in 1 .. m
      BY <2>1
    <3> QED
      BY <1>2, <1>8, <3>1
  <2>2. CASE ~(k <= m)
    <3>1. PICK i \in 1 .. n : k = m + i
      <4>1. k - m \in 1 .. n /\ k = m + (k - m)
        BY <1>9, <2>2
      <4> QED
        BY <4>1
    <3>2. i \in 1 .. l - m
      BY <1>2
    <3>3. v[m + i] = x[i] /\ x[i] = u[i] /\ u[i] = w[m + i]
      BY <1>2, <1>6, <1>8, <3>2
    <3> QED
      BY <3>1, <3>3
  <2> QED
    BY <2>1, <2>2
<1>12. Queued(w, v, b - n, Sent(q, n))
  BY <1>1, <1>2, <1>9, <1>10, <1>11 DEF Queued
<1> QED
  BY <1>4, <1>6, <1>7, <1>12

------------------------------------------------------------------------------
(* The steps *)

\* What the first bytes and those behind them make together.
LEMMA BehindJoin ==
  ASSUME NEW S, NEW s \in Seq(S), NEW t \in Nat, NEW a \in Nat, NEW b \in Nat,
         t <= a, a <= b, b <= Len(s)
  PROVE  SubSeq(s, t + 1, a) \o SubSeq(s, a + 1, b) = SubSeq(s, t + 1, b)
<1>1. PICK x \in Seq(S), y \in Seq(S), z \in Seq(S), c \in Nat, d \in Nat :
        /\ x = SubSeq(s, t + 1, a) /\ y = SubSeq(s, a + 1, b) /\ z = SubSeq(s, t + 1, b)
        /\ c = a - t /\ d = b - a
  <2>1. SubSeq(s, t + 1, a) \in Seq(S) /\ SubSeq(s, a + 1, b) \in Seq(S) /\ SubSeq(s, t + 1, b) \in Seq(S)
    <3>1. t <= b /\ a <= Len(s)
      OBVIOUS
    <3> QED
      BY <3>1, BehindIs
  <2>2. a - t \in Nat /\ b - a \in Nat
    OBVIOUS
  <2> QED
    BY <2>1, <2>2
<1>2. c = a - t /\ d = b - a /\ c + d = b - t
  BY <1>1
<1>3. Len(x) = c /\ \A i \in 1 .. c : x[i] = s[t + i]
  <2>1. a <= Len(s)
    OBVIOUS
  <2>2. Len(SubSeq(s, t + 1, a)) = a - t /\ \A i \in 1 .. a - t : SubSeq(s, t + 1, a)[i] = s[t + i]
    BY <2>1, BehindIs
  <2> QED
    BY <1>1, <2>2
<1>4. Len(y) = d /\ \A i \in 1 .. d : y[i] = s[a + i]
  <2>1. Len(SubSeq(s, a + 1, b)) = b - a /\ \A i \in 1 .. b - a : SubSeq(s, a + 1, b)[i] = s[a + i]
    BY BehindIs
  <2> QED
    BY <1>1, <2>1
<1>5. Len(z) = c + d /\ \A i \in 1 .. c + d : z[i] = s[t + i]
  <2>1. t <= b
    OBVIOUS
  <2>2. Len(SubSeq(s, t + 1, b)) = b - t /\ \A i \in 1 .. b - t : SubSeq(s, t + 1, b)[i] = s[t + i]
    BY <2>1, BehindIs
  <2> QED
    BY <1>1, <1>2, <2>2
<1>6. PICK w \in Seq(S) : w = x \o y /\ Joins(w, x, y)
  BY Concat
<1>7. /\ Len(w) = c + d /\ (\A i \in 1 .. c : w[i] = x[i])
      /\ \A i \in 1 .. d : w[c + i] = y[i]
  BY <1>3, <1>4, <1>6 DEF Joins
<1>8. ASSUME NEW i \in 1 .. c + d
      PROVE  w[i] = z[i]
  <2>1. CASE i <= c
    <3>1. i \in 1 .. c
      BY <2>1
    <3> QED
      BY <1>3, <1>5, <1>7, <3>1
  <2>2. CASE ~(i <= c)
    <3>1. PICK j \in 1 .. d : i = c + j
      <4>1. i - c \in 1 .. d /\ i = c + (i - c)
        BY <2>2
      <4> QED
        BY <4>1
    <3>2. t + i = a + j
      BY <1>2, <3>1
    <3> QED
      BY <1>4, <1>5, <1>7, <3>1, <3>2
  <2> QED
    BY <2>1, <2>2
<1>9. w = z
  <2>1. PICK e \in Nat : e = c + d
    OBVIOUS
  <2>2. Len(w) = e /\ Len(z) = e /\ \A i \in 1 .. e : w[i] = z[i]
    BY <1>5, <1>7, <1>8, <2>1
  <2> QED
    BY <2>2, SeqEqual
<1> QED
  BY <1>1, <1>6, <1>9

\* The queue after more bytes arrived, before try_rpc_read looks at it.
LEMMA MoreIs ==
  ASSUME NEW s, NEW a \in Nat, Arrived(s, a), NEW r, Good(r, s, a),
         NEW n \in Nat, a + n <= Len(s), NEW y,
         y = [in |-> Received(r.in, SubSeq(s, a + 1, a + n)), in_bytes |-> r.in_bytes + n,
              executed |-> r.executed]
  PROVE  Arrived(s, a + n) /\ Good(y, s, a + n)
<1>1. PICK e, t, u : e = Len(r.executed) /\ t = Taken(frames, e) /\ u = Unread(r.in)
  OBVIOUS
<1>2. /\ e \in 0 .. Len(frames) /\ t \in 0 .. a /\ s \in Seq(Bytes) /\ a <= Len(s)
      /\ r.in_bytes = a - t /\ a - t \in Nat
  BY <1>1, UnreadOf
<1>3. PICK b \in Nat : b = a + n /\ a <= b /\ b <= Len(s)
  OBVIOUS
<1>4. /\ r.in \in Seq(Buffer(Bytes)) /\ (r.in # <<>> => Room(Last(r.in)) > 0)
      /\ r.executed \in Seq(Seq(Bytes)) /\ (\A k \in 1 .. e : r.executed[k] = Words(k))
      /\ u = SubSeq(s, t + 1, a)
  BY <1>1 DEF Good
<1>5. PICK more \in Seq(Bytes) : more = SubSeq(s, a + 1, b)
  BY <1>2, <1>3, BehindIs
<1>6. PICK q : q = Received(r.in, more)
  OBVIOUS
<1>7. q \in Seq(Buffer(Bytes)) /\ Room(Last(q)) > 0 /\ Unread(q) = u \o more
  BY <1>1, <1>4, <1>6, ReceivedIs
<1>8. Unread(q) = SubSeq(s, t + 1, b)
  <2>1. t \in Nat /\ t <= a
    BY <1>2
  <2>2. SubSeq(s, t + 1, a) \o SubSeq(s, a + 1, b) = SubSeq(s, t + 1, b)
    BY <1>2, <1>3, <2>1, BehindJoin
  <2> QED
    BY <1>4, <1>5, <1>7, <2>2
<1>9. PICK m \in Nat : m = r.in_bytes + n /\ m = b - t /\ t <= b
  <2>1. t \in Nat /\ t <= a
    BY <1>2
  <2>2. r.in_bytes + n \in Nat /\ r.in_bytes + n = b - t /\ t <= b
    BY <1>2, <1>3, <2>1
  <2> QED
    BY <2>2
<1>10. y = [in |-> q, in_bytes |-> m, executed |-> r.executed]
  BY <1>3, <1>5, <1>6, <1>9
<1>11. y.in = q /\ y.in_bytes = m /\ y.executed = r.executed
  BY ONLY <1>10
<1>12. y \in [in : Seq(Buffer(Bytes)), in_bytes : Nat, executed : Seq(Seq(Bytes))]
  BY <1>4, <1>7, <1>10
<1>13. Good(y, s, b)
  <2>1. Len(y.executed) = e /\ e <= Len(frames) /\ Taken(frames, Len(y.executed)) = t
    BY <1>1, <1>2, <1>11
  <2>2. y.in # <<>> => Room(Last(y.in)) > 0
    BY <1>7, <1>11
  <2>3. \A k \in 1 .. Len(y.executed) : y.executed[k] = Words(k)
    BY <1>4, <1>11, <2>1
  <2>4. Unread(y.in) = SubSeq(s, Taken(frames, Len(y.executed)) + 1, b)
    BY <1>8, <1>11, <2>1
  <2>5. Taken(frames, Len(y.executed)) <= b /\ y.in_bytes = b - Taken(frames, Len(y.executed))
    BY <1>9, <1>11, <2>1
  <2> QED
    BY <1>12, <2>1, <2>2, <2>3, <2>4, <2>5 DEF Good
<1>14. Arrived(s, b)
  BY <1>3 DEF Arrived
<1> QED
  BY <1>3, <1>13, <1>14

Reading == [in |-> in, in_bytes |-> in_bytes, executed |-> executed]

\* The reader is at a header, and what it executed are the words of the first frames.
Reader ==
  /\ state # "out of step"
  /\ Len(executed) <= Len(frames)
  /\ \A n \in 1 .. Len(executed) : executed[n] = Words(n)
  /\ state = "open" => Good(Reading, Stream, arrived)

\* TypeOK and NothingLeftBehind are not inductive: what remains in the queue is the
\* beginning of a frame only if the bytes before it were whole frames.
Inv ==
  /\ TypeOK
  /\ Reader
  /\ NothingLeftBehind
  /\ Queued(written, sent, out_bytes, out)

LEMMA ReadingIs ==
  /\ Reading.in = in /\ Reading.in_bytes = in_bytes /\ Reading.executed = executed
  /\ NothingLeftBehind <=> (state = "open" /\ ~refused => ~Complete(Reading))
BY DEF Reading, NothingLeftBehind

LEMMA ArrivedIs ==
  ASSUME TypeOK
  PROVE  Arrived(Stream, arrived) /\ arrived \in Nat /\ Stream \in Seq(Bytes)
<1>1. frames \in Seq(FrameLengths) /\ arrived \in 0 .. Len(Stream)
  BY DEF TypeOK
<1>2. Carries(Stream, frames)
  BY <1>1, StreamDef, StreamIs
<1>3. arrived \in Nat
  BY <1>1
<1> QED
  BY <1>1, <1>2, <1>3 DEF Arrived, Carries

\* While the server sends nothing, what its frames and the stream are does not change.
LEMMA SameFrames ==
  ASSUME frames' = frames
  PROVE  /\ Stream' = Stream
         /\ \A n : Words(n)' = Words(n)
         /\ \A r, s, a : Good(r, s, a)' <=> Good(r, s, a)
         /\ \A r : Complete(r)' <=> Complete(r)
<1>1. \A n : Frame(n)' = Frame(n)
  BY DEF Frame
<1>2. Stream' = Stream
  BY <1>1 DEF Stream
<1>3. \A n : Words(n)' = Words(n)
  BY <1>1 DEF Words
<1>4. \A r, s, a : Good(r, s, a)' <=> Good(r, s, a)
  BY <1>3 DEF Good
<1>5. \A r : Complete(r)' <=> Complete(r)
  BY DEF Complete, InStep, HeadFrame
<1> QED
  BY <1>2, <1>3, <1>4, <1>5

LEMMA ReaderKept ==
  ASSUME Reader, NothingLeftBehind, UNCHANGED <<state, reading, frames>>
  PROVE  Reader' /\ NothingLeftBehind'
<1>1. frames' = frames /\ state' = state /\ refused' = refused /\ executed' = executed /\ arrived' = arrived
  BY DEF reading
<1>2. Reading' = Reading
  BY DEF Reading, reading
<1>3. Reader'
  BY <1>1, <1>2, SameFrames DEF Reader
<1>4. NothingLeftBehind'
  <2>1. ~Complete(Reading)' <=> ~Complete(Reading)
    BY <1>1, <1>2, SameFrames
  <2> QED
    BY <1>1, <2>1 DEF NothingLeftBehind, Reading
<1> QED
  BY <1>3, <1>4

LEMMA QueuedEmpty == Queued(<<>>, <<>>, 0, <<>>)
<1>1. SubSeq(<<>>, 1, 0) = <<>> /\ Len(<<>>) = 0 /\ 0 + 1 = 1
  OBVIOUS
<1>2. Unread(<<>>) = SubSeq(<<>>, Len(<<>>) + 1, Len(<<>>))
  BY <1>1, UnreadEmpty
<1> QED
  BY <1>1, <1>2 DEF Queued

LEMMA InitInv == Init => Inv
<1> SUFFICES ASSUME Init
             PROVE  Inv
  OBVIOUS
<1>1. Stream = <<>> /\ Len(Stream) = 0
  <2>1. [n \in DOMAIN frames |-> Frame(n)] = <<>>
    BY DEF Init
  <2>2. FlattenSeq(<<>>) = <<>>
    BY DEF FlattenSeq
  <2> QED
    BY <2>1, <2>2 DEF Stream
<1>2. TypeOK
  <2>1. <<>> \in Seq(Buffer(Nat \X Nat)) /\ <<>> \in Seq(Buffer(Nat))
        /\ <<>> \in Seq(FrameLengths) /\ <<>> \in Seq(Seq(Nat \X Nat)) /\ <<>> \in Seq(Nat)
    BY EmptySeq
  <2>2. /\ state = "open" /\ in = <<>> /\ in_bytes = 0 /\ arrived = 0 /\ executed = <<>>
        /\ refused = FALSE /\ out = <<>> /\ out_bytes = 0 /\ written = <<>> /\ sent = <<>>
        /\ frames = <<>>
    BY DEF Init
  <2>3. arrived \in 0 .. Len(Stream)
    BY <1>1, <2>2
  <2>4. /\ in_bytes \in Nat /\ out_bytes \in Nat /\ refused \in BOOLEAN
        /\ state \in {"open", "failed", "out of step"}
    BY <2>2
  <2> QED
    BY <2>1, <2>2, <2>3, <2>4 DEF TypeOK
<1>3. Len(executed) = 0 /\ Len(frames) = 0 /\ in_bytes = 0 /\ arrived = 0 /\ in = <<>>
  BY DEF Init
<1>4. Taken(frames, 0) = 0
  BY <1>2, <1>3, ArrivedIs DEF Arrived, Carries
<1>5. Unread(in) = SubSeq(Stream, 1, 0)
  <2>1. SubSeq(<<>>, 1, 0) = <<>>
    OBVIOUS
  <2> QED
    BY <1>1, <1>3, <2>1, UnreadEmpty
<1>6. Good(Reading, Stream, arrived)
  <2>1. Reading \in [in : Seq(Buffer(Bytes)), in_bytes : Nat, executed : Seq(Seq(Bytes))]
    BY <1>2 DEF TypeOK, Reading, Bytes
  <2>2. Taken(frames, Len(Reading.executed)) = 0
    BY <1>3, <1>4, ReadingIs
  <2>3. Unread(Reading.in) = SubSeq(Stream, Taken(frames, Len(Reading.executed)) + 1, arrived)
    <3>1. 0 + 1 = 1
      OBVIOUS
    <3> QED
      BY <1>3, <1>5, <2>2, <3>1, ReadingIs
  <2>4. \A n \in 1 .. Len(Reading.executed) : Reading.executed[n] = Words(n)
    BY <1>3, ReadingIs
  <2> QED
    BY <1>3, <2>1, <2>2, <2>3, <2>4, ReadingIs DEF Good
<1>7. Reader
  BY <1>3, <1>6 DEF Init, Reader
<1>8. NothingLeftBehind
  <2>1. ~(Reading.in_bytes >= 1)
    BY <1>3, ReadingIs
  <2>2. ~Complete(Reading)
    BY <2>1 DEF Complete
  <2> QED
    BY <2>2, ReadingIs
<1>9. Queued(<<>>, <<>>, 0, <<>>)
  BY QueuedEmpty
<1>10. Queued(written, sent, out_bytes, out)
  BY <1>9 DEF Init
<1> QED
  BY <1>2, <1>7, <1>8, <1>10 DEF Inv

\* conn_try_read: whatever recv returned, the frames in it are executed and the rest
\* is in the queue.
LEMMA ReadKeepsInv == Inv /\ Read => Inv'
<1> SUFFICES ASSUME Inv, Read
             PROVE  Inv'
  OBVIOUS
<1>1. /\ TypeOK /\ Good(Reading, Stream, arrived) /\ state = "open"
      /\ frames' = frames /\ UNCHANGED writing
  BY DEF Inv, Reader, Read
<1>2. PICK s \in Seq(Bytes), a \in Nat : s = Stream /\ a = arrived /\ Arrived(s, a)
  BY <1>1, ArrivedIs
<1>3. PICK n \in 1 .. Len(s) - a :
        \E x \in RpcRead([in |-> Received(in, SubSeq(s, a + 1, a + n)),
                          in_bytes |-> in_bytes + n, executed |-> executed]) :
           /\ arrived' = a + n
           /\ in' = x.r.in /\ in_bytes' = x.r.in_bytes /\ executed' = x.r.executed
           /\ refused' = x.stopped
           /\ state' = IF Complete(x.r) /\ ~InStep(x.r) THEN "out of step" ELSE state
  BY <1>2 DEF Read
<1>4. PICK y : y = [in |-> Received(in, SubSeq(s, a + 1, a + n)),
                    in_bytes |-> in_bytes + n, executed |-> executed]
  OBVIOUS
<1>5. PICK b \in Nat : b = a + n /\ b <= Len(s)
  OBVIOUS
<1>6. Arrived(s, b) /\ Good(y, s, b)
  <2>1. Good(Reading, s, a)
    BY <1>1, <1>2
  <2>2. n \in Nat /\ a + n <= Len(s)
    OBVIOUS
  <2>3. y = [in |-> Received(Reading.in, SubSeq(s, a + 1, a + n)),
             in_bytes |-> Reading.in_bytes + n, executed |-> Reading.executed]
    BY <1>4, ReadingIs
  <2>4. Arrived(s, a + n) /\ Good(y, s, a + n)
    BY <1>2, <2>1, <2>2, <2>3, MoreIs
  <2> QED
    BY <1>5, <2>4
<1>7. PICK x \in RpcRead(y) :
           /\ arrived' = b
           /\ in' = x.r.in /\ in_bytes' = x.r.in_bytes /\ executed' = x.r.executed
           /\ refused' = x.stopped
           /\ state' = IF Complete(x.r) /\ ~InStep(x.r) THEN "out of step" ELSE state
  BY <1>3, <1>4, <1>5
<1>8. Good(x.r, s, b) /\ x.stopped \in BOOLEAN /\ (~x.stopped => ~Complete(x.r))
  BY <1>6, RunIs
<1>9. state' = "open"
  <2>1. Complete(x.r) => InStep(x.r)
    <3>1. Complete(x.r) => x.r.in_bytes >= 1
      BY DEF Complete
    <3> QED
      BY <1>6, <1>8, <3>1, HeadFrameIs
  <2> QED
    BY <1>1, <1>7, <2>1
<1>10. Reading' = x.r
  <2>1. x.r \in [in : Seq(Buffer(Bytes)), in_bytes : Nat, executed : Seq(Seq(Bytes))]
    BY <1>8 DEF Good
  <2>2. x.r = [in |-> x.r.in, in_bytes |-> x.r.in_bytes, executed |-> x.r.executed]
    BY <2>1
  <2> QED
    BY <1>7, <2>2 DEF Reading
<1>11. Stream' = s /\ arrived' = b
  BY <1>1, <1>2, <1>7, SameFrames
<1>12. Good(Reading, Stream, arrived)'
  <2>1. Good(x.r, s, b)'
    BY <1>1, <1>8, SameFrames
  <2> QED
    BY <1>10, <1>11, <2>1
<1>13. Reader'
  <2>1. /\ Len(executed') <= Len(frames)
        /\ \A i \in 1 .. Len(executed') : executed'[i] = Words(i)
    BY <1>7, <1>8 DEF Good
  <2>2. \A i \in 1 .. Len(executed') : executed'[i] = Words(i)'
    BY <1>1, <2>1, SameFrames
  <2> QED
    BY <1>1, <1>9, <1>12, <2>1, <2>2 DEF Reader
<1>14. NothingLeftBehind'
  <2>1. ~x.stopped => ~Complete(x.r)'
    BY <1>1, <1>8, SameFrames
  <2>2. ~x.stopped => ~Complete(Reading)'
    BY <1>10, <2>1
  <2> QED
    BY <1>7, <2>2 DEF NothingLeftBehind, Reading
<1>15. TypeOK'
  <2>1. /\ in' \in Seq(Buffer(Nat \X Nat)) /\ in_bytes' \in Nat
        /\ executed' \in Seq(Seq(Nat \X Nat)) /\ (in' # <<>> => Room(Last(in')) > 0)
    BY <1>7, <1>8 DEF Good, Bytes
  <2>2. arrived' \in 0 .. Len(Stream') /\ refused' \in BOOLEAN
    <3>1. b \in 0 .. Len(s)
      BY <1>5
    <3>2. Len(Stream') = Len(s)
      BY <1>11
    <3> QED
      BY <1>7, <1>8, <3>1, <3>2
  <2>3. out' = out /\ out_bytes' = out_bytes /\ written' = written /\ sent' = sent
    BY <1>1 DEF writing
  <2> QED
    BY <1>1, <1>9, <2>1, <2>2, <2>3 DEF TypeOK
<1>16. Queued(written, sent, out_bytes, out)'
  BY <1>1 DEF Inv, writing, Queued
<1> QED
  BY <1>13, <1>14, <1>15, <1>16 DEF Inv

\* tgln_write_out: n bytes are behind those of the out queue.
LEMMA WriteOutKeepsInv ==
  ASSUME Inv, NEW n \in WriteLengths, WriteOut(n)
  PROVE  Inv'
<1>1. /\ TypeOK /\ Reader /\ NothingLeftBehind /\ Queued(written, sent, out_bytes, out)
      /\ UNCHANGED <<state, reading, frames>> /\ sent' = sent /\ out_bytes' = out_bytes + n
  BY DEF Inv, WriteOut
<1>2. PICK bytes : /\ bytes = [k \in 1 .. n |-> Len(written) + k]
                   /\ written' = written \o bytes /\ out' = Wrote(out, bytes)
  BY DEF WriteOut
<1>3. n \in Nat
  BY SizesAssumption
<1>4. written \in Seq(Nat) /\ sent \in Seq(Nat) /\ out \in Seq(Buffer(Nat)) /\ out_bytes \in Nat
  BY <1>1 DEF TypeOK
<1>5. bytes \in Seq(Nat) /\ Len(bytes) = n
  <2>1. PICK l \in Nat : l = Len(written)
    BY <1>4
  <2>2. bytes = [k \in 1 .. n |-> l + k]
    BY <1>2, <2>1
  <2>3. bytes \in [1 .. n -> Nat]
    BY <1>3, <2>1, <2>2
  <2> QED
    BY <1>3, <2>2, <2>3
<1>6. Queued(written', sent, out_bytes + n, Wrote(out, bytes))
  BY <1>1, <1>2, <1>4, <1>5, WroteQueued
<1>7. Wrote(out, bytes) \in Seq(Buffer(Nat)) /\ written' \in Seq(Nat)
  <2>1. written \o bytes \in Seq(Nat)
    BY <1>4, <1>5, Concat
  <2> QED
    BY <1>2, <1>4, <1>5, <2>1, WroteIs
<1>8. Reader' /\ NothingLeftBehind'
  BY <1>1, ReaderKept
<1>9. TypeOK'
  <2>1. out_bytes' \in Nat /\ out' \in Seq(Buffer(Nat)) /\ sent' \in Seq(Nat)
    BY <1>1, <1>2, <1>3, <1>4, <1>7
  <2>2. /\ frames' = frames /\ state' = state /\ in' = in /\ in_bytes' = in_bytes
        /\ arrived' = arrived /\ executed' = executed /\ refused' = refused
    BY <1>1 DEF reading
  <2>3. Stream' = Stream
    BY <2>2, SameFrames
  <2> QED
    BY <1>1, <1>7, <2>1, <2>2, <2>3 DEF TypeOK
<1>10. Queued(written, sent, out_bytes, out)'
  BY <1>1, <1>2, <1>6 DEF Queued
<1> QED
  BY <1>8, <1>9, <1>10 DEF Inv

\* try_write: what send took is gone from the out queue.
LEMMA WriteKeepsInv ==
  ASSUME Inv, NEW n \in 0 .. out_bytes, Write(n)
  PROVE  Inv'
<1>1. /\ TypeOK /\ Reader /\ NothingLeftBehind /\ Queued(written, sent, out_bytes, out)
      /\ UNCHANGED <<state, reading, frames>> /\ written' = written
      /\ out_bytes' = out_bytes - n /\ out' = Sent(out, n) /\ sent' = sent \o Lookup(out, n)
  BY DEF Inv, Write
<1>2. written \in Seq(Nat) /\ sent \in Seq(Nat) /\ out \in Seq(Buffer(Nat)) /\ out_bytes \in Nat
  BY <1>1 DEF TypeOK
<1>3. n \in Nat /\ n <= out_bytes /\ out_bytes - n \in Nat
  BY <1>2
<1>4. PICK x : x = Lookup(out, n)
  OBVIOUS
<1>5. /\ sent' \in Seq(Nat) /\ Sent(out, n) \in Seq(Buffer(Nat))
      /\ Queued(written, sent', out_bytes - n, Sent(out, n))
  <2>1. sent' = sent \o x
    BY <1>1, <1>4
  <2> QED
    BY <1>1, <1>2, <1>3, <1>4, <2>1, SentQueued
<1>6. Reader' /\ NothingLeftBehind'
  BY <1>1, ReaderKept
<1>7. TypeOK'
  <2>1. /\ frames' = frames /\ state' = state /\ in' = in /\ in_bytes' = in_bytes
        /\ arrived' = arrived /\ executed' = executed /\ refused' = refused
    BY <1>1 DEF reading
  <2>2. Stream' = Stream
    BY <2>1, SameFrames
  <2>3. out_bytes' \in Nat /\ out' \in Seq(Buffer(Nat)) /\ written' \in Seq(Nat)
    BY <1>1, <1>2, <1>3, <1>5
  <2> QED
    BY <1>1, <1>5, <2>1, <2>2, <2>3 DEF TypeOK
<1>8. Queued(written, sent, out_bytes, out)'
  BY <1>1, <1>5 DEF Queued
<1> QED
  BY <1>6, <1>7, <1>8 DEF Inv

\* fail_connection empties both queues.
LEMMA FailKeepsInv == Inv /\ Fail => Inv'
<1> SUFFICES ASSUME Inv, Fail
             PROVE  Inv'
  OBVIOUS
<1>1. /\ TypeOK /\ Reader /\ state' = "failed" /\ frames' = frames
      /\ arrived' = arrived /\ executed' = executed /\ refused' = refused
      /\ in' = <<>> /\ in_bytes' = 0 /\ out' = <<>> /\ out_bytes' = 0
      /\ written' = <<>> /\ sent' = <<>>
  BY DEF Inv, Fail
<1>2. Stream' = Stream
  BY <1>1, SameFrames
<1>3. TypeOK'
  <2>1. <<>> \in Seq(Buffer(Nat \X Nat)) /\ <<>> \in Seq(Buffer(Nat)) /\ <<>> \in Seq(Nat)
    BY EmptySeq
  <2> QED
    BY <1>1, <1>2, <2>1 DEF TypeOK
<1>4. Reader'
  <2>1. \A n \in 1 .. Len(executed') : executed'[n] = Words(n)'
    BY <1>1, SameFrames DEF Reader
  <2> QED
    BY <1>1, <2>1 DEF Reader
<1>5. NothingLeftBehind'
  BY <1>1 DEF NothingLeftBehind
<1>6. Queued(written, sent, out_bytes, out)'
  BY <1>1, QueuedEmpty DEF Queued
<1> QED
  BY <1>3, <1>4, <1>5, <1>6 DEF Inv

\* The server sends a frame: the others stay where they are, and a queue in which
\* none is complete holds at least a byte of one that was sent before, or nothing.
LEMMA PostKeepsInv ==
  ASSUME Inv, NEW len \in FrameLengths, Post(len)
  PROVE  Inv'
<1>1. /\ TypeOK /\ Reader /\ NothingLeftBehind
      /\ frames' = Append(frames, len) /\ UNCHANGED <<state, reading, writing>>
  BY DEF Inv, Post
<1>2. /\ state' = state /\ in' = in /\ in_bytes' = in_bytes /\ out' = out
      /\ out_bytes' = out_bytes /\ arrived' = arrived /\ executed' = executed
      /\ refused' = refused /\ written' = written /\ sent' = sent
  BY <1>1 DEF reading, writing
<1>3. PICK s \in Seq(Bytes), a \in Nat : s = Stream /\ a = arrived /\ Arrived(s, a)
  BY <1>1, ArrivedIs
<1>g. PICK gs, t : gs = frames' /\ t = Stream'
  OBVIOUS
<1>f. PICK fs \in Seq(FrameLengths) : fs = frames
  BY <1>1 DEF TypeOK
<1>4. fs = frames /\ gs = frames' /\ t = Stream'
  BY <1>f, <1>g
<1>5. PICK l \in Nat : l = Len(fs)
  BY <1>4
<1>6. s = FlattenSeq(FramesOf(fs)) /\ t = FlattenSeq(FramesOf(gs))
  <2>1. Stream = FlattenSeq(FramesOf(frames))
    BY StreamDef
  <2>2. Stream' = FlattenSeq(FramesOf(frames'))
    BY DEF Stream, Frame, FramesOf
  <2> QED
    BY <1>3, <1>4, <2>1, <2>2
<1>7. /\ gs \in Seq(FrameLengths) /\ Len(gs) = l + 1 /\ \A n \in 1 .. l : gs[n] = fs[n]
      /\ Len(s) <= Len(t) /\ \A i \in 1 .. Len(s) : t[i] = s[i]
      /\ \A m \in 0 .. l : Taken(gs, m) = Taken(fs, m)
  <2>1. gs = Append(fs, len)
    BY <1>1, <1>4
  <2> QED
    <3>1. /\ gs \in Seq(FrameLengths) /\ Len(gs) = Len(fs) + 1
          /\ \A n \in 1 .. Len(fs) : gs[n] = fs[n]
          /\ Len(s) <= Len(t) /\ \A i \in 1 .. Len(s) : t[i] = s[i]
          /\ \A m \in 0 .. Len(fs) : Taken(gs, m) = Taken(fs, m)
      <4>1. Grows(s, fs, t, gs)
        BY <1>6, <2>1, PostIs
      <4> QED
        BY ONLY <4>1 DEF Grows
    <3> QED
      BY <1>5, <3>1
<1>8. t \in Seq(Bytes)
  BY <1>6, <1>7, StreamIs DEF Carries
<1>9. a <= Len(s) /\ a <= Len(t)
  <2>1. a <= Len(s)
    BY <1>3 DEF Arrived
  <2> QED
    BY <1>3, <1>7, <1>8, <2>1
<1>10. \A n \in 1 .. l : Words(n)' = Words(n)
  <2>1. \A n \in 1 .. l : frames'[n] = frames[n]
    BY <1>4, <1>7
  <2>2. \A n \in 1 .. l : Frame(n)' = Frame(n)
    BY <2>1 DEF Frame
  <2> QED
    BY <2>1, <2>2 DEF Words
<1>11. PICK e, r : r = Reading /\ e = Len(executed) /\ e = Len(r.executed)
  BY ReadingIs
<1>12. e <= l /\ \A n \in 1 .. e : executed[n] = Words(n)
  BY <1>1, <1>4, <1>5, <1>11 DEF Reader
<1>13. e \in Nat
  <2>1. executed \in Seq(Seq(Nat \X Nat))
    BY <1>1 DEF TypeOK
  <2> QED
    BY <1>11, <2>1
<1>14. ASSUME state = "open"
       PROVE  Good(r, t, a)'
  <2>1. Good(r, s, a)
    BY <1>1, <1>3, <1>11, <1>14 DEF Reader
  <2>2. PICK c \in 0 .. a : c = Taken(frames, e)
    BY <1>3, <1>11, <2>1, UnreadOf
  <2>3. Taken(frames', e) = c
    <3>1. e \in 0 .. l
      BY <1>12, <1>13
    <3> QED
      BY <1>4, <1>7, <2>2, <3>1
  <2>4. SubSeq(t, c + 1, a) = SubSeq(s, c + 1, a)
    <3>1. PICK x \in Seq(Bytes), y \in Seq(Bytes), d \in Nat :
            x = SubSeq(s, c + 1, a) /\ y = SubSeq(t, c + 1, a) /\ d = a - c
      <4>1. SubSeq(s, c + 1, a) \in Seq(Bytes) /\ SubSeq(t, c + 1, a) \in Seq(Bytes)
        BY <1>8, <1>9, BehindIs
      <4>2. a - c \in Nat
        OBVIOUS
      <4> QED
        BY <4>1, <4>2
    <3>2. Len(x) = d /\ \A i \in 1 .. d : x[i] = s[c + i]
      <4>1. Len(SubSeq(s, c + 1, a)) = a - c /\ \A i \in 1 .. a - c : SubSeq(s, c + 1, a)[i] = s[c + i]
        BY <1>9, BehindIs
      <4> QED
        BY <3>1, <4>1
    <3>3. Len(y) = d /\ \A i \in 1 .. d : y[i] = t[c + i]
      <4>1. Len(SubSeq(t, c + 1, a)) = a - c /\ \A i \in 1 .. a - c : SubSeq(t, c + 1, a)[i] = t[c + i]
        BY <1>8, <1>9, BehindIs
      <4> QED
        BY <3>1, <4>1
    <3>4. PICK z \in Nat : z = Len(s)
      BY <1>3
    <3>5. \A i \in 1 .. d : c + i \in 1 .. z
      <4>1. a <= z /\ d = a - c
        BY <1>9, <3>1, <3>4
      <4> QED
        BY <4>1
    <3>6. \A i \in 1 .. d : x[i] = y[i]
      BY <1>7, <3>2, <3>3, <3>4, <3>5
    <3>7. x = y
      BY <3>2, <3>3, <3>6, SeqEqual
    <3> QED
      BY <3>1, <3>7
  <2>5. /\ r \in [in : Seq(Buffer(Bytes)), in_bytes : Nat, executed : Seq(Seq(Bytes))]
        /\ r.in # <<>> => Room(Last(r.in)) > 0
        /\ Unread(r.in) = SubSeq(s, c + 1, a) /\ r.in_bytes = a - c
    BY <1>11, <2>1, <2>2 DEF Good
  <2>6. Unread(r.in) = SubSeq(t, c + 1, a)
    BY <2>4, <2>5
  <2>7. Len(frames') = l + 1 /\ e <= Len(frames')
    BY <1>4, <1>7, <1>12, <1>13
  <2>8. \A n \in 1 .. e : r.executed[n] = Words(n)'
    <3>1. \A n \in 1 .. e : n \in 1 .. l
      BY <1>12, <1>13
    <3>2. r.executed = executed
      BY <1>11, ReadingIs
    <3> QED
      BY <1>10, <1>12, <3>1, <3>2
  <2>9. c <= a
    OBVIOUS
  <2> QED
    BY <1>11, <2>3, <2>5, <2>6, <2>7, <2>8, <2>9 DEF Good
<1>15. Reading' = r
  BY <1>2, <1>11 DEF Reading
<1>16. Reader'
  <2>1. \A n \in 1 .. Len(executed') : executed'[n] = Words(n)'
    <3>1. \A n \in 1 .. e : n \in 1 .. l
      BY <1>12, <1>13
    <3> QED
      BY <1>2, <1>10, <1>11, <1>12, <3>1
  <2>2. Len(executed') <= Len(frames')
    BY <1>2, <1>4, <1>7, <1>11, <1>12, <1>13
  <2>3. state' = "open" => Good(Reading, Stream, arrived)'
    <3>1. t = Stream' /\ a = arrived' /\ r = Reading'
      BY <1>2, <1>3, <1>4, <1>15
    <3>2. state' = "open" => Good(r, t, a)'
      BY <1>2, <1>14
    <3> QED
      BY <3>1, <3>2
  <2> QED
    BY <1>1, <1>2, <2>1, <2>2, <2>3 DEF Reader
<1>17. NothingLeftBehind'
  <2>1. ASSUME state = "open", ~refused
        PROVE  ~Complete(r)'
    <3>1. Good(r, s, a) /\ ~Complete(r)
      BY <1>1, <1>3, <1>11, <2>1, ReadingIs DEF Reader
    <3>2. CASE ~(r.in_bytes >= 1)
      BY <3>2 DEF Complete
    <3>3. CASE r.in_bytes >= 1
      <4>1. e + 1 \in 1 .. l /\ HeadFrame(r) = e + 1 /\ InStep(r)
        BY <1>3, <1>4, <1>5, <1>11, <3>1, <3>3, HeadFrameIs
      <4>2. frames'[e + 1] = frames[e + 1]
        BY <1>4, <1>7, <4>1
      <4>3. HeadFrame(r)' = HeadFrame(r) /\ (InStep(r)' <=> InStep(r))
        BY DEF HeadFrame, InStep
      <4> QED
        BY <3>1, <3>3, <4>1, <4>2, <4>3 DEF Complete
    <3> QED
      BY <3>2, <3>3
  <2>2. state' = "open" /\ ~refused' => ~Complete(Reading)'
    BY <1>2, <1>15, <2>1
  <2> QED
    BY <2>2 DEF NothingLeftBehind, Reading
<1>18. TypeOK'
  <2>1. frames' \in Seq(FrameLengths)
    BY <1>4, <1>7
  <2>2. arrived' \in 0 .. Len(Stream')
    <3>1. Len(t) \in Nat
      BY <1>8
    <3>2. a \in 0 .. Len(t)
      BY <1>9, <3>1
    <3> QED
      BY <1>2, <1>3, <1>4, <3>2
  <2> QED
    BY <1>1, <1>2, <2>1, <2>2 DEF TypeOK
<1>19. Queued(written, sent, out_bytes, out)'
  BY <1>2 DEF Inv, Queued
<1> QED
  BY <1>16, <1>17, <1>18, <1>19 DEF Inv

LEMMA Invariance == Spec => []Inv
<1>1. Inv /\ [Next]_vars => Inv'
  <2> SUFFICES ASSUME Inv, [Next]_vars
               PROVE  Inv'
    OBVIOUS
  <2>1. CASE Read
    BY <2>1, ReadKeepsInv
  <2>2. CASE \E n \in WriteLengths : WriteOut(n)
    BY <2>2, WriteOutKeepsInv
  <2>3. CASE \E n \in 0 .. out_bytes : Write(n)
    BY <2>3, WriteKeepsInv
  <2>4. CASE Fail
    BY <2>4, FailKeepsInv
  <2>5. CASE \E len \in FrameLengths : Post(len)
    BY <2>5, PostKeepsInv
  <2>6. CASE UNCHANGED vars
    <3>1. UNCHANGED <<state, reading, frames>> /\ UNCHANGED writing
      BY <2>6 DEF vars
    <3>2. /\ state' = state /\ in' = in /\ in_bytes' = in_bytes /\ out' = out
          /\ out_bytes' = out_bytes /\ arrived' = arrived /\ executed' = executed
          /\ refused' = refused /\ written' = written /\ sent' = sent /\ frames' = frames
      BY <3>1 DEF reading, writing
    <3>3. TypeOK /\ Reader /\ NothingLeftBehind /\ Queued(written, sent, out_bytes, out)
      BY DEF Inv
    <3>4. Reader' /\ NothingLeftBehind'
      BY <3>1, <3>3, ReaderKept
    <3>5. Stream' = Stream
      BY <3>2, SameFrames
    <3>6. TypeOK'
      BY <3>2, <3>3, <3>5 DEF TypeOK
    <3>7. Queued(written, sent, out_bytes, out)'
      BY <3>2, <3>3 DEF Queued
    <3> QED
      BY <3>4, <3>6, <3>7 DEF Inv
  <2> QED
    BY <2>1, <2>2, <2>3, <2>4, <2>5, <2>6 DEF Next
<1> QED
  BY <1>1, InitInv, PTL DEF Spec

------------------------------------------------------------------------------
(* The results *)

\* Every variable has its type, no buffer is filled beyond its end, and recv is never
\* called with a tail that has no room, whatever the sizes of buffers and pieces.
THEOREM TypeCorrect == Spec => []TypeOK
<1>1. Inv => TypeOK
  BY DEF Inv
<1> QED
  BY <1>1, Invariance, PTL

\* try_rpc_read finds the frames again, however the socket cuts the stream and the
\* buffers cut what it returns: tgl gets the words of the first frames in order, the
\* in queue holds exactly the bytes behind them, in_bytes is their number, and no
\* header is read where there is none.
THEOREM FramesFoundEver == Spec => []FramesFound
<1>1. ASSUME Inv
      PROVE  FramesFound
  <2>1. Reader /\ TypeOK
    BY <1>1 DEF Inv
  <2>2. ASSUME NEW n \in DOMAIN executed
        PROVE  executed[n] = SubSeq(Frame(n), HeaderBytes(frames[n]) + 1, FrameBytes(frames[n]))
    <3>1. executed \in Seq(Seq(Nat \X Nat))
      BY <2>1 DEF TypeOK
    <3>2. n \in 1 .. Len(executed)
      BY <3>1
    <3> QED
      BY <2>1, <3>2 DEF Reader, Words
  <2>3. ASSUME state = "open"
        PROVE  /\ Unread(in) = SubSeq(Stream, Consumed + 1, arrived)
               /\ in_bytes = arrived - Consumed
    <3>1. Good(Reading, Stream, arrived)
      BY <2>1, <2>3 DEF Reader
    <3>2. Consumed = Taken(frames, Len(Reading.executed))
      BY ReadingIs, StreamDef
    <3>3. /\ Unread(Reading.in) = SubSeq(Stream, Taken(frames, Len(Reading.executed)) + 1, arrived)
          /\ Reading.in_bytes = arrived - Taken(frames, Len(Reading.executed))
      BY <3>1 DEF Good
    <3> QED
      BY <3>2, <3>3, ReadingIs
  <2> QED
    BY <2>1, <2>2, <2>3 DEF FramesFound, Reader
<1> QED
  BY <1>1, Invariance, PTL

\* When conn_try_read has returned, no whole frame waits in the queue for bytes that
\* need not come, unless execute refused one: the loop of try_rpc_read ends only at
\* the beginning of a frame that is not there yet.
THEOREM NothingLeftBehindEver == Spec => []NothingLeftBehind
<1>1. Inv => NothingLeftBehind
  BY DEF Inv
<1> QED
  BY <1>1, Invariance, PTL

\* A sequence is a prefix of every one that has its items at the beginning.
LEMMA PrefixIs ==
  ASSUME NEW s \in Seq(Nat), NEW t \in Seq(Nat), Len(s) <= Len(t),
         \A k \in 1 .. Len(s) : s[k] = t[k]
  PROVE  Wire!IsPrefix(s, t)
<1>1. PICK n \in Nat : n = Len(s)
  OBVIOUS
<1>2. PICK x \in Seq(Nat), y \in Seq(Nat) : x = SubSeq(s, 1, n) /\ y = SubSeq(t, 1, n)
  <2>1. n \in 0 .. Len(s) /\ n \in 0 .. Len(t)
    BY <1>1
  <2>2. SubSeq(s, 1, n) \in Seq(Nat) /\ SubSeq(t, 1, n) \in Seq(Nat)
    BY <2>1, PartsJoin
  <2> QED
    BY <2>2
<1>3. Len(x) = n /\ \A k \in 1 .. n : x[k] = s[k]
  <2>1. 1 \in Nat \ {0} /\ n <= Len(s) /\ 1 <= n + 1 /\ n + 1 - 1 = n
        /\ \A k \in 1 .. n : 1 + k - 1 = k
    BY <1>1
  <2>2. /\ Len(SubSeq(s, 1, n)) = n + 1 - 1
        /\ \A k \in 1 .. n + 1 - 1 : SubSeq(s, 1, n)[k] = s[1 + k - 1]
    BY <2>1, PartIs
  <2> QED
    BY <1>2, <2>1, <2>2
<1>4. Len(y) = n /\ \A k \in 1 .. n : y[k] = t[k]
  <2>1. 1 \in Nat \ {0} /\ n <= Len(t) /\ 1 <= n + 1 /\ n + 1 - 1 = n
        /\ \A k \in 1 .. n : 1 + k - 1 = k
    BY <1>1
  <2>2. /\ Len(SubSeq(t, 1, n)) = n + 1 - 1
        /\ \A k \in 1 .. n + 1 - 1 : SubSeq(t, 1, n)[k] = t[1 + k - 1]
    BY <2>1, PartIs
  <2> QED
    BY <1>2, <2>1, <2>2
<1>5. \A k \in 1 .. n : x[k] = y[k]
  BY <1>1, <1>3, <1>4
<1>6. x = y
  BY <1>3, <1>4, <1>5, SeqEqual
<1>7. SubSeq(s, 1, Len(s)) = SubSeq(t, 1, Len(s))
  BY <1>1, <1>2, <1>6
<1> QED
  BY <1>7 DEF Wire!IsPrefix

\* What is joined to a sequence leaves its items and their order.
LEMMA ItemsKept ==
  ASSUME NEW s \in Seq(Nat), NEW x \in Seq(Nat), NEW t, t = s \o x
  PROVE  /\ t \in Seq(Nat) /\ Len(s) <= Len(t) /\ \A k \in 1 .. Len(s) : s[k] = t[k]
         /\ Wire!Items(s) \subseteq Wire!Items(t)
         /\ Wire!Order(s) \subseteq Wire!Order(t)
<1>1. t \in Seq(Nat) /\ Joins(t, s, x)
  BY Concat
<1>2. PICK n \in Nat, m \in Nat : n = Len(s) /\ m = Len(x)
  OBVIOUS
<1>3. Len(t) = n + m /\ \A k \in 1 .. n : t[k] = s[k]
  BY <1>1, <1>2 DEF Joins
<1>4. \A k \in DOMAIN s : k \in DOMAIN t /\ t[k] = s[k]
  <2>1. DOMAIN s = 1 .. n
    BY <1>2
  <2>2. DOMAIN t = 1 .. n + m
    BY <1>1, <1>3
  <2>3. \A k \in 1 .. n : k \in 1 .. n + m
    OBVIOUS
  <2> QED
    BY <1>3, <2>1, <2>2, <2>3
<1>5. Wire!Items(s) \subseteq Wire!Items(t)
  BY ONLY <1>4 DEF Wire!Items
<1>6. Wire!Order(s) \subseteq Wire!Order(t)
  BY ONLY <1>4, <1>5 DEF Wire!Order
<1>7. Len(s) <= Len(t)
  BY <1>2, <1>3
<1> QED
  BY <1>1, <1>2, <1>3, <1>5, <1>6, <1>7

\* What was sent is the beginning of what was written.
LEMMA SentIsPrefix ==
  ASSUME NEW w \in Seq(Nat), NEW s \in Seq(Nat), NEW b, NEW q, Queued(w, s, b, q)
  PROVE  Wire!IsPrefix(s, w)
<1>1. Len(s) <= Len(w) /\ \A k \in 1 .. Len(s) : s[k] = w[k]
  BY DEF Queued
<1> QED
  BY <1>1, PrefixIs

LEMMA WireStep ==
  ASSUME Inv, Inv', [Next]_vars
  PROVE  [Wire!Next]_(Wire!vars)
<1>1. written \in Seq(Nat) /\ sent \in Seq(Nat) /\ out \in Seq(Buffer(Nat)) /\ out_bytes \in Nat
  BY DEF Inv, TypeOK
<1>2. written' \in Seq(Nat) /\ sent' \in Seq(Nat)
  BY DEF Inv, TypeOK
<1>3. Wire!IsPrefix(sent', written')
  <2>1. Queued(written', sent', out_bytes', out')
    BY DEF Inv, Queued
  <2> QED
    BY <1>2, <2>1, SentIsPrefix
<1>4. Wire!IsPrefix(sent, sent)
  BY <1>1, PrefixIs
<1>5. CASE \E n \in WriteLengths : WriteOut(n)
  <2>1. PICK n \in WriteLengths : WriteOut(n)
    BY <1>5
  <2>2. PICK bytes : /\ bytes = [k \in 1 .. n |-> Len(written) + k]
                     /\ written' = written \o bytes /\ sent' = sent
    BY <2>1 DEF WriteOut
  <2>3. bytes \in Seq(Nat)
    <3>1. PICK l \in Nat : l = Len(written)
      BY <1>1
    <3>2. n \in Nat
      BY SizesAssumption
    <3>3. bytes = [k \in 1 .. n |-> l + k]
      BY <2>2, <3>1
    <3>4. bytes \in [1 .. n -> Nat]
      BY <3>1, <3>2, <3>3
    <3> QED
      BY <3>2, <3>4
  <2>4. Wire!Items(written) \subseteq Wire!Items(written')
        /\ Wire!Order(written) \subseteq Wire!Order(written')
    BY <1>1, <2>2, <2>3, ItemsKept
  <2>5. Wire!Extend
    BY <1>3, <1>4, <2>2, <2>4 DEF Wire!Extend
  <2> QED
    BY <2>5 DEF Wire!Next
<1>6. CASE \E n \in 0 .. out_bytes : Write(n)
  <2>1. PICK n \in 0 .. out_bytes : Write(n)
    BY <1>6
  <2>2. PICK x : x = Lookup(out, n) /\ sent' = sent \o x /\ written' = written
    BY <2>1 DEF Write
  <2>3. x \in Seq(Nat)
    <3>1. Queued(written, sent, out_bytes, out) /\ n \in Nat /\ n <= out_bytes
      BY <1>1 DEF Inv
    <3>2. PICK v : v = sent \o x
      OBVIOUS
    <3> QED
      BY <1>1, <2>2, <3>1, <3>2, SentQueued
  <2>4. Wire!IsPrefix(sent, sent')
    <3>1. PICK v : v = sent'
      OBVIOUS
    <3>2. v = sent \o x
      BY <2>2, <3>1
    <3>3. v \in Seq(Nat) /\ Len(sent) <= Len(v) /\ \A k \in 1 .. Len(sent) : sent[k] = v[k]
      BY <1>1, <2>3, <3>2, ItemsKept
    <3>4. Wire!IsPrefix(sent, v)
      BY <1>1, <3>3, PrefixIs
    <3> QED
      BY <3>1, <3>4
  <2>5. Wire!Extend
    BY <1>3, <2>2, <2>4 DEF Wire!Extend
  <2> QED
    BY <2>5 DEF Wire!Next
<1>7. CASE Fail
  BY <1>7 DEF Fail, Wire!Next, Wire!Disconnect
<1>8. CASE Read \/ (\E len \in FrameLengths : Post(len)) \/ UNCHANGED vars
  BY <1>8 DEF Read, Post, vars, writing, Wire!vars
<1> QED
  BY <1>5, <1>6, <1>7, <1>8 DEF Next

\* The out queue implements the log: the bytes tgl writes reach the socket once, none
\* missing and in order, whatever part of what it is offered send takes, until the
\* connection fails.  (That they all reach it is left to the runs.)
THEOREM QueueImplementsLog == Spec => Wire!SafetySpec
<1>1. Init => Wire!Init
  BY DEF Init, Wire!Init
<1>2. Inv /\ Inv' /\ [Next]_vars => [Wire!Next]_(Wire!vars)
  BY WireStep
<1> QED
  BY <1>1, <1>2, Invariance, PTL DEF Spec, Wire!SafetySpec

=============================================================================

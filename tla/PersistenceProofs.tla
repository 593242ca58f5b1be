------------------------- MODULE PersistenceProofs -------------------------
(***************************************************************************)
(* Proofs about Persistence: that a finished file reads back as what its   *)
(* writer was to save, and that the files leave no hole in a secret chat.  *)
(*                                                                         *)
(* What the writers write and the readers make of it are functions defined *)
(* by recursion, so the first section shows, from the library's minimal    *)
(* elements of well-founded orders, that such functions exist and that     *)
(* what they yield can be proved by induction.                             *)
(***************************************************************************)
EXTENDS Persistence, TLAPS, SequenceTheorems, FiniteSetTheorems, WellFoundedInduction

------------------------------------------------------------------------------
(* Induction *)

\* A set of numbers that is not empty has a smallest one.
LEMMA LeastNatural ==
  ASSUME NEW T \in SUBSET Nat, T # {}
  PROVE  \E m \in T : \A k \in T : m <= k
<1> DEFINE below(n) == 0 .. n
           F == {below(n) : n \in T}
<1>1. F \subseteq FiniteSubsetsOf(Nat) /\ F # {}
  <2>1. \A n \in T : below(n) \in SUBSET Nat /\ IsFiniteSet(below(n))
    BY FS_Interval
  <2> QED
    BY <2>1 DEF FiniteSubsetsOf
<1>2. PICK X \in F : \A Y \in F : ~(<<Y, X>> \in StrictSubsetOrdering(Nat))
  <2> HIDE DEF F
  <2> QED
    BY <1>1, FS_StrictSubsetOrderingWellFounded, WFMin
<1>3. PICK m \in T : X = below(m)
  OBVIOUS
<1>4. ASSUME NEW k \in T, k < m
      PROVE  FALSE
  <2>1. below(k) \in F /\ below(k) \subseteq X /\ below(k) # X
    <3>1. m \in below(m) /\ ~(m \in below(k)) /\ below(k) \subseteq below(m)
      BY <1>4
    <3> QED
      BY <1>3, <3>1
  <2>2. below(k) \in SUBSET Nat /\ X \in SUBSET Nat
    BY <1>3
  <2>3. <<below(k), X>> \in StrictSubsetOrdering(Nat)
    BY <2>1, <2>2 DEF StrictSubsetOrdering
  <2> QED
    BY <1>2, <2>1, <2>3
<1> QED
  BY <1>4

\* Induction up to N, for a set in the place of a predicate.
LEMMA InductionUpTo ==
  ASSUME NEW N \in Nat, NEW S, 0 \in S,
         \A n \in 0 .. N - 1 : n \in S => n + 1 \in S
  PROVE  \A n \in 0 .. N : n \in S
<1> SUFFICES ASSUME NEW x \in 0 .. N, x \notin S
             PROVE  FALSE
  OBVIOUS
<1> DEFINE T == {n \in Nat : n <= N /\ n \notin S}
<1>1. x \in T /\ T \subseteq Nat
  OBVIOUS
<1>2. PICK m \in T : \A k \in T : m <= k
  BY <1>1, LeastNatural
<1>3. m # 0 /\ m - 1 \in 0 .. N - 1
  BY <1>2
<1>4. m - 1 \in S
  BY <1>2, <1>3
<1>5. (m - 1) + 1 = m
  BY <1>2
<1> QED
  BY <1>3, <1>4, <1>5, <1>2

\* f begins with v, and each further value is what D makes of the one before.
Recurs(f, N, V, v, D) ==
  /\ f \in [0 .. N -> V] /\ f[0] = v
  /\ \A n \in 0 .. N - 1 : f[n + 1] = D[n][f[n]]

StaysIn(D, N, V) == \A n \in 0 .. N - 1 : \A x \in V : D[n][x] \in V

\* There is such a function.
LEMMA Recursion ==
  ASSUME NEW N \in Nat, NEW V, NEW v \in V, NEW D, StaysIn(D, N, V)
  PROVE  \E f : Recurs(f, N, V, v, D)
<1> DEFINE S == {n \in Nat : \E f : Recurs(f, n, V, v, D)}
<1>1. 0 \in S
  <2>1. Recurs([k \in 0 .. 0 |-> v], 0, V, v, D)
    BY DEF Recurs
  <2> QED
    BY <2>1
<1>2. ASSUME NEW n \in 0 .. N - 1, n \in S
      PROVE  n + 1 \in S
  <2>1. PICK g : Recurs(g, n, V, v, D)
    BY <1>2
  <2>2. /\ n \in Nat /\ n + 1 \in Nat /\ (n + 1) - 1 = n
        /\ g \in [0 .. n -> V] /\ g[0] = v
        /\ \A k \in 0 .. n - 1 : g[k + 1] = D[k][g[k]]
    BY <2>1 DEF Recurs
  <2>3. g[n] \in V /\ D[n][g[n]] \in V
    BY <2>2 DEF StaysIn
  <2> DEFINE h == [k \in 0 .. n + 1 |-> IF k = n + 1 THEN D[n][g[n]] ELSE g[k]]
  <2>4. h \in [0 .. n + 1 -> V]
    <3>1. \A k \in 0 .. n : g[k] \in V
      BY <2>2
    <3> QED
      BY <2>3, <3>1
  <2>5. h[n + 1] = D[n][g[n]] /\ \A k \in 0 .. n : h[k] = g[k]
    BY <2>2
  <2> HIDE DEF h
  <2>6. ASSUME NEW k \in 0 .. n
        PROVE  h[k + 1] = D[k][h[k]]
    <3>1. CASE k = n
      BY <2>5, <3>1
    <3>2. CASE k # n
      <4>1. k \in 0 .. n - 1 /\ k + 1 \in 0 .. n
        BY <2>2, <3>2
      <4>2. g[k + 1] = D[k][g[k]]
        BY <2>2, <4>1
      <4> QED
        BY <2>5, <4>1, <4>2
    <3> QED
      BY <3>1, <3>2
  <2>7. h[0] = v
    BY <2>2, <2>5
  <2>8. Recurs(h, n + 1, V, v, D)
    BY <2>2, <2>4, <2>6, <2>7 DEF Recurs
  <2> QED
    BY <2>2, <2>8
<1>3. \A n \in 0 .. N : n \in S
  <2> HIDE DEF S
  <2> QED
    BY <1>1, <1>2, InductionUpTo
<1> QED
  BY <1>3

\* What every step keeps in V is in V.
LEMMA TypeUpTo ==
  ASSUME NEW N \in Nat, NEW V, NEW f, f = [k \in 0 .. N |-> f[k]], f[0] \in V,
         \A n \in 0 .. N - 1 : f[n] \in V => f[n + 1] \in V
  PROVE  f \in [0 .. N -> V]
<1> DEFINE S == {n \in 0 .. N : f[n] \in V}
<1>1. 0 \in S
  OBVIOUS
<1>2. ASSUME NEW n \in 0 .. N - 1, n \in S
      PROVE  n + 1 \in S
  <2>1. n + 1 \in 0 .. N
    OBVIOUS
  <2> QED
    BY <1>2, <2>1
<1>3. \A n \in 0 .. N : n \in S
  <2> HIDE DEF S
  <2> QED
    BY <1>1, <1>2, InductionUpTo
<1>4. \A n \in 0 .. N : f[n] \in V
  BY <1>3
<1> QED
  BY <1>4

\* The items of a concatenation.
Joins(q, a, b) ==
  /\ Len(q) = Len(a) + Len(b)
  /\ \A p \in 1 .. Len(a) : q[p] = a[p]
  /\ \A p \in 1 .. Len(b) : q[Len(a) + p] = b[p]

LEMMA Concat ==
  ASSUME NEW S, NEW a \in Seq(S), NEW b \in Seq(S)
  PROVE  a \o b \in Seq(S) /\ Joins(a \o b, a, b)
<1> DEFINE q == a \o b
<1>1. /\ q \in Seq(S) /\ Len(q) = Len(a) + Len(b)
      /\ \A i \in 1 .. Len(a) + Len(b) : q[i] = IF i <= Len(a) THEN a[i] ELSE b[i - Len(a)]
  BY ConcatProperties
<1> HIDE DEF q
<1>2. PICK m \in Nat, n \in Nat : m = Len(a) /\ n = Len(b)
  OBVIOUS
<1>3. ASSUME NEW p \in 1 .. m
      PROVE  q[p] = a[p]
  BY <1>1, <1>2
<1>4. ASSUME NEW p \in 1 .. n
      PROVE  q[m + p] = b[p]
  <2>1. m + p \in 1 .. m + n /\ ~(m + p <= m) /\ (m + p) - m = p
    OBVIOUS
  <2> QED
    BY <1>1, <1>2, <2>1
<1> QED
  BY <1>1, <1>2, <1>3, <1>4 DEF Joins, q

------------------------------------------------------------------------------
(* What is written: the file of the secret chats *)

LEMMA CellType ==
  ASSUME NEW kind \in {"none", "magic", "number", "name", "rest", "id"}, NEW val \in Nat, NEW of \in Nat
  PROVE  C(kind, val, of) \in Cell
BY DEF C, Cell

LEMMA Sizes ==
  /\ NumChats \in Nat /\ MaxDc \in Nat /\ MaxDc >= 1 /\ Chats = 1 .. NumChats
  /\ \A c \in Chats : NameLength[c] \in Nat /\ NameLength[c] >= 1 /\ c \in Nat
BY FilesAssumption DEF Chats

\* The record of a chat: it begins with the id and the length of the name, ends with
\* the rest, and nothing in it is of another chat.
LEMMA ChatCellsAre ==
  ASSUME NEW c \in Chats, NEW n \in Nat
  PROVE  /\ ChatCells(c, n) \in Seq(Cell) /\ Len(ChatCells(c, n)) = NameLength[c] + 3
         /\ ChatCells(c, n)[1] = C("id", c, c)
         /\ ChatCells(c, n)[2] = C("number", NameLength[c], c)
         /\ ChatCells(c, n)[NameLength[c] + 3] = C("rest", n, c)
         /\ \A p \in 1 .. NameLength[c] + 3 : ChatCells(c, n)[p].of = c
<1> DEFINE m == NameLength[c]
<1>1. PICK q1 : q1 = <<C("id", c, c), C("number", m, c)>>
  OBVIOUS
<1>2. PICK q2 : q2 = [k \in 1 .. m |-> C("name", 0, c)]
  OBVIOUS
<1>3. PICK q3 : q3 = <<C("rest", n, c)>>
  OBVIOUS
<1>4. m \in Nat /\ c \in Nat
  BY Sizes
<1>5. /\ C("id", c, c) \in Cell /\ C("number", m, c) \in Cell /\ C("name", 0, c) \in Cell
      /\ C("rest", n, c) \in Cell
  BY <1>4, CellType
<1>6. /\ q1 \in Seq(Cell) /\ Len(q1) = 2
      /\ q1[1] = C("id", c, c) /\ q1[2] = C("number", m, c)
  BY <1>1, <1>5
<1>7. q2 \in Seq(Cell) /\ Len(q2) = m /\ \A p \in 1 .. m : q2[p] = C("name", 0, c)
  BY <1>2, <1>4, <1>5
<1>8. q3 \in Seq(Cell) /\ Len(q3) = 1 /\ q3[1] = C("rest", n, c)
  BY <1>3, <1>5
<1>9. PICK q12 : q12 = q1 \o q2
  OBVIOUS
<1>10. /\ q12 \in Seq(Cell) /\ Len(q12) = 2 + m
       /\ q12[1] = q1[1] /\ q12[2] = q1[2] /\ \A p \in 1 .. m : q12[2 + p] = q2[p]
  <2>1. q12 \in Seq(Cell) /\ Joins(q12, q1, q2)
    BY <1>6, <1>7, <1>9, Concat
  <2> QED
    BY <2>1, <1>6, <1>7 DEF Joins
<1>11. PICK q : q = q12 \o q3
  OBVIOUS
<1>12. /\ q \in Seq(Cell) /\ Len(q) = m + 3
       /\ \A p \in 1 .. m + 2 : q[p] = q12[p]
       /\ q[m + 3] = q3[1]
  <2>1. q \in Seq(Cell) /\ Joins(q, q12, q3)
    BY <1>8, <1>10, <1>11, Concat
  <2>2. q[(2 + m) + 1] = q3[1]
    BY <2>1, <1>8, <1>10 DEF Joins
  <2>3. (2 + m) + 1 = m + 3 /\ 2 + m = m + 2
    BY <1>4
  <2> QED
    BY <2>1, <2>2, <2>3, <1>8, <1>10 DEF Joins
<1>13. ChatCells(c, n) = q
  BY <1>1, <1>2, <1>3, <1>9, <1>11 DEF ChatCells
<1>14. /\ q[1] = C("id", c, c) /\ q[2] = C("number", m, c) /\ q[m + 3] = C("rest", n, c)
       /\ \A p \in 3 .. m + 2 : q[p] = C("name", 0, c)
  <2>1. q[1] = q12[1] /\ q[2] = q12[2]
    <3>1. 1 \in 1 .. m + 2 /\ 2 \in 1 .. m + 2
      BY <1>4
    <3> QED
      BY <1>12, <3>1
  <2>2. ASSUME NEW p \in 3 .. m + 2
        PROVE  q[p] = C("name", 0, c)
    <3>1. p \in 1 .. m + 2 /\ p - 2 \in 1 .. m /\ 2 + (p - 2) = p
      BY <1>4
    <3>2. q[p] = q12[p] /\ q12[2 + (p - 2)] = q2[p - 2]
      BY <3>1, <1>10, <1>12
    <3> QED
      BY <3>1, <3>2, <1>7
  <2> QED
    BY <2>1, <2>2, <1>6, <1>8, <1>10, <1>12
<1>15. \A kind, val : C(kind, val, c).of = c
  BY DEF C
<1>16. ASSUME NEW p \in 1 .. m + 3
       PROVE  q[p].of = c
  <2>1. p = 1 \/ p = 2 \/ p \in 3 .. m + 2 \/ p = m + 3
    BY <1>4
  <2> QED
    BY <2>1, <1>14, <1>15
<1> QED
  BY <1>12, <1>13, <1>14, <1>16, <1>4

\* The records of the first k chats.
Records(ch, s) ==
  LET upTo[k \in 0 .. NumChats] ==
        IF k = 0 THEN <<>>
        ELSE upTo[k - 1] \o (IF ch[k] = "ok" THEN ChatCells(k, s[k]) ELSE <<>>)
  IN  upTo

LEMMA RecordsAre ==
  ASSUME NEW ch, NEW s \in [Chats -> Nat]
  PROVE  /\ Records(ch, s) \in [0 .. NumChats -> Seq(Cell)]
         /\ Records(ch, s)[0] = <<>>
         /\ \A k \in Chats :
              Records(ch, s)[k] = Records(ch, s)[k - 1]
                                    \o (IF ch[k] = "ok" THEN ChatCells(k, s[k]) ELSE <<>>)
         /\ ChatRecords(ch, s) = Records(ch, s)[NumChats]
<1> DEFINE piece(k) == IF ch[k] = "ok" THEN ChatCells(k, s[k]) ELSE <<>>
           Unfolded(f) == f = [k \in 0 .. NumChats |-> IF k = 0 THEN <<>> ELSE f[k - 1] \o piece(k)]
           up[k \in 0 .. NumChats] ==
             IF k = 0 THEN <<>>
             ELSE up[k - 1] \o (IF ch[k] = "ok" THEN ChatCells(k, s[k]) ELSE <<>>)
           D == [n \in 0 .. NumChats - 1 |-> [x \in Seq(Cell) |-> x \o piece(n + 1)]]
<1>1. NumChats \in Nat /\ Chats = 1 .. NumChats
  BY Sizes
<1>2. \A k \in Chats : piece(k) \in Seq(Cell)
  <2>1. \A k \in Chats : ChatCells(k, s[k]) \in Seq(Cell)
    BY ChatCellsAre
  <2> QED
    BY <2>1
<1> HIDE DEF piece
<1>3. \A n \in 0 .. NumChats - 1 : \A x \in Seq(Cell) : D[n][x] = x \o piece(n + 1)
  OBVIOUS
<1> HIDE DEF D
<1>4. StaysIn(D, NumChats, Seq(Cell)) /\ <<>> \in Seq(Cell)
  <2>1. ASSUME NEW n \in 0 .. NumChats - 1, NEW x \in Seq(Cell)
        PROVE  D[n][x] \in Seq(Cell)
    <3>1. n + 1 \in Chats
      BY <1>1
    <3>2. x \o piece(n + 1) \in Seq(Cell)
      BY <3>1, <1>2, ConcatProperties
    <3> QED
      BY <1>3, <3>2
  <2> QED
    BY <2>1 DEF StaysIn
<1>5. \E f : Unfolded(f)
  <2>1. PICK f : Recurs(f, NumChats, Seq(Cell), <<>>, D)
    BY <1>1, <1>4, Recursion
  <2>2. /\ f \in [0 .. NumChats -> Seq(Cell)] /\ f[0] = <<>>
        /\ \A n \in 0 .. NumChats - 1 : f[n + 1] = D[n][f[n]]
    BY <2>1 DEF Recurs
  <2>3. ASSUME NEW k \in 0 .. NumChats, k # 0
        PROVE  f[k] = f[k - 1] \o piece(k)
    <3>1. k - 1 \in 0 .. NumChats - 1 /\ (k - 1) + 1 = k /\ k - 1 \in 0 .. NumChats
      BY <1>1, <2>3
    <3>2. f[k - 1] \in Seq(Cell)
      BY <2>2, <3>1
    <3>3. f[k] = D[k - 1][f[k - 1]]
      BY <2>2, <3>1
    <3> QED
      BY <1>3, <3>1, <3>2, <3>3
  <2>4. Unfolded(f)
    BY <2>2, <2>3
  <2> QED
    BY <2>4
<1>6. Unfolded(up)
  BY <1>5 DEF piece
<1>7. Records(ch, s) = up /\ ChatRecords(ch, s) = up[NumChats]
  BY DEF Records, ChatRecords
<1> HIDE DEF up
<1>8. up[0] = <<>> /\ \A k \in Chats : up[k] = up[k - 1] \o piece(k)
  <2>1. \A k \in 0 .. NumChats : up[k] = IF k = 0 THEN <<>> ELSE up[k - 1] \o piece(k)
    BY <1>6
  <2>2. ASSUME NEW k \in Chats
        PROVE  up[k] = up[k - 1] \o piece(k)
    <3>1. k \in 0 .. NumChats /\ k # 0
      BY <1>1
    <3> QED
      BY <2>1, <3>1
  <2>3. 0 \in 0 .. NumChats
    BY <1>1
  <2> QED
    BY <2>1, <2>2, <2>3
<1>9. up \in [0 .. NumChats -> Seq(Cell)]
  <2>1. ASSUME NEW n \in 0 .. NumChats - 1, up[n] \in Seq(Cell)
        PROVE  up[n + 1] \in Seq(Cell)
    <3>1. n + 1 \in Chats /\ (n + 1) - 1 = n
      BY <1>1
    <3>2. up[n + 1] = up[n] \o piece(n + 1)
      BY <1>8, <3>1
    <3> QED
      BY <1>2, <2>1, <3>1, <3>2, ConcatProperties
  <2>2. up = [k \in 0 .. NumChats |-> up[k]]
    BY <1>6
  <2> QED
    BY <1>1, <1>4, <1>8, <2>1, <2>2, TypeUpTo
<1> QED
  BY <1>7, <1>8, <1>9 DEF piece

------------------------------------------------------------------------------
(* What is read: the file of the secret chats *)

LEMMA AtType ==
  ASSUME NEW f \in Seq(Cell), NEW p
  PROVE  At(f, p) \in Cell /\ At(f, p).val \in Nat /\ (p \in 1 .. Len(f) => At(f, p) = f[p])
<1>1. C("none", 0, 0) \in Cell
  BY CellType
<1>2. At(f, p) \in Cell
  BY <1>1 DEF At
<1>3. \A x \in Cell : x.val \in Nat
  BY DEF Cell
<1> QED
  BY <1>2, <1>3 DEF At

\* Each record begins where the one before it ends, as its name says.
LEMMA StartsAre ==
  ASSUME NEW f \in Seq(Cell), NEW count \in Nat
  PROVE  /\ RecordStart(f, count) \in [0 .. count -> Nat]
         /\ RecordStart(f, count)[0] = 4
         /\ \A k \in 0 .. count - 1 :
              RecordStart(f, count)[k + 1]
                = RecordStart(f, count)[k] + 3 + At(f, RecordStart(f, count)[k] + 1).val
<1> DEFINE next(x) == x + 3 + At(f, x + 1).val
           Unfolded(g) == g = [k \in 0 .. count |-> IF k = 0 THEN 4 ELSE next(g[k - 1])]
           start[k \in 0 .. count] ==
             IF k = 0 THEN 4 ELSE start[k - 1] + 3 + At(f, start[k - 1] + 1).val
           D == [n \in 0 .. count - 1 |-> [x \in Nat |-> next(x)]]
<1>1. \A x \in Nat : next(x) \in Nat
  <2>1. ASSUME NEW x \in Nat
        PROVE  next(x) \in Nat
    <3>1. At(f, x + 1).val \in Nat
      BY AtType
    <3> QED
      BY <3>1
  <2> QED
    BY <2>1
<1> HIDE DEF next
<1>2. \A n \in 0 .. count - 1 : \A x \in Nat : D[n][x] = next(x)
  OBVIOUS
<1> HIDE DEF D
<1>3. StaysIn(D, count, Nat) /\ 4 \in Nat
  BY <1>1, <1>2 DEF StaysIn
<1>4. \E g : Unfolded(g)
  <2>1. PICK g : Recurs(g, count, Nat, 4, D)
    BY <1>3, Recursion
  <2>2. /\ g \in [0 .. count -> Nat] /\ g[0] = 4
        /\ \A n \in 0 .. count - 1 : g[n + 1] = D[n][g[n]]
    BY <2>1 DEF Recurs
  <2>3. ASSUME NEW k \in 0 .. count, k # 0
        PROVE  g[k] = next(g[k - 1])
    <3>1. k - 1 \in 0 .. count - 1 /\ (k - 1) + 1 = k /\ k - 1 \in 0 .. count
      BY <2>3
    <3>2. g[k - 1] \in Nat
      BY <2>2, <3>1
    <3>3. g[k] = D[k - 1][g[k - 1]]
      BY <2>2, <3>1
    <3> QED
      BY <1>2, <3>1, <3>2, <3>3
  <2>4. Unfolded(g)
    BY <2>2, <2>3
  <2> QED
    BY <2>4
<1>5. Unfolded(start)
  BY <1>4 DEF next
<1>6. RecordStart(f, count) = start
  BY DEF RecordStart
<1> HIDE DEF start
<1>7. start[0] = 4 /\ \A k \in 0 .. count - 1 : start[k + 1] = next(start[k])
  <2>1. \A k \in 0 .. count : start[k] = IF k = 0 THEN 4 ELSE next(start[k - 1])
    BY <1>5
  <2>2. ASSUME NEW k \in 0 .. count - 1
        PROVE  start[k + 1] = next(start[k])
    <3>1. k + 1 \in 0 .. count /\ k + 1 # 0 /\ (k + 1) - 1 = k
      OBVIOUS
    <3> QED
      BY <2>1, <3>1
  <2>3. 0 \in 0 .. count
    OBVIOUS
  <2> QED
    BY <2>1, <2>2, <2>3
<1>8. start \in [0 .. count -> Nat]
  <2>1. start = [k \in 0 .. count |-> start[k]]
    BY <1>5
  <2>2. start[0] \in Nat /\ \A n \in 0 .. count - 1 : start[n] \in Nat => start[n + 1] \in Nat
    BY <1>1, <1>3, <1>7
  <2>3. count \in Nat
    OBVIOUS
  <2> QED
    BY ONLY <2>1, <2>2, <2>3, TypeUpTo
<1> QED
  BY <1>6, <1>7, <1>8 DEF next

\* A record ends in front of the next one, which is not behind the end of the last.
LEMMA StartsGrow ==
  ASSUME NEW f \in Seq(Cell), NEW count \in Nat, NEW k \in 0 .. count - 1
  PROVE  /\ RecordStart(f, count)[k] >= 4
         /\ RecordStart(f, count)[k] + 3 <= RecordStart(f, count)[k + 1]
         /\ RecordStart(f, count)[k + 1] <= RecordStart(f, count)[count]
<1> DEFINE start == RecordStart(f, count)
           S == {n \in 0 .. count : start[n] >= 4 /\ \A j \in 0 .. n : start[j] <= start[n]}
<1>1. start \in [0 .. count -> Nat] /\ start[0] = 4
  BY StartsAre
<1>2. ASSUME NEW n \in 0 .. count - 1
      PROVE  start[n] + 3 <= start[n + 1]
  <2>1. start[n + 1] = start[n] + 3 + At(f, start[n] + 1).val
    BY StartsAre
  <2>2. At(f, start[n] + 1).val \in Nat
    BY AtType
  <2>3. start[n] \in Nat
    BY <1>1
  <2> HIDE DEF start
  <2> QED
    BY <2>1, <2>2, <2>3
<1> HIDE DEF start
<1>3. 0 \in S
  BY <1>1
<1>4. ASSUME NEW n \in 0 .. count - 1, n \in S
      PROVE  n + 1 \in S
  <2>1. n + 1 \in 0 .. count /\ n \in 0 .. count /\ start[n] \in Nat /\ start[n + 1] \in Nat
    BY <1>1
  <2>2. start[n] <= start[n + 1] /\ start[n + 1] >= 4
    BY <1>2, <1>4, <2>1
  <2>3. ASSUME NEW j \in 0 .. n + 1
        PROVE  start[j] <= start[n + 1]
    <3>1. CASE j = n + 1
      BY <2>1, <3>1
    <3>2. CASE j # n + 1
      <4>1. j \in 0 .. n /\ j \in 0 .. count
        BY <3>2
      <4>2. start[j] <= start[n] /\ start[j] \in Nat
        BY <1>1, <1>4, <4>1
      <4> QED
        BY <2>1, <2>2, <4>2
    <3> QED
      BY <3>1, <3>2
  <2> QED
    BY <2>1, <2>2, <2>3
<1>5. \A n \in 0 .. count : n \in S
  <2> HIDE DEF S
  <2> QED
    BY <1>3, <1>4, InductionUpTo
<1>6. k \in 0 .. count /\ k + 1 \in 0 .. count /\ count \in 0 .. count
  OBVIOUS
<1>7. start[k] >= 4 /\ start[k + 1] <= start[count]
  BY <1>5, <1>6
<1> QED
  BY <1>2, <1>7 DEF start

WholeRecord(f, start, k) ==
  /\ f[start[k]].kind = "id" /\ f[start[k + 1] - 1].kind = "rest"
  /\ \A p \in start[k] .. start[k + 1] - 1 : f[p].of = f[start[k]].of

RecordsRead(f, start, count) == {<<f[start[k]].of, f[start[k + 1] - 1].val>> : k \in 0 .. count - 1}

\* When read_secret_chat_file succeeds, and with what.
LEMMA ReadSecretOk ==
  ASSUME NEW f, NEW count, count = At(f, 3).val, NEW start, start = RecordStart(f, count),
         f # <<>>, ~(Len(f) < 3), ~(start[count] - 1 > Len(f)),
         \A k \in 0 .. count - 1 : WholeRecord(f, start, k)
  PROVE  ReadSecret(f) = [outcome |-> "ok", contents |-> RecordsRead(f, start, count)]
BY DEF ReadSecret, WholeRecord, RecordsRead

\* Whatever is in the file, only numbers come out of it.
LEMMA ReadSecretType ==
  ASSUME NEW f \in Seq(Cell)
  PROVE  /\ ReadSecret(f).contents \in SUBSET (Nat \X Nat)
         /\ ReadSecret(f).outcome \in {"ok", "short", "mixed"}
<1> DEFINE count == At(f, 3).val
           start == RecordStart(f, count)
<1>1. count \in Nat
  BY AtType
<1>2. ASSUME ~(start[count] - 1 > Len(f))
      PROVE  RecordsRead(f, start, count) \in SUBSET (Nat \X Nat)
  <2>1. ASSUME NEW k \in 0 .. count - 1
        PROVE  f[start[k]].of \in Nat /\ f[start[k + 1] - 1].val \in Nat
    <3>1. start[k] >= 4 /\ start[k] + 3 <= start[k + 1] /\ start[k + 1] <= start[count]
      BY <1>1, StartsGrow
    <3>2. start[k] \in Nat /\ start[k + 1] \in Nat /\ start[count] \in Nat
      <4>1. start \in [0 .. count -> Nat]
        BY <1>1, StartsAre
      <4> HIDE DEF start, count
      <4>2. k \in 0 .. count /\ k + 1 \in 0 .. count /\ count \in 0 .. count
        BY <1>1
      <4> QED
        BY <4>1, <4>2
    <3>3. Len(f) \in Nat
      OBVIOUS
    <3> HIDE DEF start, count
    <3>4. start[k] \in 1 .. Len(f) /\ start[k + 1] - 1 \in 1 .. Len(f)
      <4>1. PICK a \in Nat, b \in Nat, c \in Nat, l \in Nat :
              a = start[k] /\ b = start[k + 1] /\ c = start[count] /\ l = Len(f)
        BY <3>2, <3>3
      <4>2. a >= 4 /\ a + 3 <= b /\ b <= c /\ ~(c - 1 > l)
        BY <1>2, <3>1, <4>1
      <4>3. a \in 1 .. l /\ b - 1 \in 1 .. l
        BY <4>2
      <4> QED
        BY <4>1, <4>3
    <3>5. f[start[k]] \in Cell /\ f[start[k + 1] - 1] \in Cell
      BY <3>4
    <3> QED
      BY <3>5 DEF Cell
  <2> HIDE DEF start, count
  <2> QED
    BY <2>1 DEF RecordsRead
<1>3. CASE ~(start[count] - 1 > Len(f)) /\ ~(Len(f) < 3) /\ f # <<>>
  <2>1. ReadSecret(f) = IF \A k \in 0 .. count - 1 : WholeRecord(f, start, k)
                        THEN [outcome |-> "ok", contents |-> RecordsRead(f, start, count)]
                        ELSE [outcome |-> "mixed", contents |-> {}]
    BY <1>3 DEF ReadSecret, WholeRecord, RecordsRead
  <2> HIDE DEF start, count
  <2> QED
    BY <1>2, <1>3, <2>1
<1>4. CASE ~(~(start[count] - 1 > Len(f)) /\ ~(Len(f) < 3) /\ f # <<>>)
  <2>1. ReadSecret(f) = [outcome |-> "ok", contents |-> {}]
        \/ ReadSecret(f) = [outcome |-> "short", contents |-> {}]
    BY <1>4 DEF ReadSecret
  <2> QED
    BY <2>1
<1> QED
  BY <1>3, <1>4

------------------------------------------------------------------------------
(* The file of the secret chats reads back *)

\* The cells stand in the file behind the first n.
Stands(f, n, cells) == n + Len(cells) <= Len(f) /\ \A p \in 1 .. Len(cells) : f[n + p] = cells[p]

\* What stands in the file stands there with each of its beginnings.
Grows(R, N) == \A j \in 1 .. N : \E q \in Seq(Cell) : R[j] = R[j - 1] \o q

LEMMA PrefixesStand ==
  ASSUME NEW N \in Nat, NEW R \in [0 .. N -> Seq(Cell)], Grows(R, N),
         NEW f \in Seq(Cell), NEW h \in Nat, Stands(f, h, R[N]), NEW k \in 0 .. N
  PROVE  Stands(f, h, R[k])
<1> DEFINE T == {n \in 0 .. N : Stands(f, h, R[N - n])}
<1>1. ASSUME NEW j \in 1 .. N, Stands(f, h, R[j])
      PROVE  Stands(f, h, R[j - 1])
  <2>1. PICK q \in Seq(Cell) : R[j] = R[j - 1] \o q
    BY DEF Grows
  <2>2. j \in 0 .. N /\ j - 1 \in 0 .. N
    OBVIOUS
  <2>3. R[j] \in Seq(Cell) /\ R[j - 1] \in Seq(Cell)
    BY <2>2
  <2>4. Joins(R[j], R[j - 1], q)
    BY <2>1, <2>3, Concat
  <2>5. PICK m \in Nat, n \in Nat, l \in Nat : m = Len(R[j - 1]) /\ n = Len(q) /\ l = Len(f)
    BY <2>3
  <2>6. Len(R[j]) = m + n /\ \A p \in 1 .. m : R[j][p] = R[j - 1][p]
    BY <2>4, <2>5 DEF Joins
  <2>7. h + (m + n) <= l /\ \A p \in 1 .. m + n : f[h + p] = R[j][p]
    BY <1>1, <2>5, <2>6 DEF Stands
  <2>8. \A p \in 1 .. m : p \in 1 .. m + n
    OBVIOUS
  <2>9. h + m <= l /\ \A p \in 1 .. m : f[h + p] = R[j - 1][p]
    BY <2>6, <2>7, <2>8
  <2> QED
    BY <2>5, <2>9 DEF Stands
<1>2. 0 \in T
  <2>1. N - 0 = N
    OBVIOUS
  <2> QED
    BY <2>1
<1>3. ASSUME NEW n \in 0 .. N - 1, n \in T
      PROVE  n + 1 \in T
  <2>1. N - n \in 1 .. N /\ (N - n) - 1 = N - (n + 1) /\ n + 1 \in 0 .. N
    OBVIOUS
  <2>2. Stands(f, h, R[N - n])
    BY <1>3
  <2>3. Stands(f, h, R[(N - n) - 1])
    BY <1>1, <2>1, <2>2
  <2> QED
    BY <2>1, <2>3
<1>4. \A n \in 0 .. N : n \in T
  <2> HIDE DEF T
  <2> QED
    BY <1>2, <1>3, InductionUpTo
<1>5. N - k \in 0 .. N /\ N - (N - k) = k
  OBVIOUS
<1>6. Stands(f, h, R[N - (N - k)])
  BY <1>4, <1>5
<1> QED
  BY <1>5, <1>6

LEMMA RecordsStand ==
  ASSUME NEW ch, NEW s \in [Chats -> Nat], NEW f \in Seq(Cell), Stands(f, 3, ChatRecords(ch, s)),
         NEW k \in 0 .. NumChats
  PROVE  Stands(f, 3, Records(ch, s)[k])
<1> DEFINE R == Records(ch, s)
<1>1. /\ R \in [0 .. NumChats -> Seq(Cell)] /\ ChatRecords(ch, s) = R[NumChats]
      /\ \A j \in Chats : R[j] = R[j - 1] \o (IF ch[j] = "ok" THEN ChatCells(j, s[j]) ELSE <<>>)
  BY RecordsAre
<1>2. NumChats \in Nat /\ Chats = 1 .. NumChats
  BY Sizes
<1>3. ASSUME NEW j \in Chats
      PROVE  (IF ch[j] = "ok" THEN ChatCells(j, s[j]) ELSE <<>>) \in Seq(Cell)
  <2>1. ChatCells(j, s[j]) \in Seq(Cell)
    BY ChatCellsAre
  <2>2. <<>> \in Seq(Cell)
    OBVIOUS
  <2>3. CASE ch[j] = "ok"
    BY <2>1, <2>3
  <2>4. CASE ch[j] # "ok"
    BY <2>2, <2>4
  <2> QED
    BY <2>3, <2>4
<1> HIDE DEF R
<1>4. Grows(R, NumChats)
  BY <1>1, <1>2, <1>3 DEF Grows
<1>5. 3 \in Nat /\ Stands(f, 3, R[NumChats])
  BY <1>1
<1> QED
  BY <1>1, <1>2, <1>4, <1>5, PrefixesStand DEF R

\* The chats among the first k that are in the file.
OpenTo(ch, k) == {c \in Open(ch) : c <= k}

LEMMA OpenCounts ==
  ASSUME NEW ch, NEW k \in Chats
  PROVE  /\ IsFiniteSet(OpenTo(ch, k)) /\ IsFiniteSet(OpenTo(ch, k - 1))
         /\ Cardinality(OpenTo(ch, k)) \in Nat /\ Cardinality(OpenTo(ch, k - 1)) \in Nat
         /\ ch[k] = "ok" => /\ OpenTo(ch, k) = OpenTo(ch, k - 1) \cup {k}
                            /\ Cardinality(OpenTo(ch, k)) = Cardinality(OpenTo(ch, k - 1)) + 1
         /\ ch[k] # "ok" => OpenTo(ch, k) = OpenTo(ch, k - 1)
<1>1. Chats = 1 .. NumChats /\ NumChats \in Nat
  BY Sizes
<1>2. IsFiniteSet(Chats)
  BY <1>1, FS_Interval
<1>3. OpenTo(ch, k) \subseteq Chats /\ OpenTo(ch, k - 1) \subseteq Chats
  BY DEF OpenTo, Open
<1>4. IsFiniteSet(OpenTo(ch, k)) /\ IsFiniteSet(OpenTo(ch, k - 1))
  BY <1>2, <1>3, FS_Subset
<1>5. Cardinality(OpenTo(ch, k)) \in Nat /\ Cardinality(OpenTo(ch, k - 1)) \in Nat
  BY <1>4, FS_CardinalityType
<1>6. \A c \in Chats : c <= k <=> c <= k - 1 \/ c = k
  BY <1>1
<1>7. ASSUME ch[k] = "ok"
      PROVE  OpenTo(ch, k) = OpenTo(ch, k - 1) \cup {k}
  BY <1>6, <1>7 DEF OpenTo, Open
<1>8. k \notin OpenTo(ch, k - 1)
  BY <1>1 DEF OpenTo
<1>9. Cardinality(OpenTo(ch, k - 1) \cup {k}) = Cardinality(OpenTo(ch, k - 1)) + 1
  BY <1>4, <1>8, FS_AddElement
<1>10. ASSUME ch[k] # "ok"
       PROVE  OpenTo(ch, k) = OpenTo(ch, k - 1)
  BY <1>6, <1>10 DEF OpenTo, Open
<1> QED
  BY <1>4, <1>5, <1>7, <1>9, <1>10

\* The record that stands behind those of the first k - 1 chats is read as that of k.
LEMMA RecordReads ==
  ASSUME NEW k \in Chats, NEW n \in Nat, NEW f \in Seq(Cell), NEW a \in Nat,
         Stands(f, a, ChatCells(k, n)),
         NEW count \in Nat, NEW m \in 0 .. count - 1, RecordStart(f, count)[m] = a + 1
  PROVE  /\ RecordStart(f, count)[m + 1] = a + NameLength[k] + 4
         /\ WholeRecord(f, RecordStart(f, count), m)
         /\ f[RecordStart(f, count)[m]].of = k /\ f[RecordStart(f, count)[m + 1] - 1].val = n
<1> DEFINE start == RecordStart(f, count)
<1>1. PICK l \in Nat, size \in Nat : l = NameLength[k] /\ size = Len(f)
  <2>1. NameLength[k] \in Nat /\ Len(f) \in Nat
    BY Sizes
  <2> QED
    BY <2>1
<1>2. /\ \A p \in 1 .. l + 3 : f[a + p] = ChatCells(k, n)[p]
      /\ a + (l + 3) <= size
  <2>1. Len(ChatCells(k, n)) = l + 3
    BY <1>1, ChatCellsAre
  <2> QED
    BY <1>1, <2>1 DEF Stands
<1>3. /\ ChatCells(k, n)[1] = C("id", k, k) /\ ChatCells(k, n)[2] = C("number", l, k)
      /\ ChatCells(k, n)[l + 3] = C("rest", n, k)
      /\ \A p \in 1 .. l + 3 : ChatCells(k, n)[p].of = k
  BY <1>1, ChatCellsAre
<1>4. 1 \in 1 .. l + 3 /\ 2 \in 1 .. l + 3 /\ l + 3 \in 1 .. l + 3
  OBVIOUS
<1>5. f[a + 1] = C("id", k, k) /\ f[a + 2] = C("number", l, k) /\ f[a + (l + 3)] = C("rest", n, k)
  BY <1>2, <1>3, <1>4
<1>6. At(f, a + 2).val = l
  <2>1. a + 2 \in 1 .. Len(f)
    BY <1>1, <1>2
  <2>2. At(f, a + 2) = f[a + 2]
    BY <2>1, AtType
  <2> QED
    BY <2>2, <1>5 DEF C
<1>7. start[m + 1] = start[m] + 3 + At(f, start[m] + 1).val /\ start[m] = a + 1
  BY StartsAre
<1> HIDE DEF start
<1>8. start[m] + 1 = a + 2
  BY <1>7
<1>9. start[m + 1] = a + l + 4 /\ start[m + 1] - 1 = a + (l + 3)
  BY <1>6, <1>7, <1>8
<1>10. /\ C("id", k, k).kind = "id" /\ C("id", k, k).of = k
       /\ C("rest", n, k).kind = "rest" /\ C("rest", n, k).val = n
  BY DEF C
<1>11. ASSUME NEW p \in a + 1 .. a + (l + 3)
       PROVE  f[p].of = k
  <2>1. p - a \in 1 .. l + 3 /\ a + (p - a) = p
    OBVIOUS
  <2>2. f[a + (p - a)] = ChatCells(k, n)[p - a] /\ ChatCells(k, n)[p - a].of = k
    BY <1>2, <1>3, <2>1
  <2> QED
    BY <2>1, <2>2
<1>12. WholeRecord(f, start, m)
  BY <1>5, <1>7, <1>9, <1>10, <1>11 DEF WholeRecord
<1> QED
  BY <1>1, <1>5, <1>7, <1>9, <1>10, <1>12 DEF start

\* The file that write_secret_chat_file leaves, when it has written everything and
\* corrected the number of chats.
SecretDone(f, ch, s) ==
  /\ Stands(f, 3, ChatRecords(ch, s))
  /\ f[3] = C("number", Cardinality(Open(ch)), 0)

LEMMA SecretReads ==
  ASSUME NEW ch, NEW s \in [Chats -> Nat], NEW f \in Seq(Cell), SecretDone(f, ch, s)
  PROVE  ReadSecret(f) = [outcome |-> "ok", contents |-> SecretContents(ch, s)]
<1> DEFINE count == Cardinality(Open(ch))
           start == RecordStart(f, count)
           R == Records(ch, s)
           m(k) == Cardinality(OpenTo(ch, k))
           Reads(k) == /\ start[m(k)] = 4 + Len(R[k])
                       /\ \A j \in 0 .. m(k) - 1 : WholeRecord(f, start, j)
                       /\ RecordsRead(f, start, m(k)) = {<<c, s[c]>> : c \in OpenTo(ch, k)}
           S == {k \in 0 .. NumChats : Reads(k)}
<1>1. NumChats \in Nat /\ Chats = 1 .. NumChats
  BY Sizes
<1>2. OpenTo(ch, 0) = {} /\ OpenTo(ch, NumChats) = Open(ch)
  BY <1>1 DEF OpenTo, Open
<1>3. count \in Nat /\ m(0) = 0 /\ m(NumChats) = count /\ IsFiniteSet(Open(ch))
  <2>1. IsFiniteSet(Chats) /\ Open(ch) \subseteq Chats
    BY <1>1, FS_Interval DEF Open
  <2>2. IsFiniteSet(Open(ch))
    BY <2>1, FS_Subset
  <2> QED
    BY <1>2, <2>2, FS_CardinalityType, FS_EmptySet
<1>4. \A k \in 0 .. NumChats : m(k) \in 0 .. count
  <2>1. ASSUME NEW k \in 0 .. NumChats
        PROVE  m(k) \in 0 .. count
    <3>1. OpenTo(ch, k) \subseteq Open(ch)
      BY DEF OpenTo
    <3>2. IsFiniteSet(OpenTo(ch, k)) /\ Cardinality(OpenTo(ch, k)) <= Cardinality(Open(ch))
      BY <1>3, <3>1, FS_Subset
    <3>3. Cardinality(OpenTo(ch, k)) \in Nat
      BY <3>2, FS_CardinalityType
    <3> QED
      BY <1>3, <3>2, <3>3
  <2> QED
    BY <2>1
<1>5. /\ R \in [0 .. NumChats -> Seq(Cell)] /\ R[0] = <<>> /\ ChatRecords(ch, s) = R[NumChats]
      /\ \A k \in Chats : R[k] = R[k - 1] \o (IF ch[k] = "ok" THEN ChatCells(k, s[k]) ELSE <<>>)
  BY RecordsAre
<1>6. start[0] = 4
  BY <1>3, StartsAre
<1>7. 0 \in S
  <2>1. Len(R[0]) = 0
    BY <1>5
  <2> HIDE DEF start, count, R
  <2>2. RecordsRead(f, start, 0) = {}
    BY DEF RecordsRead
  <2>3. 0 \in 0 .. NumChats
    BY <1>1
  <2> QED
    BY <1>2, <1>3, <1>6, <2>1, <2>2, <2>3
<1>8. ASSUME NEW k \in Chats, Reads(k - 1)
      PROVE  Reads(k)
  <2>1. k \in 0 .. NumChats /\ k - 1 \in 0 .. NumChats
    BY <1>1
  <2>2. R[k] \in Seq(Cell) /\ R[k - 1] \in Seq(Cell)
    BY <1>5, <2>1
  <2>3. CASE ch[k] # "ok"
    <3>1. R[k] = R[k - 1] \o <<>>
      BY <1>5, <2>3
    <3>2. R[k] = R[k - 1]
      BY <2>2, <3>1, ConcatEmptySeq
    <3>3. OpenTo(ch, k) = OpenTo(ch, k - 1)
      BY <2>3, OpenCounts
    <3> QED
      BY <1>8, <3>2, <3>3
  <2>4. CASE ch[k] = "ok"
    <3>1. PICK q \in Seq(Cell) : q = ChatCells(k, s[k])
      BY ChatCellsAre
    <3>2. PICK l \in Nat, b \in Nat, i \in Nat, size \in Nat :
            l = NameLength[k] /\ b = Len(R[k - 1]) /\ i = m(k - 1) /\ size = Len(f)
      <4>1. NameLength[k] \in Nat /\ Len(R[k - 1]) \in Nat /\ Len(f) \in Nat
        BY <2>2, Sizes
      <4>2. m(k - 1) \in Nat
        BY OpenCounts
      <4> QED
        BY <4>1, <4>2
    <3>3. m(k) = i + 1 /\ OpenTo(ch, k) = OpenTo(ch, k - 1) \cup {k}
      BY <2>4, <3>2, OpenCounts
    <3>4. Joins(R[k], R[k - 1], q)
      BY <1>5, <2>2, <2>4, <3>1, Concat
    <3>5. Len(q) = l + 3
      BY <3>1, <3>2, ChatCellsAre
    <3>6. Len(R[k]) = b + (l + 3) /\ \A p \in 1 .. l + 3 : R[k][b + p] = q[p]
      BY <3>2, <3>4, <3>5 DEF Joins
    <3>7. Stands(f, 3, R[k])
      BY <1>5, <2>1, RecordsStand DEF SecretDone
    <3>8. 3 + (b + (l + 3)) <= size /\ \A p \in 1 .. b + (l + 3) : f[3 + p] = R[k][p]
      BY <3>2, <3>6, <3>7 DEF Stands
    <3>9. ASSUME NEW p \in 1 .. l + 3
          PROVE  f[(b + 3) + p] = q[p]
      <4>1. b + p \in 1 .. b + (l + 3) /\ 3 + (b + p) = (b + 3) + p
        OBVIOUS
      <4>2. f[3 + (b + p)] = R[k][b + p]
        BY <3>8, <4>1
      <4> QED
        BY <3>6, <4>1, <4>2
    <3>10. i \in 0 .. count - 1
      <4>1. i + 1 \in 0 .. count
        BY <1>4, <2>1, <3>3
      <4> QED
        BY <1>3, <4>1
    <3>11. start[i] = (b + 3) + 1
      <4>1. start[i] = 4 + b
        BY <1>8, <3>2
      <4> QED
        BY <4>1
    <3>12. s[k] \in Nat /\ b + 3 \in Nat /\ (b + 3) + l + 3 <= size
      BY <3>8
    <3>13. /\ start[i + 1] = (b + 3) + l + 4
           /\ WholeRecord(f, start, i)
           /\ f[start[i]].of = k /\ f[start[i + 1] - 1].val = s[k]
      <4> HIDE DEF count
      <4>1. PICK a \in Nat, n \in Nat : a = b + 3 /\ n = s[k]
        BY <3>12
      <4>2. Stands(f, a, ChatCells(k, n))
        <5>1. a + (l + 3) <= size /\ \A p \in 1 .. l + 3 : f[a + p] = q[p]
          BY <3>9, <3>12, <4>1
        <5>2. a + Len(q) <= Len(f) /\ \A p \in 1 .. Len(q) : f[a + p] = q[p]
          BY <3>2, <3>5, <5>1
        <5>3. Stands(f, a, q)
          BY <5>2 DEF Stands
        <5> QED
          BY <3>1, <4>1, <5>3
      <4>3. RecordStart(f, count)[i] = a + 1
        BY <3>11, <4>1
      <4>4. /\ RecordStart(f, count)[i + 1] = a + NameLength[k] + 4
            /\ WholeRecord(f, RecordStart(f, count), i)
            /\ f[RecordStart(f, count)[i]].of = k /\ f[RecordStart(f, count)[i + 1] - 1].val = n
        BY <1>3, <3>10, <4>2, <4>3, RecordReads
      <4> QED
        BY <3>2, <4>1, <4>4
    <3> HIDE DEF start, count, R
    <3>14. start[m(k)] = 4 + Len(R[k])
      BY <3>3, <3>6, <3>13
    <3>15. ASSUME NEW j \in 0 .. m(k) - 1
           PROVE  WholeRecord(f, start, j)
      <4>1. j \in 0 .. i - 1 \/ j = i
        BY <3>3
      <4> QED
        BY <1>8, <3>2, <3>13, <4>1
    <3>16. RecordsRead(f, start, m(k)) = {<<c, s[c]>> : c \in OpenTo(ch, k)}
      <4>1. RecordsRead(f, start, i + 1)
              = RecordsRead(f, start, i) \cup {<<f[start[i]].of, f[start[i + 1] - 1].val>>}
        <5>1. 0 .. (i + 1) - 1 = (0 .. i - 1) \cup {i}
          OBVIOUS
        <5> QED
          BY <5>1 DEF RecordsRead
      <4>2. RecordsRead(f, start, i) = {<<c, s[c]>> : c \in OpenTo(ch, k - 1)}
        BY <1>8, <3>2
      <4> QED
        BY <3>3, <3>13, <4>1, <4>2
    <3> QED
      BY <3>14, <3>15, <3>16
  <2> QED
    BY <2>3, <2>4
<1>9. ASSUME NEW n \in 0 .. NumChats - 1, n \in S
      PROVE  n + 1 \in S
  <2>1. n + 1 \in Chats /\ n + 1 \in 0 .. NumChats /\ (n + 1) - 1 = n
    BY <1>1
  <2>2. Reads((n + 1) - 1)
    BY <1>9, <2>1
  <2>3. Reads(n + 1)
    BY <1>8, <2>1, <2>2
  <2> QED
    BY <2>1, <2>3
<1>10. Reads(NumChats)
  <2>1. \A n \in 0 .. NumChats : n \in S
    <3> HIDE DEF S
    <3> QED
      BY <1>1, <1>7, <1>9, InductionUpTo
  <2> QED
    BY <1>1, <2>1
<1>11. At(f, 3).val = count /\ ~(Len(f) < 3) /\ f # <<>> /\ ~(start[count] - 1 > Len(f))
  <2>1. PICK b \in Nat, size \in Nat : b = Len(R[NumChats]) /\ size = Len(f)
    <3>1. R[NumChats] \in Seq(Cell)
      BY <1>1, <1>5
    <3> QED
      BY <3>1
  <2>2. 3 + b <= size
    BY <1>5, <2>1 DEF SecretDone, Stands
  <2>3. 3 \in 1 .. Len(f)
    BY <2>1, <2>2
  <2>4. At(f, 3) = f[3]
    BY <2>3, AtType
  <2>5. At(f, 3).val = count
    BY <2>4 DEF SecretDone, C
  <2>6. start[count] = 4 + b
    BY <1>3, <1>10, <2>1
  <2> HIDE DEF start, count
  <2>7. ~(start[count] - 1 > Len(f))
    BY <2>1, <2>2, <2>6
  <2> QED
    BY <2>1, <2>2, <2>3, <2>5, <2>7
<1>12. ReadSecret(f) = [outcome |-> "ok", contents |-> RecordsRead(f, start, count)]
  <2>1. \A j \in 0 .. count - 1 : WholeRecord(f, start, j)
    BY <1>3, <1>10
  <2> HIDE DEF count
  <2> QED
    BY <1>11, <2>1, ReadSecretOk
<1> QED
  BY <1>2, <1>3, <1>10, <1>12 DEF SecretContents

------------------------------------------------------------------------------
(* The file of the data centers reads back *)

DcFlag(ds, k) ==
  IF k \in ds THEN <<C("number", 1, k), C("rest", 0, k)>> ELSE <<C("number", 0, k)>>

LEMMA DcFlagIs ==
  ASSUME NEW ds, NEW k \in Nat
  PROVE  /\ DcFlag(ds, k) \in Seq(Cell) /\ Len(DcFlag(ds, k)) = (IF k \in ds THEN 2 ELSE 1)
         /\ DcFlag(ds, k)[1].val = (IF k \in ds THEN 1 ELSE 0)
         /\ k \in ds => DcFlag(ds, k)[2] = C("rest", 0, k)
<1>1. C("number", 1, k) \in Cell /\ C("rest", 0, k) \in Cell /\ C("number", 0, k) \in Cell
  BY CellType
<1>2. C("number", 1, k).val = 1 /\ C("number", 0, k).val = 0
  BY DEF C
<1>3. CASE k \in ds
  <2>1. PICK q : q = <<C("number", 1, k), C("rest", 0, k)>>
    OBVIOUS
  <2>2. q \in Seq(Cell) /\ Len(q) = 2 /\ q[1] = C("number", 1, k) /\ q[2] = C("rest", 0, k)
    BY <1>1, <2>1
  <2>3. DcFlag(ds, k) = q
    BY <1>3, <2>1 DEF DcFlag
  <2> QED
    BY <1>2, <1>3, <2>2, <2>3
<1>4. CASE k \notin ds
  <2>1. PICK q : q = <<C("number", 0, k)>>
    OBVIOUS
  <2>2. q \in Seq(Cell) /\ Len(q) = 1 /\ q[1] = C("number", 0, k)
    BY <1>1, <2>1
  <2>3. DcFlag(ds, k) = q
    BY <1>4, <2>1 DEF DcFlag
  <2> QED
    BY <1>2, <1>4, <2>2, <2>3
<1> QED
  BY <1>3, <1>4

\* What is written of the data centers up to the k-th.
DcRecords(ds) ==
  LET upTo[k \in 0 .. MaxDc] ==
        (IF k = 0 THEN <<>> ELSE upTo[k - 1])
          \o (IF k \in ds THEN <<C("number", 1, k), C("rest", 0, k)>> ELSE <<C("number", 0, k)>>)
  IN  upTo

LEMMA DcRecordsAre ==
  ASSUME NEW ds
  PROVE  /\ DcRecords(ds) \in [0 .. MaxDc -> Seq(Cell)]
         /\ DcRecords(ds)[0] = DcFlag(ds, 0)
         /\ \A k \in 1 .. MaxDc : DcRecords(ds)[k] = DcRecords(ds)[k - 1] \o DcFlag(ds, k)
         /\ DcCells(ds) = DcRecords(ds)[MaxDc]
<1> DEFINE Unfolded(f) ==
             f = [k \in 0 .. MaxDc |-> (IF k = 0 THEN <<>> ELSE f[k - 1]) \o DcFlag(ds, k)]
           up[k \in 0 .. MaxDc] ==
             (IF k = 0 THEN <<>> ELSE up[k - 1])
               \o (IF k \in ds THEN <<C("number", 1, k), C("rest", 0, k)>> ELSE <<C("number", 0, k)>>)
           D == [n \in 0 .. MaxDc - 1 |-> [x \in Seq(Cell) |-> x \o DcFlag(ds, n + 1)]]
<1>1. MaxDc \in Nat
  BY Sizes
<1>2. \A k \in Nat : DcFlag(ds, k) \in Seq(Cell)
  BY DcFlagIs
<1>3. \A n \in 0 .. MaxDc - 1 : \A x \in Seq(Cell) : D[n][x] = x \o DcFlag(ds, n + 1)
  OBVIOUS
<1> HIDE DEF D
<1>4. StaysIn(D, MaxDc, Seq(Cell)) /\ DcFlag(ds, 0) \in Seq(Cell)
  <2>1. ASSUME NEW n \in 0 .. MaxDc - 1, NEW x \in Seq(Cell)
        PROVE  D[n][x] \in Seq(Cell)
    <3>1. n + 1 \in Nat
      BY <1>1
    <3>2. x \o DcFlag(ds, n + 1) \in Seq(Cell)
      BY <3>1, <1>2, ConcatProperties
    <3> QED
      BY <1>3, <3>2
  <2> QED
    BY <1>2, <2>1 DEF StaysIn
<1>5. <<>> \o DcFlag(ds, 0) = DcFlag(ds, 0)
  BY <1>4, ConcatEmptySeq
<1>6. \E f : Unfolded(f)
  <2>1. PICK f : Recurs(f, MaxDc, Seq(Cell), DcFlag(ds, 0), D)
    BY <1>1, <1>4, Recursion
  <2>2. /\ f \in [0 .. MaxDc -> Seq(Cell)] /\ f[0] = DcFlag(ds, 0)
        /\ \A n \in 0 .. MaxDc - 1 : f[n + 1] = D[n][f[n]]
    BY <2>1 DEF Recurs
  <2>3. ASSUME NEW k \in 0 .. MaxDc
        PROVE  f[k] = (IF k = 0 THEN <<>> ELSE f[k - 1]) \o DcFlag(ds, k)
    <3>1. CASE k = 0
      BY <1>5, <2>2, <3>1
    <3>2. CASE k # 0
      <4>1. k - 1 \in 0 .. MaxDc - 1 /\ (k - 1) + 1 = k /\ k - 1 \in 0 .. MaxDc
        BY <1>1, <3>2
      <4>2. f[k - 1] \in Seq(Cell) /\ f[k] = D[k - 1][f[k - 1]]
        BY <2>2, <4>1
      <4>3. f[k] = f[k - 1] \o DcFlag(ds, k)
        BY <1>3, <4>1, <4>2
      <4> QED
        BY <3>2, <4>3
    <3> QED
      BY <3>1, <3>2
  <2>4. Unfolded(f)
    BY <2>2, <2>3
  <2> QED
    BY <2>4
<1>7. Unfolded(up)
  BY <1>6 DEF DcFlag
<1>8. DcRecords(ds) = up /\ DcCells(ds) = up[MaxDc]
  BY DEF DcRecords, DcCells
<1> HIDE DEF up
<1>9. up[0] = DcFlag(ds, 0) /\ \A k \in 1 .. MaxDc : up[k] = up[k - 1] \o DcFlag(ds, k)
  <2>1. \A k \in 0 .. MaxDc : up[k] = (IF k = 0 THEN <<>> ELSE up[k - 1]) \o DcFlag(ds, k)
    BY <1>7
  <2>2. ASSUME NEW k \in 1 .. MaxDc
        PROVE  up[k] = up[k - 1] \o DcFlag(ds, k)
    <3>1. k \in 0 .. MaxDc /\ k # 0
      OBVIOUS
    <3> QED
      BY <2>1, <3>1
  <2>3. 0 \in 0 .. MaxDc
    BY <1>1
  <2> QED
    BY <1>5, <2>1, <2>2, <2>3
<1>10. up \in [0 .. MaxDc -> Seq(Cell)]
  <2>1. ASSUME NEW n \in 0 .. MaxDc - 1, up[n] \in Seq(Cell)
        PROVE  up[n + 1] \in Seq(Cell)
    <3>1. n + 1 \in 1 .. MaxDc /\ (n + 1) - 1 = n /\ n + 1 \in Nat
      BY <1>1
    <3>2. up[n + 1] = up[n] \o DcFlag(ds, n + 1)
      BY <1>9, <3>1
    <3> QED
      BY <1>2, <2>1, <3>1, <3>2, ConcatProperties
  <2>2. up = [k \in 0 .. MaxDc |-> up[k]]
    BY <1>7
  <2> QED
    BY <1>1, <1>4, <1>9, <2>1, <2>2, TypeUpTo
<1> QED
  BY <1>8, <1>9, <1>10

\* Where the flag of each data center is read.
FlagStart(f, count) ==
  LET start[k \in 0 .. count] ==
        IF k = 0 THEN 4 ELSE start[k - 1] + (IF At(f, start[k - 1]).val # 0 THEN 2 ELSE 1)
  IN  start

LEMMA FlagStartsAre ==
  ASSUME NEW f \in Seq(Cell), NEW count \in Nat
  PROVE  /\ FlagStart(f, count) \in [0 .. count -> Nat]
         /\ FlagStart(f, count)[0] = 4
         /\ \A k \in 0 .. count - 1 :
              FlagStart(f, count)[k + 1]
                = FlagStart(f, count)[k] + (IF At(f, FlagStart(f, count)[k]).val # 0 THEN 2 ELSE 1)
<1> DEFINE next(x) == x + (IF At(f, x).val # 0 THEN 2 ELSE 1)
           Unfolded(g) == g = [k \in 0 .. count |-> IF k = 0 THEN 4 ELSE next(g[k - 1])]
           start[k \in 0 .. count] ==
             IF k = 0 THEN 4 ELSE start[k - 1] + (IF At(f, start[k - 1]).val # 0 THEN 2 ELSE 1)
           D == [n \in 0 .. count - 1 |-> [x \in Nat |-> next(x)]]
<1>1. \A x \in Nat : next(x) \in Nat
  OBVIOUS
<1> HIDE DEF next
<1>2. \A n \in 0 .. count - 1 : \A x \in Nat : D[n][x] = next(x)
  OBVIOUS
<1> HIDE DEF D
<1>3. StaysIn(D, count, Nat) /\ 4 \in Nat
  BY <1>1, <1>2 DEF StaysIn
<1>4. \E g : Unfolded(g)
  <2>1. PICK g : Recurs(g, count, Nat, 4, D)
    BY <1>3, Recursion
  <2>2. /\ g \in [0 .. count -> Nat] /\ g[0] = 4
        /\ \A n \in 0 .. count - 1 : g[n + 1] = D[n][g[n]]
    BY <2>1 DEF Recurs
  <2>3. ASSUME NEW k \in 0 .. count, k # 0
        PROVE  g[k] = next(g[k - 1])
    <3>1. k - 1 \in 0 .. count - 1 /\ (k - 1) + 1 = k /\ k - 1 \in 0 .. count
      BY <2>3
    <3>2. g[k - 1] \in Nat
      BY <2>2, <3>1
    <3>3. g[k] = D[k - 1][g[k - 1]]
      BY <2>2, <3>1
    <3> QED
      BY <1>2, <3>1, <3>2, <3>3
  <2>4. Unfolded(g)
    BY <2>2, <2>3
  <2> QED
    BY <2>4
<1>5. Unfolded(start)
  BY <1>4 DEF next
<1>6. FlagStart(f, count) = start
  BY DEF FlagStart
<1> HIDE DEF start
<1>7. start[0] = 4 /\ \A k \in 0 .. count - 1 : start[k + 1] = next(start[k])
  <2>1. \A k \in 0 .. count : start[k] = IF k = 0 THEN 4 ELSE next(start[k - 1])
    BY <1>5
  <2>2. ASSUME NEW k \in 0 .. count - 1
        PROVE  start[k + 1] = next(start[k])
    <3>1. k + 1 \in 0 .. count /\ k + 1 # 0 /\ (k + 1) - 1 = k
      OBVIOUS
    <3> QED
      BY <2>1, <3>1
  <2>3. 0 \in 0 .. count
    OBVIOUS
  <2> QED
    BY <2>1, <2>2, <2>3
<1>8. start \in [0 .. count -> Nat]
  <2>1. start = [k \in 0 .. count |-> start[k]]
    BY <1>5
  <2>2. start[0] \in Nat /\ \A n \in 0 .. count - 1 : start[n] \in Nat => start[n + 1] \in Nat
    BY <1>1, <1>3, <1>7
  <2>3. count \in Nat
    OBVIOUS
  <2> QED
    BY ONLY <2>1, <2>2, <2>3, TypeUpTo
<1> QED
  BY <1>6, <1>7, <1>8 DEF next

FlagsRead(f, start, count) == {k \in 0 .. count - 1 : At(f, start[k]).val # 0}

\* When read_auth_file succeeds, and with what.
LEMMA ReadAuthOk ==
  ASSUME NEW f, NEW count, count = At(f, 2).val + 1, NEW start, start = FlagStart(f, count),
         f # <<>>, ~(Len(f) < 3), ~(start[count] - 1 > Len(f)), At(f, start[count]).kind = "id",
         \A k \in FlagsRead(f, start, count) :
           At(f, start[k] + 1).kind = "rest" /\ At(f, start[k] + 1).of = k
  PROVE  ReadAuth(f) = [outcome |-> "ok", contents |-> FlagsRead(f, start, count)]
BY DEF ReadAuth, FlagsRead, FlagStart

LEMMA ReadAuthType ==
  ASSUME NEW f \in Seq(Cell)
  PROVE  /\ ReadAuth(f).contents \in SUBSET Nat
         /\ ReadAuth(f).outcome \in {"ok", "short", "mixed"}
<1> DEFINE count == At(f, 2).val + 1
           start == FlagStart(f, count)
<1>1. count \in Nat
  BY AtType
<1>2. FlagsRead(f, start, count) \in SUBSET Nat
  <2> HIDE DEF start, count
  <2> QED
    BY <1>1 DEF FlagsRead
<1>3. \/ ReadAuth(f) = [outcome |-> "ok", contents |-> {}]
      \/ ReadAuth(f) = [outcome |-> "short", contents |-> {}]
      \/ ReadAuth(f) = [outcome |-> "ok", contents |-> FlagsRead(f, start, count)]
      \/ ReadAuth(f) = [outcome |-> "mixed", contents |-> {}]
  BY DEF ReadAuth, FlagsRead, FlagStart
<1> HIDE DEF start, count
<1> QED
  BY <1>2, <1>3

AuthCells(ds) ==
  <<C("magic", 0, 0), C("number", MaxDc, 0), C("number", 2, 0)>> \o DcCells(ds) \o <<C("id", 1, 0)>>

LEMMA AuthCellsAre ==
  ASSUME NEW ds
  PROVE  /\ DcCells(ds) \in Seq(Cell)
         /\ AuthCells(ds) \in Seq(Cell) /\ Len(AuthCells(ds)) = 4 + Len(DcCells(ds))
         /\ AuthCells(ds)[2] = C("number", MaxDc, 0)
         /\ \A p \in 1 .. Len(DcCells(ds)) : AuthCells(ds)[3 + p] = DcCells(ds)[p]
         /\ AuthCells(ds)[4 + Len(DcCells(ds))] = C("id", 1, 0)
<1>1. PICK q1 : q1 = <<C("magic", 0, 0), C("number", MaxDc, 0), C("number", 2, 0)>>
  OBVIOUS
<1>2. PICK q3 : q3 = <<C("id", 1, 0)>>
  OBVIOUS
<1>3. MaxDc \in Nat
  BY Sizes
<1>4. /\ C("magic", 0, 0) \in Cell /\ C("number", MaxDc, 0) \in Cell /\ C("number", 2, 0) \in Cell
      /\ C("id", 1, 0) \in Cell
  BY <1>3, CellType
<1>5. q1 \in Seq(Cell) /\ Len(q1) = 3 /\ q1[2] = C("number", MaxDc, 0)
  BY <1>1, <1>4
<1>6. q3 \in Seq(Cell) /\ Len(q3) = 1 /\ q3[1] = C("id", 1, 0)
  BY <1>2, <1>4
<1>7. PICK q2 \in Seq(Cell) : q2 = DcCells(ds)
  <2>1. DcRecords(ds)[MaxDc] \in Seq(Cell) /\ DcCells(ds) = DcRecords(ds)[MaxDc]
    <3>1. DcRecords(ds) \in [0 .. MaxDc -> Seq(Cell)]
      BY DcRecordsAre
    <3>2. MaxDc \in 0 .. MaxDc
      BY <1>3
    <3> QED
      BY <3>1, <3>2, DcRecordsAre
  <2> QED
    BY <2>1
<1>8. PICK n \in Nat : n = Len(q2)
  OBVIOUS
<1>9. PICK q12 : q12 = q1 \o q2
  OBVIOUS
<1>10. q12 \in Seq(Cell) /\ Joins(q12, q1, q2)
  BY <1>5, <1>9, Concat
<1>11. /\ Len(q12) = 3 + n /\ q12[2] = q1[2]
       /\ \A p \in 1 .. n : q12[3 + p] = q2[p]
  <2>1. 2 \in 1 .. 3
    OBVIOUS
  <2> QED
    BY <2>1, <1>5, <1>8, <1>10 DEF Joins
<1>12. PICK q : q = q12 \o q3
  OBVIOUS
<1>13. q \in Seq(Cell) /\ Joins(q, q12, q3)
  BY <1>6, <1>10, <1>12, Concat
<1>14. /\ Len(q) = 3 + n + 1
       /\ \A p \in 1 .. 3 + n : q[p] = q12[p]
       /\ q[(3 + n) + 1] = q3[1]
  <2>1. 1 \in 1 .. 1
    OBVIOUS
  <2> QED
    BY <2>1, <1>6, <1>11, <1>13 DEF Joins
<1>15. AuthCells(ds) = q
  BY <1>1, <1>2, <1>7, <1>9, <1>12 DEF AuthCells
<1>16. q[2] = C("number", MaxDc, 0)
  <2>1. 2 \in 1 .. 3 + n
    OBVIOUS
  <2> QED
    BY <2>1, <1>5, <1>11, <1>14
<1>17. ASSUME NEW p \in 1 .. n
       PROVE  q[3 + p] = q2[p]
  <2>1. 3 + p \in 1 .. 3 + n
    OBVIOUS
  <2> QED
    BY <2>1, <1>11, <1>14
<1>18. Len(q) = 4 + n /\ q[4 + n] = C("id", 1, 0)
  <2>1. (3 + n) + 1 = 4 + n /\ 3 + n + 1 = 4 + n
    OBVIOUS
  <2> QED
    BY <2>1, <1>6, <1>14
<1> QED
  BY <1>7, <1>8, <1>13, <1>15, <1>16, <1>17, <1>18

LEMMA AuthReads ==
  ASSUME NEW ds \in SUBSET Dcs, NEW f \in Seq(Cell), Stands(f, 0, AuthCells(ds))
  PROVE  ReadAuth(f) = [outcome |-> "ok", contents |-> ds]
<1> DEFINE count == MaxDc + 1
           start == FlagStart(f, count)
           R == DcRecords(ds)
           Before(k) == IF k = 0 THEN 0 ELSE Len(R[k - 1])
           S == {k \in 0 .. count : start[k] = 4 + Before(k)}
<1>1. MaxDc \in Nat /\ MaxDc >= 1 /\ Dcs = 0 .. MaxDc
  BY Sizes DEF Dcs
<1>2. /\ R \in [0 .. MaxDc -> Seq(Cell)] /\ R[0] = DcFlag(ds, 0) /\ DcCells(ds) = R[MaxDc]
      /\ \A k \in 1 .. MaxDc : R[k] = R[k - 1] \o DcFlag(ds, k)
  BY DcRecordsAre
<1>3. \A k \in 0 .. MaxDc : R[k] \in Seq(Cell) /\ Len(R[k]) \in Nat
  BY <1>2
<1>4. count \in Nat /\ start[0] = 4
  <2>1. count \in Nat
    BY <1>1
  <2> QED
    BY <2>1, FlagStartsAre
<1>5. /\ 4 + Len(R[MaxDc]) <= Len(f)
      /\ f[2] = C("number", MaxDc, 0) /\ f[4 + Len(R[MaxDc])] = C("id", 1, 0)
      /\ Stands(f, 3, R[MaxDc])
  <2>1. PICK q \in Seq(Cell), n \in Nat, size \in Nat :
          q = AuthCells(ds) /\ n = Len(R[MaxDc]) /\ size = Len(f)
    <3>1. AuthCells(ds) \in Seq(Cell)
      BY AuthCellsAre
    <3>2. Len(R[MaxDc]) \in Nat /\ Len(f) \in Nat
      BY <1>1, <1>3
    <3> QED
      BY <3>1, <3>2
  <2>2. /\ Len(q) = 4 + n /\ q[2] = C("number", MaxDc, 0) /\ q[4 + n] = C("id", 1, 0)
        /\ \A p \in 1 .. n : q[3 + p] = R[MaxDc][p]
    BY <1>2, <2>1, AuthCellsAre
  <2>3. 0 + (4 + n) <= size /\ \A p \in 1 .. 4 + n : f[0 + p] = q[p]
    BY <2>1, <2>2 DEF Stands
  <2>4. \A p \in 1 .. 4 + n : f[p] = q[p]
    BY <2>3
  <2>5. 2 \in 1 .. 4 + n /\ 4 + n \in 1 .. 4 + n /\ 4 + n <= size
    BY <2>3
  <2>6. \A p \in 1 .. n : 3 + p \in 1 .. 4 + n
    OBVIOUS
  <2>7. 3 + n <= size /\ \A p \in 1 .. n : f[3 + p] = R[MaxDc][p]
    BY <2>2, <2>4, <2>5, <2>6
  <2> QED
    BY <2>1, <2>2, <2>4, <2>5, <2>7 DEF Stands
<1>6. \A k \in 0 .. MaxDc : Stands(f, 3, R[k])
  <2>1. \A k \in 1 .. MaxDc : k \in Nat
    OBVIOUS
  <2>2. Grows(R, MaxDc)
    BY <1>2, <2>1, DcFlagIs DEF Grows
  <2>3. 3 \in Nat
    OBVIOUS
  <2> HIDE DEF R
  <2> QED
    BY <1>1, <1>2, <1>5, <2>2, <2>3, PrefixesStand
<1>7. ASSUME NEW k \in 0 .. MaxDc, k \in S
      PROVE  /\ start[k + 1] = 4 + Len(R[k])
             /\ At(f, start[k]).val = (IF k \in ds THEN 1 ELSE 0)
             /\ k \in ds => At(f, start[k] + 1) = C("rest", 0, k)
  <2>1. PICK q \in Seq(Cell) : q = DcFlag(ds, k)
    BY DcFlagIs
  <2>2. PICK l \in 1 .. 2, size \in Nat, b \in Nat : l = Len(q) /\ size = Len(f) /\ b = Before(k)
    <3>1. Len(q) \in 1 .. 2
      BY <2>1, DcFlagIs
    <3>2. Before(k) \in Nat
      <4>1. CASE k = 0
        BY <4>1
      <4>2. CASE k # 0
        <5>1. k - 1 \in 0 .. MaxDc
          BY <1>1, <4>2
        <5> QED
          BY <1>3, <4>2, <5>1
      <4> QED
        BY <4>1, <4>2
    <3> HIDE DEF Before
    <3> QED
      BY <3>1, <3>2
  <2>3. /\ l = (IF k \in ds THEN 2 ELSE 1) /\ q[1].val = (IF k \in ds THEN 1 ELSE 0)
        /\ k \in ds => q[2] = C("rest", 0, k)
    BY <2>1, <2>2, DcFlagIs
  <2>4. Len(R[k]) = b + l /\ \A p \in 1 .. l : R[k][b + p] = q[p]
    <3>1. CASE k = 0
      <4>1. R[k] = q /\ b = 0
        BY <1>2, <2>1, <2>2, <3>1
      <4>2. \A p \in 1 .. l : b + p = p
        BY <4>1
      <4> QED
        BY <2>2, <4>1, <4>2
    <3>2. CASE k # 0
      <4>1. k \in 1 .. MaxDc /\ k - 1 \in 0 .. MaxDc
        BY <1>1, <3>2
      <4>2. R[k] = R[k - 1] \o q /\ R[k - 1] \in Seq(Cell)
        BY <1>2, <1>3, <2>1, <4>1
      <4>3. Joins(R[k], R[k - 1], q)
        BY <4>2, Concat
      <4>4. b = Len(R[k - 1])
        BY <2>2, <3>2
      <4> QED
        BY <2>2, <4>3, <4>4 DEF Joins
    <3> QED
      BY <3>1, <3>2
  <2>5. 3 + (b + l) <= size /\ \A p \in 1 .. b + l : f[3 + p] = R[k][p]
    BY <1>6, <2>2, <2>4 DEF Stands
  <2>6. ASSUME NEW p \in 1 .. l
        PROVE  f[b + 3 + p] = q[p] /\ b + 3 + p \in 1 .. Len(f)
    <3>1. b + p \in 1 .. b + l /\ 3 + (b + p) = b + 3 + p /\ b + 3 + p \in 1 .. size
      BY <2>5
    <3>2. f[3 + (b + p)] = R[k][b + p]
      BY <2>5, <3>1
    <3> QED
      BY <2>2, <2>4, <3>1, <3>2
  <2>7. start[k] = b + 4
    BY <1>7, <2>2
  <2>8. At(f, b + 4) = q[1]
    <3>1. 1 \in 1 .. l /\ b + 3 + 1 = b + 4
      OBVIOUS
    <3> QED
      BY <2>6, <3>1, AtType
  <2>9. ASSUME k \in ds
        PROVE  At(f, (b + 4) + 1) = q[2]
    <3>1. 2 \in 1 .. l /\ b + 3 + 2 = (b + 4) + 1
      BY <2>3, <2>9
    <3> QED
      BY <2>6, <3>1, AtType
  <2>10. start[k + 1] = start[k] + (IF At(f, start[k]).val # 0 THEN 2 ELSE 1)
    <3>1. k \in 0 .. count - 1
      BY <1>1
    <3> HIDE DEF count
    <3> QED
      BY <1>4, <3>1, FlagStartsAre
  <2> HIDE DEF start, R
  <2>11. start[k + 1] = 4 + Len(R[k])
    BY <2>3, <2>4, <2>7, <2>8, <2>10
  <2> QED
    BY <2>3, <2>7, <2>8, <2>9, <2>11
<1>8. \A k \in 0 .. count : k \in S
  <2>1. 0 \in S
    BY <1>1, <1>4
  <2>2. ASSUME NEW n \in 0 .. count - 1, n \in S
        PROVE  n + 1 \in S
    <3>1. n \in 0 .. MaxDc /\ n + 1 \in 0 .. count /\ n + 1 # 0 /\ (n + 1) - 1 = n
      BY <1>1
    <3>2. start[n + 1] = 4 + Len(R[n])
      BY <1>7, <2>2, <3>1
    <3> HIDE DEF start, R, count
    <3> QED
      BY <3>1, <3>2
  <2> HIDE DEF S, count
  <2> QED
    BY <1>4, <2>1, <2>2, InductionUpTo
<1>9. \A k \in 0 .. MaxDc : /\ At(f, start[k]).val = (IF k \in ds THEN 1 ELSE 0)
                            /\ k \in ds => At(f, start[k] + 1) = C("rest", 0, k)
  <2>1. \A k \in 0 .. MaxDc : k \in 0 .. count
    BY <1>1
  <2> HIDE DEF S, start, count
  <2> QED
    BY <1>7, <1>8, <2>1
<1>10. start[count] = 4 + Len(R[MaxDc])
  <2>1. MaxDc \in 0 .. MaxDc /\ MaxDc \in 0 .. count
    BY <1>1
  <2>2. MaxDc \in S
    BY <1>8, <2>1
  <2> HIDE DEF S, start, R
  <2> QED
    BY <1>7, <2>1, <2>2
<1>11. FlagsRead(f, start, count) = ds
  <2>1. 0 .. count - 1 = 0 .. MaxDc /\ ds \subseteq 0 .. MaxDc
    BY <1>1
  <2> HIDE DEF start, count
  <2>2. ASSUME NEW k \in 0 .. MaxDc
        PROVE  At(f, start[k]).val # 0 <=> k \in ds
    <3>1. At(f, start[k]).val = (IF k \in ds THEN 1 ELSE 0)
      BY <1>9
    <3> QED
      BY <3>1
  <2>3. FlagsRead(f, start, count) = {k \in 0 .. MaxDc : At(f, start[k]).val # 0}
    BY <2>1 DEF FlagsRead
  <2> QED
    BY <2>1, <2>2, <2>3
<1>12. /\ count = At(f, 2).val + 1 /\ f # <<>> /\ ~(Len(f) < 3) /\ ~(start[count] - 1 > Len(f))
       /\ At(f, start[count]).kind = "id"
  <2>1. PICK n \in Nat, size \in Nat : n = Len(R[MaxDc]) /\ size = Len(f)
    <3>1. R[MaxDc] \in Seq(Cell)
      BY <1>1, <1>3
    <3> HIDE DEF R
    <3>2. Len(R[MaxDc]) \in Nat /\ Len(f) \in Nat
      BY <3>1
    <3> QED
      BY <3>1, <3>2
  <2>2. 4 + n <= size /\ f[4 + n] = C("id", 1, 0)
    BY <1>5, <2>1
  <2>3. 2 \in 1 .. Len(f) /\ 4 + n \in 1 .. Len(f)
    BY <2>1, <2>2
  <2>4. At(f, 2) = f[2] /\ At(f, 4 + n) = f[4 + n]
    BY <2>3, AtType
  <2>5. At(f, 2).val = MaxDc /\ At(f, 4 + n).kind = "id"
    BY <1>5, <2>2, <2>4 DEF C
  <2>6. start[count] = 4 + n
    BY <1>10, <2>1
  <2> HIDE DEF start
  <2> QED
    BY <2>1, <2>2, <2>3, <2>5, <2>6
<1>13. \A k \in FlagsRead(f, start, count) :
         At(f, start[k] + 1).kind = "rest" /\ At(f, start[k] + 1).of = k
  <2>1. \A k : C("rest", 0, k).kind = "rest" /\ C("rest", 0, k).of = k
    BY DEF C
  <2>2. ds \subseteq 0 .. MaxDc
    BY <1>1
  <2> HIDE DEF start, count
  <2> QED
    BY <1>9, <1>11, <2>1, <2>2
<1>14. ReadAuth(f) = [outcome |-> "ok", contents |-> FlagsRead(f, start, count)]
  <2>1. PICK n : n = count
    OBVIOUS
  <2>2. PICK st : st = start
    OBVIOUS
  <2> HIDE DEF count, start
  <2>3. st = FlagStart(f, n)
    BY <2>1, <2>2 DEF start
  <2> QED
    BY <1>12, <1>13, <2>1, <2>2, <2>3, ReadAuthOk
<1> QED
  BY <1>11, <1>14

------------------------------------------------------------------------------
(* One write call *)

LEMMA WrittenIs ==
  ASSUME NEW f \in Seq(Cell), NEW call, call.pos \in 1 .. Len(f) + 1, call.cell \in Cell
  PROVE  /\ Written(f, call) \in Seq(Cell)
         /\ Len(f) <= Len(Written(f, call)) /\ call.pos <= Len(Written(f, call))
         /\ Written(f, call)[call.pos] = call.cell
         /\ \A k \in 1 .. Len(f) : k # call.pos => Written(f, call)[k] = f[k]
<1>1. PICK n \in Nat, pos \in Nat, cell \in Cell : n = Len(f) /\ pos = call.pos /\ cell = call.cell
  <2>1. Len(f) \in Nat
    OBVIOUS
  <2> QED
    BY <2>1
<1>2. pos \in 1 .. n + 1 /\ \A k \in 1 .. n : f[k] \in Cell
  BY <1>1
<1>3. PICK m \in Nat : m = IF pos > n THEN pos ELSE n
  OBVIOUS
<1>4. n <= m /\ pos <= m /\ \A k \in 1 .. m : k = pos \/ k \in 1 .. n
  BY <1>2, <1>3
<1>5. PICK w : w = [k \in 1 .. m |-> IF k = pos THEN cell ELSE f[k]]
  OBVIOUS
<1>6. Written(f, call) = w
  BY <1>1, <1>3, <1>5 DEF Written
<1>7. w \in Seq(Cell) /\ Len(w) = m
  <2>1. \A k \in 1 .. m : (IF k = pos THEN cell ELSE f[k]) \in Cell
    BY <1>2, <1>4
  <2> QED
    BY <1>5, <2>1
<1>8. w[pos] = cell /\ \A k \in 1 .. n : k # pos => w[k] = f[k]
  BY <1>2, <1>4, <1>5
<1> QED
  BY <1>1, <1>4, <1>6, <1>7, <1>8

\* The first i cells are in the file.
Begun(f, cells, i) == i <= Len(f) /\ \A p \in 1 .. i : f[p] = cells[p]

LEMMA BegunStep ==
  ASSUME NEW cells \in Seq(Cell), NEW f \in Seq(Cell), NEW i \in 0 .. Len(cells) - 1,
         Begun(f, cells, i), NEW call, call.pos = i + 1, call.cell = cells[i + 1]
  PROVE  Begun(Written(f, call), cells, i + 1) /\ Written(f, call) \in Seq(Cell)
<1>1. PICK n \in Nat, l \in Nat : n = Len(f) /\ l = Len(cells)
  OBVIOUS
<1>2. i \in 0 .. l - 1 /\ i <= n /\ \A p \in 1 .. i : f[p] = cells[p]
  BY <1>1 DEF Begun
<1>3. i + 1 \in 1 .. n + 1 /\ i + 1 \in 1 .. l
  BY <1>2
<1>4. call.pos \in 1 .. Len(f) + 1 /\ call.cell \in Cell
  BY <1>1, <1>3
<1>5. PICK w : w = Written(f, call)
  OBVIOUS
<1>6. /\ w \in Seq(Cell) /\ i + 1 <= Len(w) /\ w[i + 1] = cells[i + 1]
      /\ \A k \in 1 .. n : k # i + 1 => w[k] = f[k]
  BY <1>1, <1>4, <1>5, WrittenIs
<1>7. ASSUME NEW p \in 1 .. i + 1
      PROVE  w[p] = cells[p]
  <2>1. CASE p = i + 1
    BY <1>6, <2>1
  <2>2. CASE p # i + 1
    <3>1. p \in 1 .. i /\ p \in 1 .. n
      BY <1>2, <2>2
    <3> QED
      BY <1>2, <1>6, <2>2, <3>1
  <2> QED
    BY <2>1, <2>2
<1> QED
  BY <1>5, <1>6, <1>7 DEF Begun

LEMMA BegunStands ==
  ASSUME NEW cells \in Seq(Cell), NEW f \in Seq(Cell), Begun(f, cells, Len(cells))
  PROVE  Stands(f, 0, cells)
<1>1. PICK l \in Nat : l = Len(cells)
  OBVIOUS
<1>2. l <= Len(f) /\ \A p \in 1 .. l : f[p] = cells[p]
  BY <1>1 DEF Begun
<1>3. 0 + l = l /\ \A p \in 1 .. l : 0 + p = p
  OBVIOUS
<1> QED
  BY <1>1, <1>2, <1>3 DEF Stands

SecretCells(ch, s) == SecretHeader \o ChatRecords(ch, s)

LEMMA SecretCellsAre ==
  ASSUME NEW ch, NEW s \in [Chats -> Nat]
  PROVE  /\ ChatRecords(ch, s) \in Seq(Cell)
         /\ SecretCells(ch, s) \in Seq(Cell) /\ Len(SecretCells(ch, s)) = 3 + Len(ChatRecords(ch, s))
         /\ \A p \in 1 .. Len(ChatRecords(ch, s)) : SecretCells(ch, s)[3 + p] = ChatRecords(ch, s)[p]
<1>1. C("magic", 0, 0) \in Cell /\ C("number", 2, 0) \in Cell
  BY CellType
<1>2. SecretHeader \in Seq(Cell) /\ Len(SecretHeader) = 3
  BY <1>1 DEF SecretHeader
<1>3. ChatRecords(ch, s) \in Seq(Cell)
  <2>1. NumChats \in 0 .. NumChats
    BY Sizes
  <2>2. Records(ch, s) \in [0 .. NumChats -> Seq(Cell)] /\ ChatRecords(ch, s) = Records(ch, s)[NumChats]
    BY RecordsAre
  <2> QED
    BY <2>1, <2>2
<1>4. SecretCells(ch, s) \in Seq(Cell) /\ Joins(SecretCells(ch, s), SecretHeader, ChatRecords(ch, s))
  BY <1>2, <1>3, Concat DEF SecretCells
<1> QED
  BY <1>2, <1>3, <1>4 DEF Joins

\* The correction of the number completes the file.
LEMMA CorrectionCompletes ==
  ASSUME NEW ch, NEW s \in [Chats -> Nat], NEW f \in Seq(Cell),
         Begun(f, SecretCells(ch, s), Len(SecretCells(ch, s))),
         NEW call, call.pos = 3, call.cell = C("number", Cardinality(Open(ch)), 0)
  PROVE  SecretDone(Written(f, call), ch, s) /\ Written(f, call) \in Seq(Cell)
<1>1. PICK r \in Seq(Cell), q \in Seq(Cell) : r = ChatRecords(ch, s) /\ q = SecretCells(ch, s)
  BY SecretCellsAre
<1>2. PICK n \in Nat, l \in Nat : n = Len(f) /\ l = Len(r)
  OBVIOUS
<1>3. Len(q) = 3 + l /\ \A p \in 1 .. l : q[3 + p] = r[p]
  BY <1>1, <1>2, SecretCellsAre
<1>4. 3 + l <= n /\ \A p \in 1 .. 3 + l : f[p] = q[p]
  BY <1>1, <1>2, <1>3 DEF Begun
<1>5. Cardinality(Open(ch)) \in Nat
  <2>1. IsFiniteSet(Chats) /\ Open(ch) \subseteq Chats
    BY Sizes, FS_Interval DEF Open
  <2> QED
    BY <2>1, FS_Subset, FS_CardinalityType
<1>6. call.pos \in 1 .. Len(f) + 1 /\ call.cell \in Cell
  <2>1. call.pos \in 1 .. Len(f) + 1
    BY <1>2, <1>4
  <2>2. C("number", Cardinality(Open(ch)), 0) \in Cell
    BY <1>5, CellType
  <2> QED
    BY <2>1, <2>2
<1>7. PICK w : w = Written(f, call)
  OBVIOUS
<1>8. /\ w \in Seq(Cell) /\ n <= Len(w) /\ w[3] = call.cell
      /\ \A k \in 1 .. n : k # 3 => w[k] = f[k]
  <2>1. /\ w \in Seq(Cell) /\ Len(f) <= Len(w) /\ w[call.pos] = call.cell
        /\ \A k \in 1 .. Len(f) : k # call.pos => w[k] = f[k]
    BY <1>6, <1>7, WrittenIs
  <2> QED
    BY <2>1, <1>2
<1>9. ASSUME NEW p \in 1 .. l
      PROVE  w[3 + p] = r[p]
  <2>1. 3 + p \in 1 .. n /\ 3 + p # 3 /\ 3 + p \in 1 .. 3 + l
    BY <1>4
  <2> QED
    BY <1>3, <1>4, <1>8, <2>1
<1>10. Len(w) \in Nat /\ 3 + l <= Len(w)
  BY <1>4, <1>8
<1> QED
  BY <1>1, <1>2, <1>7, <1>8, <1>9, <1>10 DEF SecretDone, Stands

------------------------------------------------------------------------------
(* The write calls of a handler *)

WriteCalls == [file : Files, pos : Nat, cell : Cell]

\* What is left of a list of calls after the first i.
Left(calls, i) == SubSeq(calls, i + 1, Len(calls))

LEMMA LeftIs ==
  ASSUME NEW calls \in Seq(WriteCalls), NEW i \in 0 .. Len(calls)
  PROVE  /\ Left(calls, i) \in Seq(WriteCalls) /\ Len(Left(calls, i)) = Len(calls) - i
         /\ \A k \in 1 .. Len(calls) - i : Left(calls, i)[k] = calls[i + k]
         /\ i = 0 => Left(calls, i) = calls
<1>1. PICK n \in Nat : n = Len(calls)
  OBVIOUS
<1>2. \A k \in i + 1 .. n : calls[k] \in WriteCalls
  BY <1>1
<1>3. i + 1 \in Int /\ n \in Int
  BY <1>1
<1>4. /\ SubSeq(calls, i + 1, n) \in Seq(WriteCalls)
      /\ Len(SubSeq(calls, i + 1, n)) = IF i + 1 <= n THEN n - (i + 1) + 1 ELSE 0
      /\ \A k \in 1 .. n - (i + 1) + 1 : SubSeq(calls, i + 1, n)[k] = calls[i + 1 + k - 1]
  BY <1>2, <1>3, SubSeqProperties
<1>5. PICK l : l = Left(calls, i)
  OBVIOUS
<1>6. l \in Seq(WriteCalls) /\ Len(l) = n - i
  BY <1>1, <1>4, <1>5 DEF Left
<1>7. ASSUME NEW k \in 1 .. n - i
      PROVE  l[k] = calls[i + k]
  <2>1. k \in 1 .. n - (i + 1) + 1 /\ i + 1 + k - 1 = i + k
    BY <1>1
  <2> QED
    BY <1>1, <1>4, <1>5, <2>1 DEF Left
<1>8. ASSUME i = 0
      PROVE  l = calls
  <2>1. Len(l) = Len(calls) /\ \A k \in 1 .. Len(l) : l[k] = calls[k]
    BY <1>1, <1>6, <1>7, <1>8
  <2> QED
    BY <1>6, <2>1, SeqEqual
<1> QED
  BY <1>1, <1>5, <1>6, <1>7, <1>8

LEMMA LeftStep ==
  ASSUME NEW calls \in Seq(WriteCalls), NEW i \in 0 .. Len(calls) - 1
  PROVE  /\ Left(calls, i) # <<>> /\ Head(Left(calls, i)) = calls[i + 1]
         /\ Tail(Left(calls, i)) = Left(calls, i + 1)
         /\ i + 1 = Len(calls) => Tail(Left(calls, i)) = <<>>
<1>1. PICK n \in Nat : n = Len(calls)
  OBVIOUS
<1>2. PICK l : l = Left(calls, i)
  OBVIOUS
<1>3. PICK r : r = Left(calls, i + 1)
  OBVIOUS
<1>4. i \in 0 .. n /\ i + 1 \in 0 .. n
  BY <1>1
<1>5. /\ l \in Seq(WriteCalls) /\ Len(l) = n - i
      /\ \A k \in 1 .. n - i : l[k] = calls[i + k]
  BY <1>1, <1>2, <1>4, LeftIs
<1>6. /\ r \in Seq(WriteCalls) /\ Len(r) = n - (i + 1)
      /\ \A k \in 1 .. n - (i + 1) : r[k] = calls[(i + 1) + k]
  BY <1>1, <1>3, <1>4, LeftIs
<1>7. l # <<>> /\ Head(l) = calls[i + 1]
  <2>1. 1 \in 1 .. n - i /\ n - i # 0
    BY <1>1
  <2>2. l # <<>> /\ Head(l) = l[1]
    BY <1>5, <2>1
  <2> QED
    BY <1>5, <2>1, <2>2
<1>8. /\ Tail(l) \in Seq(WriteCalls) /\ Len(Tail(l)) = Len(l) - 1
      /\ \A k \in 1 .. Len(Tail(l)) : Tail(l)[k] = l[k + 1]
  BY <1>5, <1>7, HeadTailProperties
<1>9. PICK t : t = Tail(l)
  OBVIOUS
<1>10. t \in Seq(WriteCalls) /\ Len(t) = n - (i + 1) /\ \A k \in 1 .. n - (i + 1) : t[k] = l[k + 1]
  <2>1. (n - i) - 1 = n - (i + 1)
    BY <1>1
  <2>2. Len(t) = n - (i + 1)
    BY <2>1, <1>5, <1>8, <1>9
  <2> QED
    BY <2>2, <1>8, <1>9
<1>11. ASSUME NEW k \in 1 .. n - (i + 1)
       PROVE  t[k] = r[k]
  <2>1. k + 1 \in 1 .. n - i /\ i + (k + 1) = (i + 1) + k
    BY <1>1
  <2>2. l[k + 1] = calls[i + (k + 1)]
    BY <1>5, <2>1
  <2> QED
    BY <1>6, <1>10, <2>1, <2>2
<1>12. t = r
  BY <1>6, <1>10, <1>11, SeqEqual
<1>13. ASSUME i + 1 = n
       PROVE  t = <<>>
  BY <1>1, <1>10, <1>13
<1> QED
  BY <1>1, <1>2, <1>3, <1>7, <1>9, <1>12, <1>13

LEMMA CallsAre ==
  ASSUME NEW f \in Files, NEW cells \in Seq(Cell)
  PROVE  /\ Calls(f, cells) \in Seq(WriteCalls) /\ Len(Calls(f, cells)) = Len(cells)
         /\ \A k \in 1 .. Len(cells) : Calls(f, cells)[k] = [file |-> f, pos |-> k, cell |-> cells[k]]
<1>1. PICK n \in Nat : n = Len(cells)
  OBVIOUS
<1>2. DOMAIN cells = 1 .. n /\ \A k \in 1 .. n : cells[k] \in Cell
  BY <1>1
<1>3. \A k \in 1 .. n : [file |-> f, pos |-> k, cell |-> cells[k]] \in WriteCalls
  BY <1>2 DEF WriteCalls
<1>4. PICK q : q = [k \in 1 .. n |-> [file |-> f, pos |-> k, cell |-> cells[k]]]
  OBVIOUS
<1>5. Calls(f, cells) = q
  BY <1>2, <1>4 DEF Calls
<1>6. q \in Seq(WriteCalls) /\ Len(q) = n
  BY <1>3, <1>4
<1>7. \A k \in 1 .. n : q[k] = [file |-> f, pos |-> k, cell |-> cells[k]]
  BY <1>4
<1> QED
  BY <1>1, <1>5, <1>6, <1>7

LEMMA AuthCallsAre ==
  ASSUME NEW ds
  PROVE  /\ AuthCalls(ds) \in Seq(WriteCalls) /\ Len(AuthCalls(ds)) = Len(AuthCells(ds))
         /\ \A k \in 1 .. Len(AuthCells(ds)) :
              AuthCalls(ds)[k] = [file |-> "auth", pos |-> k, cell |-> AuthCells(ds)[k]]
<1>1. AuthCalls(ds) = Calls("auth", AuthCells(ds))
  BY DEF AuthCalls, AuthCells
<1>2. "auth" \in Files /\ AuthCells(ds) \in Seq(Cell)
  BY AuthCellsAre DEF Files
<1> QED
  BY <1>1, <1>2, CallsAre

Correction(ch) == [file |-> "secret", pos |-> 3, cell |-> C("number", Cardinality(Open(ch)), 0)]

LEMMA SecretCallsAre ==
  ASSUME NEW ch, NEW s \in [Chats -> Nat]
  PROVE  /\ SecretCalls(ch, s) \in Seq(WriteCalls)
         /\ Len(SecretCalls(ch, s)) = Len(SecretCells(ch, s)) + 1
         /\ \A k \in 1 .. Len(SecretCells(ch, s)) :
              SecretCalls(ch, s)[k] = [file |-> "secret", pos |-> k, cell |-> SecretCells(ch, s)[k]]
         /\ SecretCalls(ch, s)[Len(SecretCells(ch, s)) + 1] = Correction(ch)
<1>1. PICK q \in Seq(Cell) : q = SecretCells(ch, s)
  BY SecretCellsAre
<1>2. "secret" \in Files
  BY DEF Files
<1>3. PICK a : a = Calls("secret", q)
  OBVIOUS
<1>4. PICK n \in Nat : n = Len(q)
  OBVIOUS
<1>5. /\ a \in Seq(WriteCalls) /\ Len(a) = n
      /\ \A k \in 1 .. n : a[k] = [file |-> "secret", pos |-> k, cell |-> q[k]]
  BY <1>2, <1>3, <1>4, CallsAre
<1>6. PICK b : b = <<Correction(ch)>>
  OBVIOUS
<1>7. Correction(ch) \in WriteCalls
  <2>1. IsFiniteSet(Chats) /\ Open(ch) \subseteq Chats
    BY Sizes, FS_Interval DEF Open
  <2>2. Cardinality(Open(ch)) \in Nat
    BY <2>1, FS_Subset, FS_CardinalityType
  <2>3. C("number", Cardinality(Open(ch)), 0) \in Cell
    BY <2>2, CellType
  <2> QED
    BY <1>2, <2>3 DEF Correction, WriteCalls
<1>8. b \in Seq(WriteCalls) /\ Len(b) = 1 /\ b[1] = Correction(ch)
  BY <1>6, <1>7
<1>9. PICK c : c = a \o b
  OBVIOUS
<1>10. c \in Seq(WriteCalls) /\ Joins(c, a, b)
  BY <1>5, <1>8, <1>9, Concat
<1>11. SecretCalls(ch, s) = c
  BY <1>1, <1>3, <1>6, <1>9 DEF SecretCalls, SecretCells, Correction
<1>12. Len(c) = n + 1 /\ \A k \in 1 .. n : c[k] = a[k]
  BY <1>5, <1>8, <1>10 DEF Joins
<1>13. c[n + 1] = b[1]
  <2>1. 1 \in 1 .. 1
    OBVIOUS
  <2> QED
    BY <1>5, <1>8, <1>10, <2>1 DEF Joins
<1> QED
  BY <1>1, <1>4, <1>5, <1>8, <1>10, <1>11, <1>12, <1>13

LEMMA StateCallsAre ==
  ASSUME NEW q \in Nat
  PROVE  /\ StateCalls(q) \in Seq(WriteCalls) /\ Len(StateCalls(q)) = 1
         /\ StateCalls(q)[1] = [file |-> "state", pos |-> 1, cell |-> C("number", q, 0)]
<1>1. PICK c : c = <<C("number", q, 0)>>
  OBVIOUS
<1>2. c \in Seq(Cell) /\ Len(c) = 1 /\ c[1] = C("number", q, 0)
  BY <1>1, CellType
<1>3. "state" \in Files /\ StateCalls(q) = Calls("state", c)
  BY <1>1 DEF Files, StateCalls
<1>4. 1 \in 1 .. Len(c)
  BY <1>2
<1> QED
  BY <1>2, <1>3, <1>4, CallsAre

------------------------------------------------------------------------------
(* The invariant *)

FileNumber == At(disk.state, 1).val

TypeOK ==
  /\ phase \in {"down", "connecting", "loggingIn", "in", "aborted", "garbled"}
  /\ chat \in [Chats -> {"none", "ok", "deleted"}] /\ seq \in [Chats -> Nat]
  /\ qts \in Nat /\ dcs \in SUBSET Nat /\ write_timer \in BOOLEAN
  /\ disk \in [Files -> Seq(Cell)]
  /\ posted \in Seq(Chats)
  /\ saved \in [secret : SUBSET (Nat \X Nat), auth : SUBSET Nat]
  /\ torn \in SUBSET Files /\ split \in BOOLEAN

WritingAuth ==
  /\ phase = "loggingIn" /\ dcs \subseteq Dcs /\ saved.auth = dcs
  /\ \E i \in 0 .. Len(AuthCells(dcs)) - 1 :
       todo = Left(AuthCalls(dcs), i) /\ Begun(disk.auth, AuthCells(dcs), i)

WritingSecret ==
  /\ phase = "in" /\ saved.secret = SecretContents(chat, seq)
  /\ \E i \in 0 .. Len(SecretCells(chat, seq)) :
       todo = Left(SecretCalls(chat, seq), i) /\ Begun(disk.secret, SecretCells(chat, seq), i)

WritingBoth ==
  /\ phase = "in"
  /\ todo = StateCalls(qts) \o SecretCalls(chat, seq)

Writing == todo = <<>> \/ WritingAuth \/ WritingSecret \/ WritingBoth

\* The latest writer of f is done, and no call to it is next.
Finished(f) == f \notin torn /\ (todo # <<>> => Head(todo).file # f)

Restores ==
  /\ Finished("secret") => ReadSecret(disk.secret) = [outcome |-> "ok", contents |-> saved.secret]
  /\ Finished("auth") => ReadAuth(disk.auth) = [outcome |-> "ok", contents |-> saved.auth]

FilesInv == TypeOK /\ Writing /\ Restores

\* How many of the first q messages are in the chat c.
CountIn(p, q, c) == Cardinality({k \in 1 .. q : p[k] = c})
Count(q, c) == CountIn(posted, q, c)

\* The number in the state file is behind what was received.
StateBehind ==
  /\ FileNumber <= Len(posted) /\ qts <= Len(posted)
  /\ phase # "down" => FileNumber <= qts
  /\ phase \in {"connecting", "loggingIn"} => FileNumber = qts

\* The state file is not ahead of the file of the secret chats.
StateFirst == \A e \in saved.secret : Count(FileNumber, e[1]) <= e[2]

HoleInv == StateBehind /\ (~split => "secret" \notin torn /\ StateFirst /\ NoHole)

LEMMA FilesAre == Files = {"state", "secret", "auth"} /\ "state" # "secret" /\ "state" # "auth"
BY DEF Files

\* Of which kind the calls are that a handler has left.
LEMMA LeftFiles ==
  ASSUME TypeOK, Writing
  PROVE  /\ todo \in Seq(WriteCalls)
         /\ WritingAuth => \A k \in DOMAIN todo : todo[k].file = "auth"
         /\ WritingSecret => \A k \in DOMAIN todo : todo[k].file = "secret"
<1>1. CASE todo = <<>>
  BY <1>1
<1>2. CASE WritingAuth
  <2>1. PICK i \in 0 .. Len(AuthCells(dcs)) - 1 : todo = Left(AuthCalls(dcs), i)
    BY <1>2 DEF WritingAuth
  <2>2. PICK cells \in Seq(Cell), n \in Nat : cells = AuthCells(dcs) /\ n = Len(cells)
    BY AuthCellsAre
  <2>3. PICK calls \in Seq(WriteCalls) : calls = AuthCalls(dcs)
    BY AuthCallsAre
  <2>4. Len(calls) = n /\ \A k \in 1 .. n : calls[k].file = "auth"
    <3>1. /\ Len(AuthCalls(dcs)) = Len(AuthCells(dcs))
          /\ \A k \in 1 .. Len(AuthCells(dcs)) :
               AuthCalls(dcs)[k] = [file |-> "auth", pos |-> k, cell |-> AuthCells(dcs)[k]]
      BY AuthCallsAre
    <3>2. \A k \in 1 .. n : calls[k] = [file |-> "auth", pos |-> k, cell |-> cells[k]]
      BY <2>2, <2>3, <3>1
    <3>3. Len(calls) = n
      BY <2>2, <2>3, <3>1
    <3>4. ASSUME NEW k \in 1 .. n
          PROVE  calls[k].file = "auth"
      <4>1. calls[k] = [file |-> "auth", pos |-> k, cell |-> cells[k]]
        BY <3>2
      <4> QED
        BY ONLY <4>1
    <3> QED
      BY <3>3, <3>4
  <2>5. i \in 0 .. Len(calls)
    BY <2>1, <2>2, <2>4
  <2>6. /\ todo \in Seq(WriteCalls) /\ Len(todo) = n - i
        /\ \A k \in 1 .. n - i : todo[k] = calls[i + k]
    BY <2>1, <2>3, <2>4, <2>5, LeftIs
  <2>7. \A k \in 1 .. n - i : i + k \in 1 .. n
    BY <2>4, <2>5
  <2>8. \A k \in DOMAIN todo : todo[k].file = "auth"
    BY <2>4, <2>6, <2>7
  <2>9. ~WritingSecret
    BY <1>2 DEF WritingAuth, WritingSecret
  <2> QED
    BY <2>6, <2>8, <2>9
<1>3. CASE WritingSecret
  <2>1. PICK i \in 0 .. Len(SecretCells(chat, seq)) : todo = Left(SecretCalls(chat, seq), i)
    BY <1>3 DEF WritingSecret
  <2>2. seq \in [Chats -> Nat]
    BY DEF TypeOK
  <2>3. PICK cells \in Seq(Cell), n \in Nat : cells = SecretCells(chat, seq) /\ n = Len(cells)
    BY <2>2, SecretCellsAre
  <2>4. PICK calls \in Seq(WriteCalls) : calls = SecretCalls(chat, seq)
    BY <2>2, SecretCallsAre
  <2>5. Len(calls) = n + 1 /\ \A k \in 1 .. n + 1 : calls[k].file = "secret"
    <3>0. /\ Len(SecretCalls(chat, seq)) = Len(SecretCells(chat, seq)) + 1
          /\ \A k \in 1 .. Len(SecretCells(chat, seq)) :
               SecretCalls(chat, seq)[k]
                 = [file |-> "secret", pos |-> k, cell |-> SecretCells(chat, seq)[k]]
          /\ SecretCalls(chat, seq)[Len(SecretCells(chat, seq)) + 1] = Correction(chat)
      BY <2>2, SecretCallsAre
    <3>1. /\ Len(calls) = n + 1
          /\ \A k \in 1 .. n : calls[k] = [file |-> "secret", pos |-> k, cell |-> cells[k]]
          /\ calls[n + 1] = Correction(chat)
      BY <2>3, <2>4, <3>0
    <3>2. \A k \in 1 .. n + 1 : k \in 1 .. n \/ k = n + 1
      OBVIOUS
    <3>3. ASSUME NEW k \in 1 .. n + 1
          PROVE  calls[k].file = "secret"
      <4>1. CASE k = n + 1
        BY <3>1, <4>1 DEF Correction
      <4>2. CASE k \in 1 .. n
        <5>1. calls[k] = [file |-> "secret", pos |-> k, cell |-> cells[k]]
          BY <3>1, <4>2
        <5> QED
          BY ONLY <5>1
      <4> QED
        BY <3>2, <4>1, <4>2
    <3> QED
      BY <3>1, <3>3
  <2>6. i \in 0 .. Len(calls)
    BY <2>1, <2>3, <2>5
  <2>7. /\ todo \in Seq(WriteCalls) /\ Len(todo) = (n + 1) - i
        /\ \A k \in 1 .. (n + 1) - i : todo[k] = calls[i + k]
    BY <2>1, <2>4, <2>5, <2>6, LeftIs
  <2>8. \A k \in 1 .. (n + 1) - i : i + k \in 1 .. n + 1
    BY <2>5, <2>6
  <2>9. \A k \in DOMAIN todo : todo[k].file = "secret"
    BY <2>5, <2>7, <2>8
  <2>10. ~WritingAuth
    BY <1>3 DEF WritingAuth, WritingSecret
  <2> QED
    BY <2>7, <2>9, <2>10
<1>4. CASE WritingBoth /\ ~WritingAuth /\ ~WritingSecret
  <2>1. StateCalls(qts) \in Seq(WriteCalls) /\ SecretCalls(chat, seq) \in Seq(WriteCalls)
    BY StateCallsAre, SecretCallsAre DEF TypeOK
  <2> QED
    BY <1>4, <2>1, ConcatProperties DEF WritingBoth
<1> QED
  BY <1>1, <1>2, <1>3, <1>4 DEF Writing, WritingAuth, WritingSecret

\* A file that is finished after a call to another one was finished before.
LEMMA FinishedBefore ==
  ASSUME todo \in Seq(WriteCalls), todo # <<>>, WriteCall, NEW f, f # Head(todo).file, Finished(f)'
  PROVE  Finished(f)
<1>1. f \notin torn' => f \notin torn
  BY DEF WriteCall
<1> QED
  BY <1>1 DEF Finished

------------------------------------------------------------------------------
(* The steps *)

LEMMA WaitsInPhase ==
  ASSUME Writing, phase \notin {"loggingIn", "in"}
  PROVE  todo = <<>>
BY DEF Writing, WritingAuth, WritingSecret, WritingBoth

LEMMA KeptFiles ==
  ASSUME FilesInv, todo = <<>>, UNCHANGED <<todo, disk, saved, torn>>
  PROVE  Writing' /\ Restores'
<1>1. Finished("secret")' = Finished("secret") /\ Finished("auth")' = Finished("auth")
  BY DEF Finished
<1> QED
  BY <1>1 DEF FilesInv, Writing, Restores

LEMMA LoginFiles ==
  ASSUME FilesInv, Login
  PROVE  FilesInv'
<1>1. disk.auth \in Seq(Cell) /\ disk.state \in Seq(Cell)
  BY FilesAre DEF FilesInv, TypeOK
<1>2. ReadAuth(disk.auth).contents \in SUBSET Nat /\ ReadAuth(disk.auth).outcome \in {"ok", "short", "mixed"}
  BY <1>1, ReadAuthType
<1>3. At(disk.state, 1).val \in Nat
  BY <1>1, AtType
<1>4. phase' \in {"connecting", "aborted", "garbled"}
  BY <1>2 DEF Login, After
<1>5. chat' \in [Chats -> {"none", "ok", "deleted"}] /\ seq' \in [Chats -> Nat]
  BY DEF Login
<1>6. TypeOK'
  BY <1>2, <1>3, <1>4, <1>5 DEF FilesInv, TypeOK, Login, history
<1>7. todo = <<>>
  BY WaitsInPhase DEF FilesInv, Login
<1>8. Writing' /\ Restores'
  BY <1>7, KeptFiles DEF Login, history
<1> QED
  BY <1>6, <1>8 DEF FilesInv

LEMMA SecretsReadFiles ==
  ASSUME FilesInv, SecretsRead
  PROVE  FilesInv'
<1> DEFINE secret == ReadSecret(disk.secret)
           Saved(c) == {e \in secret.contents : e[1] = c}
<1>1. disk.secret \in Seq(Cell)
  BY FilesAre DEF FilesInv, TypeOK
<1>2. secret.contents \in SUBSET (Nat \X Nat) /\ secret.outcome \in {"ok", "short", "mixed"}
  BY <1>1, ReadSecretType
<1>3. phase' \in {"in", "aborted", "garbled"}
  BY <1>2 DEF SecretsRead, After
<1> HIDE DEF secret
<1>4. ASSUME NEW c \in Chats
      PROVE  (IF Saved(c) # {} THEN (CHOOSE e \in Saved(c) : TRUE)[2] ELSE 0) \in Nat
  <2>1. CASE Saved(c) # {}
    <3>1. PICK x : x = CHOOSE e \in Saved(c) : TRUE
      OBVIOUS
    <3>2. x \in Saved(c)
      BY <2>1, <3>1
    <3>3. x[2] \in Nat
      BY <1>2, <3>2
    <3> QED
      BY <2>1, <3>1, <3>3
  <2>2. CASE Saved(c) = {}
    BY <2>2
  <2> QED
    BY <2>1, <2>2
<1>5. chat' \in [Chats -> {"none", "ok", "deleted"}] /\ seq' \in [Chats -> Nat]
  BY <1>4 DEF SecretsRead, secret
<1>6. TypeOK'
  BY <1>3, <1>5 DEF FilesInv, TypeOK, SecretsRead, history
<1>7. Writing' /\ Restores'
  BY KeptFiles DEF SecretsRead, history
<1> QED
  BY <1>6, <1>7 DEF FilesInv

LEMMA LoggedInFiles ==
  ASSUME FilesInv, LoggedIn
  PROVE  FilesInv'
<1>1. PICK ds \in SUBSET Dcs : dcs' = ds
  BY DEF LoggedIn
<1>2. Dcs \subseteq Nat
  BY DEF Dcs
<1>3. saved' \in [secret : SUBSET (Nat \X Nat), auth : SUBSET Nat] /\ saved'.auth = ds
      /\ saved'.secret = saved.secret
  BY <1>1, <1>2 DEF FilesInv, TypeOK, LoggedIn
<1>4. TypeOK'
  BY <1>1, <1>2, <1>3 DEF FilesInv, TypeOK, LoggedIn
<1>5. PICK n \in Nat : n = Len(AuthCells(ds)) /\ n >= 4
  <2>1. Len(DcCells(ds)) \in Nat
    BY AuthCellsAre
  <2> QED
    BY <2>1, AuthCellsAre
<1>6. AuthCalls(ds) \in Seq(WriteCalls) /\ Len(AuthCalls(ds)) = n
  BY <1>5, AuthCallsAre
<1>7. 0 \in 0 .. n - 1 /\ 0 \in 0 .. Len(AuthCalls(ds))
  BY <1>5, <1>6
<1>8. todo' = AuthCalls(ds) /\ Left(AuthCalls(ds), 0) = AuthCalls(ds)
  BY <1>1, <1>6, <1>7, LeftIs DEF LoggedIn
<1>9. Begun(disk'.auth, AuthCells(ds), 0)
  <2>1. disk'.auth \in Seq(Cell)
    BY <1>4, FilesAre DEF TypeOK
  <2> QED
    BY <2>1 DEF Begun
<1>10. WritingAuth'
  BY <1>1, <1>3, <1>5, <1>7, <1>8, <1>9 DEF WritingAuth, LoggedIn
<1>11. ~Finished("auth")'
  <2>1. 1 \in 1 .. Len(AuthCells(ds)) /\ 1 \in DOMAIN todo'
    BY <1>5, <1>6, <1>8
  <2>2. todo'[1] = [file |-> "auth", pos |-> 1, cell |-> AuthCells(ds)[1]]
    BY <1>8, <2>1, AuthCallsAre
  <2>3. todo'[1].file = "auth"
    BY ONLY <2>2
  <2>4. todo' # <<>> /\ Head(todo') = todo'[1]
    BY <1>6, <1>8, <2>1
  <2> QED
    BY <2>3, <2>4 DEF Finished
<1>12. Finished("secret")' => Finished("secret")
  <2>1. todo = <<>> /\ torn' = torn
    BY WaitsInPhase DEF FilesInv, LoggedIn
  <2> QED
    BY <2>1 DEF Finished
<1>13. Restores'
  BY <1>3, <1>11, <1>12 DEF FilesInv, Restores, LoggedIn
<1> QED
  BY <1>4, <1>10, <1>13 DEF FilesInv, Writing

\* A handler begins to write the file of the secret chats.
SecretBegins ==
  /\ todo = <<>> /\ phase' = "in" /\ TypeOK'
  /\ todo' = SecretCalls(chat', seq')
  /\ saved'.secret = SecretContents(chat', seq') /\ saved'.auth = saved.auth
  /\ UNCHANGED <<disk, torn>>

\* The calls of write_secret_chat_file: there is one, and the first is to its file.
LEMMA SecretCallsBegin ==
  ASSUME NEW ch, NEW s \in [Chats -> Nat]
  PROVE  /\ SecretCalls(ch, s) # <<>> /\ Head(SecretCalls(ch, s)).file = "secret"
         /\ Left(SecretCalls(ch, s), 0) = SecretCalls(ch, s)
         /\ 0 \in 0 .. Len(SecretCells(ch, s))
<1>1. PICK calls \in Seq(WriteCalls) : calls = SecretCalls(ch, s)
  BY SecretCallsAre
<1>2. PICK n \in Nat, m \in Nat : n = Len(SecretCells(ch, s)) /\ m = Len(ChatRecords(ch, s))
  <2>1. SecretCells(ch, s) \in Seq(Cell) /\ ChatRecords(ch, s) \in Seq(Cell)
    BY SecretCellsAre
  <2> QED
    BY <2>1
<1>3. n = 3 + m
  BY <1>2, SecretCellsAre
<1>4. Len(calls) = n + 1
  BY <1>1, <1>2, SecretCallsAre
<1>5. calls[1] = [file |-> "secret", pos |-> 1, cell |-> SecretCells(ch, s)[1]]
  <2>1. 1 \in 1 .. Len(SecretCells(ch, s))
    BY <1>2, <1>3
  <2> QED
    BY <1>1, <2>1, SecretCallsAre
<1>6. calls[1].file = "secret"
  BY ONLY <1>5
<1>7. calls # <<>> /\ Head(calls) = calls[1]
  BY <1>1, <1>4
<1>8. 0 \in 0 .. Len(calls)
  BY <1>4
<1>9. Left(calls, 0) = calls
  BY <1>8, LeftIs
<1> QED
  BY <1>1, <1>2, <1>6, <1>7, <1>9

LEMMA SecretBeginsFiles ==
  ASSUME FilesInv, SecretBegins
  PROVE  FilesInv'
<1>1. seq' \in [Chats -> Nat]
  BY DEF SecretBegins, TypeOK
<1>2. /\ todo' # <<>> /\ Head(todo').file = "secret"
      /\ Left(SecretCalls(chat', seq'), 0) = todo'
      /\ 0 \in 0 .. Len(SecretCells(chat', seq'))
  BY <1>1, SecretCallsBegin DEF SecretBegins
<1>3. Begun(disk'.secret, SecretCells(chat', seq'), 0)
  <2>1. disk'.secret \in Seq(Cell)
    BY FilesAre DEF TypeOK, SecretBegins
  <2> QED
    BY <2>1 DEF Begun
<1>4. WritingSecret'
  BY <1>2, <1>3 DEF WritingSecret, SecretBegins
<1>5. ~Finished("secret")'
  BY <1>2 DEF Finished
<1>6. Finished("auth")' => Finished("auth")
  BY DEF Finished, SecretBegins
<1>7. Restores'
  BY <1>5, <1>6 DEF FilesInv, Restores, SecretBegins
<1> QED
  BY <1>4, <1>7 DEF FilesInv, SecretBegins, Writing

LEMMA ContentsType ==
  ASSUME NEW ch, NEW s \in [Chats -> Nat]
  PROVE  SecretContents(ch, s) \in SUBSET (Nat \X Nat)
BY Sizes DEF SecretContents, Open

LEMMA SavingFiles ==
  ASSUME FilesInv, Idle, NEW ch \in [Chats -> {"none", "ok", "deleted"}], chat' = ch, Saving(ch)
  PROVE  FilesInv'
<1>1. SecretContents(ch, seq) \in SUBSET (Nat \X Nat)
  BY ContentsType DEF FilesInv, TypeOK
<1>2. /\ saved' \in [secret : SUBSET (Nat \X Nat), auth : SUBSET Nat]
      /\ saved'.secret = SecretContents(ch, seq) /\ saved'.auth = saved.auth
  BY <1>1 DEF FilesInv, TypeOK, Saving
<1>3. TypeOK'
  BY <1>2 DEF FilesInv, TypeOK, Saving
<1>4. SecretBegins
  BY <1>2, <1>3 DEF SecretBegins, Saving, Idle
<1> QED
  BY <1>4, SecretBeginsFiles

\* Nothing is written yet, and the secret file is what it was.
LEMMA WriteFilesFiles ==
  ASSUME FilesInv, WriteFiles
  PROVE  FilesInv'
<1>1. TypeOK'
  BY DEF FilesInv, TypeOK, WriteFiles, tgl, history
<1>2. WritingBoth'
  BY DEF WritingBoth, WriteFiles, Idle, tgl
<1>3. todo = <<>> /\ UNCHANGED <<disk, saved, torn>>
  BY DEF WriteFiles, Idle, history
<1>4. Finished("secret")' => Finished("secret")
  BY <1>3 DEF Finished
<1>5. Finished("auth")' => Finished("auth")
  BY <1>3 DEF Finished
<1>6. Restores'
  BY <1>3, <1>4, <1>5 DEF FilesInv, Restores
<1> QED
  BY <1>1, <1>2, <1>6 DEF FilesInv, Writing

LEMMA ChatFiles ==
  ASSUME FilesInv, NEW c \in Chats, Accept(c) \/ Terminate(c)
  PROVE  FilesInv'
<1>1. CASE Accept(c)
  <2>1. PICK ch : ch = [chat EXCEPT ![c] = "ok"]
    OBVIOUS
  <2>2. ch \in [Chats -> {"none", "ok", "deleted"}]
    BY <2>1 DEF FilesInv, TypeOK
  <2>3. Idle /\ chat' = ch /\ Saving(ch)
    BY <1>1, <2>1 DEF Accept
  <2> QED
    BY <2>2, <2>3, SavingFiles
<1>2. CASE Terminate(c)
  <2>1. PICK ch : ch = [chat EXCEPT ![c] = "deleted"]
    OBVIOUS
  <2>2. ch \in [Chats -> {"none", "ok", "deleted"}]
    BY <2>1 DEF FilesInv, TypeOK
  <2>3. Idle /\ chat' = ch /\ Saving(ch)
    BY <1>2, <2>1 DEF Terminate
  <2> QED
    BY <2>2, <2>3, SavingFiles
<1> QED
  BY <1>1, <1>2

LEMMA PostFiles ==
  ASSUME FilesInv, NEW c \in Chats, Post(c)
  PROVE  FilesInv'
<1>1. posted' \in Seq(Chats)
  BY AppendProperties DEF FilesInv, TypeOK, Post
<1>2. TypeOK'
  BY <1>1 DEF FilesInv, TypeOK, Post, tgl
<1>3. Writing' = Writing
  BY DEF Writing, WritingAuth, WritingSecret, WritingBoth, Post, tgl
<1>4. Restores' = Restores
  BY DEF Restores, Finished, Post
<1> QED
  BY <1>2, <1>3, <1>4 DEF FilesInv

LEMMA ReceiveFiles ==
  ASSUME FilesInv, Receive
  PROVE  FilesInv'
<1>1. posted[qts'] \in Chats
  BY DEF FilesInv, TypeOK, Receive
<1>2. \A x \in Nat, b \in BOOLEAN : (IF b THEN x + 1 ELSE x) \in Nat
  OBVIOUS
<1>3. seq' \in [Chats -> Nat]
  BY <1>1, <1>2 DEF FilesInv, TypeOK, Receive
<1>4. TypeOK'
  BY <1>3 DEF FilesInv, TypeOK, Receive, history
<1>5. Writing' /\ Restores'
  BY KeptFiles DEF Receive, Idle, history
<1> QED
  BY <1>4, <1>5 DEF FilesInv

LEMMA CloseFiles ==
  ASSUME FilesInv, Close
  PROVE  FilesInv'
<1>1. TypeOK'
  BY DEF FilesInv, TypeOK, Close, tgl, history
<1>2. Writing' /\ Restores'
  BY KeptFiles DEF Close, history
<1> QED
  BY <1>1, <1>2 DEF FilesInv

LEMMA CrashFiles ==
  ASSUME FilesInv, Crash
  PROVE  FilesInv'
<1>1. todo \in Seq(WriteCalls)
  BY LeftFiles DEF FilesInv
<1>2. torn' \in SUBSET Files
  <2>1. todo # <<>> => Head(todo).file \in Files
    <3>1. todo # <<>> => Head(todo) \in WriteCalls
      BY <1>1, HeadTailProperties
    <3> QED
      BY <3>1 DEF WriteCalls
  <2> QED
    BY <2>1 DEF FilesInv, TypeOK, Crash, Current
<1>3. split' \in BOOLEAN
  BY DEF Crash
<1>4. TypeOK'
  BY <1>2, <1>3 DEF FilesInv, TypeOK, Crash, tgl
<1>5. Writing'
  BY DEF Writing, Crash
<1>6. ASSUME NEW f, Finished(f)'
      PROVE  Finished(f)
  BY <1>6 DEF Finished, Crash, Current
<1>7. Finished("secret")' => Finished("secret")
  BY <1>6
<1>8. Finished("auth")' => Finished("auth")
  BY <1>6
<1>9. Restores'
  BY <1>7, <1>8 DEF FilesInv, Restores, Crash
<1> QED
  BY <1>4, <1>5, <1>9 DEF FilesInv

LEMMA WriteCallType ==
  ASSUME TypeOK, todo \in Seq(WriteCalls), WriteCall,
         Written(disk[Head(todo).file], Head(todo)) \in Seq(Cell)
  PROVE  /\ TypeOK'
         /\ disk'[Head(todo).file] = Written(disk[Head(todo).file], Head(todo))
         /\ \A f \in Files : f # Head(todo).file => disk'[f] = disk[f]
         /\ todo' = Tail(todo) /\ torn' \subseteq torn
         /\ Head(todo).file # "state" => saved' = saved
<1>1. Head(todo) \in WriteCalls
  BY HeadTailProperties DEF WriteCall
<1>2. Head(todo).file \in Files
  BY <1>1 DEF WriteCalls
<1>3. disk' = [disk EXCEPT ![Head(todo).file] = Written(disk[Head(todo).file], Head(todo))]
      /\ todo' = Tail(todo) /\ torn' \subseteq torn
  BY DEF WriteCall
<1>4. Head(todo).file # "state" => saved' = saved
  BY DEF WriteCall
<1>5. disk' \in [Files -> Seq(Cell)]
  BY <1>3 DEF TypeOK
<1>6. saved' \in [secret : SUBSET (Nat \X Nat), auth : SUBSET Nat]
  <2>1. SecretContents(chat, seq) \in SUBSET (Nat \X Nat)
    BY ContentsType DEF TypeOK
  <2>2. saved' = saved \/ saved' = [saved EXCEPT !.secret = SecretContents(chat, seq)]
    BY DEF WriteCall
  <2> QED
    BY <2>1, <2>2 DEF TypeOK
<1>7. TypeOK'
  BY <1>3, <1>5, <1>6 DEF TypeOK, WriteCall, tgl
<1> QED
  BY <1>2, <1>3, <1>7, <1>4 DEF TypeOK

LEMMA WriteAuthFiles ==
  ASSUME FilesInv, WritingAuth, WriteCall
  PROVE  FilesInv'
<1>1. PICK i \in 0 .. Len(AuthCells(dcs)) - 1 :
        todo = Left(AuthCalls(dcs), i) /\ Begun(disk.auth, AuthCells(dcs), i)
  BY DEF WritingAuth
<1>2. PICK cells \in Seq(Cell), n \in Nat : cells = AuthCells(dcs) /\ n = Len(cells)
  BY AuthCellsAre
<1>3. PICK calls \in Seq(WriteCalls) : calls = AuthCalls(dcs)
  BY AuthCallsAre
<1>4. Len(calls) = n
  <2>1. Len(AuthCalls(dcs)) = Len(AuthCells(dcs))
    BY AuthCallsAre
  <2> QED
    BY <2>1, <1>2, <1>3
<1>5. i \in 0 .. Len(calls) - 1 /\ i \in 0 .. n - 1 /\ todo = Left(calls, i) /\ Begun(disk.auth, cells, i)
  BY <1>1, <1>2, <1>3, <1>4
<1>6. /\ Head(todo) = calls[i + 1] /\ Tail(todo) = Left(calls, i + 1)
      /\ i + 1 = n => Tail(todo) = <<>>
  BY <1>4, <1>5, LeftStep
<1>7. calls[i + 1] = [file |-> "auth", pos |-> i + 1, cell |-> cells[i + 1]]
  <2>1. i + 1 \in 1 .. Len(AuthCells(dcs))
    BY <1>2, <1>5
  <2>2. AuthCalls(dcs)[i + 1] = [file |-> "auth", pos |-> i + 1, cell |-> AuthCells(dcs)[i + 1]]
    BY <2>1, AuthCallsAre
  <2> QED
    BY <1>2, <1>3, <2>2
<1>8. PICK call : call = Head(todo)
  OBVIOUS
<1>9. call.file = "auth" /\ call.pos = i + 1 /\ call.cell = cells[i + 1]
  <2>1. call = [file |-> "auth", pos |-> i + 1, cell |-> cells[i + 1]]
    BY <1>6, <1>7, <1>8
  <2> QED
    BY ONLY <2>1
<1>10. disk.auth \in Seq(Cell) /\ "auth" \in Files /\ "secret" \in Files
  BY FilesAre DEF FilesInv, TypeOK
<1>11. Begun(Written(disk.auth, call), cells, i + 1) /\ Written(disk.auth, call) \in Seq(Cell)
  <2>1. i \in 0 .. Len(cells) - 1
    BY <1>2, <1>5
  <2> QED
    BY <1>5, <1>9, <1>10, <2>1, BegunStep
<1>12. todo \in Seq(WriteCalls)
  BY LeftFiles DEF FilesInv
<1>13. /\ TypeOK' /\ disk'.auth = Written(disk.auth, call) /\ disk'.secret = disk.secret
       /\ todo' = Tail(todo)
  <2>1. Written(disk[Head(todo).file], Head(todo)) \in Seq(Cell)
    BY <1>8, <1>9, <1>11
  <2>2. /\ TypeOK' /\ todo' = Tail(todo)
        /\ disk'[Head(todo).file] = Written(disk[Head(todo).file], Head(todo))
        /\ \A f \in Files : f # Head(todo).file => disk'[f] = disk[f]
    BY <1>12, <2>1, WriteCallType DEF FilesInv
  <2> QED
    BY <1>8, <1>9, <1>10, <2>2
<1>14. UNCHANGED <<phase, dcs, saved>>
  BY <1>8, <1>9 DEF WriteCall, tgl
<1>15. Finished("secret")' => Finished("secret")
  BY <1>8, <1>9, <1>12, FinishedBefore DEF WriteCall
<1>16. CASE i + 1 # n
  <2>1. i + 1 \in 0 .. n - 1
    BY <1>5, <1>16
  <2>2. todo' = Left(calls, i + 1) /\ Begun(disk'.auth, cells, i + 1)
    BY <1>6, <1>11, <1>13
  <2>3. WritingAuth'
    BY <1>2, <1>3, <1>14, <2>1, <2>2 DEF WritingAuth
  <2>4. todo' # <<>> /\ Head(todo') = calls[(i + 1) + 1] /\ todo' \in Seq(WriteCalls)
    <3>1. i + 1 \in 0 .. Len(calls) - 1 /\ i + 1 \in 0 .. Len(calls)
      BY <1>4, <2>1
    <3> QED
      BY <2>2, <3>1, LeftStep, LeftIs
  <2>5. calls[(i + 1) + 1].file = "auth"
    <3>1. (i + 1) + 1 \in 1 .. Len(AuthCells(dcs))
      BY <1>2, <2>1
    <3>2. AuthCalls(dcs)[(i + 1) + 1]
            = [file |-> "auth", pos |-> (i + 1) + 1, cell |-> AuthCells(dcs)[(i + 1) + 1]]
      BY <3>1, AuthCallsAre
    <3>3. AuthCalls(dcs)[(i + 1) + 1].file = "auth"
      BY ONLY <3>2
    <3> QED
      BY <1>3, <3>3
  <2>6. ~Finished("auth")'
    BY <2>4, <2>5 DEF Finished
  <2>7. Restores'
    BY <1>13, <1>14, <1>15, <2>6 DEF FilesInv, Restores
  <2> QED
    BY <1>13, <2>3, <2>7 DEF FilesInv, Writing
<1>17. CASE i + 1 = n
  <2>1. todo' = <<>>
    BY <1>6, <1>13, <1>17
  <2>2. Stands(disk'.auth, 0, cells) /\ disk'.auth \in Seq(Cell)
    <3>1. Begun(disk'.auth, cells, Len(cells)) /\ disk'.auth \in Seq(Cell)
      BY <1>2, <1>11, <1>13, <1>17
    <3> QED
      BY <3>1, BegunStands
  <2>3. dcs \in SUBSET Dcs /\ saved'.auth = dcs
    BY <1>14 DEF WritingAuth
  <2>4. ReadAuth(disk'.auth) = [outcome |-> "ok", contents |-> saved'.auth]
    BY <1>2, <2>2, <2>3, AuthReads
  <2>5. Restores'
    BY <1>13, <1>14, <1>15, <2>4 DEF FilesInv, Restores
  <2> QED
    BY <1>13, <2>1, <2>5 DEF FilesInv, Writing
<1> QED
  BY <1>16, <1>17

LEMMA WriteSecretFiles ==
  ASSUME FilesInv, WritingSecret, WriteCall
  PROVE  FilesInv'
<1>1. PICK i \in 0 .. Len(SecretCells(chat, seq)) :
        todo = Left(SecretCalls(chat, seq), i) /\ Begun(disk.secret, SecretCells(chat, seq), i)
  BY DEF WritingSecret
<1>2. seq \in [Chats -> Nat]
  BY DEF FilesInv, TypeOK
<1>3. PICK cells \in Seq(Cell), n \in Nat : cells = SecretCells(chat, seq) /\ n = Len(cells)
  BY <1>2, SecretCellsAre
<1>4. PICK calls \in Seq(WriteCalls) : calls = SecretCalls(chat, seq)
  BY <1>2, SecretCallsAre
<1>5. /\ Len(calls) = n + 1 /\ calls[n + 1] = Correction(chat)
      /\ \A k \in 1 .. n : calls[k] = [file |-> "secret", pos |-> k, cell |-> cells[k]]
  <2>1. /\ Len(SecretCalls(chat, seq)) = Len(SecretCells(chat, seq)) + 1
        /\ \A k \in 1 .. Len(SecretCells(chat, seq)) :
             SecretCalls(chat, seq)[k]
               = [file |-> "secret", pos |-> k, cell |-> SecretCells(chat, seq)[k]]
        /\ SecretCalls(chat, seq)[Len(SecretCells(chat, seq)) + 1] = Correction(chat)
    BY <1>2, SecretCallsAre
  <2> QED
    BY <2>1, <1>3, <1>4
<1>6. calls[n + 1].file = "secret" /\ n + 1 \in 1 .. n + 1
  BY <1>5 DEF Correction
<1>7. i \in 0 .. Len(calls) - 1 /\ i \in 0 .. n /\ todo = Left(calls, i) /\ Begun(disk.secret, cells, i)
  BY <1>1, <1>3, <1>4, <1>5
<1>8. /\ todo # <<>> /\ Head(todo) = calls[i + 1] /\ Tail(todo) = Left(calls, i + 1)
      /\ i + 1 = n + 1 => Tail(todo) = <<>>
  BY <1>5, <1>7, LeftStep
<1>9. PICK call : call = Head(todo)
  OBVIOUS
<1>10. disk.secret \in Seq(Cell) /\ "auth" \in Files /\ "secret" \in Files
  BY FilesAre DEF FilesInv, TypeOK
<1>11. todo \in Seq(WriteCalls)
  BY LeftFiles DEF FilesInv
<1>12. call.file = "secret"
  <2>1. \A k \in DOMAIN todo : todo[k].file = "secret"
    BY LeftFiles DEF FilesInv
  <2>2. 1 \in DOMAIN todo /\ Head(todo) = todo[1]
    BY <1>8, <1>11
  <2> QED
    BY <1>9, <2>1, <2>2
<1>13. ASSUME Written(disk.secret, call) \in Seq(Cell)
       PROVE  /\ TypeOK' /\ disk'.secret = Written(disk.secret, call) /\ disk'.auth = disk.auth
              /\ todo' = Tail(todo)
  <2>1. Written(disk[Head(todo).file], Head(todo)) \in Seq(Cell)
    BY <1>9, <1>12, <1>13
  <2>2. /\ TypeOK' /\ todo' = Tail(todo)
        /\ disk'[Head(todo).file] = Written(disk[Head(todo).file], Head(todo))
        /\ \A f \in Files : f # Head(todo).file => disk'[f] = disk[f]
    BY <1>11, <2>1, WriteCallType DEF FilesInv
  <2> QED
    BY <1>9, <1>10, <1>12, <2>2
<1>14. UNCHANGED <<phase, chat, seq, saved>>
  BY <1>9, <1>12 DEF WriteCall, tgl
<1>15. Finished("auth")' => Finished("auth")
  BY <1>9, <1>11, <1>12, FinishedBefore DEF WriteCall
<1>16. CASE i # n
  <2>1. i + 1 \in 1 .. n /\ i + 1 \in 0 .. n /\ i \in 0 .. Len(cells) - 1
    BY <1>3, <1>7, <1>16
  <2>2. call = [file |-> "secret", pos |-> i + 1, cell |-> cells[i + 1]]
    BY <1>5, <1>8, <1>9, <2>1
  <2>3. call.pos = i + 1 /\ call.cell = cells[i + 1]
    BY ONLY <2>2
  <2>4. Begun(Written(disk.secret, call), cells, i + 1) /\ Written(disk.secret, call) \in Seq(Cell)
    BY <1>7, <1>10, <2>1, <2>3, BegunStep
  <2>5. todo' = Left(calls, i + 1) /\ Begun(disk'.secret, cells, i + 1) /\ TypeOK'
    BY <1>8, <1>13, <2>4
  <2>6. WritingSecret'
    BY <1>3, <1>4, <1>14, <2>1, <2>5 DEF WritingSecret
  <2>7. ~Finished("secret")'
    <3>1. PICK m \in 1 .. n : m = i + 1
      BY <2>1
    <3>2. m \in 0 .. Len(calls) - 1
      BY <1>5
    <3>3. todo' # <<>> /\ Head(todo') = calls[m + 1]
      BY <2>5, <3>1, <3>2, LeftStep
    <3>4. calls[m + 1].file = "secret"
      <4>1. CASE m = n
        BY <1>6, <4>1
      <4>2. CASE m # n
        <5>1. m + 1 \in 1 .. n
          BY <4>2
        <5>2. calls[m + 1] = [file |-> "secret", pos |-> m + 1, cell |-> cells[m + 1]]
          BY <1>5, <5>1
        <5> QED
          BY ONLY <5>2
      <4> QED
        BY <4>1, <4>2
    <3> QED
      BY <3>3, <3>4 DEF Finished
  <2>8. Restores'
    BY <1>13, <1>14, <1>15, <2>4, <2>7 DEF FilesInv, Restores
  <2> QED
    BY <2>5, <2>6, <2>8 DEF FilesInv, Writing
<1>17. CASE i = n
  <2>1. call.pos = 3 /\ call.cell = C("number", Cardinality(Open(chat)), 0)
    BY <1>5, <1>8, <1>9, <1>17 DEF Correction
  <2>2. Begun(disk.secret, SecretCells(chat, seq), Len(SecretCells(chat, seq)))
    BY <1>3, <1>7, <1>17
  <2>3. SecretDone(Written(disk.secret, call), chat, seq) /\ Written(disk.secret, call) \in Seq(Cell)
    BY <1>2, <1>10, <2>1, <2>2, CorrectionCompletes
  <2>4. todo' = <<>> /\ TypeOK' /\ disk'.secret = Written(disk.secret, call)
    BY <1>8, <1>13, <1>17, <2>3
  <2>5. ReadSecret(disk'.secret) = [outcome |-> "ok", contents |-> SecretContents(chat, seq)]
    BY <1>2, <2>3, <2>4, SecretReads
  <2>6. saved'.secret = SecretContents(chat, seq)
    BY <1>14 DEF WritingSecret
  <2>7. Restores'
    BY <1>13, <1>14, <1>15, <2>3, <2>5, <2>6 DEF FilesInv, Restores
  <2> QED
    BY <2>4, <2>7 DEF FilesInv, Writing
<1> QED
  BY <1>16, <1>17

\* The call that writes the whole state file.
LEMMA StateCallIs ==
  ASSUME TypeOK, WritingBoth
  PROVE  /\ todo # <<>> /\ Head(todo) = [file |-> "state", pos |-> 1, cell |-> C("number", qts, 0)]
         /\ todo \in Seq(WriteCalls) /\ Tail(todo) = SecretCalls(chat, seq)
<1>1. qts \in Nat /\ seq \in [Chats -> Nat]
  BY DEF TypeOK
<1>2. PICK a \in Seq(WriteCalls) :
        a = StateCalls(qts) /\ Len(a) = 1
          /\ a[1] = [file |-> "state", pos |-> 1, cell |-> C("number", qts, 0)]
  BY <1>1, StateCallsAre
<1>3. PICK b \in Seq(WriteCalls) : b = SecretCalls(chat, seq)
  BY <1>1, SecretCallsAre
<1>4. PICK n \in Nat : n = Len(b)
  OBVIOUS
<1>5. todo \in Seq(WriteCalls) /\ Joins(todo, a, b)
  BY <1>2, <1>3, Concat DEF WritingBoth
<1>6. Len(todo) = 1 + n /\ todo[1] = a[1] /\ \A k \in 1 .. n : todo[1 + k] = b[k]
  <2>1. 1 \in 1 .. 1 /\ 1 \in 1 .. Len(a)
    BY <1>2
  <2>2. Len(todo) = Len(a) + Len(b)
    BY <1>5 DEF Joins
  <2>3. todo[1] = a[1]
    BY <1>5, <2>1 DEF Joins
  <2>4. \A k \in 1 .. Len(b) : todo[Len(a) + k] = b[k]
    BY <1>5 DEF Joins
  <2> QED
    BY <1>2, <1>4, <2>2, <2>3, <2>4
<1>7. todo # <<>> /\ Head(todo) = todo[1]
  BY <1>5, <1>6
<1>8. PICK t : t = Tail(todo)
  OBVIOUS
<1>9. t \in Seq(WriteCalls) /\ Len(t) = n /\ \A k \in 1 .. n : t[k] = todo[k + 1]
  <2>1. /\ t \in Seq(WriteCalls) /\ Len(t) = Len(todo) - 1
        /\ \A k \in 1 .. Len(t) : t[k] = todo[k + 1]
    BY <1>5, <1>7, <1>8, HeadTailProperties
  <2>2. Len(t) = n
    BY <1>6, <2>1
  <2> QED
    BY <2>1, <2>2
<1>10. \A k \in 1 .. n : t[k] = b[k]
  <2>1. \A k \in 1 .. n : k + 1 = 1 + k
    OBVIOUS
  <2> QED
    BY <1>6, <1>9, <2>1
<1>11. t = b
  BY <1>4, <1>9, <1>10, SeqEqual
<1> QED
  BY <1>2, <1>3, <1>5, <1>6, <1>7, <1>8, <1>11

LEMMA WriteStateFiles ==
  ASSUME FilesInv, WritingBoth, WriteCall
  PROVE  FilesInv' /\ FileNumber' = qts /\ saved'.secret = SecretContents(chat, seq)
<1>1. /\ todo # <<>> /\ Head(todo) = [file |-> "state", pos |-> 1, cell |-> C("number", qts, 0)]
      /\ todo \in Seq(WriteCalls) /\ Tail(todo) = SecretCalls(chat, seq)
  BY StateCallIs DEF FilesInv
<1>2. PICK call : call = Head(todo)
  OBVIOUS
<1>3. call.file = "state" /\ call.pos = 1 /\ call.cell = C("number", qts, 0)
  <2>1. call = [file |-> "state", pos |-> 1, cell |-> C("number", qts, 0)]
    BY <1>1, <1>2
  <2> QED
    BY ONLY <2>1
<1>4. disk.state \in Seq(Cell) /\ C("number", qts, 0) \in Cell /\ seq \in [Chats -> Nat]
  BY FilesAre, CellType DEF FilesInv, TypeOK
<1>5. call.pos \in 1 .. Len(disk.state) + 1 /\ call.cell \in Cell
  BY <1>3, <1>4
<1>6. PICK w : w = Written(disk.state, call)
  OBVIOUS
<1>7. w \in Seq(Cell) /\ 1 <= Len(w) /\ w[1] = C("number", qts, 0)
  <2>1. w \in Seq(Cell) /\ call.pos <= Len(w) /\ w[call.pos] = call.cell
    BY <1>4, <1>5, <1>6, WrittenIs
  <2> QED
    BY <1>3, <2>1
<1>8. /\ TypeOK' /\ disk'.state = w /\ todo' = SecretCalls(chat, seq)
      /\ disk'.secret = disk.secret /\ disk'.auth = disk.auth
  <2>1. Written(disk[Head(todo).file], Head(todo)) \in Seq(Cell)
    BY <1>2, <1>3, <1>6, <1>7
  <2>2. /\ TypeOK' /\ todo' = Tail(todo)
        /\ disk'[Head(todo).file] = Written(disk[Head(todo).file], Head(todo))
        /\ \A f \in Files : f # Head(todo).file => disk'[f] = disk[f]
    BY <1>1, <2>1, WriteCallType DEF FilesInv
  <2> QED
    BY <1>1, <1>2, <1>3, <1>6, <2>2, FilesAre
<1>9. FileNumber' = qts
  <2>1. 1 \in 1 .. Len(w)
    BY <1>7
  <2>2. At(w, 1) = w[1]
    BY <1>7, <2>1, AtType
  <2>3. At(w, 1).val = qts
    BY <1>7, <2>2 DEF C
  <2> QED
    BY <1>8, <2>3 DEF FileNumber
<1>10. /\ UNCHANGED <<phase, chat, seq>>
       /\ saved' = [saved EXCEPT !.secret = SecretContents(chat, seq)]
  BY <1>2, <1>3 DEF WriteCall, tgl
<1>11. saved'.secret = SecretContents(chat, seq) /\ saved'.auth = saved.auth
  BY <1>10 DEF FilesInv, TypeOK
<1>12. /\ todo' # <<>> /\ Head(todo').file = "secret"
       /\ Left(SecretCalls(chat, seq), 0) = todo'
       /\ 0 \in 0 .. Len(SecretCells(chat, seq))
  BY <1>4, <1>8, SecretCallsBegin
<1>13. Begun(disk'.secret, SecretCells(chat, seq), 0)
  <2>1. disk'.secret \in Seq(Cell)
    BY <1>8, FilesAre DEF TypeOK
  <2> QED
    BY <2>1 DEF Begun
<1>14. WritingSecret'
  BY <1>10, <1>11, <1>12, <1>13 DEF WritingSecret, WritingBoth
<1>15. ~Finished("secret")'
  BY <1>12 DEF Finished
<1>16. Finished("auth")' => Finished("auth")
  BY <1>1, <1>2, <1>3, FinishedBefore
<1>17. Restores'
  BY <1>8, <1>11, <1>15, <1>16 DEF FilesInv, Restores
<1> QED
  BY <1>8, <1>9, <1>11, <1>14, <1>17 DEF FilesInv, Writing

LEMMA StepFiles ==
  ASSUME FilesInv, [Next]_vars
  PROVE  FilesInv'
<1>1. CASE WriteCall
  <2>1. WritingAuth \/ WritingSecret \/ WritingBoth
    BY <1>1 DEF FilesInv, Writing, WriteCall
  <2> QED
    BY <1>1, <2>1, WriteAuthFiles, WriteSecretFiles, WriteStateFiles
<1>2. CASE UNCHANGED vars
  BY <1>2 DEF vars, tgl, history, FilesInv, TypeOK, Writing, WritingAuth, WritingSecret, WritingBoth,
              Restores, Finished
<1> QED
  BY <1>1, <1>2, LoginFiles, LoggedInFiles, SecretsReadFiles, WriteFilesFiles, ChatFiles, PostFiles,
     ReceiveFiles, CloseFiles, CrashFiles DEF Next

LEMMA InitFiles ==
  ASSUME Init
  PROVE  FilesInv
<1>1. TypeOK
  <2>1. \A S : <<>> \in Seq(S)
    OBVIOUS
  <2>2. disk \in [Files -> Seq(Cell)] /\ posted \in Seq(Chats)
    BY <2>1 DEF Init
  <2>3. saved \in [secret : SUBSET (Nat \X Nat), auth : SUBSET Nat]
    BY DEF Init
  <2>4. torn \in SUBSET Files /\ split \in BOOLEAN /\ write_timer \in BOOLEAN
    BY DEF Init
  <2>5. chat \in [Chats -> {"none", "ok", "deleted"}] /\ seq \in [Chats -> Nat]
    BY DEF Init
  <2>6. qts \in Nat /\ dcs \in SUBSET Nat /\ phase = "down"
    BY DEF Init
  <2> QED
    BY <2>2, <2>3, <2>4, <2>5, <2>6 DEF TypeOK
<1>2. disk.secret = <<>> /\ disk.auth = <<>>
  BY FilesAre DEF Init
<1>3. ReadSecret(<<>>) = [outcome |-> "ok", contents |-> {}]
  BY DEF ReadSecret
<1>4. ReadAuth(<<>>) = [outcome |-> "ok", contents |-> {}]
  BY DEF ReadAuth
<1>5. saved.secret = {} /\ saved.auth = {}
  BY DEF Init
<1>6. Writing
  BY DEF Init, Writing
<1> QED
  BY <1>1, <1>2, <1>3, <1>4, <1>5, <1>6 DEF FilesInv, Restores

LEMMA FilesInvariant == Spec => []FilesInv
<1>1. Init => FilesInv
  BY InitFiles
<1>2. FilesInv /\ [Next]_vars => FilesInv'
  BY StepFiles
<1> QED
  BY <1>1, <1>2, PTL DEF Spec

\* Every variable has its type: in whatever state a crash left the files, what is
\* read from them are numbers (read_secret_chat_file, read_auth_file, read_state_file).
THEOREM TypeCorrect == Spec => []TypeOK
<1>1. FilesInv => TypeOK
  BY DEF FilesInv
<1> QED
  BY <1>1, FilesInvariant, PTL

\* A file of which all calls were made reads back as what its writer was to save, for
\* every number of chats, all lengths of their names and whatever it was written over:
\* write_secret_chat_file and write_auth_file against read_secret_chat_file and
\* read_auth_file (telegram-base.c).
THEOREM FilesReadBack == Spec => []ReadsWhatWasSaved
<1>1. FilesInv => ReadsWhatWasSaved
  BY DEF FilesInv, Restores, Finished, ReadsWhatWasSaved
<1> QED
  BY <1>1, FilesInvariant, PTL

------------------------------------------------------------------------------
(* No chat misses a message *)

LEMMA CountsAre ==
  ASSUME NEW p, NEW q \in Nat, NEW c
  PROVE  /\ IsFiniteSet({k \in 1 .. q : p[k] = c}) /\ CountIn(p, q, c) \in Nat
<1>1. IsFiniteSet(1 .. q)
  BY FS_Interval
<1>2. {k \in 1 .. q : p[k] = c} \subseteq 1 .. q
  OBVIOUS
<1>3. IsFiniteSet({k \in 1 .. q : p[k] = c})
  BY <1>1, <1>2, FS_Subset
<1> QED
  BY <1>3, FS_CardinalityType DEF CountIn

LEMMA CountsGrow ==
  ASSUME NEW p, NEW q \in Nat, NEW r \in Nat, NEW c, q <= r
  PROVE  CountIn(p, q, c) <= CountIn(p, r, c)
<1>1. {k \in 1 .. q : p[k] = c} \subseteq {k \in 1 .. r : p[k] = c}
  OBVIOUS
<1>2. IsFiniteSet({k \in 1 .. r : p[k] = c})
  BY CountsAre
<1> QED
  BY <1>1, <1>2, FS_Subset DEF CountIn

\* One message more counts for its own chat only.
LEMMA CountsNext ==
  ASSUME NEW p, NEW q \in Nat, NEW c
  PROVE  /\ CountIn(p, q + 1, c) <= CountIn(p, q, c) + 1
         /\ p[q + 1] # c => CountIn(p, q + 1, c) = CountIn(p, q, c)
<1> DEFINE S(n) == {k \in 1 .. n : p[k] = c}
<1>1. IsFiniteSet(S(q)) /\ Cardinality(S(q)) \in Nat
  BY CountsAre DEF CountIn
<1>2. CASE p[q + 1] # c
  <2>1. S(q + 1) = S(q)
    BY <1>2
  <2> QED
    BY <1>1, <1>2, <2>1 DEF CountIn
<1>3. CASE p[q + 1] = c
  <2>1. S(q + 1) = S(q) \cup {q + 1} /\ q + 1 \notin S(q)
    BY <1>3
  <2>2. Cardinality(S(q + 1)) = Cardinality(S(q)) + 1
    BY <1>1, <2>1, FS_AddElement
  <2> QED
    BY <1>1, <1>3, <2>2 DEF CountIn
<1> QED
  BY <1>2, <1>3

LEMMA CountsNone ==
  ASSUME NEW p, NEW q \in Nat, NEW c, \A k \in 1 .. q : p[k] # c
  PROVE  CountIn(p, q, c) = 0
<1>1. {k \in 1 .. q : p[k] = c} = {}
  OBVIOUS
<1> QED
  BY <1>1, FS_EmptySet DEF CountIn

LEMMA CountsKept ==
  ASSUME NEW p, NEW r, NEW q \in Nat, NEW c, \A k \in 1 .. q : p[k] = r[k]
  PROVE  CountIn(p, q, c) = CountIn(r, q, c)
<1>1. {k \in 1 .. q : p[k] = c} = {k \in 1 .. q : r[k] = c}
  OBVIOUS
<1> QED
  BY <1>1 DEF CountIn

\* Every open chat counts the messages that were received, up to the q-th.
Counted(ch, s, q) == \A c \in Open(ch) : Count(q, c) <= s[c]

LEMMA NoHoleIs == NoHole <=> (phase = "in" /\ ~split => Counted(chat, seq, qts))
BY DEF NoHole, Counted, Count, CountIn

LEMMA FileNumberType ==
  ASSUME TypeOK
  PROVE  FileNumber \in Nat /\ qts \in Nat /\ Len(posted) \in Nat
<1>1. disk.state \in Seq(Cell)
  BY FilesAre DEF TypeOK
<1> QED
  BY <1>1, AtType DEF FileNumber, TypeOK

\* What is saved counts the messages up to the number in the state file.
LEMMA SavedCounts ==
  ASSUME NEW ch \in [Chats -> {"none", "ok", "deleted"}], NEW s \in [Chats -> Nat],
         NEW q \in Nat, NEW n \in Nat, n <= q, Counted(ch, s, q)
  PROVE  \A e \in SecretContents(ch, s) : Count(n, e[1]) <= e[2]
<1>1. ASSUME NEW e \in SecretContents(ch, s)
      PROVE  Count(n, e[1]) <= e[2]
  <2>1. PICK c \in Open(ch) : e = <<c, s[c]>>
    BY <1>1 DEF SecretContents
  <2>2. e[1] = c /\ e[2] = s[c]
    BY <2>1
  <2>3. Count(n, c) <= Count(q, c) /\ Count(n, c) \in Nat /\ Count(q, c) \in Nat
    BY CountsAre, CountsGrow DEF Count
  <2>4. Count(q, c) <= s[c] /\ s[c] \in Nat
    BY <2>1 DEF Counted, Open
  <2>5. Count(n, c) <= s[c]
    BY <2>3, <2>4
  <2> QED
    BY <2>2, <2>5
<1> QED
  BY <1>1

LEMMA InitHole ==
  ASSUME Init
  PROVE  HoleInv
<1>1. disk.state = <<>>
  BY FilesAre DEF Init
<1>2. At(<<>>, 1).val = 0
  BY DEF At, C
<1>3. FileNumber = 0 /\ qts = 0 /\ Len(posted) = 0
  BY <1>1, <1>2 DEF FileNumber, Init
<1>4. StateBehind
  BY <1>3 DEF StateBehind, Init
<1>5. StateFirst /\ NoHole /\ "secret" \notin torn
  BY DEF StateFirst, NoHole, Init
<1> QED
  BY <1>4, <1>5 DEF HoleInv

LEMMA LoginHole ==
  ASSUME FilesInv, HoleInv, Login
  PROVE  HoleInv'
<1>1. disk.auth \in Seq(Cell)
  BY FilesAre DEF FilesInv, TypeOK
<1>2. phase' # "in"
  BY <1>1, ReadAuthType DEF Login, After
<1>3. FileNumber' = FileNumber /\ qts' = FileNumber /\ FileNumber \in Nat
  BY FileNumberType DEF FileNumber, Login, FilesInv
<1>4. StateBehind'
  BY <1>3 DEF StateBehind, HoleInv, Login, history
<1>5. NoHole'
  BY <1>2 DEF NoHole
<1>6. StateFirst' = StateFirst
  BY <1>3 DEF StateFirst, Count, Login, history
<1> QED
  BY <1>4, <1>5, <1>6 DEF HoleInv, Login, history

LEMMA LoggedInHole ==
  ASSUME FilesInv, HoleInv, LoggedIn
  PROVE  HoleInv'
<1>1. saved'.secret = saved.secret
  BY DEF LoggedIn, FilesInv, TypeOK
<1>2. FileNumber' = FileNumber
  BY DEF FileNumber, LoggedIn
<1>3. StateBehind'
  BY <1>2 DEF StateBehind, HoleInv, LoggedIn
<1>4. StateFirst' = StateFirst
  BY <1>1, <1>2 DEF StateFirst, Count, LoggedIn
<1>5. NoHole'
  BY DEF NoHole, LoggedIn
<1> QED
  BY <1>3, <1>4, <1>5 DEF HoleInv, LoggedIn

LEMMA SecretsReadHole ==
  ASSUME FilesInv, HoleInv, SecretsRead
  PROVE  HoleInv'
<1>1. disk.secret \in Seq(Cell)
  BY FilesAre DEF FilesInv, TypeOK
<1>2. phase' \in {"in", "aborted", "garbled"}
  BY <1>1, ReadSecretType DEF SecretsRead, After
<1>3. FileNumber' = FileNumber /\ FileNumber = qts /\ FileNumber \in Nat
  BY FileNumberType DEF FileNumber, SecretsRead, StateBehind, HoleInv, FilesInv
<1>4. StateBehind'
  BY <1>2, <1>3 DEF StateBehind, HoleInv, SecretsRead, history
<1>5. StateFirst' = StateFirst
  BY <1>3 DEF StateFirst, Count, SecretsRead, history
<1>6. ASSUME ~split, NEW c \in Open(chat')
      PROVE  Count(qts, c) <= seq'[c]
  <2> DEFINE Saved(d) == {e \in ReadSecret(disk.secret).contents : e[1] = d}
  <2>1. Finished("secret")
    BY <1>6 DEF HoleInv, Finished, SecretsRead
  <2>2. ReadSecret(disk.secret) = [outcome |-> "ok", contents |-> saved.secret]
    BY <2>1 DEF FilesInv, Restores
  <2>3. ReadSecret(disk.secret).contents = saved.secret
    BY ONLY <2>2
  <2>4. c \in Chats /\ Saved(c) # {}
    BY <1>6 DEF Open, SecretsRead
  <2>5. PICK x : x = CHOOSE e \in Saved(c) : TRUE
    OBVIOUS
  <2>6. x \in Saved(c) /\ seq'[c] = x[2]
    BY <2>4, <2>5 DEF SecretsRead
  <2>7. x \in saved.secret /\ x[1] = c
    BY <2>3, <2>6
  <2>8. Count(FileNumber, x[1]) <= x[2]
    BY <1>6, <2>7 DEF HoleInv, StateFirst
  <2> QED
    BY <1>3, <2>6, <2>7, <2>8
<1>7. ~split => NoHole'
  <2>1. qts' = qts /\ posted' = posted /\ split' = split
    BY DEF SecretsRead, history
  <2>2. ~split => \A c \in Open(chat') : Count(qts, c) <= seq'[c]
    BY <1>6
  <2> QED
    BY <2>1, <2>2 DEF NoHole, Count, CountIn
<1> QED
  BY <1>4, <1>5, <1>7 DEF HoleInv, SecretsRead, history

\* A handler begins to write the file of the secret chats: what it is to save
\* counts everything that was received.
LEMMA SaveHole ==
  ASSUME FilesInv, HoleInv, phase = "in", NEW ch \in [Chats -> {"none", "ok", "deleted"}],
         chat' = ch, saved'.secret = SecretContents(ch, seq),
         UNCHANGED <<phase, seq, qts, disk, posted, torn, split>>,
         ~split => Counted(ch, seq, qts)
  PROVE  HoleInv'
<1>1. FileNumber' = FileNumber /\ FileNumber \in Nat /\ qts \in Nat /\ FileNumber <= qts
  BY FileNumberType DEF FileNumber, HoleInv, StateBehind, FilesInv
<1>2. StateBehind'
  BY <1>1 DEF StateBehind, HoleInv
<1>3. seq \in [Chats -> Nat]
  BY DEF FilesInv, TypeOK
<1>4. ASSUME ~split
      PROVE  StateFirst' /\ NoHole'
  <2>1. \A e \in SecretContents(ch, seq) : Count(FileNumber, e[1]) <= e[2]
    BY <1>1, <1>3, <1>4, SavedCounts
  <2>2. StateFirst'
    BY <1>1, <2>1 DEF StateFirst, Count
  <2>3. NoHole'
    BY <1>4 DEF NoHole, Counted, Count, CountIn
  <2> QED
    BY <2>2, <2>3
<1> QED
  BY <1>2, <1>4 DEF HoleInv

LEMMA WriteFilesHole ==
  ASSUME FilesInv, HoleInv, WriteFiles
  PROVE  HoleInv'
BY DEF WriteFiles, tgl, history, HoleInv, StateBehind, StateFirst, NoHole, FileNumber, Count

LEMMA AcceptHole ==
  ASSUME FilesInv, HoleInv, NEW c \in Chats, Accept(c)
  PROVE  HoleInv'
<1>1. PICK ch : ch = [chat EXCEPT ![c] = "ok"]
  OBVIOUS
<1>2. ch \in [Chats -> {"none", "ok", "deleted"}] /\ \A d \in Chats : d # c => ch[d] = chat[d]
  BY <1>1 DEF FilesInv, TypeOK
<1>3. chat' = ch /\ phase = "in" /\ Saving(ch)
  BY <1>1 DEF Accept, Idle
<1>4. saved'.secret = SecretContents(ch, seq)
  BY <1>3 DEF FilesInv, TypeOK, Saving
<1>5. seq \in [Chats -> Nat] /\ qts \in Nat /\ qts <= Len(posted) /\ posted \in Seq(Chats)
  BY DEF FilesInv, TypeOK, HoleInv, StateBehind
<1>6. Count(qts, c) = 0
  <2>1. \A k \in 1 .. qts : posted[k] # c
    BY <1>5 DEF Accept
  <2> QED
    BY <1>5, <2>1, CountsNone DEF Count
<1>7. ASSUME ~split, NEW d \in Open(ch)
      PROVE  Count(qts, d) <= seq[d]
  <2>1. CASE d = c
    BY <1>5, <1>6, <2>1
  <2>2. CASE d # c
    <3>1. d \in Open(chat)
      BY <1>2, <1>7, <2>2 DEF Open
    <3>2. Counted(chat, seq, qts)
      BY <1>3, <1>7, NoHoleIs DEF HoleInv
    <3> QED
      BY <3>1, <3>2 DEF Counted
  <2> QED
    BY <2>1, <2>2
<1>8. ~split => Counted(ch, seq, qts)
  BY <1>7 DEF Counted
<1>9. UNCHANGED <<phase, seq, qts, disk, posted, torn, split>>
  BY <1>3 DEF Saving
<1> QED
  BY <1>2, <1>3, <1>4, <1>8, <1>9, SaveHole

LEMMA TerminateHole ==
  ASSUME FilesInv, HoleInv, NEW c \in Chats, Terminate(c)
  PROVE  HoleInv'
<1>1. PICK ch : ch = [chat EXCEPT ![c] = "deleted"]
  OBVIOUS
<1>2. ch \in [Chats -> {"none", "ok", "deleted"}] /\ Open(ch) \subseteq Open(chat)
  BY <1>1 DEF FilesInv, TypeOK, Open
<1>3. chat' = ch /\ phase = "in" /\ Saving(ch)
  BY <1>1 DEF Terminate, Idle
<1>4. saved'.secret = SecretContents(ch, seq)
  BY <1>3 DEF FilesInv, TypeOK, Saving
<1>5. ~split => Counted(ch, seq, qts)
  <2>1. ~split => Counted(chat, seq, qts)
    BY <1>3, NoHoleIs DEF HoleInv
  <2> QED
    BY <1>2, <2>1 DEF Counted
<1>6. UNCHANGED <<phase, seq, qts, disk, posted, torn, split>>
  BY <1>3 DEF Saving
<1> QED
  BY <1>2, <1>3, <1>4, <1>5, <1>6, SaveHole

\* What was posted already counts as before.
LEMMA PostHole ==
  ASSUME FilesInv, HoleInv, NEW c \in Chats, Post(c)
  PROVE  HoleInv'
<1>1. posted \in Seq(Chats) /\ posted' = Append(posted, c)
  BY DEF FilesInv, TypeOK, Post
<1>2. FileNumber' = FileNumber /\ FileNumber \in Nat /\ qts' = qts /\ qts \in Nat
      /\ FileNumber <= Len(posted) /\ qts <= Len(posted)
  BY FileNumberType DEF FileNumber, HoleInv, StateBehind, FilesInv, Post, tgl
<1>3. PICK n \in Nat : n = Len(posted)
  BY <1>1
<1>4. Len(posted') = n + 1 /\ \A k \in 1 .. n : posted'[k] = posted[k]
  BY <1>1, <1>3, AppendProperties
<1>5. StateBehind'
  BY <1>2, <1>3, <1>4 DEF StateBehind, HoleInv, Post
<1>6. ASSUME NEW q \in Nat, q <= n, NEW d
      PROVE  CountIn(posted', q, d) = CountIn(posted, q, d)
  <2>1. \A k \in 1 .. q : posted'[k] = posted[k]
    BY <1>4, <1>6
  <2> QED
    BY <2>1, CountsKept
<1>7. StateFirst' = StateFirst
  BY <1>2, <1>3, <1>6 DEF StateFirst, Count, Post
<1>8. NoHole => NoHole'
  <2>1. \A d : CountIn(posted', qts, d) = CountIn(posted, qts, d)
    BY <1>2, <1>3, <1>6
  <2> QED
    BY <2>1 DEF NoHole, CountIn, Post, tgl
<1> QED
  BY <1>5, <1>7, <1>8 DEF HoleInv, Post

\* A message moves the number of what was received, and the one of its chat if it
\* is the next one there; that it is not further ahead is NoHole itself.
LEMMA ReceiveHole ==
  ASSUME FilesInv, HoleInv, Receive
  PROVE  HoleInv'
<1>1. /\ posted \in Seq(Chats) /\ seq \in [Chats -> Nat] /\ phase = "in" /\ phase' = "in"
      /\ qts' = qts + 1 /\ chat' = chat /\ posted' = posted /\ saved' = saved
      /\ torn' = torn /\ split' = split
  BY DEF FilesInv, TypeOK, Receive, Idle, history
<1>2. FileNumber' = FileNumber /\ FileNumber \in Nat /\ qts \in Nat /\ FileNumber <= qts
      /\ FileNumber <= Len(posted) /\ qts < Len(posted) /\ Len(posted) \in Nat
  BY FileNumberType DEF FileNumber, HoleInv, StateBehind, FilesInv, Receive, Idle
<1>3. StateBehind'
  BY <1>1, <1>2 DEF StateBehind
<1>4. StateFirst' = StateFirst
  BY <1>1, <1>2 DEF StateFirst, Count
<1>5. PICK d \in Chats : d = posted[qts + 1]
  BY <1>1, <1>2
<1>6. NumberInChat(qts') = Count(qts + 1, d)
  BY <1>1, <1>5 DEF NumberInChat, Count, CountIn
<1>7. /\ \A c \in Chats : c # d => seq'[c] = seq[c]
      /\ chat[d] = "ok" /\ Count(qts + 1, d) = seq[d] + 1 => seq'[d] = seq[d] + 1
      /\ ~(chat[d] = "ok" /\ Count(qts + 1, d) = seq[d] + 1) => seq'[d] = seq[d]
  BY <1>1, <1>5, <1>6 DEF Receive
<1>8. ASSUME ~split, NEW c \in Open(chat)
      PROVE  Count(qts + 1, c) <= seq'[c]
  <2>1. Counted(chat, seq, qts)
    BY <1>1, <1>8, NoHoleIs DEF HoleInv
  <2>2. Count(qts, c) <= seq[c] /\ c \in Chats /\ chat[c] = "ok" /\ seq[c] \in Nat
    BY <1>1, <1>8, <2>1 DEF Counted, Open
  <2>3. qts + 1 \in Nat
    BY <1>2
  <2>4. PICK m \in Nat, n \in Nat : m = Count(qts, c) /\ n = Count(qts + 1, c)
    BY <1>2, <2>3, CountsAre DEF Count
  <2>5. n <= m + 1 /\ (d # c => n = m)
    BY <1>2, <1>5, <2>4, CountsNext DEF Count
  <2>6. CASE c # d
    BY <1>7, <2>2, <2>4, <2>5, <2>6
  <2>7. CASE c = d
    <3>1. CASE n = seq[c] + 1
      BY <1>7, <2>2, <2>4, <2>7, <3>1
    <3>2. CASE n # seq[c] + 1
      <4>1. seq'[c] = seq[c]
        BY <1>7, <2>4, <2>7, <3>2
      <4>2. n <= seq[c]
        BY <2>2, <2>4, <2>5, <3>2
      <4> QED
        BY <2>4, <4>1, <4>2
    <3> QED
      BY <3>1, <3>2
  <2> QED
    BY <2>6, <2>7
<1>9. ~split => NoHole'
  BY <1>1, <1>8 DEF NoHole, Count, CountIn
<1> QED
  BY <1>1, <1>3, <1>4, <1>9 DEF HoleInv

LEMMA CloseHole ==
  ASSUME FilesInv, HoleInv, Close
  PROVE  HoleInv'
<1>1. FileNumber' = FileNumber
  BY DEF FileNumber, Close
<1>2. StateBehind'
  BY <1>1 DEF StateBehind, HoleInv, Close, tgl, history
<1>3. StateFirst' = StateFirst
  BY <1>1 DEF StateFirst, Count, Close, history
<1>4. NoHole'
  BY DEF NoHole, Close
<1> QED
  BY <1>2, <1>3, <1>4 DEF HoleInv, Close, history

LEMMA CrashHole ==
  ASSUME FilesInv, HoleInv, Crash
  PROVE  HoleInv'
<1>1. FileNumber' = FileNumber
  BY DEF FileNumber, Crash
<1>2. StateBehind'
  BY <1>1 DEF StateBehind, HoleInv, Crash, tgl
<1>3. StateFirst' = StateFirst
  BY <1>1 DEF StateFirst, Count, Crash
<1>4. NoHole'
  BY DEF NoHole, Crash
<1>5. ~split' => ~split /\ ("secret" \notin torn => "secret" \notin torn')
  BY DEF Crash
<1> QED
  BY <1>2, <1>3, <1>4, <1>5 DEF HoleInv

\* After the state file the handler goes on with the file of the secret chats, which is
\* to save what counts everything that was received.
LEMMA WriteCallHole ==
  ASSUME FilesInv, HoleInv, WriteCall
  PROVE  HoleInv'
<1>1. UNCHANGED <<phase, chat, seq, qts, posted, split>> /\ torn' \subseteq torn
  BY DEF WriteCall, tgl
<1>2. WritingAuth \/ WritingSecret \/ WritingBoth
  BY DEF FilesInv, Writing, WriteCall
<1>3. NoHole' = NoHole
  BY <1>1 DEF NoHole
<1>4. CASE WritingAuth \/ WritingSecret
  <2>1. todo \in Seq(WriteCalls) /\ \A k \in DOMAIN todo : todo[k].file # "state"
    BY <1>4, LeftFiles, FilesAre DEF FilesInv
  <2>2. 1 \in DOMAIN todo /\ Head(todo) = todo[1]
    BY <2>1 DEF WriteCall
  <2>3. Head(todo).file # "state"
    BY <2>1, <2>2
  <2>4. disk'.state = disk.state
    BY <2>3, FilesAre DEF WriteCall, FilesInv, TypeOK
  <2>5. FileNumber' = FileNumber /\ saved' = saved
    BY <2>3, <2>4 DEF FileNumber, WriteCall
  <2>6. StateBehind' /\ StateFirst' = StateFirst
    BY <1>1, <2>5 DEF StateBehind, StateFirst, Count, HoleInv
  <2> QED
    BY <1>1, <1>3, <2>6 DEF HoleInv
<1>5. CASE WritingBoth
  <2>1. FileNumber' = qts /\ phase = "in" /\ saved'.secret = SecretContents(chat, seq)
    BY <1>5, WriteStateFiles DEF WritingBoth
  <2>2. qts \in Nat /\ seq \in [Chats -> Nat] /\ chat \in [Chats -> {"none", "ok", "deleted"}]
    BY DEF FilesInv, TypeOK
  <2>3. StateBehind'
    BY <1>1, <2>1, <2>2 DEF StateBehind, HoleInv
  <2>4. ASSUME ~split
        PROVE  StateFirst'
    <3>1. Counted(chat, seq, qts)
      BY <2>1, <2>4, NoHoleIs DEF HoleInv
    <3>2. \A e \in SecretContents(chat, seq) : Count(qts, e[1]) <= e[2]
      BY <2>2, <3>1, SavedCounts
    <3> QED
      BY <1>1, <2>1, <3>2 DEF StateFirst, Count
  <2> QED
    BY <1>1, <1>3, <2>3, <2>4 DEF HoleInv
<1> QED
  BY <1>2, <1>4, <1>5

LEMMA StepHole ==
  ASSUME FilesInv, HoleInv, [Next]_vars
  PROVE  HoleInv'
<1>1. CASE UNCHANGED vars
  BY <1>1 DEF vars, tgl, history, HoleInv, StateBehind, StateFirst, NoHole, FileNumber, Count
<1> QED
  BY <1>1, LoginHole, LoggedInHole, SecretsReadHole, WriteCallHole, WriteFilesHole, AcceptHole,
     TerminateHole, PostHole, ReceiveHole, CloseHole, CrashHole DEF Next

\* However often the account is closed or crashes, a secret chat that is open counts
\* every message of it that was received, unless the process ever ended after
\* write_state_file and before write_secret_chat_file was done: write_files_gw writes
\* both from the same state, and a login reads both before anything else is received
\* (telegram-base.c).
THEOREM NoHoleEver == Spec => []NoHole
<1>1. Init => HoleInv
  BY InitHole
<1>2. FilesInv /\ HoleInv /\ [Next]_vars => HoleInv'
  BY StepHole
<1>3. Spec => []HoleInv
  BY <1>1, <1>2, FilesInvariant, PTL DEF Spec
<1>4. HoleInv => NoHole
  BY DEF HoleInv, NoHole
<1> QED
  BY <1>3, <1>4, PTL

=============================================================================

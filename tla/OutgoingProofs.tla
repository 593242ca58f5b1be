--------------------------- MODULE OutgoingProofs ---------------------------
(***************************************************************************)
(* Proofs about Outgoing, for every size of chunks, texts and sessions.    *)
(* The arithmetic is in ChunksFit: the chunks cut from one text cover it.  *)
(* The four parts of Inv then only need to follow the two ends of the      *)
(* queue through the actions.                                              *)
(***************************************************************************)
EXTENDS Outgoing, TLAPS, SequenceTheorems

TextSizes == 1 .. MaxSize

------------------------------------------------------------------------------
(* Cutting a text *)

\* The number of chunks is the quotient, rounded up.
LEMMA Quotient ==
  ASSUME NEW size \in Nat \ {0}
  PROVE  LET n == (size + MaxMsgSize - 1) \div MaxMsgSize
         IN  n \in Nat \ {0} /\ (n - 1) * MaxMsgSize < size /\ size <= n * MaxMsgSize
<1> DEFINE a == size + MaxMsgSize - 1
           n == a \div MaxMsgSize
<1>1. a \in Nat /\ MaxMsgSize \in Nat \ {0}
  BY SizesAssumption
<1>2. n \in Nat /\ n * MaxMsgSize <= a /\ a < n * MaxMsgSize + MaxMsgSize
  BY <1>1
<1>3. (n - 1) * MaxMsgSize = n * MaxMsgSize - MaxMsgSize
  BY <1>1, <1>2
<1>4. n # 0
  BY <1>1, <1>2
<1> QED
  BY <1>1, <1>2, <1>3, <1>4

\* The chunks of a text cover it from its start to its end.
LEMMA ChunksFit ==
  ASSUME NEW n \in Nat \ {0}, NEW size \in Nat \ {0}
  PROVE  LET q == Chunks(n, size)
         IN  /\ q \in Seq(Chunk) /\ Len(q) \in Nat \ {0}
             /\ \A k \in 1 .. Len(q) :
                  /\ q[k].msg = n
                  /\ q[k].end - q[k].start \in 1 .. MaxMsgSize
                  /\ q[k].start = IF k = 1 THEN 0 ELSE q[k - 1].end
             /\ q[Len(q)].end = size
<1> DEFINE m == MaxMsgSize
           count == (size + MaxMsgSize - 1) \div MaxMsgSize
           q == Chunks(n, size)
<1>1. m \in Nat \ {0}
  BY SizesAssumption
<1>2. count \in Nat \ {0} /\ (count - 1) * m < size /\ size <= count * m
  BY Quotient
<1>3. q = [k \in 1 .. count |-> [msg |-> n, start |-> (k - 1) * m, end |-> Smaller(k * m, size)]]
  BY DEF Chunks
<1> HIDE DEF count, q, m
<1>4. ASSUME NEW k \in 1 .. count
      PROVE  /\ k * m \in Nat /\ (k - 1) * m \in Nat /\ k * m = (k - 1) * m + m
             /\ (k - 1) * m < size
             /\ k < count => k * m < size
  <2>1. k \in Nat /\ k - 1 \in Nat /\ count - 1 \in Nat /\ k - 1 <= count - 1
    BY <1>2
  <2>2. k * m \in Nat /\ (k - 1) * m \in Nat /\ k * m = (k - 1) * m + m
    BY <1>1, <2>1
  <2>3. \A a, b \in Nat : a <= b => a * m <= b * m
    BY <1>1
  <2>4. (k - 1) * m <= (count - 1) * m /\ (k < count => k * m <= (count - 1) * m)
    BY <2>1, <2>3, <1>2
  <2>5. (count - 1) * m \in Nat
    BY <1>1, <2>1
  <2> QED
    BY <1>2, <2>2, <2>4, <2>5
<1>5. ASSUME NEW k \in 1 .. count
      PROVE  /\ q[k] \in Chunk /\ q[k].msg = n /\ q[k].start = (k - 1) * m
             /\ q[k].end - q[k].start \in 1 .. m
             /\ k < count => q[k].end = k * m
             /\ k = count => q[k].end = size
  <2>1. q[k] = [msg |-> n, start |-> (k - 1) * m, end |-> Smaller(k * m, size)]
    BY <1>3
  <2>2. Smaller(k * m, size) \in Nat
    BY <1>4 DEF Smaller
  <2>3. q[k] \in Chunk
    BY <2>1, <2>2, <1>4 DEF Chunk
  <2>4. q[k].msg = n /\ q[k].start = (k - 1) * m /\ q[k].end = Smaller(k * m, size)
    BY <2>1
  <2>5. Smaller(k * m, size) - (k - 1) * m \in 1 .. m
    BY <1>1, <1>4 DEF Smaller
  <2>6. k < count => Smaller(k * m, size) = k * m
    BY <1>4 DEF Smaller
  <2>7. k = count => Smaller(k * m, size) = size
    BY <1>2, <1>4 DEF Smaller
  <2> QED
    BY <2>3, <2>4, <2>5, <2>6, <2>7
<1>6. q \in Seq(Chunk) /\ Len(q) = count
  BY <1>2, <1>3, <1>5, IsASeq
<1>7. ASSUME NEW k \in 1 .. count
      PROVE  q[k].start = IF k = 1 THEN 0 ELSE q[k - 1].end
  <2>1. CASE k = 1
    <3>1. (1 - 1) * m = 0
      BY <1>1
    <3> QED
      BY <1>5, <2>1, <3>1
  <2>2. CASE k # 1
    <3>1. k - 1 \in 1 .. count /\ k - 1 < count
      BY <1>2, <2>2
    <3>2. q[k - 1].end = (k - 1) * m
      BY <1>5, <3>1
    <3> QED
      BY <1>5, <2>2, <3>2
  <2> QED
    BY <2>1, <2>2
<1>8. count \in 1 .. count
  BY <1>2
<1> QED
  BY <1>2, <1>5, <1>6, <1>7, <1>8 DEF m, q

------------------------------------------------------------------------------
(* Appending a text *)

\* WholeTexts of any chunks and sizes.
Whole(w, s) ==
  /\ {w[k].msg : k \in DOMAIN w} = DOMAIN s
  /\ \A k \in DOMAIN w : Fits(w, s, k)

\* A new text does not disturb the chunks of those before it, and fits behind them.
LEMMA WholeAppend ==
  ASSUME NEW w \in Seq(Chunk), NEW s \in Seq(Nat), NEW size \in Nat \ {0}, Whole(w, s)
  PROVE  Whole(w \o Chunks(Len(s) + 1, size), Append(s, size))
<1> DEFINE n == Len(s) + 1
           q == Chunks(n, size)
           v == w \o q
           t == Append(s, size)
<1>1. n \in Nat \ {0} /\ Len(s) \in Nat
  BY LenProperties
<1>2. /\ q \in Seq(Chunk) /\ Len(q) \in Nat \ {0}
      /\ \A k \in 1 .. Len(q) :
           /\ q[k].msg = n
           /\ q[k].end - q[k].start \in 1 .. MaxMsgSize
           /\ q[k].start = IF k = 1 THEN 0 ELSE q[k - 1].end
      /\ q[Len(q)].end = size
  BY <1>1, ChunksFit
<1> HIDE DEF q
<1>3. /\ v \in Seq(Chunk) /\ Len(v) = Len(w) + Len(q) /\ Len(w) \in Nat
      /\ \A k \in 1 .. Len(w) : v[k] = w[k]
      /\ \A j \in 1 .. Len(q) : v[Len(w) + j] = q[j]
  <2>1. v \in Seq(Chunk) /\ Len(v) = Len(w) + Len(q) /\ Len(w) \in Nat
    BY <1>2, ConcatProperties, LenProperties
  <2>2. \A k \in 1 .. Len(w) + Len(q) : v[k] = IF k <= Len(w) THEN w[k] ELSE q[k - Len(w)]
    BY <1>2, ConcatProperties
  <2> QED
    BY <1>2, <2>1, <2>2
<1>4. /\ DOMAIN t = 1 .. n /\ t[n] = size /\ \A i \in 1 .. Len(s) : t[i] = s[i]
  BY <1>1, AppendProperties, LenProperties
<1>5. \A k \in 1 .. Len(w) : w[k].msg \in 1 .. Len(s)
  BY <1>1, <1>3, LenProperties DEF Whole
<1>6. {w[k].msg : k \in 1 .. Len(w)} = 1 .. Len(s)
  BY <1>3, LenProperties DEF Whole
<1> HIDE DEF v, t, n
<1>7. {v[k].msg : k \in DOMAIN v} = DOMAIN t
  <2>1. DOMAIN v = 1 .. Len(w) + Len(q)
    BY <1>3, LenProperties
  <2>2. \A k \in DOMAIN v : v[k].msg \in DOMAIN t
    <3> TAKE k \in DOMAIN v
    <3>1. CASE k <= Len(w)
      <4>1. k \in 1 .. Len(w)
        BY <1>3, <2>1, <3>1
      <4>2. v[k].msg \in 1 .. Len(s)
        BY <1>3, <1>5, <4>1
      <4>3. 1 .. Len(s) \subseteq 1 .. n
        BY <1>1 DEF n
      <4> QED
        BY <1>4, <4>2, <4>3
    <3>2. CASE k > Len(w)
      <4>1. k - Len(w) \in 1 .. Len(q) /\ k = Len(w) + (k - Len(w))
        BY <1>2, <1>3, <2>1, <3>2
      <4>2. v[k].msg = n
        BY <1>2, <1>3, <4>1
      <4> QED
        BY <1>1, <1>4, <4>2
    <3> QED
      BY <1>3, <2>1, <3>1, <3>2
  <2>3. \A i \in DOMAIN t : \E k \in DOMAIN v : v[k].msg = i
    <3> TAKE i \in DOMAIN t
    <3>1. CASE i = n
      <4>1. Len(w) + 1 \in DOMAIN v /\ v[Len(w) + 1].msg = n
        BY <1>2, <1>3, <2>1
      <4> QED
        BY <3>1, <4>1
    <3>2. CASE i # n
      <4>1. i \in 1 .. Len(s)
        BY <1>1, <1>4, <3>2 DEF n
      <4>2. PICK k \in 1 .. Len(w) : w[k].msg = i
        BY <1>6, <4>1
      <4>3. k \in DOMAIN v /\ v[k].msg = i
        BY <1>2, <1>3, <2>1, <4>2
      <4> QED
        BY <4>3
    <3> QED
      BY <3>1, <3>2
  <2> QED
    BY <2>2, <2>3
<1>8. ASSUME NEW k \in 1 .. Len(w)
      PROVE  Fits(v, t, k)
  <2>1. Fits(w, s, k) /\ w[k] \in Chunk /\ v[k] = w[k]
    BY <1>3, LenProperties, ElementOfSeq DEF Whole
  <2>2. k # 1 => k - 1 \in 1 .. Len(w) /\ v[k - 1] = w[k - 1]
    <3>1. SUFFICES ASSUME k # 1 PROVE k - 1 \in 1 .. Len(w) /\ v[k - 1] = w[k - 1]
      OBVIOUS
    <3>2. k - 1 \in 1 .. Len(w)
      BY <1>3, <3>1
    <3> QED
      BY <1>3, <3>2
  <2>3. First(v, k) <=> First(w, k)
    BY <2>1, <2>2 DEF First
  <2>4. Last(v, k) => Last(w, k)
    <3>1. CASE k = Len(w)
      BY <3>1 DEF Last
    <3>2. CASE k # Len(w)
      <4>1. k + 1 \in 1 .. Len(w) /\ v[k + 1] = w[k + 1] /\ k # Len(v)
        BY <1>2, <1>3, <3>2
      <4> QED
        BY <2>1, <4>1 DEF Last
    <3> QED
      BY <3>1, <3>2
  <2>5. t[w[k].msg] = s[w[k].msg]
    BY <1>4, <1>5
  <2>6. \/ First(v, k) /\ v[k].start = 0
        \/ ~First(v, k) /\ k # 1 /\ v[k].start = v[k - 1].end
    BY <2>1, <2>2, <2>3 DEF Fits, First
  <2>7. v[k].start = IF First(v, k) THEN 0 ELSE v[k - 1].end
    BY <2>6
  <2>8. v[k].end - v[k].start \in 1 .. MaxMsgSize
    BY <2>1 DEF Fits
  <2>9. Last(v, k) => v[k].end = t[v[k].msg]
    BY <2>1, <2>4, <2>5 DEF Fits
  <2>10. ~First(v, k) \/ k = 1 \/ v[k - 1].msg < v[k].msg
    BY <2>1, <2>2, <2>3 DEF Fits
  <2> QED
    BY <2>7, <2>8, <2>9, <2>10 DEF Fits
<1>9. ASSUME NEW j \in 1 .. Len(q)
      PROVE  Fits(v, t, Len(w) + j)
  <2> DEFINE k == Len(w) + j
  <2>1. v[k] = q[j] /\ q[j].msg = n /\ k \in Nat /\ j \in Nat
    BY <1>2, <1>3
  <2>2. CASE j = 1
    <3>1. k # 1 => k - 1 = Len(w) /\ Len(w) \in 1 .. Len(w)
      BY <1>3, <2>2
    <3>2. k # 1 => v[k - 1].msg \in 1 .. Len(s)
      BY <1>3, <1>5, <3>1
    <3>3. First(v, k)
      BY <1>1, <2>1, <3>2 DEF First, n
    <3>4. v[k].start = 0 /\ v[k].end - v[k].start \in 1 .. MaxMsgSize
      BY <1>2, <2>1, <2>2
    <3>5. Last(v, k) => v[k].end = t[v[k].msg]
      <4>1. CASE j = Len(q)
        BY <1>2, <1>4, <2>1, <4>1
      <4>2. CASE j # Len(q)
        <5>1. j + 1 \in 1 .. Len(q) /\ k + 1 = Len(w) + (j + 1) /\ k # Len(v)
          BY <1>2, <1>3, <4>2
        <5>2. v[k + 1].msg = v[k].msg
          BY <1>2, <1>3, <2>1, <5>1
        <5> QED
          BY <5>1, <5>2 DEF Last
      <4> QED
        BY <4>1, <4>2
    <3>6. k = 1 \/ v[k - 1].msg < v[k].msg
      BY <1>1, <2>1, <3>2 DEF n
    <3> QED
      BY <3>3, <3>4, <3>5, <3>6 DEF Fits
  <2>3. CASE j # 1
    <3>1. j - 1 \in 1 .. Len(q) /\ k - 1 = Len(w) + (j - 1)
      BY <1>2, <1>3, <2>3
    <3>2. v[k - 1] = q[j - 1] /\ q[j - 1].msg = n /\ k # 1
      BY <1>2, <1>3, <2>3, <3>1
    <3>3. ~First(v, k)
      BY <2>1, <3>2 DEF First
    <3>4. v[k].start = v[k - 1].end /\ v[k].end - v[k].start \in 1 .. MaxMsgSize
      BY <1>2, <2>1, <2>3, <3>2
    <3>5. Last(v, k) => v[k].end = t[v[k].msg]
      <4>1. CASE j = Len(q)
        BY <1>2, <1>4, <2>1, <4>1
      <4>2. CASE j # Len(q)
        <5>1. j + 1 \in 1 .. Len(q) /\ k + 1 = Len(w) + (j + 1) /\ k # Len(v)
          BY <1>2, <1>3, <4>2
        <5>2. v[k + 1].msg = v[k].msg
          BY <1>2, <1>3, <2>1, <5>1
        <5> QED
          BY <5>1, <5>2 DEF Last
      <4> QED
        BY <4>1, <4>2
    <3> QED
      BY <3>3, <3>4, <3>5 DEF Fits
  <2> QED
    BY <2>2, <2>3
<1>10. \A k \in DOMAIN v : Fits(v, t, k)
  <2> TAKE k \in DOMAIN v
  <2>1. k \in 1 .. Len(w) + Len(q)
    BY <1>3, LenProperties
  <2>2. CASE k <= Len(w)
    BY <1>3, <1>8, <2>1, <2>2
  <2>3. CASE k > Len(w)
    <3>1. k - Len(w) \in 1 .. Len(q) /\ k = Len(w) + (k - Len(w))
      BY <1>2, <1>3, <2>1, <2>3
    <3> QED
      BY <1>9, <3>1
  <2> QED
    BY <1>3, <2>1, <2>2, <2>3
<1> QED
  BY <1>7, <1>10 DEF Whole, v, t, q, n

------------------------------------------------------------------------------
(* The invariant *)

\* A closed account has given tgl nothing and is not going to.
NothingWhenDown == ~up => sent = <<>> /\ out_messages = <<>> /\ ~write_timer /\ ~conversion

Inv == TypeOK /\ TimersOwned /\ SentInOrder /\ WholeTexts /\ NothingWhenDown

\* The sources that are alive, case by case.
LEMMA Owned ==
  ASSUME TypeOK, TimersOwned
  PROVE  /\ timers = [out |-> timers.out, write |-> timers.write]
         /\ timers.out \in {0, 1} /\ timers.write \in {0, 1}
         /\ out_timer /\ up => timers.out = 1
         /\ ~out_timer => timers.out = 0
         /\ write_timer /\ up => timers.write = 1
         /\ ~write_timer => timers.write = 0
         /\ ~up => timers.out = 0 /\ timers.write = 0
<1>1. timers = [out |-> timers.out, write |-> timers.write]
  BY DEF TypeOK
<1>2. CASE up
  BY <1>1, <1>2 DEF TimersOwned
<1>3. CASE ~up
  BY <1>1, <1>3 DEF TimersOwned
<1> QED
  BY <1>1, <1>2, <1>3

\* No text, or any.
LEMMA NoTextType == NoText \in Converting
  BY DEF NoText, Converting

\* Converting a text touches nothing but the text.
LEMMA ConvertKeepsInv ==
  ASSUME Inv, NEW n \in Nat, NEW wrapped \in BOOLEAN, NEW blank \in BOOLEAN,
         Begin(n, wrapped) \/ Copy(blank) \/ Tag \/ Refuse
  PROVE  Inv'
<1>1. UNCHANGED <<up, out_messages, out_timer, write_timer, timers, unanswered, sizes, written, sent>>
  BY DEF Begin, Copy, Tag, Refuse
<1>2. conversion' \in BOOLEAN /\ up
  BY DEF Inv, TypeOK, NothingWhenDown, Begin, Copy, Tag, Refuse
<1>3. text' \in Converting
  <2>1. text \in Converting
    BY DEF Inv, TypeOK
  <2>2. CASE Begin(n, wrapped)
    <3>1. 3 * (n + BrokenHtml) \in Nat /\ 3 * n \in Nat
      BY <2>1 DEF BrokenHtml
    <3> QED
      BY <2>1, <2>2, <3>1 DEF Begin, NoText, Converting
  <2>3. CASE Copy(blank)
    <3>1. /\ text.i + 1 \in Nat /\ text.j + 1 \in Nat /\ text.from + 1 \in Nat
          /\ text.from \in Nat /\ text.to \in Nat
      BY <2>1 DEF Converting
    <3>2. /\ (IF blank /\ text.to = 0 THEN text.from + 1 ELSE text.from) \in Nat
          /\ (IF blank THEN text.to ELSE text.j + 1) \in Nat
      BY <3>1
    <3>3. text' = [text EXCEPT !.i = text.i + 1, !.j = text.j + 1,
                     !.from = IF blank /\ text.to = 0 THEN text.from + 1 ELSE text.from,
                     !.to = IF blank THEN text.to ELSE text.j + 1]
      BY <2>3 DEF Copy
    <3> QED
      BY <2>1, <3>1, <3>2, <3>3 DEF Converting
  <2>4. CASE Tag
    <3>0. text.i \in Nat /\ text.j \in Nat /\ TagSize \in {6, 7}
      BY <2>1 DEF TagSize, Converting
    <3>1. text.i + 3 \in Nat /\ text.j + TagSize \in Nat /\ (~text.open) \in BOOLEAN
      BY <3>0
    <3>2. text' = [text EXCEPT !.i = text.i + 3, !.j = text.j + TagSize,
                     !.to = text.j + TagSize, !.open = ~text.open]
      BY <2>4 DEF Tag
    <3> QED
      BY <2>1, <3>1, <3>2 DEF Converting
  <2>5. CASE Refuse
    BY <2>5, NoTextType DEF Refuse
  <2> QED
    BY <2>2, <2>3, <2>4, <2>5
<1>4. TypeOK'
  BY <1>1, <1>2, <1>3 DEF Inv, TypeOK
<1>5. TimersOwned' /\ SentInOrder' /\ NothingWhenDown'
  BY <1>1, <1>2 DEF Inv, TimersOwned, SentInOrder, NothingWhenDown
<1>6. WholeTexts'
  BY <1>1 DEF Inv, WholeTexts, Fits, First, Last
<1> QED
  BY <1>4, <1>5, <1>6 DEF Inv

\* A text is cut, queued, and the timeout restarted.
LEMMA WriteKeepsInv ==
  ASSUME Inv, Write
  PROVE  Inv'
<1>0. PICK size \in TextSizes : size = Size /\ Schedule(size)
  BY DEF Write, TextSizes
<1> DEFINE new == Chunks(Len(sizes) + 1, size)
<1> USE DEF Inv, TextSizes
<1>a. conversion /\ up /\ conversion' = FALSE /\ text' = NoText
  BY DEF Write, NothingWhenDown
<1>1. size \in Nat \ {0} /\ Len(sizes) + 1 \in Nat \ {0} /\ sizes \in Seq(Nat)
  <2>1. MaxSize \in Nat
    BY SizesAssumption DEF MaxSize
  <2> QED
    BY <2>1, LenProperties, SeqMonotonic DEF TypeOK
<1>2. new \in Seq(Chunk) /\ Len(new) # 0
  BY <1>1, ChunksFit
<1> HIDE DEF new
<1>3. written' = written \o new /\ out_messages' = out_messages \o new
  BY <1>0 DEF Schedule, new
<1>4. timers' = [timers EXCEPT !.out = 1] /\ timers'.out = 1 /\ timers'.write = timers.write
  <2>1. Restarted(timers.out) = 1
    <3>1. CASE out_timer
      BY <1>a, <3>1, Owned DEF Restarted
    <3>2. CASE ~out_timer
      BY <3>2, Owned DEF Restarted
    <3> QED
      BY <3>1, <3>2
  <2>2. timers' = [timers EXCEPT !.out = 1]
    BY <1>0, <2>1 DEF Schedule
  <2> QED
    BY <2>2, Owned
<1>5. TypeOK'
  <2>1. written' \in Seq(Chunk) /\ out_messages' \in Seq(Chunk)
    BY <1>2, <1>3, ConcatProperties DEF TypeOK
  <2>2. sizes' \in Seq(1 .. MaxSize)
    BY <1>0, AppendProperties DEF TypeOK, Schedule
  <2>3. timers' \in [out : Nat, write : Nat]
    BY <1>4 DEF TypeOK
  <2> QED
    BY <1>0, <1>a, <2>1, <2>2, <2>3, NoTextType DEF TypeOK, Schedule
<1>6. TimersOwned'
  <2>1. out_messages' # <<>>
    <3>1. Len(out_messages') = Len(out_messages) + Len(new) /\ Len(out_messages) \in Nat
      BY <1>2, <1>3, ConcatProperties, LenProperties DEF TypeOK
    <3>2. Len(new) \in Nat /\ Len(<<>>) = 0
      BY <1>2, LenProperties, EmptySeq
    <3> QED
      BY <1>2, <3>1, <3>2
  <2>2. up /\ up' /\ out_timer' /\ write_timer' = write_timer
    BY <1>0, <1>a DEF Schedule
  <2>3. timers'.write = IF up' /\ write_timer' THEN 1 ELSE 0
    BY <1>4, <2>2 DEF TimersOwned
  <2> QED
    BY <1>4, <2>1, <2>2, <2>3 DEF TimersOwned
<1>7. SentInOrder'
  <2>1. sent \in Seq(Chunk) /\ out_messages \in Seq(Chunk)
    BY DEF TypeOK
  <2>2. (sent \o out_messages) \o new = sent \o (out_messages \o new)
    BY ONLY <1>2, <2>1, ConcatAssociative
  <2> QED
    BY <1>0, <1>3, <2>2 DEF SentInOrder, Schedule
<1>8. WholeTexts'
  <2>1. Whole(written \o new, Append(sizes, size))
    BY <1>1, WholeAppend DEF TypeOK, WholeTexts, Whole, new
  <2>2. written' = written \o new /\ sizes' = Append(sizes, size)
    BY <1>0, <1>3 DEF Schedule
  <2>3. Whole(written', sizes')
    BY <2>1, <2>2
  <2> QED
    BY <2>3 DEF WholeTexts, Whole, Fits, First, Last
<1>9. NothingWhenDown'
  BY <1>0, <1>a DEF NothingWhenDown, Schedule
<1> QED
  BY <1>5, <1>6, <1>7, <1>8, <1>9

\* The queue moves to tgl as it is.
LEMMA SendAllKeepsInv == Inv /\ SendAll => Inv'
<1> SUFFICES ASSUME Inv, SendAll PROVE Inv'
  OBVIOUS
<1> USE DEF Inv
<1>1. sent' = sent \o out_messages /\ out_messages' = <<>> /\ <<>> \in Seq(Chunk)
  BY EmptySeq DEF SendAll
<1>2. /\ sent' \in Seq(Chunk) /\ Len(sent') = Len(sent) + Len(out_messages)
      /\ Len(sent) \in Nat /\ Len(out_messages) \in Nat
  BY <1>1, ConcatProperties, LenProperties DEF TypeOK
<1>3. unanswered' \subseteq DOMAIN sent'
  <2>1. DOMAIN sent = 1 .. Len(sent) /\ DOMAIN out_messages = 1 .. Len(out_messages)
        /\ DOMAIN sent' = 1 .. Len(sent')
    BY <1>2, LenProperties DEF TypeOK
  <2> QED
    BY <1>2, <2>1 DEF TypeOK, SendAll
<1>4. up /\ timers' = [timers EXCEPT !.out = 0] /\ timers'.out = 0 /\ timers'.write = timers.write
  BY Owned DEF SendAll
<1>5. TypeOK'
  <2>1. timers' \in [out : Nat, write : Nat]
    BY <1>4 DEF TypeOK
  <2> QED
    BY <1>1, <1>2, <1>3, <2>1 DEF TypeOK, SendAll, converter
<1>6. TimersOwned'
  <2>1. up' = up /\ write_timer' = write_timer /\ ~out_timer'
    BY DEF SendAll
  <2>2. timers'.write = IF up' /\ write_timer' THEN 1 ELSE 0
    BY <1>4, <2>1 DEF TimersOwned
  <2> QED
    BY <1>1, <1>4, <2>1, <2>2 DEF TimersOwned
<1>7. SentInOrder'
  <2>1. sent' \o <<>> = sent'
    BY <1>2, ConcatEmptySeq
  <2> QED
    BY <1>1, <2>1 DEF SentInOrder, SendAll
<1>8. WholeTexts'
  BY DEF WholeTexts, Fits, First, Last, SendAll
<1>9. NothingWhenDown'
  BY <1>4 DEF NothingWhenDown, SendAll
<1> QED
  BY <1>5, <1>6, <1>7, <1>8, <1>9

\* An answer starts the other timeout if it is not running.
LEMMA AnswerKeepsInv == ASSUME Inv, NEW k \in unanswered, Answer(k) PROVE Inv'
<1> USE DEF Inv
<1>1. up
  <2>1. sent # <<>>
    BY DEF TypeOK
  <2> QED
    BY <2>1 DEF NothingWhenDown
<1>2. \/ write_timer' = write_timer /\ timers' = timers
      \/ /\ write_timer' = TRUE
         /\ timers' = [timers EXCEPT !.write = 1]
  <2>1. CASE UNCHANGED <<write_timer, timers>>
    BY <2>1
  <2>2. CASE /\ write_timer' = TRUE
             /\ timers' = [timers EXCEPT !.write = IF write_timer THEN @ ELSE @ + 1]
    <3>1. CASE write_timer
      BY <1>1, <2>2, <3>1, Owned
    <3>2. CASE ~write_timer
      <4>1. timers.write = 0
        BY <3>2, Owned
      <4> QED
        BY <2>2, <3>2, <4>1
    <3> QED
      BY <3>1, <3>2
  <2> QED
    BY <2>1, <2>2 DEF Answer
<1>3. /\ timers' \in [out : Nat, write : Nat] /\ timers'.out = timers.out
      /\ write_timer' \in BOOLEAN /\ timers'.write = IF write_timer' THEN 1 ELSE 0
  <2>1. CASE write_timer' = write_timer /\ timers' = timers
    BY <1>1, <2>1 DEF TypeOK, TimersOwned
  <2>2. CASE write_timer' = TRUE /\ timers' = [timers EXCEPT !.write = 1]
    BY <2>2, Owned DEF TypeOK
  <2> QED
    BY <1>2, <2>1, <2>2
<1>4. TypeOK'
  BY <1>3 DEF TypeOK, Answer, converter
<1>5. TimersOwned'
  BY <1>1, <1>3 DEF TimersOwned, Answer
<1>6. SentInOrder' /\ WholeTexts'
  BY DEF SentInOrder, WholeTexts, Fits, First, Last, Answer
<1>7. NothingWhenDown'
  BY <1>1 DEF NothingWhenDown, Answer
<1> QED
  BY <1>4, <1>5, <1>6, <1>7

\* Saving ends the other timeout.
LEMMA WriteFilesKeepsInv == Inv /\ WriteFiles => Inv'
<1> SUFFICES ASSUME Inv, WriteFiles PROVE Inv'
  OBVIOUS
<1> USE DEF Inv
<1>1. timers' = [timers EXCEPT !.write = 0] /\ timers'.write = 0 /\ timers'.out = timers.out
  BY Owned DEF WriteFiles
<1>2. TypeOK'
  <2>1. timers' \in [out : Nat, write : Nat]
    BY <1>1 DEF TypeOK
  <2> QED
    BY <2>1 DEF TypeOK, WriteFiles, converter
<1>3. TimersOwned'
  BY <1>1 DEF TimersOwned, WriteFiles
<1>4. SentInOrder' /\ WholeTexts' /\ NothingWhenDown'
  BY DEF SentInOrder, WholeTexts, Fits, First, Last, NothingWhenDown, WriteFiles, converter
<1> QED
  BY <1>2, <1>3, <1>4

\* A session starts with what the last one left: nothing.
LEMMA LoginKeepsInv == Inv /\ Login => Inv'
<1> SUFFICES ASSUME Inv, Login PROVE Inv'
  OBVIOUS
<1> USE DEF Inv
<1>1. TypeOK'
  BY DEF TypeOK, Login, converter
<1>2. TimersOwned'
  BY DEF TypeOK, TimersOwned, NothingWhenDown, Login
<1>3. SentInOrder' /\ WholeTexts' /\ NothingWhenDown'
  BY DEF SentInOrder, WholeTexts, Fits, First, Last, NothingWhenDown, Login
<1> QED
  BY <1>1, <1>2, <1>3

\* Nothing queued, given to tgl or written: what a session starts and ends with.
LEMMA EmptyIsInv ==
  ASSUME out_messages = <<>>, sizes = <<>>, written = <<>>, sent = <<>>, unanswered = {}
  PROVE  /\ out_messages \in Seq(Chunk) /\ written \in Seq(Chunk) /\ sent \in Seq(Chunk)
         /\ sizes \in Seq(1 .. MaxSize)
         /\ unanswered \subseteq DOMAIN sent
         /\ SentInOrder /\ WholeTexts
<1>1. <<>> \in Seq(Chunk) /\ <<>> \o <<>> = <<>>
      /\ <<>> \in Seq(1 .. MaxSize)
  BY EmptySeq, ConcatEmptySeq
<1>2. SentInOrder
  BY <1>1 DEF SentInOrder
<1>3. WholeTexts
  <2>1. DOMAIN written = {} /\ DOMAIN sizes = {}
    OBVIOUS
  <2> QED
    BY <2>1 DEF WholeTexts
<1> QED
  BY <1>1, <1>2, <1>3

\* The first session does, too.
LEMMA InitInv == Init => Inv
<1> SUFFICES ASSUME Init PROVE Inv
  OBVIOUS
<1>1. TypeOK /\ SentInOrder /\ WholeTexts
  BY EmptyIsInv, NoTextType DEF Init, TypeOK
<1>2. TimersOwned /\ NothingWhenDown
  BY DEF Init, TimersOwned, NothingWhenDown
<1> QED
  BY <1>1, <1>2 DEF Inv

\* The account is closed: both timeouts are removed with the queue.
LEMMA CloseKeepsInv == Inv /\ Close => Inv'
<1> SUFFICES ASSUME Inv, Close PROVE Inv'
  OBVIOUS
<1> USE DEF Inv
<1>1. timers' = [out |-> 0, write |-> 0]
  <2>1. (IF out_timer THEN timers.out - 1 ELSE timers.out) = 0
    BY Owned DEF Close
  <2>2. (IF write_timer THEN timers.write - 1 ELSE timers.write) = 0
    BY Owned DEF Close
  <2> QED
    BY <2>1, <2>2 DEF Close
<1>2. /\ out_messages' = <<>> /\ sizes' = <<>> /\ written' = <<>> /\ sent' = <<>>
      /\ unanswered' = {} /\ up' = FALSE /\ out_timer' = FALSE /\ write_timer' = FALSE
      /\ conversion' = conversion /\ text' = text /\ ~conversion
  BY DEF Close, converter
<1>3. <<>> \in Seq(Chunk) /\ <<>> \o <<>> = <<>>
      /\ <<>> \in Seq(1 .. MaxSize)
  BY EmptySeq, ConcatEmptySeq
<1>4. TypeOK'
  BY <1>1, <1>2, <1>3 DEF TypeOK
<1>5. TimersOwned' /\ NothingWhenDown' /\ SentInOrder'
  BY <1>1, <1>2, <1>3 DEF TimersOwned, NothingWhenDown, SentInOrder
<1>6. WholeTexts'
  <2>1. DOMAIN written' = {} /\ DOMAIN sizes' = {}
    BY <1>2
  <2> QED
    BY <2>1 DEF WholeTexts
<1> QED
  BY <1>4, <1>5, <1>6

\* And so it is when the process ends.
LEMMA NullKeepsInv == WriteToNull => Inv'
<1> SUFFICES ASSUME WriteToNull PROVE Inv'
  OBVIOUS
<1>1. /\ out_messages' = <<>> /\ sizes' = <<>> /\ written' = <<>> /\ sent' = <<>>
      /\ unanswered' = {} /\ up' = FALSE /\ out_timer' = FALSE /\ write_timer' = FALSE
      /\ timers' = [out |-> 0, write |-> 0] /\ conversion' = FALSE /\ text' = NoText
  BY DEF WriteToNull
<1>2. <<>> \in Seq(Chunk) /\ <<>> \o <<>> = <<>> /\ <<>> \in Seq(1 .. MaxSize)
  BY EmptySeq, ConcatEmptySeq
<1>3. TypeOK'
  BY <1>1, <1>2, NoTextType DEF TypeOK
<1>4. TimersOwned' /\ NothingWhenDown' /\ SentInOrder'
  BY <1>1, <1>2 DEF TimersOwned, NothingWhenDown, SentInOrder
<1>5. WholeTexts'
  <2>1. DOMAIN written' = {} /\ DOMAIN sizes' = {}
    BY <1>1
  <2> QED
    BY <2>1 DEF WholeTexts
<1> QED
  BY <1>3, <1>4, <1>5 DEF Inv

\* Every reachable state satisfies Inv.
LEMMA Invariance == Spec => []Inv
<1>1. Inv /\ [Next]_vars => Inv'
  <2> SUFFICES ASSUME Inv, [Next]_vars PROVE Inv'
    OBVIOUS
  <2>1. CASE Write
    BY <2>1, WriteKeepsInv
  <2>2. CASE SendAll
    BY <2>2, SendAllKeepsInv
  <2>3. ASSUME NEW k \in unanswered, Answer(k) PROVE Inv'
    BY <2>3, AnswerKeepsInv
  <2>4. CASE WriteFiles
    BY <2>4, WriteFilesKeepsInv
  <2>5. CASE Login
    BY <2>5, LoginKeepsInv
  <2>6. CASE Close \/ WriteToNull
    BY <2>6, CloseKeepsInv, NullKeepsInv
  <2>7. CASE UNCHANGED vars
    BY <2>7 DEF vars, converter, Inv, TypeOK, TimersOwned, SentInOrder, WholeTexts, Fits, First, Last,
                NothingWhenDown
  <2>8. ASSUME NEW n \in Nat, NEW wrapped \in BOOLEAN, NEW blank \in BOOLEAN,
               Begin(n, wrapped) \/ Copy(blank) \/ Tag \/ Refuse
        PROVE  Inv'
    BY <2>8, ConvertKeepsInv
  <2>9. CASE \E n \in Lengths, wrapped \in BOOLEAN : Begin(n, wrapped)
    BY <2>8, <2>9, SizesAssumption
  <2>10. CASE (\E blank \in BOOLEAN : Copy(blank)) \/ Tag \/ Refuse
    <3>1. 0 \in Nat
      OBVIOUS
    <3> QED
      BY <2>8, <2>10, <3>1
  <2> QED
    BY <2>1, <2>2, <2>3, <2>4, <2>5, <2>6, <2>7, <2>9, <2>10 DEF Next
<1> QED
  BY InitInv, <1>1, PTL DEF Spec

\* The variables have their types in every session.
THEOREM TypeCorrect == Spec => []TypeOK
<1>1. Inv => TypeOK
  BY DEF Inv
<1> QED
  BY Invariance, <1>1, PTL

\* tgp_msg_send_schedule and write_files_schedule never leave a timeout behind that
\* the code has lost the number of, and none survives connection_data_free.
THEOREM TimersAreOwned == Spec => []TimersOwned
<1>1. Inv => TimersOwned
  BY DEF Inv
<1> QED
  BY Invariance, <1>1, PTL

\* tgp_msg_send_schedule_cb gives tgl every chunk once and in order.
THEOREM OutboxIsFifo == Spec => []SentInOrder
<1>1. Inv => SentInOrder
  BY DEF Inv
<1> QED
  BY Invariance, <1>1, PTL

\* tgp_msg_send cuts texts of any size so that no character is lost or doubled.
THEOREM TextsStayWhole == Spec => []WholeTexts
<1>1. Inv => WholeTexts
  BY DEF Inv
<1> QED
  BY Invariance, <1>1, PTL

------------------------------------------------------------------------------
(* The conversion of a text *)

\* Seven bytes are written for three that are read, at most.
FitInv ==
  conversion =>
    /\ text.i <= text.len /\ 3 * text.len <= text.room
    /\ 3 * text.j <= 7 * text.i

\* The buffer of tgp_msg_markdown_convert has room for every text it has a buffer for,
\* which is every text but the empty one.
THEOREM TextsFit == Spec => []HtmlFits
<1>1. Init => FitInv
  BY DEF Init, FitInv
<1>2. TypeOK /\ TypeOK' /\ FitInv /\ [Next]_vars => FitInv'
  <2> SUFFICES ASSUME TypeOK, TypeOK', FitInv, [Next]_vars PROVE FitInv'
    OBVIOUS
  <2>0. text \in Converting
    BY DEF TypeOK
  <2>1. ASSUME NEW n \in Lengths, NEW wrapped \in BOOLEAN, Begin(n, wrapped) PROVE FitInv'
    <3>1. n \in Nat
      BY SizesAssumption
    <3>2. text'.len = n /\ text'.room \in {3 * n, 3 * (n + 53)} /\ text'.i = 0 /\ text'.j = 0
      BY <2>1 DEF Begin, NoText, BrokenHtml
    <3> QED
      BY <3>1, <3>2 DEF FitInv
  <2>2. ASSUME NEW blank \in BOOLEAN, Copy(blank) PROVE FitInv'
    <3>1. /\ text'.len = text.len /\ text'.room = text.room /\ text'.i = text.i + 1
          /\ text'.j = text.j + 1 /\ conversion /\ text.i < text.len
      BY <2>0, <2>2 DEF Copy, Converting
    <3> QED
      BY <2>0, <3>1 DEF FitInv, Converting
  <2>3. CASE Tag
    <3>1. /\ text'.len = text.len /\ text'.room = text.room /\ text'.i = text.i + 3
          /\ text'.j = text.j + TagSize /\ conversion /\ text.len - text.i >= 3
      BY <2>0, <2>3 DEF Tag, Converting
    <3>2. TagSize \in {6, 7}
      BY DEF TagSize
    <3> QED
      BY <2>0, <3>1, <3>2 DEF FitInv, Converting
  <2>4. CASE Write \/ Refuse \/ WriteToNull
    BY <2>4 DEF Write, Refuse, WriteToNull, FitInv
  <2>5. CASE SendAll \/ (\E k \in unanswered : Answer(k)) \/ WriteFiles \/ Login \/ Close
             \/ UNCHANGED vars
    BY <2>5 DEF SendAll, Answer, WriteFiles, Login, Close, vars, converter, FitInv
  <2> QED
    BY <2>1, <2>2, <2>3, <2>4, <2>5 DEF Next
<1>3. TypeOK /\ FitInv => HtmlFits
  <2> SUFFICES ASSUME TypeOK, FitInv, conversion, text.room > 0
               PROVE  /\ text.j < text.room
                      /\ text.len - text.i >= 3 => text.j + TagSize < 3 * text.len
    BY DEF HtmlFits
  <2>1. TagSize \in {6, 7} /\ text \in Converting
    BY DEF TagSize, TypeOK
  <2>2. text.len \in Nat /\ text.room \in Nat /\ text.i \in Nat /\ text.j \in Nat
    BY <2>1 DEF Converting
  <2>3. /\ text.i <= text.len /\ 3 * text.len <= text.room
        /\ 3 * text.j <= 7 * text.i /\ text.room > 0
    BY DEF FitInv
  <2>4. text.j < text.room
    BY <2>2, <2>3
  <2>5. text.len - text.i >= 3 => text.j + TagSize < 3 * text.len
    BY <2>1, <2>2, <2>3
  <2> QED
    BY <2>4, <2>5
<1>4. Inv => TypeOK
  BY DEF Inv
<1> QED
  BY <1>1, <1>2, <1>3, <1>4, Invariance, PTL DEF Spec

------------------------------------------------------------------------------
(* The outbox implements the log *)

\* A sequence is a prefix of what it is continued to.
LEMMA PrefixOfConcat ==
  ASSUME NEW S, NEW s \in Seq(S), NEW t \in Seq(S)
  PROVE  Outbox!IsPrefix(s, s \o t)
<1>1. /\ s \o t \in Seq(S) /\ Len(s \o t) = Len(s) + Len(t)
      /\ Len(s) \in Nat /\ Len(t) \in Nat
      /\ \A k \in 1 .. Len(s) + Len(t) : (s \o t)[k] = IF k <= Len(s) THEN s[k] ELSE t[k - Len(s)]
  BY ConcatProperties, LenProperties
<1>2. \A k \in 1 .. Len(s) : s[k] = (s \o t)[k]
  BY <1>1
<1>3. SubSeq(s, 1, Len(s)) = [k \in 1 .. Len(s) |-> s[k]]
      /\ SubSeq(s \o t, 1, Len(s)) = [k \in 1 .. Len(s) |-> (s \o t)[k]]
  <2>1. 1 \in Int /\ Len(s) \in Int /\ Len(s) - 1 + 1 = Len(s)
    BY <1>1
  <2>2. \A k \in 1 .. Len(s) : 1 + k - 1 = k
    BY <1>1
  <2> QED
    BY <2>1, <2>2, SubSeqProperties
<1> QED
  BY <1>1, <1>2, <1>3 DEF Outbox!IsPrefix

\* ... and keeps its items and their order.
LEMMA ItemsOfConcat ==
  ASSUME NEW S, NEW s \in Seq(S), NEW t \in Seq(S)
  PROVE  Outbox!Items(s) \subseteq Outbox!Items(s \o t)
         /\ Outbox!Order(s) \subseteq Outbox!Order(s \o t)
<1>1. /\ DOMAIN s = 1 .. Len(s) /\ DOMAIN (s \o t) = 1 .. Len(s) + Len(t)
      /\ Len(s) \in Nat /\ Len(t) \in Nat
      /\ \A k \in 1 .. Len(s) + Len(t) : (s \o t)[k] = IF k <= Len(s) THEN s[k] ELSE t[k - Len(s)]
  BY ConcatProperties, LenProperties
<1>2. \A k \in DOMAIN s : k \in DOMAIN (s \o t) /\ (s \o t)[k] = s[k]
  BY <1>1
<1>3. Outbox!Items(s) \subseteq Outbox!Items(s \o t)
  BY <1>2 DEF Outbox!Items
<1>4. Outbox!Order(s) \subseteq Outbox!Order(s \o t)
  BY <1>2, <1>3 DEF Outbox!Order
<1> QED
  BY <1>3, <1>4

\* A step that continues what was written and what was sent extends the log.
LEMMA ExtendStep ==
  ASSUME TypeOK, TypeOK', SentInOrder', NEW new \in Seq(Chunk), written' = written \o new,
         NEW moved \in Seq(Chunk), sent' = sent \o moved
  PROVE  Outbox!Extend
<1>1. sent \in Seq(Chunk) /\ written \in Seq(Chunk) /\ sent' \in Seq(Chunk)
      /\ out_messages' \in Seq(Chunk)
  BY DEF TypeOK
<1>2. Outbox!IsPrefix(sent, sent')
  BY <1>1, PrefixOfConcat
<1>3. Outbox!IsPrefix(sent', written')
  BY <1>1, PrefixOfConcat DEF SentInOrder
<1>4. Outbox!Items(written) \subseteq Outbox!Items(written')
      /\ Outbox!Order(written) \subseteq Outbox!Order(written')
  BY <1>1, ItemsOfConcat
<1> QED
  BY <1>2, <1>3, <1>4 DEF Outbox!Extend

\* Every step of the outbox is one of the log, or leaves it alone.
LEMMA LogStep ==
  ASSUME Inv, Inv', [Next]_vars
  PROVE  [Outbox!Next]_(Outbox!vars)
<1>1. TypeOK /\ TypeOK' /\ SentInOrder'
  BY DEF Inv
<1>2. CASE Write
  <2>0. PICK size \in TextSizes : Schedule(size)
    BY <1>2 DEF Write, TextSizes
  <2>1. Chunks(Len(sizes) + 1, size) \in Seq(Chunk)
    <3>1. size \in Nat \ {0} /\ Len(sizes) + 1 \in Nat \ {0}
      BY <1>1, LenProperties DEF TypeOK, TextSizes
    <3> QED
      BY <3>1, ChunksFit
  <2>2. sent \in Seq(Chunk) /\ <<>> \in Seq(Chunk) /\ sent \o <<>> = sent
    BY <1>1, EmptySeq, ConcatEmptySeq DEF TypeOK
  <2>3. written' = written \o Chunks(Len(sizes) + 1, size) /\ sent' = sent \o <<>>
    BY <2>0, <2>2 DEF Schedule
  <2> QED
    BY <1>1, <2>1, <2>2, <2>3, ExtendStep DEF Outbox!Next
<1>3. CASE SendAll
  <2>1. /\ written \in Seq(Chunk) /\ out_messages \in Seq(Chunk)
        /\ <<>> \in Seq(Chunk) /\ written \o <<>> = written
    BY <1>1, EmptySeq, ConcatEmptySeq DEF TypeOK
  <2>2. written' = written \o <<>> /\ sent' = sent \o out_messages
    BY <1>3, <2>1 DEF SendAll
  <2> QED
    BY <1>1, <2>1, <2>2, ExtendStep DEF Outbox!Next
<1>4. CASE \/ (\E n \in Lengths, wrapped \in BOOLEAN : Begin(n, wrapped))
           \/ (\E blank \in BOOLEAN : Copy(blank)) \/ Tag \/ Refuse
           \/ (\E k \in unanswered : Answer(k)) \/ WriteFiles \/ Login \/ UNCHANGED vars
  BY <1>4 DEF Begin, Copy, Tag, Refuse, Answer, WriteFiles, Login, vars, Outbox!vars
<1>5. CASE Close \/ WriteToNull
  BY <1>5 DEF Close, WriteToNull, Outbox!Next, Outbox!Disconnect
<1> QED
  BY <1>2, <1>3, <1>4, <1>5 DEF Next

\* The outbox is an implementation of the log: what the user wrote is never
\* reordered, doubled or taken back on its way to tgl.  (That it arrives is left to
\* the runs.)
THEOREM OutboxImplementsLog == Spec => Outbox!SafetySpec
<1>1. Init => Outbox!Init
  BY DEF Init, Outbox!Init
<1>2. Inv /\ Inv' /\ [Next]_vars => [Outbox!Next]_(Outbox!vars)
  BY LogStep
<1> QED
  BY <1>1, <1>2, Invariance, PTL DEF Spec, Outbox!SafetySpec
=============================================================================

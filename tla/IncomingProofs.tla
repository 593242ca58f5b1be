--------------------------- MODULE IncomingProofs ---------------------------
(***************************************************************************)
(* Proofs about Incoming, in three parts that build on each other: its     *)
(* type invariant and the order of the queue; what a message waits for;    *)
(* what the message window shows.                                          *)
(*                                                                         *)
(* PART ONE.  That the queue is first in, first out.  The argument: the    *)
(* place that a page of history is meant to go to is never found           *)
(* (PlaceAppends), so every handler appends to the log of accepted         *)
(* messages (ProcessInReadyLog), and what it appends is newer than         *)
(* everything in it.                                                       *)
(***************************************************************************)
EXTENDS Incoming, TLAPS, SequenceTheorems, FiniteSetTheorems

------------------------------------------------------------------------------
(* The queue *)

\* What tgp_msg_recv is given to search for is never the data of an element:
\* neither NULL nor the link that FindHigher returns.
LEMMA NeverFound ==
  ASSUME NEW sid, NEW i
  PROVE  Data(i) # Null /\ Data(i) # FindHigher(sid)
<1>1. Data(i) # Null
  BY DEF Data, Null
<1>2. \A x : Data(i) # Link(x)
  BY DEF Data, Link
<1> QED
  BY <1>1, <1>2 DEF FindHigher

\* Hence the new messages go to the tail of the queue.
LEMMA PlaceAppends ==
  ASSUME NEW q, NEW ids, NEW before, \A i : Data(i) # before
  PROVE  Place(q, before, ids) = q \o ids
<1> QED
  BY DEF Place

\* Splitting a sequence in two loses nothing.
LEMMA SplitSeq ==
  ASSUME NEW S, NEW q \in Seq(S), NEW k \in 0 .. Len(q)
  PROVE  /\ SubSeq(q, 1, k) \in Seq(S) /\ SubSeq(q, k + 1, Len(q)) \in Seq(S)
         /\ SubSeq(q, 1, k) \o SubSeq(q, k + 1, Len(q)) = q
<1>1. /\ Len(q) \in Nat /\ k \in Int
      /\ \A i \in 1 .. k : q[i] \in S
      /\ \A i \in k + 1 .. Len(q) : q[i] \in S
  BY ElementOfSeq
<1>2. SubSeq(q, 1, k) \in Seq(S) /\ SubSeq(q, k + 1, Len(q)) \in Seq(S)
  BY <1>1, SubSeqProperties
<1>3. 1 \in 1 .. Len(q) + 1 /\ k \in 1 - 1 .. Len(q) /\ Len(q) \in k .. Len(q)
  BY <1>1
<1>4. SubSeq(q, 1, k) \o SubSeq(q, k + 1, Len(q)) = SubSeq(q, 1, Len(q))
  BY ONLY q \in Seq(S), <1>3, ConcatAdjacentSubSeq, Zenon
<1> QED
  BY <1>2, <1>4, SubSeqFull

\* What tgp_msg_process_in_ready takes from the queue it adds to the log.
LEMMA ProcessInReadyLog ==
  ASSUME NEW S, printed \in Seq(S), NEW q \in Seq(S), NEW ld, ProcessInReady(q, ld)
  PROVE  /\ new_messages' \in Seq(S) /\ printed' \in Seq(S)
         /\ printed' \o new_messages' = printed \o q
<1>1. PICK k \in 0 .. Len(q) : /\ new_messages' = SubSeq(q, k + 1, Len(q))
                               /\ printed' = printed \o SubSeq(q, 1, k)
  BY DEF ProcessInReady
<1>2. /\ SubSeq(q, 1, k) \in Seq(S) /\ SubSeq(q, k + 1, Len(q)) \in Seq(S)
      /\ SubSeq(q, 1, k) \o SubSeq(q, k + 1, Len(q)) = q
  BY SplitSeq
<1>3. printed' \in Seq(S)
  BY <1>1, <1>2, ConcatProperties
<1>4. \A a, b, c \in Seq(S) : (a \o b) \o c = a \o (b \o c)
  BY ONLY ConcatAssociative, SMTT(30)
<1>5. (printed \o SubSeq(q, 1, k)) \o SubSeq(q, k + 1, Len(q))
        = printed \o (SubSeq(q, 1, k) \o SubSeq(q, k + 1, Len(q)))
  BY ONLY printed \in Seq(S), <1>2, <1>4, Zenon
<1> QED
  BY <1>1, <1>2, <1>3, <1>5

\* ... and the receipts it notes are due to peers.
LEMMA ProcessInReadyReads ==
  ASSUME pending_reads \subseteq Peers, NEW ld, NEW q \in Seq(DOMAIN ld),
         \A i \in DOMAIN ld : ld[i].msg \in Msgs,
         unread \subseteq DOMAIN ld, ProcessInReady(q, ld)
  PROVE  pending_reads' \subseteq Peers /\ unread' \subseteq DOMAIN ld
<1>1. \A m \in Msgs : ReadPeer(m) \in Peers
  BY MsgsAssumption DEF ReadPeer
<1>2. PICK k \in 0 .. Len(q) :
        LET due == unread \cup {q[j] : j \in 1 .. k}
            reads == ReadsAdd(pending_reads, {ReadPeer(ld[q[j]].msg) : j \in 1 .. k})
        IN  IF SendsReceipts
            THEN /\ pending_reads' = {}
                 /\ unread' = {i \in due : ReadPeer(ld[i].msg) \notin reads}
            ELSE pending_reads' = reads /\ unread' = due
  BY DEF ProcessInReady
<1>3. \A j \in 1 .. k : q[j] \in DOMAIN ld
  BY ElementOfSeq
<1>4. {ReadPeer(ld[q[j]].msg) : j \in 1 .. k} \subseteq Peers
  BY <1>1, <1>3
<1> QED
  BY <1>2, <1>3, <1>4 DEF ReadsAdd

------------------------------------------------------------------------------
(* Messages and pages *)

\* The counter of a new message is a number.
LEMMA WaitsType ==
  ASSUME NEW i, NEW open
  PROVE  Waits(i, open) \in Nat
<1> DEFINE ks == {k \in Kinds : <<i, k>> \in open}
<1>1. IsFiniteSet(Kinds)
  <2>1. IsFiniteSet({}) /\ IsFiniteSet({} \cup {"media"})
    BY FS_EmptySet, FS_AddElement
  <2>2. IsFiniteSet({"media"} \cup {"info"})
    BY <2>1, FS_AddElement
  <2>3. IsFiniteSet(({"media"} \cup {"info"}) \cup {"reply"})
    BY <2>2, FS_AddElement
  <2>4. Kinds = ({"media"} \cup {"info"}) \cup {"reply"}
    BY DEF Kinds
  <2> QED
    BY <2>3, <2>4
<1>2. IsFiniteSet(ks)
  BY <1>1, FS_Subset
<1> QED
  BY <1>2, FS_CardinalityType DEF Waits

\* Messages are answered for by kind.
LEMMA AskedKinds == \A m : Asked(m) \subseteq Kinds
BY DEF Asked, Kinds

\* The messages of a page, put in order, are a sequence of messages.
LEMMA OldestFirstType ==
  ASSUME NEW ms, ms \subseteq Msgs, NEW s \in OldestFirst(ms)
  PROVE  s \in Seq(Msgs) /\ \A i \in DOMAIN s : s[i] \in ms
<1>1. Cardinality(ms) \in Nat
  BY MsgsAssumption, FS_Subset, FS_CardinalityType
<1>2. s \in [1 .. Cardinality(ms) -> ms]
  BY DEF OldestFirst
<1>3. s \in Seq(ms)
  BY <1>1, <1>2
<1> QED
  BY <1>2, <1>3, SeqMonotonic

\* A page holds messages of the channel.
LEMMA PagesType ==
  ASSUME NEW ch, NEW D, NEW page \in Pages(ch, D)
  PROVE  page \subseteq Msgs
BY DEF Pages, ChannelMsgs

\* last_server_id stays a number when it jumps and when it advances.
LEMMA JumpsType ==
  ASSUME NEW last \in Nat, NEW page, page \subseteq Msgs, NEW l \in Jumps(last, page)
  PROVE  l \in Nat
BY MsgsAssumption DEF Jumps, Oldest

LEMMA AdvancedType ==
  ASSUME NEW last \in Nat, NEW S, S \subseteq Nat, NEW l \in Advanced(last, S)
  PROVE  l \in Nat /\ l >= last
BY DEF Advanced

------------------------------------------------------------------------------
(* The log of accepted messages *)

AcceptedLog == printed \o new_messages

\* The indices of the next n messages.
NewIds(n) == [i \in 1 .. n |-> Len(loading) + i]

\* Only the members of chats are asked for: with this the type invariant is
\* inductive, since the answer adds the chat to userList.
InfoOfChats ==
  \A i \in DOMAIN loading : <<i, "info">> \in requests => loading[i].msg.to \in Chats

\* What every handler leaves of the queue and of the receipts, when loading has
\* its type.
QueueOK ==
  /\ new_messages \in Seq(DOMAIN loading)
  /\ printed \in Seq(DOMAIN loading)
  /\ pending_reads \subseteq Peers
  /\ unread \subseteq DOMAIN loading

\* Printing what is ready keeps the log.
LEMMA PrintReady ==
  ASSUME TypeOK, loading' \in Seq(MsgLoading), Len(loading') >= Len(loading),
         NEW q \in Seq(DOMAIN loading'), ProcessInReady(q, loading')
  PROVE  QueueOK' /\ AcceptedLog' = printed \o q
<1>1. DOMAIN loading = 1 .. Len(loading) /\ DOMAIN loading' = 1 .. Len(loading')
  BY DEF TypeOK
<1>2. Len(loading) \in Nat /\ Len(loading') \in Nat
  BY DEF TypeOK
<1>3. DOMAIN loading \subseteq DOMAIN loading'
  BY <1>1, <1>2
<1>4. printed \in Seq(DOMAIN loading')
  BY <1>3, SeqMonotonic DEF TypeOK
<1>5. /\ new_messages' \in Seq(DOMAIN loading') /\ printed' \in Seq(DOMAIN loading')
      /\ printed' \o new_messages' = printed \o q
  BY <1>4, ProcessInReadyLog
<1>6. \A i \in DOMAIN loading' : loading'[i].msg \in Msgs
  <2>1. \A i \in DOMAIN loading' : loading'[i] \in MsgLoading
    BY <1>1, ElementOfSeq
  <2> QED
    BY <2>1 DEF MsgLoading
<1>7. pending_reads' \subseteq Peers /\ unread' \subseteq DOMAIN loading'
  <2>1. pending_reads \subseteq Peers /\ unread \subseteq DOMAIN loading'
    BY <1>3 DEF TypeOK
  <2> QED
    BY <1>6, <2>1, ProcessInReadyReads
<1>8. QueueOK'
  BY <1>5, <1>7, Zenon DEF QueueOK
<1>9. AcceptedLog' = printed' \o new_messages'
  BY DEF AcceptedLog
<1> QED
  BY <1>5, <1>8, <1>9

\* Accept appends the messages to loading, in order, and to the log.
LEMMA AcceptLog ==
  ASSUME TypeOK, InfoOfChats, NEW ms \in Seq(Msgs), NEW wait \in Nat, NEW before,
         \A i : Data(i) # before, NEW ld \in Seq(MsgLoading),
         Len(ld) = Len(loading), \A i \in DOMAIN loading : ld[i].msg = loading[i].msg,
         Accept(ms, wait, before, ld)
  PROVE  /\ loading' \in Seq(MsgLoading) /\ Len(loading') = Len(loading) + Len(ms)
         /\ requests' \subseteq (DOMAIN loading') \X Kinds
         /\ pending_chat_info' \subseteq Chats
         /\ QueueOK' /\ InfoOfChats'
         /\ AcceptedLog' = AcceptedLog \o NewIds(Len(ms))
<1> DEFINE n == Len(ld)
           asks == UNION {{<<n + i, k>> : k \in Asked(ms[i])} : i \in DOMAIN ms}
           new(cached) ==
             [i \in 1 .. Len(ms) |->
                Loading(ms[i], wait + Waits(n + i, asks \ cached), <<n + i, "media">> \in cached)]
           ids == [i \in 1 .. Len(ms) |-> n + i]
<1>1. PICK cached \in SUBSET {a \in asks : a[2] # "info"} :
        /\ loading' = ld \o new(cached)
        /\ requests' = requests \cup (asks \ cached)
        /\ pending_chat_info' = pending_chat_info
              \cup {ms[i].to : i \in {i \in DOMAIN ms : <<n + i, "info">> \in asks}}
        /\ ProcessInReady(Place(new_messages, before, ids), loading')
  BY DEF Accept
<1>2. n \in Nat /\ Len(ms) \in Nat /\ DOMAIN ms = 1 .. Len(ms)
  OBVIOUS
<1>3. new(cached) \in Seq(MsgLoading) /\ Len(new(cached)) = Len(ms)
  <2>1. ASSUME NEW i \in 1 .. Len(ms)
        PROVE  new(cached)[i] \in MsgLoading
    <3>1. ms[i] \in Msgs
      BY <1>2, ElementOfSeq
    <3>2. wait + Waits(n + i, asks \ cached) \in Int
      BY WaitsType
    <3>3. (<<n + i, "media">> \in cached) \in BOOLEAN
      OBVIOUS
    <3> QED
      BY <3>1, <3>2, <3>3, Zenon DEF Loading, MsgLoading
  <2> HIDE DEF new
  <2>2. new(cached) = [i \in 1 .. Len(ms) |-> new(cached)[i]]
    BY DEF new
  <2> QED
    BY <1>2, <2>1, <2>2
<1>4. loading' \in Seq(MsgLoading) /\ Len(loading') = n + Len(ms)
  <2>1. \A s, t \in Seq(MsgLoading) : s \o t \in Seq(MsgLoading) /\ Len(s \o t) = Len(s) + Len(t)
    BY ConcatProperties
  <2> HIDE DEF new
  <2>2. ld \o new(cached) \in Seq(MsgLoading) /\ Len(ld \o new(cached)) = n + Len(ms)
    BY ONLY ld \in Seq(MsgLoading), <1>3, <2>1
  <2> QED
    BY ONLY <1>1, <2>2
<1>5. DOMAIN loading' = 1 .. n + Len(ms) /\ DOMAIN loading = 1 .. n
  BY <1>2, <1>4 DEF TypeOK
<1>6. requests' \subseteq (DOMAIN loading') \X Kinds
  <2>1. asks \subseteq (DOMAIN loading') \X Kinds
    BY <1>2, <1>5, AskedKinds
  <2>2. requests \subseteq (DOMAIN loading') \X Kinds
    BY <1>2, <1>5 DEF TypeOK
  <2> QED
    BY <1>1, <2>1, <2>2
<1>7. \A i \in DOMAIN ms : <<n + i, "info">> \in asks => ms[i].to \in Chats
  <2>1. ASSUME NEW i \in DOMAIN ms, <<n + i, "info">> \in asks
        PROVE  ms[i].to \in Chats
    <3>1. PICK j \in DOMAIN ms : \E k \in Asked(ms[j]) : <<n + i, "info">> = <<n + j, k>>
      BY <2>1
    <3>2. i = j /\ "info" \in Asked(ms[j])
      BY <1>2, <3>1
    <3> QED
      BY <3>2 DEF Asked
  <2> QED
    BY <2>1
<1>13. pending_chat_info' \subseteq Chats
  BY <1>1, <1>7 DEF TypeOK
<1>14. InfoOfChats'
  <2> HIDE DEF new
  <2>1. \A i \in 1 .. n : loading'[i] = ld[i]
    BY ONLY <1>1, <1>2, <1>3, ld \in Seq(MsgLoading), ConcatProperties
  <2>2. \A i \in 1 .. Len(ms) : loading'[n + i] = new(cached)[i]
    BY ONLY <1>1, <1>2, <1>3, ld \in Seq(MsgLoading), ConcatProperties
  <2>3. \A i \in 1 .. Len(ms) : new(cached)[i].msg = ms[i]
    BY DEF new, Loading
  <2>4. SUFFICES ASSUME NEW i \in 1 .. n + Len(ms), <<i, "info">> \in requests'
                 PROVE  loading'[i].msg.to \in Chats
    BY <1>5 DEF InfoOfChats
  <2>5. CASE <<i, "info">> \in requests
    <3>1. i \in DOMAIN loading
      BY <2>5 DEF TypeOK
    <3> QED
      BY <1>5, <2>1, <2>5, <3>1 DEF InfoOfChats
  <2>6. CASE <<i, "info">> \in asks
    <3>1. PICK j \in DOMAIN ms : \E k \in Asked(ms[j]) : <<i, "info">> = <<n + j, k>>
      BY <2>6
    <3>2. i = n + j /\ j \in 1 .. Len(ms)
      BY <1>2, <3>1
    <3>3. ms[j].to \in Chats
      BY <1>7, <2>6, <3>1, <3>2
    <3>4. loading'[n + j].msg = ms[j]
      BY <2>2, <2>3, <3>2
    <3> QED
      BY <3>2, <3>3, <3>4
  <2> QED
    BY <1>1, <2>4, <2>5, <2>6
<1>8. ids \in Seq(DOMAIN loading') /\ new_messages \in Seq(DOMAIN loading')
  <2>1. ids \in Seq(DOMAIN loading')
    BY <1>2, <1>5
  <2>2. DOMAIN loading \subseteq DOMAIN loading'
    BY <1>2, <1>5
  <2> QED
    BY <2>1, <2>2, SeqMonotonic DEF TypeOK
<1>9. new_messages \o ids \in Seq(DOMAIN loading')
  BY <1>8, ConcatProperties
<1>10. ProcessInReady(new_messages \o ids, loading')
  BY <1>1, PlaceAppends
<1>11. QueueOK' /\ AcceptedLog' = printed \o (new_messages \o ids)
  <2>1. \A q \in Seq(DOMAIN loading') :
          ProcessInReady(q, loading') => QueueOK' /\ AcceptedLog' = printed \o q
    BY <1>2, <1>4, PrintReady
  <2> HIDE DEF ids
  <2> QED
    BY <1>9, <1>10, <2>1, Zenon
<1>12. AcceptedLog' = AcceptedLog \o ids
  <2>1. printed \in Seq(DOMAIN loading')
    BY <1>2, <1>5, SeqMonotonic DEF TypeOK
  <2> HIDE DEF ids
  <2>2. (printed \o new_messages) \o ids = printed \o (new_messages \o ids)
    BY <1>8, <2>1, ConcatAssociative
  <2> QED
    BY <1>11, <2>2 DEF AcceptedLog
<1> QED
  BY <1>2, <1>4, <1>6, <1>13, <1>11, <1>12, <1>14 DEF NewIds

------------------------------------------------------------------------------
(* The steps *)

\* What a step may do to the log: nothing, append the messages it adds to
\* loading, or drop it with the connection.
LogStep ==
  \/ AcceptedLog' = AcceptedLog
  \/ \E n \in Nat : /\ Len(loading') = Len(loading) + n
                    /\ AcceptedLog' = AcceptedLog \o NewIds(n)
  \/ proc' # "up" /\ AcceptedLog' = <<>>

\* loading and what refers to it: the variables that most steps touch.
CoreOK ==
  /\ loading \in Seq(MsgLoading)
  /\ QueueOK
  /\ requests \subseteq (DOMAIN loading) \X Kinds
  /\ pending_chat_info \subseteq Chats
  /\ InfoOfChats

ChannelsOK ==
  /\ pending_channels \in [Channels -> ChannelLoading(DOMAIN loading)]
  /\ channel_members \in [Channels -> Nat]
  /\ last_server_id \in [Channels -> Nat]
  /\ covered \in [Channels -> [from : Nat, upto : Nat]]

RestOK ==
  /\ proc \in {"up", "down", "crashed"}
  /\ sessions \in 0 .. MaxSessions
  /\ present \in BOOLEAN
  /\ userList \subseteq Chats
  /\ posted \in [Channels -> Nat]
  /\ delivered \in [Channels -> Nat]
  /\ arrived \subseteq Msgs

\* The inductive type invariant, and its parts.
TypeInv == TypeOK /\ InfoOfChats

LEMMA TypeParts ==
  /\ TypeInv <=> CoreOK /\ ChannelsOK /\ RestOK
  /\ TypeInv' <=> CoreOK' /\ ChannelsOK' /\ RestOK'
BY DEF TypeInv, TypeOK, CoreOK, ChannelsOK, RestOK, QueueOK

\* loading only grows, so that what refers to it keeps its type.
LEMMA LoadingGrows ==
  ASSUME TypeOK, loading' \in Seq(MsgLoading), Len(loading') >= Len(loading)
  PROVE  /\ DOMAIN loading \subseteq DOMAIN loading'
         /\ pending_channels \in [Channels -> ChannelLoading(DOMAIN loading')]
         /\ requests \subseteq (DOMAIN loading') \X Kinds
         /\ UNCHANGED <<new_messages, printed, pending_reads, unread>>
              => QueueOK' /\ AcceptedLog' = AcceptedLog
<1>1. DOMAIN loading = 1 .. Len(loading) /\ DOMAIN loading' = 1 .. Len(loading')
  BY DEF TypeOK
<1>2. Len(loading) \in Nat /\ Len(loading') \in Nat
  BY DEF TypeOK
<1>3. DOMAIN loading \subseteq DOMAIN loading'
  BY <1>1, <1>2
<1>4. pending_channels \in [Channels -> ChannelLoading(DOMAIN loading')]
  <2>1. ChannelLoading(DOMAIN loading) \subseteq ChannelLoading(DOMAIN loading')
    BY <1>3 DEF ChannelLoading
  <2> QED
    BY <2>1 DEF TypeOK
<1>5. requests \subseteq (DOMAIN loading') \X Kinds
  BY <1>3 DEF TypeOK
<1>6. ASSUME UNCHANGED <<new_messages, printed, pending_reads, unread>>
      PROVE  QueueOK' /\ AcceptedLog' = AcceptedLog
  <2>1. new_messages' \in Seq(DOMAIN loading') /\ printed' \in Seq(DOMAIN loading')
    BY <1>3, <1>6, SeqMonotonic DEF TypeOK
  <2>2. pending_reads' \subseteq Peers /\ unread' \subseteq DOMAIN loading'
    BY <1>3, <1>6 DEF TypeOK
  <2>3. QueueOK'
    BY <2>1, <2>2, Zenon DEF QueueOK
  <2>4. AcceptedLog' = AcceptedLog
    BY <1>6 DEF AcceptedLog
  <2> QED
    BY <2>3, <2>4
<1> QED
  BY <1>3, <1>4, <1>5, <1>6

\* A message that is received.
LEMMA RecvType ==
  ASSUME TypeOK, InfoOfChats, NEW m \in Msgs, RecvDirect(m) \/ RecvInChannel(m),
         UNCHANGED <<channel_members, covered>>
  PROVE  CoreOK' /\ ChannelsOK' /\ LogStep
<1>1. <<m>> \in Seq(Msgs) /\ Len(<<m>>) = 1
  OBVIOUS
<1>2. \A i : Data(i) # Null
  BY NeverFound
<1>3. loading \in Seq(MsgLoading) /\ Len(loading) \in Nat
  BY DEF TypeOK
<1>4. ASSUME NEW wait \in Nat, Accept(<<m>>, wait, Null, loading)
      PROVE  CoreOK' /\ LogStep /\ Len(loading') = Len(loading) + 1
  <2>1. /\ loading' \in Seq(MsgLoading) /\ Len(loading') = Len(loading) + 1
        /\ requests' \subseteq (DOMAIN loading') \X Kinds
        /\ pending_chat_info' \subseteq Chats
        /\ QueueOK' /\ InfoOfChats'
        /\ AcceptedLog' = AcceptedLog \o NewIds(1)
    BY <1>1, <1>2, <1>3, <1>4, AcceptLog
  <2> QED
    BY <2>1 DEF CoreOK, LogStep
<1>5. CASE RecvDirect(m)
  <2>1. CoreOK' /\ LogStep /\ Len(loading') = Len(loading) + 1
    BY <1>4, <1>5 DEF RecvDirect
  <2>2. UNCHANGED <<pending_channels, last_server_id, channel_members, covered>>
    BY <1>5 DEF RecvDirect
  <2>3. loading' \in Seq(MsgLoading) /\ Len(loading') >= Len(loading)
    BY <1>3, <2>1 DEF CoreOK
  <2>4. pending_channels' \in [Channels -> ChannelLoading(DOMAIN loading')]
    BY <2>2, <2>3, LoadingGrows
  <2>5. ChannelsOK'
    BY <2>2, <2>4 DEF ChannelsOK, TypeOK
  <2> QED
    BY <2>1, <2>5
<1>6. CASE RecvInChannel(m)
  <2> DEFINE ch == ChannelOf(m)
             i == Len(loading) + 1
  <2>1. ch \in Channels
    BY <1>6 DEF RecvInChannel, InChannel, ChannelOf
  <2>2. Wait(ch) \in Nat
    BY DEF Wait
  <2>3. /\ CoreOK' /\ LogStep /\ Len(loading') = i
        /\ last_server_id' \in [Channels -> Nat]
    <3>1. CASE /\ loading' = Append(loading, Loading(m, Wait(ch), FALSE))
               /\ UNCHANGED <<new_messages, printed, requests, pending_chat_info,
                              pending_reads, unread, last_server_id>>
      <4>1. Loading(m, Wait(ch), FALSE) \in MsgLoading
        BY <2>2 DEF Loading, MsgLoading
      <4>2. loading' \in Seq(MsgLoading) /\ Len(loading') = i
        BY <1>3, <3>1, <4>1, AppendProperties
      <4>3. /\ requests' \subseteq (DOMAIN loading') \X Kinds
            /\ QueueOK' /\ AcceptedLog' = AcceptedLog
        BY <1>3, <3>1, <4>2, LoadingGrows
      <4>4. pending_chat_info' \subseteq Chats /\ last_server_id' \in [Channels -> Nat]
        BY <3>1 DEF TypeOK
      <4>5. InfoOfChats'
        <5>1. \A j \in 1 .. Len(loading) : loading'[j] = loading[j]
          BY ONLY <1>3, <3>1, <4>1, AppendProperties
        <5>2. \A j : <<j, "info">> \in requests' => j \in DOMAIN loading
          BY <3>1 DEF TypeOK
        <5>3. DOMAIN loading = 1 .. Len(loading)
          BY <1>3
        <5> QED
          BY <3>1, <5>1, <5>2, <5>3 DEF InfoOfChats
      <4> QED
        BY <4>2, <4>3, <4>4, <4>5 DEF CoreOK, LogStep
    <3>2. CASE /\ \E l \in Advanced(last_server_id[ch], {m.sid}) :
                    last_server_id' = [last_server_id EXCEPT ![ch] = l]
               /\ Accept(<<m>>, Wait(ch), Null, loading)
      <4>1. CoreOK' /\ LogStep /\ Len(loading') = i
        BY <1>4, <2>2, <3>2
      <4>2. last_server_id[ch] \in Nat /\ {m.sid} \subseteq Nat
        BY <2>1, MsgsAssumption DEF TypeOK
      <4>3. last_server_id' \in [Channels -> Nat]
        BY <3>2, <4>2, AdvancedType DEF TypeOK
      <4> QED
        BY <4>1, <4>3
    <3> QED
      BY <1>6, <3>1, <3>2 DEF RecvInChannel
  <2>4. pending_channels' \in [Channels -> ChannelLoading(DOMAIN loading')]
    <3>1. pending_channels \in [Channels -> ChannelLoading(DOMAIN loading')]
      BY <1>3, <2>3, LoadingGrows DEF CoreOK
    <3>2. i \in DOMAIN loading'
      BY <1>3, <2>3 DEF CoreOK
    <3>3. posted[ch] \in Nat /\ last_server_id[ch] \in Nat
      BY <2>1 DEF TypeOK
    <3>4. ASSUME NEW D \in ChannelLoading(DOMAIN loading')
          PROVE  Register(D, ch, i) \in ChannelLoading(DOMAIN loading')
      BY <3>2, <3>3 DEF Register, ChannelLoading, Phases
    <3> QED
      BY <1>6, <2>1, <3>1, <3>4 DEF RecvInChannel
  <2>5. ChannelsOK'
    BY <2>3, <2>4 DEF ChannelsOK, TypeOK
  <2> QED
    BY <2>3, <2>5
<1> QED
  BY <1>5, <1>6

\* An answer: the queue is as it was, and its head may be ready now.
LEMMA ReadyType ==
  ASSUME TypeOK, loading' \in Seq(MsgLoading), Len(loading') = Len(loading),
         ProcessInReady(new_messages, loading')
  PROVE  /\ QueueOK' /\ AcceptedLog' = AcceptedLog
         /\ DOMAIN loading' = DOMAIN loading
<1>1. DOMAIN loading' = DOMAIN loading /\ Len(loading) \in Nat
  BY DEF TypeOK
<1>2. new_messages \in Seq(DOMAIN loading')
  BY <1>1 DEF TypeOK
<1>3. Len(loading') >= Len(loading)
  BY <1>1
<1>4. QueueOK' /\ AcceptedLog' = printed \o new_messages
  BY <1>2, <1>3, PrintReady
<1> QED
  BY <1>1, <1>4 DEF AcceptedLog

\* Changing one tgp_msg_loading keeps the type of loading.
LEMMA LoadingExcept ==
  ASSUME TypeOK, NEW i \in DOMAIN loading, NEW c \in MsgLoading
  PROVE  /\ [loading EXCEPT ![i] = c] \in Seq(MsgLoading)
         /\ Len([loading EXCEPT ![i] = c]) = Len(loading)
BY ExceptSeq DEF TypeOK

LEMMA RecordExcept ==
  ASSUME NEW M, NEW P, NEW B, NEW c \in [msg : M, pending : P, data : B, error : B],
         NEW p \in P, NEW x \in B, NEW y \in B
  PROVE  LET d == [c EXCEPT !.pending = p, !.data = x, !.error = y]
         IN  d \in [msg : M, pending : P, data : B, error : B] /\ d.msg = c.msg
OBVIOUS

LEMMA AnswerType ==
  ASSUME TypeInv, NEW i \in DOMAIN loading, Answer(i)
  PROVE  TypeInv' /\ LogStep
<1> USE DEF TypeInv
<1>1. loading[i] \in MsgLoading
  <2>1. i \in 1 .. Len(loading)
    BY DEF TypeOK
  <2> QED
    BY <2>1, ElementOfSeq DEF TypeOK
<1>2. ASSUME NEW c \in MsgLoading, c.msg = loading[i].msg, loading' = [loading EXCEPT ![i] = c],
             ProcessInReady(new_messages, loading'),
             requests' \subseteq requests, userList' \subseteq Chats
      PROVE  TypeInv' /\ LogStep
  <2>1. loading' \in Seq(MsgLoading) /\ Len(loading') = Len(loading)
    BY <1>2, LoadingExcept
  <2>2. QueueOK' /\ AcceptedLog' = AcceptedLog /\ DOMAIN loading' = DOMAIN loading
    BY <1>2, <2>1, ReadyType
  <2>5. \A j \in DOMAIN loading : loading'[j].msg = loading[j].msg
    BY <1>2 DEF TypeOK
  <2>6. InfoOfChats'
    BY <1>2, <2>2, <2>5 DEF InfoOfChats
  <2>3. CoreOK'
    BY <1>2, <2>1, <2>2, <2>6 DEF CoreOK, TypeOK, Answer
  <2>4. ChannelsOK' /\ RestOK'
    BY <1>2, <2>2 DEF ChannelsOK, RestOK, TypeOK, Answer, server
  <2> QED
    BY <2>2, <2>3, <2>4, TypeParts DEF LogStep
<1>3. ASSUME NEW success \in BOOLEAN, DocumentLoaded(i, success)
      PROVE  TypeInv' /\ LogStep
  <2> DEFINE c == [loading[i] EXCEPT !.pending = @ - 1, !.data = success, !.error = ~success]
  <2>4. (~success) \in BOOLEAN /\ loading[i].pending - 1 \in Int
    BY <1>1 DEF MsgLoading
  <2>1. c \in MsgLoading /\ c.msg = loading[i].msg
    BY <1>1, <1>3, <2>4, RecordExcept, Zenon DEF MsgLoading
  <2>2. loading' = [loading EXCEPT ![i] = c]
    BY <1>3 DEF DocumentLoaded
  <2>3. /\ ProcessInReady(new_messages, loading')
        /\ requests' \subseteq requests /\ userList' \subseteq Chats
    BY <1>3 DEF DocumentLoaded, TypeOK
  <2> QED
    BY <1>2, <2>1, <2>2, <2>3
<1>4. ASSUME NEW success \in BOOLEAN, ChatInfoLoaded(i, success)
      PROVE  TypeInv' /\ LogStep
  <2> DEFINE c == [loading[i] EXCEPT !.pending = @ - 1]
  <2>1. c \in MsgLoading /\ c.msg = loading[i].msg
    BY <1>1 DEF MsgLoading
  <2>2. loading' = [loading EXCEPT ![i] = c]
    BY <1>4 DEF ChatInfoLoaded
  <2>3. loading[i].msg.to \in Chats
    BY <1>4 DEF ChatInfoLoaded, InfoOfChats
  <2>4. /\ ProcessInReady(new_messages, loading')
        /\ requests' \subseteq requests /\ userList' \subseteq Chats
    BY <1>4, <2>3 DEF ChatInfoLoaded, TypeOK
  <2> QED
    BY <1>2, <2>1, <2>2, <2>4
<1>5. ASSUME ReplyLoaded(i)
      PROVE  TypeInv' /\ LogStep
  <2> DEFINE c == [loading[i] EXCEPT !.pending = @ - 1]
  <2>1. c \in MsgLoading /\ c.msg = loading[i].msg
    BY <1>1 DEF MsgLoading
  <2>2. loading' = [loading EXCEPT ![i] = c]
    BY <1>5 DEF ReplyLoaded
  <2>3. /\ ProcessInReady(new_messages, loading')
        /\ requests' \subseteq requests /\ userList' \subseteq Chats
    BY <1>5 DEF ReplyLoaded, TypeOK
  <2> QED
    BY <1>2, <2>1, <2>2, <2>3
<1> QED
  BY <1>3, <1>4, <1>5 DEF Answer

------------------------------------------------------------------------------
(* The steps that load a channel *)

\* The callbacks of a load count down, and change nothing else.
LEMMA NotifiedType ==
  ASSUME TypeOK, NEW cbs
  PROVE  /\ Notified(loading, cbs) \in Seq(MsgLoading)
         /\ Len(Notified(loading, cbs)) = Len(loading)
         /\ \A i \in DOMAIN loading : Notified(loading, cbs)[i].msg = loading[i].msg
<1>1. DOMAIN loading = 1 .. Len(loading) /\ Len(loading) \in Nat
  BY DEF TypeOK
<1>2. ASSUME NEW i \in DOMAIN loading
      PROVE  /\ Notified(loading, cbs)[i] \in MsgLoading
             /\ Notified(loading, cbs)[i].msg = loading[i].msg
  <2>1. loading[i] \in MsgLoading
    BY <1>1, ElementOfSeq DEF TypeOK
  <2>2. /\ [loading[i] EXCEPT !.pending = @ - 1] \in MsgLoading
        /\ [loading[i] EXCEPT !.pending = @ - 1].msg = loading[i].msg
    BY <2>1 DEF MsgLoading
  <2>3. Notified(loading, cbs)[i] = IF i \in cbs THEN [loading[i] EXCEPT !.pending = @ - 1]
                                    ELSE loading[i]
    BY DEF Notified
  <2> QED
    BY <2>1, <2>2, <2>3
<1>3. DOMAIN Notified(loading, cbs) = 1 .. Len(loading)
  BY <1>1 DEF Notified
<1>4. Notified(loading, cbs) = [i \in 1 .. Len(loading) |-> Notified(loading, cbs)[i]]
  BY <1>1 DEF Notified
<1> QED
  BY <1>1, <1>2, <1>3, <1>4

\* The tables of a finished load.
LEMMA FinishedType ==
  ASSUME NEW ch \in Channels, NEW ids, NEW D \in ChannelLoading(DOMAIN loading),
         pending_channels \in [Channels -> ChannelLoading(ids)],
         channel_members \in [Channels -> Nat], Finished(ch, D)
  PROVE  /\ pending_channels' \in [Channels -> ChannelLoading(ids)]
         /\ channel_members' \in [Channels -> Nat]
<1>1. [NoLoad EXCEPT !.phase = "done"] \in ChannelLoading(ids)
  BY DEF NoLoad, ChannelLoading, Phases
<1>2. D.members \in Nat
  BY DEF ChannelLoading
<1> QED
  BY <1>1, <1>2 DEF Finished

LEMMA LoadFinishType ==
  ASSUME TypeInv, NEW ch \in Channels, LoadFinish(ch, pending_channels[ch]),
         UNCHANGED <<last_server_id, covered>>
  PROVE  CoreOK' /\ ChannelsOK' /\ LogStep
<1> DEFINE D == pending_channels[ch]
<1> USE DEF TypeInv
<1>1. loading' = Notified(loading, D.cbs)
  BY DEF LoadFinish
<1>2. /\ loading' \in Seq(MsgLoading) /\ Len(loading') = Len(loading)
      /\ \A i \in DOMAIN loading : loading'[i].msg = loading[i].msg
  BY <1>1, NotifiedType
<1>3. QueueOK' /\ AcceptedLog' = AcceptedLog /\ DOMAIN loading' = DOMAIN loading
  BY <1>2, ReadyType DEF LoadFinish
<1>4. InfoOfChats'
  BY <1>2, <1>3 DEF InfoOfChats, LoadFinish
<1>5. CoreOK'
  BY <1>2, <1>3, <1>4 DEF CoreOK, TypeOK, LoadFinish
<1>6. ChannelsOK'
  <2>1. /\ pending_channels' \in [Channels -> ChannelLoading(DOMAIN loading)]
        /\ channel_members' \in [Channels -> Nat]
    BY FinishedType DEF LoadFinish, TypeOK
  <2> QED
    BY <1>3, <2>1 DEF ChannelsOK, TypeOK
<1> QED
  BY <1>3, <1>5, <1>6 DEF LogStep

\* The entry of covered after a page.
Covered(ch, D, page, jumped) ==
  [from |-> IF jumped = last_server_id[ch] THEN covered[ch].from ELSE jumped,
   upto |-> IF page = {} THEN covered[ch].upto ELSE D.asked]

LEMMA HistoryReceivedType ==
  ASSUME TypeInv, NEW ch \in Channels, NEW page, page \subseteq Msgs,
         NEW jumped \in Jumps(last_server_id[ch], page),
         HistoryReceived(ch, pending_channels[ch], page, jumped)
  PROVE  CoreOK' /\ ChannelsOK' /\ LogStep
<1> DEFINE D == pending_channels[ch]
<1> USE DEF TypeInv
<1>1. /\ last_server_id[ch] \in Nat /\ D \in ChannelLoading(DOMAIN loading)
      /\ Len(loading) \in Nat /\ loading \in Seq(MsgLoading)
  BY DEF TypeOK
<1>2. jumped \in Nat
  BY <1>1, JumpsType
<1>3. PICK ms \in OldestFirst({m \in page : m.sid > jumped /\ ~m.old}) :
        /\ \E l \in Advanced(jumped, {ms[i].sid : i \in DOMAIN ms}) :
             last_server_id' = [last_server_id EXCEPT ![ch] = l]
        /\ covered' = [covered EXCEPT ![ch] = Covered(ch, D, page, jumped)]
        /\ IF ch \in Megagroups
           THEN /\ pending_channels' = [pending_channels EXCEPT ![ch].phase = "members",
                     ![ch].cbs = @ \cup {Len(loading) + i : i \in DOMAIN ms}]
                /\ Accept(ms, 1, FindHigher(jumped), loading)
                /\ UNCHANGED channel_members
           ELSE /\ Finished(ch, D)
                /\ Accept(ms, 0, FindHigher(jumped), Notified(loading, D.cbs))
  BY DEF HistoryReceived, Covered
<1>4. ms \in Seq(Msgs) /\ Len(ms) \in Nat
  BY OldestFirstType
<1>10. covered' \in [Channels -> [from : Nat, upto : Nat]]
  <2>1. D.asked \in Nat /\ covered[ch] \in [from : Nat, upto : Nat]
    BY <1>1 DEF ChannelLoading, TypeOK
  <2>2. Covered(ch, D, page, jumped) \in [from : Nat, upto : Nat]
    BY <1>2, <2>1 DEF Covered
  <2> QED
    BY <1>3, <2>2 DEF TypeOK
<1>5. last_server_id' \in [Channels -> Nat]
  <2>1. \A i \in DOMAIN ms : ms[i].sid \in Nat
    <3>1. \A i \in DOMAIN ms : ms[i] \in Msgs
      BY OldestFirstType
    <3> QED
      BY <3>1, MsgsAssumption
  <2>2. {ms[i].sid : i \in DOMAIN ms} \subseteq Nat
    BY <2>1
  <2>3. \A l \in Advanced(jumped, {ms[i].sid : i \in DOMAIN ms}) : l \in Nat
    BY <1>2, <2>2, AdvancedType
  <2> QED
    BY <1>2, <1>3, <2>3 DEF TypeOK
<1>6. \A i : Data(i) # FindHigher(jumped)
  BY NeverFound
<1>7. ASSUME NEW wait \in Nat, NEW ld \in Seq(MsgLoading), Len(ld) = Len(loading),
             \A i \in DOMAIN loading : ld[i].msg = loading[i].msg,
             Accept(ms, wait, FindHigher(jumped), ld)
      PROVE  CoreOK' /\ LogStep /\ Len(loading') = Len(loading) + Len(ms)
  <2>1. /\ loading' \in Seq(MsgLoading) /\ Len(loading') = Len(loading) + Len(ms)
        /\ requests' \subseteq (DOMAIN loading') \X Kinds
        /\ pending_chat_info' \subseteq Chats
        /\ QueueOK' /\ InfoOfChats'
        /\ AcceptedLog' = AcceptedLog \o NewIds(Len(ms))
    BY <1>4, <1>6, <1>7, AcceptLog
  <2> QED
    BY <1>4, <2>1 DEF CoreOK, LogStep
<1>8. CASE ch \in Megagroups
  <2>1. CoreOK' /\ LogStep /\ Len(loading') = Len(loading) + Len(ms)
    BY <1>1, <1>3, <1>7, <1>8
  <2>2. pending_channels \in [Channels -> ChannelLoading(DOMAIN loading')]
    BY <1>1, <1>4, <2>1, LoadingGrows DEF CoreOK
  <2>3. {Len(loading) + i : i \in DOMAIN ms} \subseteq DOMAIN loading'
    <3>1. DOMAIN loading' = 1 .. Len(loading) + Len(ms) /\ DOMAIN ms = 1 .. Len(ms)
      BY <1>4, <2>1 DEF CoreOK
    <3> QED
      BY <1>1, <1>4, <3>1
  <2>4. ASSUME NEW E \in ChannelLoading(DOMAIN loading')
        PROVE  [E EXCEPT !.phase = "members", !.cbs = @ \cup {Len(loading) + i : i \in DOMAIN ms}]
                 \in ChannelLoading(DOMAIN loading')
    BY <2>3 DEF ChannelLoading, Phases
  <2>5. pending_channels' = [pending_channels EXCEPT ![ch] =
          [D EXCEPT !.phase = "members", !.cbs = @ \cup {Len(loading) + i : i \in DOMAIN ms}]]
    BY <1>3, <1>8
  <2>6. pending_channels' \in [Channels -> ChannelLoading(DOMAIN loading')]
    BY <2>2, <2>4, <2>5
  <2>7. channel_members' \in [Channels -> Nat]
    BY <1>3, <1>8 DEF TypeOK
  <2> QED
    BY <1>5, <1>10, <2>1, <2>6, <2>7 DEF ChannelsOK
<1>9. CASE ch \notin Megagroups
  <2>1. CoreOK' /\ LogStep /\ Len(loading') = Len(loading) + Len(ms)
    <3>1. Accept(ms, 0, FindHigher(jumped), Notified(loading, D.cbs))
      BY <1>3, <1>9
    <3> QED
      BY <1>7, <3>1, NotifiedType
  <2>2. pending_channels \in [Channels -> ChannelLoading(DOMAIN loading')]
    BY <1>1, <1>4, <2>1, LoadingGrows DEF CoreOK
  <2>3. /\ pending_channels' \in [Channels -> ChannelLoading(DOMAIN loading')]
        /\ channel_members' \in [Channels -> Nat]
    BY <1>1, <1>3, <1>9, <2>2, FinishedType DEF TypeOK
  <2> QED
    BY <1>5, <1>10, <2>1, <2>3 DEF ChannelsOK
<1> QED
  BY <1>8, <1>9

\* A step that leaves loading and the queue alone.
LEMMA CoreStays ==
  ASSUME TypeInv,
         UNCHANGED <<loading, new_messages, printed, requests, pending_chat_info,
                     pending_reads, unread>>
  PROVE  CoreOK' /\ LogStep
<1>1. CoreOK
  BY TypeParts
<1>2. CoreOK'
  BY <1>1 DEF CoreOK, QueueOK, InfoOfChats
<1> QED
  BY <1>2 DEF LogStep, AcceptedLog

\* A load that goes on with another query.
LEMMA NextPhase ==
  ASSUME TypeInv, NEW ch \in Channels, UNCHANGED <<loading, channel_members, last_server_id, covered>>,
         NEW D \in ChannelLoading(DOMAIN loading),
         pending_channels' = [pending_channels EXCEPT ![ch] = D]
  PROVE  ChannelsOK'
BY DEF TypeInv, TypeOK, ChannelsOK

LEMMA ChannelListedType ==
  ASSUME TypeInv, NEW ch \in Channels, ChannelListed(ch)
  PROVE  TypeInv' /\ LogStep
<1>1. CoreOK' /\ LogStep
  BY CoreStays DEF ChannelListed
<1>2. ChannelsOK'
  <2> DEFINE D == [phase |-> "history", asked |-> posted[ch], min |-> last_server_id[ch],
                   cbs |-> {}, members |-> 0]
  <2>1. D \in ChannelLoading(DOMAIN loading)
    BY DEF TypeInv, TypeOK, ChannelLoading, Phases
  <2>2. pending_channels' = [pending_channels EXCEPT ![ch] = D]
    BY DEF ChannelListed
  <2> HIDE DEF D
  <2>3. UNCHANGED <<loading, channel_members, last_server_id, covered>>
    BY DEF ChannelListed
  <2> QED
    BY <2>1, <2>2, <2>3, NextPhase
<1>3. RestOK'
  BY DEF ChannelListed, RestOK, TypeInv, TypeOK, server
<1> QED
  BY <1>1, <1>2, <1>3, TypeParts

LEMMA GetHistoryDoneType ==
  ASSUME TypeInv, NEW ch \in Channels, GetHistoryDone(ch)
  PROVE  TypeInv' /\ LogStep
<1> DEFINE D == pending_channels[ch]
<1>1. RestOK'
  BY DEF GetHistoryDone, RestOK, TypeInv, TypeOK, server
<1>2. CoreOK' /\ ChannelsOK' /\ LogStep
  <2>1. ASSUME NEW page \in Pages(ch, D), NEW jumped \in Jumps(last_server_id[ch], page),
               HistoryReceived(ch, D, page, jumped)
        PROVE  CoreOK' /\ ChannelsOK' /\ LogStep
    BY <2>1, PagesType, HistoryReceivedType
  <2>2. ASSUME HistoryFailed(ch, D), ch \in Megagroups
        PROVE  CoreOK' /\ ChannelsOK' /\ LogStep
    <3>1. UNCHANGED <<loading, new_messages, printed, requests, pending_chat_info,
                      channel_members, pending_reads, unread, last_server_id, covered>>
      BY <2>2 DEF HistoryFailed
    <3>2. [D EXCEPT !.phase = "members"] \in ChannelLoading(DOMAIN loading)
      BY DEF TypeInv, TypeOK, ChannelLoading, Phases
    <3>3. pending_channels' = [pending_channels EXCEPT ![ch] = [D EXCEPT !.phase = "members"]]
      BY <2>2 DEF HistoryFailed
    <3> QED
      BY <3>1, <3>2, <3>3, CoreStays, NextPhase
  <2>3. ASSUME HistoryFailed(ch, D), ch \notin Megagroups
        PROVE  CoreOK' /\ ChannelsOK' /\ LogStep
    BY <2>3, LoadFinishType DEF HistoryFailed
  <2> QED
    BY <2>1, <2>2, <2>3 DEF GetHistoryDone
<1> QED
  BY <1>1, <1>2, TypeParts

LEMMA GetMembersDoneType ==
  ASSUME TypeInv, NEW ch \in Channels, GetMembersDone(ch)
  PROVE  TypeInv' /\ LogStep
<1> DEFINE D == pending_channels[ch]
<1>1. RestOK'
  BY DEF GetMembersDone, RestOK, TypeInv, TypeOK, server
<1>2. CoreOK' /\ ChannelsOK' /\ LogStep
  <2>1. UNCHANGED <<last_server_id, covered>>
    BY DEF GetMembersDone
  <2>2. CASE LoadFinish(ch, D)
    BY <2>1, <2>2, LoadFinishType
  <2>3. ASSUME NEW n \in MemberCounts,
               pending_channels' = [pending_channels EXCEPT ![ch].phase = "admins",
                                                            ![ch].members = n],
               UNCHANGED <<loading, new_messages, printed, requests, pending_chat_info,
                           channel_members, pending_reads, unread>>
        PROVE  CoreOK' /\ ChannelsOK' /\ LogStep
    <3>1. n \in Nat
      BY SettingsAssumption
    <3>2. [D EXCEPT !.phase = "admins", !.members = n] \in ChannelLoading(DOMAIN loading)
      BY <3>1 DEF TypeInv, TypeOK, ChannelLoading, Phases
    <3>3. pending_channels' = [pending_channels EXCEPT ![ch] =
                                 [D EXCEPT !.phase = "admins", !.members = n]]
      BY <2>3
    <3> QED
      BY <2>1, <2>3, <3>2, <3>3, CoreStays, NextPhase
  <2> QED
    BY <2>2, <2>3 DEF GetMembersDone
<1> QED
  BY <1>1, <1>2, TypeParts

LEMMA LoadAdminsDoneType ==
  ASSUME TypeInv, NEW ch \in Channels, LoadAdminsDone(ch)
  PROVE  TypeInv' /\ LogStep
<1>1. RestOK'
  BY DEF LoadAdminsDone, RestOK, TypeInv, TypeOK, server
<1>2. CoreOK' /\ ChannelsOK' /\ LogStep
  <2>1. CASE LoadFinish(ch, pending_channels[ch])
    BY <2>1, LoadFinishType DEF LoadAdminsDone
  <2>2. CASE UNCHANGED <<loading, new_messages, printed, requests, pending_chat_info,
                         pending_channels, channel_members, pending_reads, unread>>
    <3>1. ChannelsOK'
      BY <2>2 DEF LoadAdminsDone, ChannelsOK, TypeInv, TypeOK
    <3> QED
      BY <2>2, <3>1, CoreStays
  <2> QED
    BY <2>1, <2>2 DEF LoadAdminsDone
<1> QED
  BY <1>1, <1>2, TypeParts

------------------------------------------------------------------------------
(* The other steps *)

LEMMA UpdateType ==
  ASSUME TypeInv, NEW m \in Msgs, Update(m)
  PROVE  TypeInv' /\ LogStep
<1>1. RestOK'
  <2>1. ASSUME InChannel(m)
        PROVE  delivered' \in [Channels -> Nat] /\ UNCHANGED arrived
    <3>1. m.sid \in Nat
      BY MsgsAssumption
    <3> QED
      BY <2>1, <3>1 DEF Update, TypeInv, TypeOK
  <2>2. ASSUME ~InChannel(m)
        PROVE  arrived' \subseteq Msgs /\ UNCHANGED delivered
    BY <2>2 DEF Update, TypeInv, TypeOK
  <2>3. UNCHANGED <<proc, sessions, present, posted, userList>>
    BY DEF Update, RecvUpdate, IgnoreUpdate, session
  <2> QED
    BY <2>1, <2>2, <2>3 DEF RestOK, TypeInv, TypeOK
<1>2. CoreOK' /\ ChannelsOK' /\ LogStep
  <2>1. CASE IgnoreUpdate
    <3>1. CoreOK' /\ LogStep
      BY <2>1, CoreStays DEF IgnoreUpdate, session
    <3>2. ChannelsOK'
      BY <2>1 DEF IgnoreUpdate, session, ChannelsOK, TypeInv, TypeOK
    <3> QED
      BY <3>1, <3>2
  <2>2. CASE RecvUpdate(m)
    BY <2>2, RecvType DEF RecvUpdate, TypeInv
  <2> QED
    BY <2>1, <2>2 DEF Update
<1> QED
  BY <1>1, <1>2, TypeParts

\* Receipts that are sent leave the debts of the others.
LEMMA ReceiptsType ==
  ASSUME TypeInv, pending_reads' \subseteq pending_reads, unread' \subseteq unread,
         UNCHANGED <<loading, new_messages, printed, requests, pending_chat_info, userList,
                     pending_channels, channel_members, last_server_id, covered>>
  PROVE  CoreOK' /\ ChannelsOK' /\ LogStep
<1>1. pending_reads' \subseteq Peers /\ unread' \subseteq DOMAIN loading'
  BY DEF TypeInv, TypeOK
<1>2. QueueOK'
  BY <1>1 DEF QueueOK, TypeInv, TypeOK
<1>3. InfoOfChats'
  BY DEF InfoOfChats, TypeInv
<1>4. CoreOK' /\ ChannelsOK'
  BY <1>2, <1>3 DEF CoreOK, ChannelsOK, TypeInv, TypeOK
<1> QED
  BY <1>4 DEF LogStep, AcceptedLog

LEMMA SetStatusType ==
  ASSUME TypeInv, SetStatus
  PROVE  TypeInv' /\ LogStep
<1>1. pending_reads' \subseteq pending_reads /\ unread' \subseteq unread
  BY DEF SetStatus
<1>2. RestOK'
  BY DEF SetStatus, RestOK, TypeInv, TypeOK, server
<1> QED
  BY <1>1, <1>2, ReceiptsType, TypeParts DEF SetStatus

LEMMA WriteToType ==
  ASSUME TypeInv, NEW p \in Peers, WriteTo(p)
  PROVE  TypeInv' /\ LogStep
<1>1. pending_reads' \subseteq pending_reads /\ unread' \subseteq unread
  BY DEF WriteTo
<1>2. RestOK'
  BY DEF WriteTo, RestOK, TypeInv, TypeOK, server
<1> QED
  BY <1>1, <1>2, ReceiptsType, TypeParts DEF WriteTo

LEMMA PostType ==
  ASSUME TypeInv, NEW ch \in Channels, Post(ch)
  PROVE  TypeInv' /\ LogStep
<1>1. posted' \in [Channels -> Nat]
  <2>1. \A m \in ChannelMsgs(ch) : m.sid \in Nat
    BY MsgsAssumption DEF ChannelMsgs
  <2> QED
    BY <2>1 DEF Post, TypeInv, TypeOK
<1>2. RestOK'
  BY <1>1 DEF Post, RestOK, TypeInv, TypeOK, session
<1>3. ChannelsOK'
  BY DEF Post, ChannelsOK, TypeInv, TypeOK, session
<1>4. CoreOK' /\ LogStep
  BY CoreStays DEF Post, session
<1> QED
  BY <1>2, <1>3, <1>4, TypeParts

LEMMA LoginType ==
  ASSUME TypeInv, Login
  PROVE  TypeInv' /\ LogStep
<1>1. RestOK'
  BY SettingsAssumption DEF Login, RestOK, TypeInv, TypeOK, session, server
<1>2. ChannelsOK'
  BY DEF Login, ChannelsOK, TypeInv, TypeOK, session
<1>3. CoreOK' /\ LogStep
  BY CoreStays DEF Login, session
<1> QED
  BY <1>1, <1>2, <1>3, TypeParts

\* A fresh session has its type.
LEMMA FreshType ==
  ASSUME FreshSession
  PROVE  /\ CoreOK /\ AcceptedLog = <<>>
         /\ pending_channels \in [Channels -> ChannelLoading(DOMAIN loading)]
         /\ channel_members \in [Channels -> Nat] /\ userList \subseteq Chats
<1>1. CoreOK
  BY DEF FreshSession, CoreOK, QueueOK, InfoOfChats
<1>2. NoLoad \in ChannelLoading(DOMAIN loading)
  BY DEF NoLoad, ChannelLoading, Phases
<1> QED
  BY <1>1, <1>2 DEF FreshSession, AcceptedLog

LEMMA CloseType ==
  ASSUME TypeInv, Close
  PROVE  TypeInv' /\ LogStep
<1>1. FreshSession'
  BY DEF Close, FreshSession
<1>2. /\ CoreOK' /\ AcceptedLog' = <<>>
      /\ pending_channels' \in [Channels -> ChannelLoading(DOMAIN loading')]
      /\ channel_members' \in [Channels -> Nat] /\ userList' \subseteq Chats
  <2>1. CoreOK' /\ AcceptedLog' = <<>>
    BY <1>1 DEF FreshSession, CoreOK, QueueOK, InfoOfChats, AcceptedLog
  <2>2. NoLoad \in ChannelLoading(DOMAIN loading')
    BY DEF NoLoad, ChannelLoading, Phases
  <2> QED
    BY <1>1, <2>1, <2>2 DEF FreshSession
<1>3. ChannelsOK'
  BY <1>2 DEF Close, ChannelsOK, TypeInv, TypeOK
<1>4. RestOK'
  BY <1>2 DEF Close, RestOK, TypeInv, TypeOK, server
<1>5. proc' # "up"
  BY DEF Close
<1> QED
  BY <1>2, <1>3, <1>4, <1>5, TypeParts DEF LogStep

\* Every step keeps the type invariant and does to the log what LogStep says.
LEMMA StepType ==
  ASSUME TypeInv, [Next]_vars
  PROVE  TypeInv' /\ LogStep
<1>1. ASSUME NEW m \in Msgs, Update(m)
      PROVE  TypeInv' /\ LogStep
  BY <1>1, UpdateType
<1>2. ASSUME NEW i \in DOMAIN loading, Answer(i)
      PROVE  TypeInv' /\ LogStep
  BY <1>2, AnswerType
<1>3. ASSUME NEW ch \in Channels,
             \/ ChannelListed(ch) \/ GetHistoryDone(ch)
             \/ GetMembersDone(ch) \/ LoadAdminsDone(ch) \/ Post(ch)
      PROVE  TypeInv' /\ LogStep
  BY <1>3, ChannelListedType, GetHistoryDoneType, GetMembersDoneType,
     LoadAdminsDoneType, PostType
<1>4. ASSUME NEW p \in Peers, WriteTo(p)
      PROVE  TypeInv' /\ LogStep
  BY <1>4, WriteToType
<1>5. ASSUME SetStatus \/ Login \/ Close
      PROVE  TypeInv' /\ LogStep
  BY <1>5, SetStatusType, LoginType, CloseType
<1>6. CASE UNCHANGED vars
  <2>1. CoreOK' /\ LogStep
    BY <1>6, CoreStays DEF vars, session
  <2>2. ChannelsOK' /\ RestOK'
    BY <1>6 DEF vars, session, server, ChannelsOK, RestOK, TypeInv, TypeOK
  <2> QED
    BY <2>1, <2>2, TypeParts
<1> QED
  BY <1>1, <1>2, <1>3, <1>4, <1>5, <1>6 DEF Next

LEMMA InitType ==
  ASSUME Init
  PROVE  TypeInv /\ AcceptedLog = <<>>
<1>1. /\ CoreOK /\ AcceptedLog = <<>>
      /\ pending_channels \in [Channels -> ChannelLoading(DOMAIN loading)]
      /\ channel_members \in [Channels -> Nat] /\ userList \subseteq Chats
  BY FreshType DEF Init
<1>2. ChannelsOK /\ RestOK
  BY <1>1, SettingsAssumption DEF Init, ChannelsOK, RestOK
<1> QED
  BY <1>1, <1>2, TypeParts

\* Every variable has its type in every reachable state: no index that a query,
\* a channel load or the queue holds is out of the range of loading.
THEOREM TypeCorrect == Spec => []TypeOK
<1>1. Init => TypeInv
  BY InitType
<1>2. TypeInv /\ [Next]_vars => TypeInv'
  BY StepType
<1>3. TypeInv => TypeOK
  BY DEF TypeInv
<1> QED
  BY <1>1, <1>2, <1>3, PTL DEF Spec

------------------------------------------------------------------------------
(* First in, first out *)

\* The log lists the messages in the order in which they were received.
Sorted == \A j, k \in DOMAIN AcceptedLog : j < k => AcceptedLog[j] < AcceptedLog[k]

\* Messages that are received now are newer than those of the log.
LEMMA SortedAppend ==
  ASSUME NEW N \in Nat, NEW log \in Seq(1 .. N), NEW n \in Nat,
         \A j, k \in DOMAIN log : j < k => log[j] < log[k],
         NEW new, new = log \o [i \in 1 .. n |-> N + i]
  PROVE  \A j, k \in DOMAIN new : j < k => new[j] < new[k]
<1> DEFINE ids == [i \in 1 .. n |-> N + i]
<1>1. ids \in Seq(Nat) /\ Len(ids) = n /\ log \in Seq(Nat)
  BY SeqMonotonic
<1>2. /\ Len(log) \in Nat /\ DOMAIN log = 1 .. Len(log)
      /\ \A j \in 1 .. Len(log) : log[j] \in 1 .. N
  BY ElementOfSeq
<1>3. /\ DOMAIN new = 1 .. Len(log) + n
      /\ \A j \in DOMAIN new : new[j] = IF j <= Len(log) THEN log[j] ELSE ids[j - Len(log)]
  <2> HIDE DEF ids
  <2>1. new = log \o ids
    BY DEF ids
  <2>2. /\ log \o ids \in Seq(Nat) /\ Len(log \o ids) = Len(log) + Len(ids)
        /\ \A j \in 1 .. Len(log) + Len(ids) :
             (log \o ids)[j] = IF j <= Len(log) THEN log[j] ELSE ids[j - Len(log)]
    BY ONLY <1>1, ConcatProperties
  <2> QED
    BY ONLY <1>1, <2>1, <2>2
<1>4. \A j \in DOMAIN new : j > Len(log) => new[j] = N + (j - Len(log))
  BY <1>2, <1>3
<1>5. \A j \in DOMAIN new : j <= Len(log) => j \in DOMAIN log /\ new[j] = log[j]
  BY <1>2, <1>3
<1>6. SUFFICES ASSUME NEW j \in DOMAIN new, NEW k \in DOMAIN new, j < k
               PROVE  new[j] < new[k]
  OBVIOUS
<1>7. CASE k <= Len(log)
  BY <1>2, <1>3, <1>5, <1>6, <1>7
<1>8. CASE j <= Len(log) /\ k > Len(log)
  <2>1. new[j] \in 1 .. N
    BY <1>2, <1>5, <1>8
  <2>2. new[k] = N + (k - Len(log)) /\ k \in Nat
    BY <1>2, <1>3, <1>4, <1>8
  <2> QED
    BY <1>2, <1>8, <2>1, <2>2
<1>9. CASE j > Len(log)
  <2>1. new[j] = N + (j - Len(log)) /\ new[k] = N + (k - Len(log)) /\ j \in Nat /\ k \in Nat
    BY <1>2, <1>3, <1>4, <1>6, <1>9
  <2> QED
    BY <1>2, <1>6, <2>1
<1> QED
  BY <1>2, <1>3, <1>7, <1>8, <1>9

LEMMA SortedStep ==
  ASSUME TypeInv, Sorted, LogStep
  PROVE  Sorted'
<1>1. CASE AcceptedLog' = AcceptedLog
  BY <1>1 DEF Sorted
<1>2. ASSUME NEW n \in Nat, AcceptedLog' = AcceptedLog \o NewIds(n)
      PROVE  Sorted'
  <2>1. Len(loading) \in Nat /\ DOMAIN loading = 1 .. Len(loading)
    BY DEF TypeInv, TypeOK
  <2>2. AcceptedLog \in Seq(1 .. Len(loading))
    BY <2>1, ConcatProperties DEF AcceptedLog, TypeInv, TypeOK
  <2> QED
    BY <1>2, <2>1, <2>2, SortedAppend DEF Sorted, NewIds
<1>3. CASE AcceptedLog' = <<>>
  BY <1>3 DEF Sorted
<1> QED
  BY <1>1, <1>2, <1>3 DEF LogStep

\* The queue is first in, first out (tgp-msg.c:987): whatever the order of the
\* answers, messages outside of channels are printed in the order in which they
\* arrived.
THEOREM QueueIsFifo == Spec => []FirstInFirstOut
<1>1. Init => TypeInv /\ Sorted
  BY InitType DEF Sorted
<1>2. (TypeInv /\ Sorted) /\ [Next]_vars => (TypeInv /\ Sorted)'
  BY StepType, SortedStep
<1>3. TypeInv /\ Sorted => FirstInFirstOut
  <2> SUFFICES ASSUME TypeInv, Sorted
               PROVE  FirstInFirstOut
    OBVIOUS
  <2>1. AcceptedLog \in Seq(Nat)
    <3>1. DOMAIN loading \subseteq Nat
      BY DEF TypeInv, TypeOK
    <3>2. new_messages \in Seq(Nat) /\ printed \in Seq(Nat)
      BY <3>1, SeqMonotonic DEF TypeInv, TypeOK
    <3> QED
      BY <3>2, ConcatProperties DEF AcceptedLog
  <2>2. \A j \in DOMAIN AcceptedLog : AcceptedLog[j] \in Nat
    BY <2>1
  <2> QED
    BY <2>2 DEF Sorted, AcceptedLog, FirstInFirstOut
<1> QED
  BY <1>1, <1>2, <1>3, PTL DEF Spec

(***************************************************************************)
(* PART TWO.  What a message waits for.  The counter pending of every      *)
(* tgp_msg_loading is exactly the number of answers that will still call   *)
(* back for it (Counted), and a message whose channel is not loaded is     *)
(* registered with its load (ChannelWaits).  From this and from the order  *)
(* of the queue follow the invariants that relate the queue to the queries *)
(* and to the loads.                                                       *)
(***************************************************************************)

------------------------------------------------------------------------------
(* The invariant *)

\* The loads of channels that i is registered with: one, or none.
Registers(i) == IF \E ch \in Channels : i \in pending_channels[ch].cbs THEN 1 ELSE 0

Counted == \A i \in DOMAIN loading : loading[i].pending = Waits(i, requests) + Registers(i)

\* A message registers with the load of its own channel.
OwnLoad ==
  \A ch \in Channels : \A i \in pending_channels[ch].cbs :
    InChannel(loading[i].msg) /\ ChannelOf(loading[i].msg) = ch

ChannelWaits ==
  \A ch \in Channels : ~Loaded(ch) =>
    \A i \in DOMAIN loading : InChannel(loading[i].msg) /\ ChannelOf(loading[i].msg) = ch
                               => i \in pending_channels[ch].cbs

\* LoadAlive does not depend on the connection.
LoadsAlive == \A ch \in Channels : (pending_channels[ch].phase = "done") <=> Loaded(ch)

\* A load that was not started has no callbacks.
LoadsIdle ==
  \A ch \in Channels : pending_channels[ch].phase = "none" => pending_channels[ch].cbs = {}

PrintedReady == \A i \in Printed : loading[i].pending = 0

HeadNotReady == new_messages # <<>> => loading[Head(new_messages)].pending # 0

Channelled == OwnLoad /\ ChannelWaits /\ LoadsAlive /\ LoadsIdle
Counts == Counted /\ PrintedReady /\ HeadNotReady

------------------------------------------------------------------------------
(* Counting *)

\* The answers waited for are counted by kind.
LEMMA OpenKinds ==
  ASSUME NEW i, NEW open
  PROVE  IsFiniteSet({k \in Kinds : <<i, k>> \in open})
<1>1. IsFiniteSet({}) /\ IsFiniteSet({} \cup {"media"})
  BY FS_EmptySet, FS_AddElement
<1>2. IsFiniteSet({"media"} \cup {"info"})
  BY <1>1, FS_AddElement
<1>3. IsFiniteSet(({"media"} \cup {"info"}) \cup {"reply"})
  BY <1>2, FS_AddElement
<1>4. Kinds = ({"media"} \cup {"info"}) \cup {"reply"}
  BY DEF Kinds
<1>5. IsFiniteSet(Kinds)
  BY <1>3, <1>4
<1> QED
  BY <1>5, FS_Subset

LEMMA WaitsSame ==
  ASSUME NEW i, NEW A, NEW B, \A k \in Kinds : <<i, k>> \in A <=> <<i, k>> \in B
  PROVE  Waits(i, A) = Waits(i, B)
<1>1. {k \in Kinds : <<i, k>> \in A} = {k \in Kinds : <<i, k>> \in B}
  OBVIOUS
<1> QED
  BY <1>1 DEF Waits

\* An answer takes one from the count of its message, and from no other.
LEMMA WaitsAnswered ==
  ASSUME NEW i, NEW k \in Kinds, NEW A, <<i, k>> \in A
  PROVE  /\ Waits(i, A \ {<<i, k>>}) = Waits(i, A) - 1
         /\ \A j : j # i => Waits(j, A \ {<<i, k>>}) = Waits(j, A)
<1> DEFINE ks == {x \in Kinds : <<i, x>> \in A}
<1>1. IsFiniteSet(ks) /\ k \in ks
  BY OpenKinds
<1>2. Cardinality(ks \ {k}) = Cardinality(ks) - 1
  BY <1>1, FS_RemoveElement
<1>3. ks \ {k} = {x \in Kinds : <<i, x>> \in A \ {<<i, k>>}}
  OBVIOUS
<1>4. ASSUME NEW j, j # i
      PROVE  Waits(j, A \ {<<i, k>>}) = Waits(j, A)
  BY <1>4, WaitsSame
<1> QED
  BY <1>2, <1>3, <1>4 DEF Waits

LEMMA WaitsZero ==
  ASSUME NEW i, NEW A, Waits(i, A) = 0, NEW k \in Kinds
  PROVE  <<i, k>> \notin A
<1>1. {x \in Kinds : <<i, x>> \in A} = {}
  BY OpenKinds, FS_EmptySet DEF Waits
<1> QED
  BY <1>1

\* What is counted twice, for a message and for a channel, is what Outstanding counts.
LEMMA OutstandingIs ==
  ASSUME TypeInv, OwnLoad, NEW i \in DOMAIN loading
  PROVE  Outstanding(i) = Waits(i, requests) + Registers(i)
<1> DEFINE loads == {ch \in Channels : i \in pending_channels[ch].cbs}
<1>1. CASE loads = {}
  <2>1. Cardinality(loads) = 0 /\ Registers(i) = 0
    BY <1>1, FS_EmptySet DEF Registers
  <2> QED
    BY <2>1 DEF Outstanding, Waits
<1>2. ASSUME NEW ch \in loads
      PROVE  Outstanding(i) = Waits(i, requests) + Registers(i)
  <2>1. loads = {ch}
    BY <1>2 DEF OwnLoad
  <2>2. Cardinality(loads) = 1
    BY <2>1, FS_Singleton
  <2>3. Registers(i) = 1
    BY <1>2 DEF Registers
  <2> QED
    BY <2>2, <2>3 DEF Outstanding, Waits
<1> QED
  BY <1>1, <1>2

\* What is not ready waits for something, and what is printed for nothing.
LEMMA CountTypes ==
  ASSUME TypeInv, Counts, NEW i \in DOMAIN loading
  PROVE  /\ Waits(i, requests) \in Nat /\ Registers(i) \in {0, 1}
         /\ loading[i].pending \in Nat
         /\ loading[i].pending = 0 => Waits(i, requests) = 0 /\ Registers(i) = 0
<1>1. Waits(i, requests) \in Nat
  BY WaitsType
<1> QED
  BY <1>1 DEF Counts, Counted, Registers

------------------------------------------------------------------------------
(* Effects *)

\* What ProcessInReady prints was ready, and what it leaves at the head is not.
LEMMA PrintsReady ==
  ASSUME NEW S, printed \in Seq(S), NEW q \in Seq(S), NEW ld, ProcessInReady(q, ld)
  PROVE  /\ \A i \in Printed' : i \in Printed \/ ld[i].pending = 0
         /\ new_messages' # <<>> => ld[Head(new_messages')].pending # 0
<1>1. PICK k \in 0 .. Len(q) :
        /\ Ready(k, q, ld)
        /\ new_messages' = SubSeq(q, k + 1, Len(q)) /\ printed' = printed \o SubSeq(q, 1, k)
  BY DEF ProcessInReady
<1>2. k \in Nat /\ Len(q) \in Nat /\ k <= Len(q)
  BY <1>1
<1>3. /\ SubSeq(q, 1, k) \in Seq(S) /\ Len(SubSeq(q, 1, k)) = k
      /\ \A j \in 1 .. k : SubSeq(q, 1, k)[j] = q[j]
  <2>1. \A j \in 1 .. k : q[j] \in S
    BY <1>2, ElementOfSeq
  <2>2. k - 1 + 1 = k /\ \A j \in 1 .. k : 1 + j - 1 = j
    BY <1>2
  <2>3. 1 \in Int /\ k \in Int
    BY <1>2
  <2> QED
    BY <1>2, <2>1, <2>2, <2>3, SubSeqProperties
<1>4. /\ DOMAIN printed' = 1 .. Len(printed) + k
      /\ \A j \in 1 .. Len(printed) + k :
           printed'[j] = IF j <= Len(printed) THEN printed[j] ELSE SubSeq(q, 1, k)[j - Len(printed)]
  <2>1. printed' \in Seq(S) /\ Len(printed') = Len(printed) + k
    BY <1>1, <1>3, ConcatProperties
  <2>2. \A j \in 1 .. Len(printed) + k :
          printed'[j] = IF j <= Len(printed) THEN printed[j] ELSE SubSeq(q, 1, k)[j - Len(printed)]
    BY <1>1, <1>3, ConcatProperties
  <2> QED
    BY <2>1, <2>2
<1>5. \A i \in Printed' : i \in Printed \/ ld[i].pending = 0
  <2> SUFFICES ASSUME NEW j \in DOMAIN printed'
               PROVE  printed'[j] \in Printed \/ ld[printed'[j]].pending = 0
    BY DEF Printed
  <2>1. Len(printed) \in Nat /\ DOMAIN printed = 1 .. Len(printed)
    OBVIOUS
  <2>2. CASE j <= Len(printed)
    BY <1>2, <1>4, <2>1, <2>2 DEF Printed
  <2>3. CASE ~(j <= Len(printed))
    <3>1. j - Len(printed) \in 1 .. k
      BY <1>2, <1>4, <2>1, <2>3
    <3>2. printed'[j] = q[j - Len(printed)]
      BY <1>3, <1>4, <2>3, <3>1
    <3> QED
      BY <1>1, <3>1, <3>2 DEF Ready
  <2> QED
    BY <2>2, <2>3
<1>6. ASSUME new_messages' # <<>>
      PROVE  ld[Head(new_messages')].pending # 0
  <2>1. k < Len(q)
    <3>1. CASE k = Len(q)
      <4>1. SubSeq(q, k + 1, Len(q)) = <<>>
        BY <1>2, <3>1, SubSeqEmpty
      <4> QED
        BY <1>1, <1>6, <4>1
    <3> QED
      BY <1>2, <3>1
  <2>2. Head(new_messages') = q[k + 1]
    <3>1. Len(new_messages') = Len(q) - k /\ new_messages'[1] = q[k + 1]
      <4>1. \A j \in k + 1 .. Len(q) : q[j] \in S
        BY <1>2, ElementOfSeq
      <4>2. k + 1 \in Int /\ Len(q) \in Int /\ 1 \in 1 .. Len(q) - (k + 1) + 1
        BY <1>2, <2>1
      <4>3. (k + 1) + 1 - 1 = k + 1 /\ Len(q) - (k + 1) + 1 = Len(q) - k /\ k + 1 <= Len(q)
        BY <1>2, <2>1
      <4> QED
        BY <1>1, <4>1, <4>2, <4>3, SubSeqProperties
    <3> QED
      BY <1>1, <1>6, <3>1
  <2> QED
    BY <1>1, <2>1, <2>2 DEF Ready
<1> QED
  BY <1>5, <1>6

\* What Accept leaves: the records it found as ld has them, with the same queries,
\* and a record for each new message that waits for wait and its own queries.
AcceptResult(ms, wait, ld) ==
  LET n == Len(loading)
  IN  /\ \A i \in 1 .. n : /\ loading'[i] = ld[i]
                           /\ \A k \in Kinds : <<i, k>> \in requests' <=> <<i, k>> \in requests
      /\ \A i \in 1 .. Len(ms) :
           /\ loading'[n + i].msg = ms[i]
           /\ loading'[n + i].pending = wait + Waits(n + i, requests')
           /\ <<n + i, "info">> \in requests' <=> "info" \in Asked(ms[i])
      /\ pending_chat_info' = pending_chat_info
           \cup {ms[i].to : i \in {i \in 1 .. Len(ms) : "info" \in Asked(ms[i])}}

LEMMA AcceptEffect ==
  ASSUME TypeInv, NEW ms \in Seq(Msgs), NEW wait \in Nat, NEW before,
         \A i : Data(i) # before, NEW ld \in Seq(MsgLoading), Len(ld) = Len(loading),
         Accept(ms, wait, before, ld)
  PROVE  /\ Len(loading) \in Nat /\ Len(ms) \in Nat
         /\ AcceptResult(ms, wait, ld)
         /\ ProcessInReady(new_messages \o NewIds(Len(ms)), loading')
<1> DEFINE n == Len(ld)
           asks == UNION {{<<n + i, k>> : k \in Asked(ms[i])} : i \in DOMAIN ms}
           new(cached) ==
             [i \in 1 .. Len(ms) |->
                Loading(ms[i], wait + Waits(n + i, asks \ cached), <<n + i, "media">> \in cached)]
           ids == [i \in 1 .. Len(ms) |-> n + i]
<1>1. PICK cached \in SUBSET {a \in asks : a[2] # "info"} :
        /\ loading' = ld \o new(cached)
        /\ requests' = requests \cup (asks \ cached)
        /\ pending_chat_info' = pending_chat_info
              \cup {ms[i].to : i \in {i \in DOMAIN ms : <<n + i, "info">> \in asks}}
        /\ ProcessInReady(Place(new_messages, before, ids), loading')
  BY DEF Accept
<1>2. n \in Nat /\ Len(ms) \in Nat /\ DOMAIN ms = 1 .. Len(ms) /\ n = Len(loading)
  OBVIOUS
<1>3. \A i \in 1 .. Len(ms) : \A k : <<n + i, k>> \in asks <=> k \in Asked(ms[i])
  <2>1. ASSUME NEW i \in 1 .. Len(ms), NEW k, <<n + i, k>> \in asks
        PROVE  k \in Asked(ms[i])
    <3>1. PICK j \in DOMAIN ms : \E x \in Asked(ms[j]) : <<n + i, k>> = <<n + j, x>>
      BY <2>1
    <3>2. n + i = n + j /\ k \in Asked(ms[j])
      BY <3>1
    <3>3. i = j
      BY <1>2, <3>2
    <3> QED
      BY <3>2, <3>3
  <2>2. ASSUME NEW i \in 1 .. Len(ms), NEW k \in Asked(ms[i])
        PROVE  <<n + i, k>> \in asks
    BY <1>2
  <2> HIDE DEF asks
  <2> QED
    BY <2>1, <2>2
<1>4. \A i \in 1 .. n : \A k : <<i, k>> \notin asks
  <2> SUFFICES ASSUME NEW i \in 1 .. n, NEW k, <<i, k>> \in asks
               PROVE  FALSE
    OBVIOUS
  <2>1. PICK j \in DOMAIN ms : \E x \in Asked(ms[j]) : <<i, k>> = <<n + j, x>>
    OBVIOUS
  <2>2. i = n + j
    BY <2>1
  <2> QED
    BY <1>2, <2>2
<1>5. \A i, k : <<i, k>> \in requests => i \in 1 .. n
  BY <1>2 DEF TypeInv, TypeOK
<1> HIDE DEF asks
<1>6. \A i \in 1 .. n : \A k : <<i, k>> \in requests' <=> <<i, k>> \in requests
  BY <1>1, <1>4
<1>7. \A i \in 1 .. Len(ms) : n + i \notin 1 .. n
  BY <1>2
<1>8. \A i \in 1 .. Len(ms) : \A k : <<n + i, k>> \in requests' <=> <<n + i, k>> \in asks \ cached
  BY <1>1, <1>5, <1>7
<1>9. \A i \in 1 .. Len(ms) : <<n + i, "info">> \in requests' <=> "info" \in Asked(ms[i])
  BY <1>3, <1>8
<1>10. Len(new(cached)) = Len(ms) /\ new(cached) \in Seq(MsgLoading)
  <2>1. \A i \in 1 .. Len(ms) : new(cached)[i] \in MsgLoading
    <3> SUFFICES ASSUME NEW i \in 1 .. Len(ms)
                 PROVE  new(cached)[i] \in MsgLoading
      OBVIOUS
    <3>1. ms[i] \in Msgs
      BY <1>2, ElementOfSeq
    <3>2. wait + Waits(n + i, asks \ cached) \in Int
      BY WaitsType
    <3>3. (<<n + i, "media">> \in cached) \in BOOLEAN
      OBVIOUS
    <3> QED
      BY <3>1, <3>2, <3>3, Zenon DEF Loading, MsgLoading
  <2>2. new(cached) = [i \in 1 .. Len(ms) |-> new(cached)[i]]
    OBVIOUS
  <2> HIDE DEF new
  <2> QED
    BY <1>2, <2>1, <2>2
<1>11. \A i \in 1 .. Len(ms) :
         new(cached)[i].msg = ms[i] /\ new(cached)[i].pending = wait + Waits(n + i, asks \ cached)
  BY DEF Loading
<1>12. \A i \in 1 .. Len(ms) : Waits(n + i, requests') = Waits(n + i, asks \ cached)
  BY <1>8, WaitsSame
<1> HIDE DEF new
<1>13. /\ \A i \in 1 .. n : loading'[i] = ld[i]
       /\ \A i \in 1 .. Len(ms) : loading'[n + i] = new(cached)[i]
  <2>1. \A s, t \in Seq(MsgLoading) : \A i \in 1 .. Len(s) + Len(t) :
          (s \o t)[i] = IF i <= Len(s) THEN s[i] ELSE t[i - Len(s)]
    BY ConcatProperties
  <2>2. \A i \in 1 .. n + Len(ms) :
          loading'[i] = IF i <= n THEN ld[i] ELSE new(cached)[i - n]
    BY <1>1, <1>10, <2>1
  <2>3. \A i \in 1 .. n : i \in 1 .. n + Len(ms) /\ i <= n
    BY <1>2
  <2>4. \A i \in 1 .. Len(ms) : n + i \in 1 .. n + Len(ms) /\ ~(n + i <= n) /\ (n + i) - n = i
    BY <1>2
  <2> HIDE DEF n
  <2> QED
    BY <2>2, <2>3, <2>4
<1>14. \A i \in 1 .. Len(ms) :
         loading'[n + i].msg = ms[i] /\ loading'[n + i].pending = wait + Waits(n + i, requests')
  BY <1>11, <1>12, <1>13
<1>15. {i \in DOMAIN ms : <<n + i, "info">> \in asks} = {i \in 1 .. Len(ms) : "info" \in Asked(ms[i])}
  BY <1>2, <1>3
<1>16. AcceptResult(ms, wait, ld)
  <2>1. pending_chat_info' = pending_chat_info
          \cup {ms[i].to : i \in {i \in 1 .. Len(ms) : "info" \in Asked(ms[i])}}
    BY <1>1, <1>15
  <2> QED
    BY <1>2, <1>6, <1>9, <1>13, <1>14, <2>1 DEF AcceptResult
<1>17. ProcessInReady(new_messages \o NewIds(Len(ms)), loading')
  <2>1. NewIds(Len(ms)) = ids
    BY <1>2 DEF NewIds
  <2> HIDE DEF ids
  <2>2. Place(new_messages, before, ids) = new_messages \o ids
    BY PlaceAppends
  <2> QED
    BY <1>1, <2>1, <2>2
<1> QED
  BY <1>2, <1>16, <1>17

\* After ProcessInReady the head of the queue is not ready and what is printed is.
LEMMA ReadyCounts ==
  ASSUME TypeInv, loading' \in Seq(MsgLoading), Len(loading') >= Len(loading),
         \A i \in Printed : loading'[i].pending = 0,
         NEW q \in Seq(DOMAIN loading'), ProcessInReady(q, loading')
  PROVE  PrintedReady' /\ HeadNotReady'
<1>1. printed \in Seq(DOMAIN loading')
  <2>1. DOMAIN loading \subseteq DOMAIN loading'
    BY LoadingGrows DEF TypeInv
  <2> QED
    BY <2>1, SeqMonotonic DEF TypeInv, TypeOK
<1>2. /\ \A i \in Printed' : i \in Printed \/ loading'[i].pending = 0
      /\ new_messages' # <<>> => loading'[Head(new_messages')].pending # 0
  BY <1>1, PrintsReady
<1> QED
  BY <1>2 DEF PrintedReady, HeadNotReady

\* Messages that are accepted are counted, if ld counts what is registered afterwards.
LEMMA AcceptCounts ==
  ASSUME TypeInv, NEW ms \in Seq(Msgs), NEW wait \in Nat, NEW before,
         \A i : Data(i) # before, NEW ld \in Seq(MsgLoading), Len(ld) = Len(loading),
         \A i \in DOMAIN loading : ld[i].msg = loading[i].msg,
         Accept(ms, wait, before, ld),
         \A i \in DOMAIN loading : ld[i].pending = Waits(i, requests) + (Registers(i))',
         \A i \in 1 .. Len(loading) + Len(ms) : i \notin DOMAIN loading => (Registers(i))' = wait,
         \A i \in Printed : ld[i].pending = 0
  PROVE  Counts'
<1> DEFINE n == Len(loading)
<1>1. /\ n \in Nat /\ Len(ms) \in Nat /\ AcceptResult(ms, wait, ld)
      /\ ProcessInReady(new_messages \o NewIds(Len(ms)), loading')
  BY AcceptEffect
<1>2. loading' \in Seq(MsgLoading) /\ Len(loading') = n + Len(ms)
  BY AcceptLog DEF TypeInv
<1>3. DOMAIN loading' = 1 .. n + Len(ms) /\ DOMAIN loading = 1 .. n
  BY <1>2 DEF TypeInv, TypeOK
<1>4. Counted'
  <2> SUFFICES ASSUME NEW i \in 1 .. n + Len(ms)
               PROVE  loading'[i].pending = Waits(i, requests') + (Registers(i))'
    BY <1>3 DEF Counted
  <2>1. CASE i \in 1 .. n
    <3>1. loading'[i] = ld[i] /\ Waits(i, requests') = Waits(i, requests)
      BY <1>1, <2>1, WaitsSame DEF AcceptResult
    <3> QED
      BY <1>3, <2>1, <3>1
  <2>2. CASE i \notin 1 .. n
    <3>1. i - n \in 1 .. Len(ms) /\ n + (i - n) = i
      BY <1>1, <2>2
    <3>2. PICK j \in 1 .. Len(ms) : n + j = i
      BY <3>1
    <3>3. loading'[n + j].pending = wait + Waits(n + j, requests')
      BY <1>1 DEF AcceptResult
    <3>4. (Registers(i))' = wait
      BY <1>1, <1>3, <2>2
    <3>5. Waits(i, requests') \in Nat
      BY WaitsType
    <3>6. loading'[i].pending = wait + Waits(i, requests')
      BY <3>2, <3>3
    <3> QED
      BY <3>4, <3>5, <3>6
  <2> QED
    BY <2>1, <2>2
<1>5. PrintedReady' /\ HeadNotReady'
  <2>1. \A i \in Printed : i \in 1 .. n
    BY <1>3, ElementOfSeq DEF Printed, TypeInv, TypeOK
  <2>2. \A i \in Printed : loading'[i].pending = 0
    BY <1>1, <2>1 DEF AcceptResult
  <2>3. new_messages \o NewIds(Len(ms)) \in Seq(DOMAIN loading')
    <3>1. new_messages \in Seq(DOMAIN loading')
      <4>1. DOMAIN loading \subseteq DOMAIN loading'
        BY <1>1, <1>3
      <4> QED
        BY <4>1, SeqMonotonic DEF TypeInv, TypeOK
    <3>2. NewIds(Len(ms)) \in Seq(DOMAIN loading')
      BY <1>1, <1>3 DEF NewIds
    <3> QED
      BY <3>1, <3>2, ConcatProperties
  <2>4. Len(loading') >= Len(loading)
    BY <1>1, <1>2
  <2>5. \A q \in Seq(DOMAIN loading') : ProcessInReady(q, loading') => PrintedReady' /\ HeadNotReady'
    BY <1>2, <2>2, <2>4, ReadyCounts
  <2> QED
    BY <1>1, <2>3, <2>5, Zenon
<1> QED
  BY <1>4, <1>5 DEF Counts

\* A record that is registered or asks something was not printed.
LEMMA PrintedIsDone ==
  ASSUME TypeInv, Counts, NEW i \in Printed
  PROVE  /\ i \in DOMAIN loading
         /\ Registers(i) = 0 /\ \A k \in Kinds : <<i, k>> \notin requests
<1>1. i \in DOMAIN loading
  BY ElementOfSeq DEF Printed, TypeInv, TypeOK
<1>2. Waits(i, requests) = 0 /\ Registers(i) = 0
  BY <1>1, CountTypes DEF Counts, PrintedReady
<1> QED
  BY <1>1, <1>2, WaitsZero

\* An answer is taken from the count of its message.
LEMMA AnswerCounts ==
  ASSUME TypeInv, Counts, NEW i \in DOMAIN loading, Answer(i)
  PROVE  Counts'
<1>1. \E k \in Kinds : /\ <<i, k>> \in requests /\ requests' = requests \ {<<i, k>>}
                       /\ ProcessInReady(new_messages, loading')
                       /\ DOMAIN loading' = DOMAIN loading
                       /\ \A j \in DOMAIN loading : j # i => loading'[j] = loading[j]
                       /\ loading'[i].pending = loading[i].pending - 1
  <2>0. loading[i] \in MsgLoading
    BY ElementOfSeq DEF TypeInv, TypeOK
  <2>1. ASSUME NEW success \in BOOLEAN, DocumentLoaded(i, success)
        PROVE  /\ <<i, "media">> \in requests /\ requests' = requests \ {<<i, "media">>}
               /\ ProcessInReady(new_messages, loading')
               /\ DOMAIN loading' = DOMAIN loading
               /\ \A j \in DOMAIN loading : j # i => loading'[j] = loading[j]
               /\ loading'[i].pending = loading[i].pending - 1
    <3>1. loading' = [loading EXCEPT ![i].pending = @ - 1, ![i].data = success, ![i].error = ~success]
      BY <2>1 DEF DocumentLoaded
    <3>2. loading' = [loading EXCEPT ![i] = [loading[i] EXCEPT !.pending = @ - 1,
                                               !.data = success, !.error = ~success]]
      BY <3>1
    <3>3. [loading[i] EXCEPT !.pending = @ - 1, !.data = success, !.error = ~success].pending
            = loading[i].pending - 1
      <4> DEFINE p == loading[i].pending - 1
                 e == ~success
      <4>1. \A x, y, z : [loading[i] EXCEPT !.pending = x, !.data = y, !.error = z].pending = x
        BY <2>0 DEF MsgLoading
      <4>2. [loading[i] EXCEPT !.pending = p, !.data = success, !.error = e].pending = p
        <5> HIDE DEF p, e
        <5> QED
          BY <4>1
      <4> QED
        BY <4>2, Zenon
    <3> DEFINE c == [loading[i] EXCEPT !.pending = @ - 1, !.data = success, !.error = ~success]
    <3>4. loading' = [loading EXCEPT ![i] = c]
      BY <3>2
    <3>5. c.pending = loading[i].pending - 1
      BY <3>3
    <3> HIDE DEF c
    <3>6. /\ DOMAIN loading' = DOMAIN loading
          /\ \A j \in DOMAIN loading : j # i => loading'[j] = loading[j]
          /\ loading'[i] = c
      BY <3>4
    <3> QED
      BY <2>1, <3>5, <3>6 DEF DocumentLoaded
  <2>2. ASSUME loading' = [loading EXCEPT ![i].pending = @ - 1]
        PROVE  /\ DOMAIN loading' = DOMAIN loading
               /\ \A j \in DOMAIN loading : j # i => loading'[j] = loading[j]
               /\ loading'[i].pending = loading[i].pending - 1
    BY <2>0, <2>2 DEF MsgLoading
  <2>3. ASSUME NEW success \in BOOLEAN, ChatInfoLoaded(i, success)
        PROVE  /\ <<i, "info">> \in requests /\ requests' = requests \ {<<i, "info">>}
               /\ ProcessInReady(new_messages, loading')
               /\ loading' = [loading EXCEPT ![i].pending = @ - 1]
    BY <2>3 DEF ChatInfoLoaded
  <2>4. ASSUME ReplyLoaded(i)
        PROVE  /\ <<i, "reply">> \in requests /\ requests' = requests \ {<<i, "reply">>}
               /\ ProcessInReady(new_messages, loading')
               /\ loading' = [loading EXCEPT ![i].pending = @ - 1]
    BY <2>4 DEF ReplyLoaded
  <2>5. "media" \in Kinds /\ "info" \in Kinds /\ "reply" \in Kinds
    BY DEF Kinds
  <2> QED
    BY <2>1, <2>2, <2>3, <2>4, <2>5 DEF Answer
<1>2. PICK k \in Kinds : /\ <<i, k>> \in requests /\ requests' = requests \ {<<i, k>>}
                         /\ ProcessInReady(new_messages, loading')
                         /\ DOMAIN loading' = DOMAIN loading
                         /\ \A j \in DOMAIN loading : j # i => loading'[j] = loading[j]
                         /\ loading'[i].pending = loading[i].pending - 1
  BY <1>1
<1>3. UNCHANGED pending_channels
  BY DEF Answer
<1>4. \A j \in DOMAIN loading : (Registers(j))' = Registers(j) /\ Registers(j) \in {0, 1}
  BY <1>3 DEF Registers
<1>5. /\ Waits(i, requests') = Waits(i, requests) - 1
      /\ \A j : j # i => Waits(j, requests') = Waits(j, requests)
  BY <1>2, WaitsAnswered
<1>6. Counted'
  <2> SUFFICES ASSUME NEW j \in DOMAIN loading
               PROVE  loading'[j].pending = Waits(j, requests') + (Registers(j))'
    BY <1>2 DEF Counted
  <2>1. loading[j].pending = Waits(j, requests) + Registers(j) /\ Waits(j, requests) \in Nat
    BY WaitsType DEF Counts, Counted
  <2>2. (Registers(j))' = Registers(j) /\ Registers(j) \in Nat
    BY <1>4
  <2>3. CASE j = i
    BY <1>2, <1>5, <2>1, <2>2, <2>3
  <2>4. CASE j # i
    BY <1>2, <1>5, <2>1, <2>2, <2>4
  <2> QED
    BY <2>3, <2>4
<1>7. \A j \in Printed : loading'[j].pending = 0
  <2> SUFFICES ASSUME NEW j \in Printed
               PROVE  loading'[j].pending = 0
    OBVIOUS
  <2>1. j \in DOMAIN loading /\ j # i
    BY <1>2, PrintedIsDone
  <2> QED
    BY <1>2, <2>1 DEF Counts, PrintedReady
<1>8. PrintedReady' /\ HeadNotReady'
  <2>1. TypeInv' /\ loading' \in Seq(MsgLoading)
    BY AnswerType DEF TypeInv, TypeOK
  <2>2. Len(loading') >= Len(loading)
    BY <1>2, <2>1 DEF TypeInv, TypeOK
  <2>3. new_messages \in Seq(DOMAIN loading')
    BY <1>2 DEF TypeInv, TypeOK
  <2> QED
    BY <1>2, <1>7, <2>1, <2>2, <2>3, ReadyCounts
<1> QED
  BY <1>6, <1>8 DEF Counts

------------------------------------------------------------------------------
(* A load that ends *)

\* Its callbacks are gone from the table, and nobody else's.
LEMMA FinishedRegisters ==
  ASSUME TypeInv, OwnLoad, NEW ch \in Channels, Finished(ch, pending_channels[ch])
  PROVE  /\ \A i : i \in pending_channels[ch].cbs => Registers(i) = 1 /\ (Registers(i))' = 0
         /\ \A i : i \notin pending_channels[ch].cbs => (Registers(i))' = Registers(i)
         /\ \A i : i \notin DOMAIN loading => (Registers(i))' = 0
<1>1. /\ DOMAIN pending_channels' = Channels
      /\ pending_channels'[ch].cbs = {}
      /\ \A x \in Channels : x # ch => pending_channels'[x] = pending_channels[x]
  BY DEF Finished, NoLoad, TypeInv, TypeOK
<1>2. ASSUME NEW i, i \in pending_channels[ch].cbs
      PROVE  Registers(i) = 1 /\ (Registers(i))' = 0
  <2>1. \A x \in Channels : i \in pending_channels[x].cbs => x = ch
    BY <1>2 DEF OwnLoad
  <2>2. \A x \in Channels : i \notin pending_channels'[x].cbs
    BY <1>1, <2>1
  <2> QED
    BY <1>2, <2>2 DEF Registers
<1>3. ASSUME NEW i, i \notin pending_channels[ch].cbs
      PROVE  (Registers(i))' = Registers(i)
  <2>1. \A x \in Channels : i \in pending_channels'[x].cbs <=> i \in pending_channels[x].cbs
    BY <1>1, <1>3
  <2> QED
    BY <2>1 DEF Registers
<1>4. ASSUME NEW i, i \notin DOMAIN loading
      PROVE  (Registers(i))' = 0
  <2>1. \A x \in Channels : i \notin pending_channels[x].cbs
    BY <1>4 DEF TypeInv, TypeOK, ChannelLoading
  <2>2. \A x \in Channels : i \notin pending_channels'[x].cbs
    BY <1>1, <2>1
  <2> QED
    BY <2>2 DEF Registers
<1> QED
  BY <1>2, <1>3, <1>4

\* The callbacks take from the counts what the load had added.
LEMMA NotifiedCounts ==
  ASSUME TypeInv, Counts, OwnLoad, NEW ch \in Channels, Finished(ch, pending_channels[ch])
  PROVE  LET ld == Notified(loading, pending_channels[ch].cbs)
         IN  /\ \A i \in DOMAIN loading : ld[i].pending = Waits(i, requests) + (Registers(i))'
             /\ \A i \in Printed : ld[i].pending = 0
<1> DEFINE cbs == pending_channels[ch].cbs
           ld == Notified(loading, cbs)
<1>1. ASSUME NEW i \in DOMAIN loading
      PROVE  /\ i \in cbs => ld[i].pending = loading[i].pending - 1
             /\ i \notin cbs => ld[i].pending = loading[i].pending
  <2>1. loading[i] \in MsgLoading
    BY ElementOfSeq DEF TypeInv, TypeOK
  <2> QED
    BY <2>1 DEF Notified, MsgLoading
<1>2. ASSUME NEW i \in DOMAIN loading
      PROVE  ld[i].pending = Waits(i, requests) + (Registers(i))'
  <2>1. loading[i].pending = Waits(i, requests) + Registers(i) /\ Waits(i, requests) \in Nat
    BY WaitsType DEF Counts, Counted
  <2>2. CASE i \in cbs
    <3>1. Registers(i) = 1 /\ (Registers(i))' = 0
      BY <2>2, FinishedRegisters
    <3> QED
      BY <1>1, <2>1, <2>2, <3>1
  <2>3. CASE i \notin cbs
    <3>1. (Registers(i))' = Registers(i)
      BY <2>3, FinishedRegisters
    <3> QED
      BY <1>1, <2>1, <2>3, <3>1
  <2> QED
    BY <2>2, <2>3
<1>3. ASSUME NEW i \in Printed
      PROVE  ld[i].pending = 0
  <2>1. i \in DOMAIN loading /\ Registers(i) = 0
    BY PrintedIsDone
  <2>2. i \notin cbs
    BY <2>1, FinishedRegisters
  <2> QED
    BY <1>1, <2>1, <2>2 DEF Counts, PrintedReady
<1> QED
  BY <1>2, <1>3

\* The channel counts as loaded, so none of its messages has to be registered.
LEMMA FinishedChannelled ==
  ASSUME TypeInv, Channelled, NEW ch \in Channels, Finished(ch, pending_channels[ch]),
         DOMAIN loading \subseteq DOMAIN loading',
         \A i \in DOMAIN loading : loading'[i].msg = loading[i].msg,
         \A i \in DOMAIN loading' \ DOMAIN loading :
           InChannel(loading'[i].msg) => ChannelOf(loading'[i].msg) = ch
  PROVE  Channelled'
<1>1. /\ pending_channels'[ch].cbs = {} /\ pending_channels'[ch].phase = "done"
      /\ \A x \in Channels : x # ch => pending_channels'[x] = pending_channels[x]
  BY DEF Finished, NoLoad, TypeInv, TypeOK
<1>2. Loaded(ch)' /\ \A x \in Channels : x # ch => (Loaded(x)' <=> Loaded(x))
  BY DEF Finished, Loaded, TypeInv, TypeOK
<1>3. OwnLoad'
  <2> SUFFICES ASSUME NEW x \in Channels, NEW i \in pending_channels'[x].cbs
               PROVE  InChannel(loading'[i].msg) /\ ChannelOf(loading'[i].msg) = x
    BY DEF OwnLoad
  <2>1. x # ch /\ i \in pending_channels[x].cbs
    BY <1>1
  <2>2. i \in DOMAIN loading
    BY <2>1 DEF TypeInv, TypeOK, ChannelLoading
  <2> QED
    BY <2>1, <2>2 DEF Channelled, OwnLoad
<1>4. ChannelWaits'
  <2> SUFFICES ASSUME NEW x \in Channels, ~Loaded(x)', NEW i \in DOMAIN loading',
                      InChannel(loading'[i].msg), ChannelOf(loading'[i].msg) = x
               PROVE  i \in pending_channels'[x].cbs
    BY DEF ChannelWaits
  <2>1. x # ch /\ ~Loaded(x)
    BY <1>2
  <2>2. i \in DOMAIN loading /\ loading'[i].msg = loading[i].msg
    BY <2>1
  <2> QED
    BY <1>1, <2>1, <2>2 DEF Channelled, ChannelWaits
<1>5. LoadsAlive' /\ LoadsIdle'
  BY <1>1, <1>2 DEF LoadsAlive, LoadsIdle, Channelled
<1> QED
  BY <1>3, <1>4, <1>5 DEF Channelled

LEMMA LoadFinishWaits ==
  ASSUME TypeInv, Counts, Channelled, NEW ch \in Channels, LoadFinish(ch, pending_channels[ch])
  PROVE  Counts' /\ Channelled'
<1> DEFINE cbs == pending_channels[ch].cbs
<1>1. /\ Finished(ch, pending_channels[ch]) /\ loading' = Notified(loading, cbs)
      /\ UNCHANGED requests /\ ProcessInReady(new_messages, loading')
  BY DEF LoadFinish
<1>2. /\ \A i \in DOMAIN loading : loading'[i].pending = Waits(i, requests) + (Registers(i))'
      /\ \A i \in Printed : loading'[i].pending = 0
  BY <1>1, NotifiedCounts DEF Channelled
<1>3. /\ loading' \in Seq(MsgLoading) /\ Len(loading') = Len(loading)
      /\ \A i \in DOMAIN loading : loading'[i].msg = loading[i].msg
      /\ DOMAIN loading' = DOMAIN loading
  <2>1. DOMAIN loading' = DOMAIN loading
    BY <1>1 DEF Notified
  <2> QED
    BY <1>1, <2>1, NotifiedType DEF TypeInv
<1>4. Counted'
  BY <1>1, <1>2, <1>3 DEF Counted
<1>5. PrintedReady' /\ HeadNotReady'
  <2>1. new_messages \in Seq(DOMAIN loading') /\ Len(loading') >= Len(loading)
    BY <1>3 DEF TypeInv, TypeOK
  <2> QED
    BY <1>1, <1>2, <1>3, <2>1, ReadyCounts
<1>6. Channelled'
  BY <1>1, <1>3, FinishedChannelled
<1> QED
  BY <1>4, <1>5, <1>6 DEF Counts

------------------------------------------------------------------------------
(* Messages that register *)

\* The step registers ids with the load of ch, and nothing else.
AddedTo(ch, ids) ==
  \A x \in Channels :
    /\ pending_channels'[x].cbs
         = IF x = ch THEN pending_channels[x].cbs \cup ids ELSE pending_channels[x].cbs
    /\ pending_channels'[x].phase = "done" <=> pending_channels[x].phase = "done"
    /\ pending_channels'[x].phase = "none" => pending_channels'[x].cbs = {}

LEMMA AddedRegisters ==
  ASSUME TypeInv, NEW ch, NEW ids, AddedTo(ch, ids)
  PROVE  /\ ch \in Channels => \A i \in ids : (Registers(i))' = 1
         /\ \A i : i \notin ids => (Registers(i))' = Registers(i)
         /\ \A i : i \notin DOMAIN loading => Registers(i) = 0
<1>1. ASSUME ch \in Channels, NEW i \in ids
      PROVE  (Registers(i))' = 1
  BY <1>1 DEF AddedTo, Registers
<1>2. ASSUME NEW i, i \notin ids
      PROVE  (Registers(i))' = Registers(i)
  <2>1. \A x \in Channels : i \in pending_channels'[x].cbs <=> i \in pending_channels[x].cbs
    BY <1>2 DEF AddedTo
  <2> QED
    BY <2>1 DEF Registers
<1>3. ASSUME NEW i, i \notin DOMAIN loading
      PROVE  Registers(i) = 0
  BY <1>3 DEF Registers, TypeInv, TypeOK, ChannelLoading
<1> QED
  BY <1>1, <1>2, <1>3

LEMMA AddedChannelled ==
  ASSUME TypeInv, Channelled, NEW ch, NEW ids, AddedTo(ch, ids), UNCHANGED channel_members,
         DOMAIN loading \subseteq DOMAIN loading',
         \A i \in DOMAIN loading : loading'[i].msg = loading[i].msg,
         \A i \in ids : InChannel(loading'[i].msg) /\ ChannelOf(loading'[i].msg) = ch,
         \A i \in DOMAIN loading' \ DOMAIN loading :
           InChannel(loading'[i].msg) => /\ ChannelOf(loading'[i].msg) = ch
                                         /\ i \in ids \/ Loaded(ch)
  PROVE  Channelled'
<1>1. \A x \in Channels : Loaded(x)' <=> Loaded(x)
  BY DEF Loaded
<1>2. OwnLoad'
  <2> SUFFICES ASSUME NEW x \in Channels, NEW i \in pending_channels'[x].cbs
               PROVE  InChannel(loading'[i].msg) /\ ChannelOf(loading'[i].msg) = x
    BY DEF OwnLoad
  <2>1. CASE i \in pending_channels[x].cbs
    <3>1. i \in DOMAIN loading
      BY <2>1 DEF TypeInv, TypeOK, ChannelLoading
    <3> QED
      BY <2>1, <3>1 DEF Channelled, OwnLoad
  <2>2. CASE i \notin pending_channels[x].cbs
    BY <2>2 DEF AddedTo
  <2> QED
    BY <2>1, <2>2
<1>3. ChannelWaits'
  <2> SUFFICES ASSUME NEW x \in Channels, ~Loaded(x)', NEW i \in DOMAIN loading',
                      InChannel(loading'[i].msg), ChannelOf(loading'[i].msg) = x
               PROVE  i \in pending_channels'[x].cbs
    BY DEF ChannelWaits
  <2>1. ~Loaded(x)
    BY <1>1
  <2>2. CASE i \in DOMAIN loading
    BY <2>1, <2>2 DEF Channelled, ChannelWaits, AddedTo
  <2>3. CASE i \notin DOMAIN loading
    BY <2>1, <2>3 DEF AddedTo
  <2> QED
    BY <2>2, <2>3
<1>4. LoadsAlive' /\ LoadsIdle'
  BY <1>1 DEF LoadsAlive, LoadsIdle, Channelled, AddedTo
<1> QED
  BY <1>2, <1>3, <1>4 DEF Channelled

\* Messages that are accepted with wait 1 have registered, those with 0 have not.
LEMMA AcceptWaits ==
  ASSUME TypeInv, Counts, Channelled, NEW ms \in Seq(Msgs), NEW wait \in {0, 1}, NEW before,
         \A i : Data(i) # before, Accept(ms, wait, before, loading),
         NEW ch, ch \in Channels \/ wait = 0,
         AddedTo(ch, IF wait = 1 THEN {Len(loading) + i : i \in 1 .. Len(ms)} ELSE {}),
         UNCHANGED channel_members,
         \A i \in 1 .. Len(ms) : InChannel(ms[i]) => ChannelOf(ms[i]) = ch /\ (wait = 1 \/ Loaded(ch)),
         wait = 1 => \A i \in 1 .. Len(ms) : InChannel(ms[i])
  PROVE  Counts' /\ Channelled'
<1> DEFINE n == Len(loading)
           ids == IF wait = 1 THEN {n + i : i \in 1 .. Len(ms)} ELSE {}
<1>1. /\ n \in Nat /\ Len(ms) \in Nat /\ AcceptResult(ms, wait, loading)
      /\ loading \in Seq(MsgLoading) /\ wait \in Nat
  <2>1. loading \in Seq(MsgLoading) /\ wait \in Nat
    BY DEF TypeInv, TypeOK
  <2> QED
    BY <2>1, AcceptEffect
<1>2. loading' \in Seq(MsgLoading) /\ Len(loading') = n + Len(ms)
  BY <1>1, AcceptLog DEF TypeInv
<1>3. DOMAIN loading' = 1 .. n + Len(ms) /\ DOMAIN loading = 1 .. n
  BY <1>1, <1>2
<1>4. /\ \A i \in DOMAIN loading : loading'[i] = loading[i]
      /\ \A i \in 1 .. Len(ms) : loading'[n + i].msg = ms[i]
  BY <1>1, <1>3 DEF AcceptResult
<1>5. \A i \in 1 .. n + Len(ms) : i \notin DOMAIN loading
        => \E j \in 1 .. Len(ms) : i = n + j
  <2> SUFFICES ASSUME NEW i \in 1 .. n + Len(ms), i \notin DOMAIN loading
               PROVE  \E j \in 1 .. Len(ms) : i = n + j
    OBVIOUS
  <2>1. i - n \in 1 .. Len(ms) /\ i = n + (i - n)
    BY <1>1, <1>3
  <2> QED
    BY <2>1
<1>6. \A i \in ids : wait = 1 /\ i \notin DOMAIN loading /\ \E j \in 1 .. Len(ms) : i = n + j
  BY <1>1, <1>3
<1>7. AddedTo(ch, ids)
  OBVIOUS
<1>8. /\ \A i \in DOMAIN loading : (Registers(i))' = Registers(i)
      /\ \A i \in 1 .. n + Len(ms) : i \notin DOMAIN loading => (Registers(i))' = wait
  <2>1. \A i \in DOMAIN loading : i \notin ids
    BY <1>6
  <2>2. \A i \in DOMAIN loading : (Registers(i))' = Registers(i)
    <3> HIDE DEF ids
    <3> QED
      BY <1>7, <2>1, AddedRegisters
  <2>3. ASSUME NEW i \in 1 .. n + Len(ms), i \notin DOMAIN loading
        PROVE  (Registers(i))' = wait
    <3>1. PICK j \in 1 .. Len(ms) : i = n + j
      BY <1>5, <2>3
    <3>2. CASE wait = 1
      <4>1. i \in ids
        BY <3>1, <3>2
      <4> HIDE DEF ids
      <4> QED
        BY <1>7, <3>2, <4>1, AddedRegisters
    <3>3. CASE wait = 0
      <4>1. i \notin ids
        BY <3>3
      <4> HIDE DEF ids
      <4> QED
        BY <1>7, <2>3, <3>3, <4>1, AddedRegisters
    <3> QED
      BY <3>2, <3>3
  <2> QED
    BY <2>2, <2>3
<1>9. Counts'
  <2>1. \A i \in DOMAIN loading : loading[i].pending = Waits(i, requests) + (Registers(i))'
    BY <1>8 DEF Counts, Counted
  <2>2. \A i \in Printed : loading[i].pending = 0
    BY DEF Counts, PrintedReady
  <2> QED
    BY <1>1, <1>8, <2>1, <2>2, AcceptCounts
<1>10. Channelled'
  <2>1. DOMAIN loading \subseteq DOMAIN loading'
    BY <1>1, <1>3
  <2>2. \A i \in ids : InChannel(loading'[i].msg) /\ ChannelOf(loading'[i].msg) = ch
    BY <1>4, <1>6
  <2>3. ASSUME NEW i \in DOMAIN loading' \ DOMAIN loading, InChannel(loading'[i].msg)
        PROVE  ChannelOf(loading'[i].msg) = ch /\ (i \in ids \/ Loaded(ch))
    <3>1. PICK j \in 1 .. Len(ms) : i = n + j
      BY <1>3, <1>5
    <3>2. loading'[i].msg = ms[j]
      BY <1>4, <3>1
    <3> QED
      BY <2>3, <3>1, <3>2
  <2> HIDE DEF ids
  <2> QED
    BY <1>4, <1>7, <2>1, <2>2, <2>3, AddedChannelled
<1> QED
  BY <1>9, <1>10

------------------------------------------------------------------------------
(* The steps *)

\* Nothing is registered, so nothing has to be added.
LEMMA NothingAdded ==
  ASSUME Channelled, UNCHANGED pending_channels, NEW ch
  PROVE  AddedTo(ch, {})
BY DEF AddedTo, Channelled, LoadsIdle

\* What tgp_channel_load does for the message that is received now.
LEMMA RegisterAdds ==
  ASSUME TypeInv, Channelled, NEW ch \in Channels, ~Loaded(ch), NEW i,
         pending_channels' = [pending_channels EXCEPT ![ch] = Register(@, ch, i)]
  PROVE  AddedTo(ch, {i})
<1> DEFINE D == pending_channels[ch]
<1>1. /\ pending_channels'[ch] = Register(D, ch, i)
      /\ \A x \in Channels : x # ch => pending_channels'[x] = pending_channels[x]
  BY DEF TypeInv, TypeOK
<1>2. D.phase # "done" /\ (D.phase = "none" => D.cbs = {})
  BY DEF Channelled, LoadsAlive, LoadsIdle
<1>3. D \in ChannelLoading(DOMAIN loading)
  BY DEF TypeInv, TypeOK
<1>4. Register(D, ch, i).cbs = D.cbs \cup {i} /\ Register(D, ch, i).phase \notin {"none", "done"}
  BY <1>2, <1>3 DEF Register, ChannelLoading
<1>5. ASSUME NEW x \in Channels
      PROVE  /\ pending_channels'[x].cbs = IF x = ch THEN pending_channels[x].cbs \cup {i}
                                          ELSE pending_channels[x].cbs
             /\ pending_channels'[x].phase = "done" <=> pending_channels[x].phase = "done"
             /\ pending_channels'[x].phase = "none" => pending_channels'[x].cbs = {}
  <2>1. CASE x = ch
    BY <1>1, <1>2, <1>4, <2>1
  <2>2. CASE x # ch
    BY <1>1, <2>2 DEF Channelled, LoadsIdle
  <2> QED
    BY <2>1, <2>2
<1> QED
  BY <1>5 DEF AddedTo

\* A duplicate registers and is dropped: its record is counted all the same.
LEMMA DroppedWaits ==
  ASSUME TypeInv, Counts, Channelled, NEW m \in Msgs, InChannel(m),
         LET ch == ChannelOf(m)
         IN  /\ AddedTo(ch, IF Loaded(ch) THEN {} ELSE {Len(loading) + 1})
             /\ loading' = Append(loading, Loading(m, Wait(ch), FALSE)),
         UNCHANGED <<new_messages, printed, requests, channel_members>>
  PROVE  Counts' /\ Channelled'
<1> DEFINE n == Len(loading)
           ch == ChannelOf(m)
           ids == IF Loaded(ch) THEN {} ELSE {n + 1}
<1>1. n \in Nat /\ DOMAIN loading = 1 .. n /\ ch \in Channels
  BY DEF TypeInv, TypeOK, InChannel, ChannelOf
<1>2. /\ DOMAIN loading' = 1 .. n + 1
      /\ \A i \in 1 .. n : loading'[i] = loading[i]
      /\ loading'[n + 1] = Loading(m, Wait(ch), FALSE)
  <2> DEFINE c == Loading(m, Wait(ch), FALSE)
  <2>1. c \in MsgLoading
    BY DEF Loading, MsgLoading, Wait
  <2>2. loading' = Append(loading, c) /\ loading \in Seq(MsgLoading)
    BY DEF TypeInv, TypeOK
  <2> HIDE DEF c, ch
  <2>3. /\ loading' \in Seq(MsgLoading) /\ Len(loading') = n + 1
        /\ \A i \in 1 .. n : loading'[i] = loading[i]
        /\ loading'[n + 1] = c
    BY ONLY <2>1, <2>2, AppendProperties
  <2>4. DOMAIN loading' = 1 .. n + 1
    BY ONLY <2>3
  <2> QED
    BY <2>3, <2>4 DEF c
<1>3. loading'[n + 1].msg = m /\ loading'[n + 1].pending = Wait(ch)
  BY <1>2 DEF Loading
<1>4. AddedTo(ch, ids)
  OBVIOUS
<1>5. \A i \in 1 .. n : i \notin ids
  BY <1>1
<1>6. \A i \in 1 .. n : (Registers(i))' = Registers(i)
  <2> HIDE DEF ids
  <2> QED
    BY <1>4, <1>5, AddedRegisters
<1>7. \A i : i = n + 1 => (Registers(i))' = Wait(ch)
  <2> SUFFICES ASSUME NEW i, i = n + 1
               PROVE  (Registers(i))' = Wait(ch)
    OBVIOUS
  <2>1. CASE Loaded(ch)
    <3>1. i \notin ids /\ i \notin DOMAIN loading /\ Wait(ch) = 0
      BY <1>1, <2>1 DEF Wait
    <3> HIDE DEF ids
    <3> QED
      BY <1>4, <3>1, AddedRegisters
  <2>2. CASE ~Loaded(ch)
    <3>1. i \in ids /\ Wait(ch) = 1
      BY <2>2 DEF Wait
    <3> HIDE DEF ids
    <3> QED
      BY <1>1, <1>4, <3>1, AddedRegisters
  <2> QED
    BY <2>1, <2>2
<1>8. Waits(n + 1, requests) = 0
  <2>1. \A k : <<n + 1, k>> \notin requests
    BY <1>1 DEF TypeInv, TypeOK
  <2>2. {k \in Kinds : <<n + 1, k>> \in requests} = {}
    BY <2>1
  <2> QED
    BY <2>2, FS_EmptySet DEF Waits
<1>9. Counted'
  <2> SUFFICES ASSUME NEW i \in 1 .. n + 1
               PROVE  loading'[i].pending = Waits(i, requests') + (Registers(i))'
    BY <1>2 DEF Counted
  <2>1. CASE i \in 1 .. n
    BY <1>1, <1>2, <1>6, <2>1 DEF Counts, Counted
  <2>2. CASE i = n + 1
    <3> HIDE DEF ch
    <3>1. (Registers(i))' = Wait(ch) /\ Waits(i, requests') = 0 /\ loading'[i].pending = Wait(ch)
      BY <1>3, <1>7, <1>8, <2>2
    <3>2. 0 + Wait(ch) = Wait(ch)
      BY DEF Wait
    <3> QED
      BY ONLY <3>1, <3>2, Zenon
  <2>3. i \in 1 .. n \/ i = n + 1
    BY <1>1
  <2> QED
    BY <2>1, <2>2, <2>3
<1>10. PrintedReady' /\ HeadNotReady'
  <2>1. \A i \in Printed : i \in 1 .. n
    BY <1>1, ElementOfSeq DEF Printed, TypeInv, TypeOK
  <2>2. new_messages # <<>> => Head(new_messages) \in 1 .. n
    BY <1>1, HeadTailProperties DEF TypeInv, TypeOK
  <2>3. Printed' = Printed
    BY DEF Printed
  <2> QED
    BY <1>2, <2>1, <2>2, <2>3 DEF Counts, PrintedReady, HeadNotReady
<1>11. Channelled'
  <2>1. /\ DOMAIN loading \subseteq DOMAIN loading'
        /\ \A i \in DOMAIN loading : loading'[i].msg = loading[i].msg
        /\ \A i \in DOMAIN loading' \ DOMAIN loading : i = n + 1
    BY <1>1, <1>2
  <2>2. \A i \in ids : i = n + 1
    OBVIOUS
  <2>3. \A i : i = n + 1 => i \in ids \/ Loaded(ch)
    OBVIOUS
  <2>4. \A i \in ids : InChannel(loading'[i].msg) /\ ChannelOf(loading'[i].msg) = ch
    BY <1>3, <2>2
  <2>5. \A i \in DOMAIN loading' \ DOMAIN loading :
          ChannelOf(loading'[i].msg) = ch /\ (i \in ids \/ Loaded(ch))
    BY <1>3, <2>1, <2>3
  <2> HIDE DEF ids, ch
  <2> QED
    BY <1>4, <2>1, <2>4, <2>5, AddedChannelled
<1> QED
  BY <1>9, <1>10, <1>11 DEF Counts

LEMMA RecvWaits ==
  ASSUME TypeInv, Counts, Channelled, NEW m \in Msgs, RecvUpdate(m)
  PROVE  Counts' /\ Channelled'
<1>1. UNCHANGED channel_members /\ <<m>> \in Seq(Msgs) /\ Len(<<m>>) = 1 /\ <<m>>[1] = m
  BY DEF RecvUpdate
<1>2. \A i : Data(i) # Null
  BY NeverFound
<1>3. CASE RecvDirect(m)
  <2>1. ~InChannel(m) /\ Accept(<<m>>, 0, Null, loading) /\ UNCHANGED pending_channels
    BY <1>3 DEF RecvDirect
  <2>2. AddedTo(ChannelOf(m), {})
    BY <2>1, NothingAdded
  <2>3. /\ AddedTo(ChannelOf(m), IF 0 = 1 THEN {Len(loading) + i : i \in 1 .. Len(<<m>>)} ELSE {})
        /\ \A i \in 1 .. Len(<<m>>) : ~InChannel(<<m>>[i])
    BY <1>1, <2>1, <2>2
  <2>4. 0 \in {0, 1} /\ 0 # 1
    OBVIOUS
  <2>5. \A ms \in Seq(Msgs) :
          /\ Accept(ms, 0, Null, loading)
          /\ AddedTo(ChannelOf(m), IF 0 = 1 THEN {Len(loading) + i : i \in 1 .. Len(ms)} ELSE {})
          /\ \A i \in 1 .. Len(ms) : ~InChannel(ms[i])
          => Counts' /\ Channelled'
    BY <1>1, <1>2, <2>4, AcceptWaits
  <2> QED
    BY <1>1, <2>1, <2>3, <2>5
<1>4. CASE RecvInChannel(m)
  <2> DEFINE ch == ChannelOf(m)
  <2>1. ch \in Channels /\ InChannel(m)
    BY <1>4 DEF RecvInChannel, InChannel, ChannelOf
  <2>2. AddedTo(ch, IF Loaded(ch) THEN {} ELSE {Len(loading) + 1})
    <3>1. CASE Loaded(ch)
      BY <1>4, <3>1, NothingAdded DEF RecvInChannel
    <3>2. CASE ~Loaded(ch)
      <4>1. pending_channels' = [pending_channels EXCEPT ![ch] = Register(@, ch, Len(loading) + 1)]
        BY <1>4, <3>2 DEF RecvInChannel
      <4>2. AddedTo(ch, {Len(loading) + 1})
        BY <2>1, <3>2, <4>1, RegisterAdds
      <4> QED
        BY <3>2, <4>2
    <3> QED
      BY <3>1, <3>2
  <2>3. CASE /\ loading' = Append(loading, Loading(m, Wait(ch), FALSE))
             /\ UNCHANGED <<new_messages, printed, requests>>
    BY <1>1, <2>1, <2>2, <2>3, DroppedWaits
  <2>4. CASE Accept(<<m>>, Wait(ch), Null, loading)
    <3>1. Wait(ch) \in {0, 1} /\ (Wait(ch) = 1 <=> ~Loaded(ch))
      BY DEF Wait
    <3>2. {Len(loading) + i : i \in 1 .. Len(<<m>>)} = {Len(loading) + 1}
      <4>1. 1 .. Len(<<m>>) = {1}
        BY <1>1
      <4> QED
        BY <4>1
    <3>3. AddedTo(ch, IF Wait(ch) = 1 THEN {Len(loading) + i : i \in 1 .. Len(<<m>>)} ELSE {})
      BY <2>2, <3>1, <3>2
    <3>4. \A i \in 1 .. Len(<<m>>) : <<m>>[i] = m
      OBVIOUS
    <3>5. \A i \in 1 .. Len(<<m>>) : /\ InChannel(<<m>>[i]) /\ ChannelOf(<<m>>[i]) = ch
                                     /\ Wait(ch) = 1 \/ Loaded(ch)
      BY <2>1, <3>1, <3>4
    <3> HIDE DEF ch
    <3> QED
      BY <1>1, <1>2, <2>1, <2>4, <3>1, <3>3, <3>5, AcceptWaits
  <2> QED
    BY <1>4, <2>3, <2>4 DEF RecvInChannel
<1> QED
  BY <1>3, <1>4 DEF RecvUpdate

LEMMA HistoryReceivedWaits ==
  ASSUME TypeInv, Counts, Channelled, NEW ch \in Channels, pending_channels[ch].phase = "history",
         NEW page \in Pages(ch, pending_channels[ch]), NEW jumped,
         HistoryReceived(ch, pending_channels[ch], page, jumped)
  PROVE  Counts' /\ Channelled'
<1> DEFINE D == pending_channels[ch]
           n == Len(loading)
<1>1. PICK ms \in OldestFirst({m \in page : m.sid > jumped /\ ~m.old}) :
        IF ch \in Megagroups
        THEN /\ pending_channels' = [pending_channels EXCEPT ![ch].phase = "members",
                  ![ch].cbs = @ \cup {n + i : i \in DOMAIN ms}]
             /\ Accept(ms, 1, FindHigher(jumped), loading)
             /\ UNCHANGED channel_members
        ELSE /\ Finished(ch, D)
             /\ Accept(ms, 0, FindHigher(jumped), Notified(loading, D.cbs))
  BY DEF HistoryReceived
<1>2. /\ ms \in Seq(Msgs) /\ Len(ms) \in Nat /\ DOMAIN ms = 1 .. Len(ms)
      /\ \A i \in 1 .. Len(ms) : ms[i] \in page
  <2>1. page \subseteq Msgs
    BY PagesType
  <2>2. ms \in Seq(Msgs) /\ \A i \in DOMAIN ms : ms[i] \in {m \in page : m.sid > jumped /\ ~m.old}
    BY <2>1, OldestFirstType
  <2> QED
    BY <2>2
<1>3. \A i \in 1 .. Len(ms) : InChannel(ms[i]) /\ ChannelOf(ms[i]) = ch
  BY <1>2 DEF Pages, ChannelMsgs
<1>4. \A i : Data(i) # FindHigher(jumped)
  BY NeverFound
<1>5. CASE ch \in Megagroups
  <2> DEFINE ids == {n + i : i \in 1 .. Len(ms)}
  <2>1. /\ pending_channels' = [pending_channels EXCEPT ![ch] =
             [D EXCEPT !.phase = "members", !.cbs = @ \cup ids]]
        /\ Accept(ms, 1, FindHigher(jumped), loading) /\ UNCHANGED channel_members
    BY <1>1, <1>2, <1>5
  <2> HIDE DEF ids
  <2>2. AddedTo(ch, ids)
    <3>1. D \in ChannelLoading(DOMAIN loading)
      BY DEF TypeInv, TypeOK
    <3>2. /\ pending_channels'[ch] = [D EXCEPT !.phase = "members", !.cbs = @ \cup ids]
          /\ \A x \in Channels : x # ch => pending_channels'[x] = pending_channels[x]
      BY <2>1 DEF TypeInv, TypeOK
    <3>3. pending_channels'[ch].phase = "members" /\ pending_channels'[ch].cbs = D.cbs \cup ids
      BY <3>1, <3>2 DEF ChannelLoading
    <3> QED
      BY <3>2, <3>3 DEF AddedTo, Channelled, LoadsIdle
  <2>3. AddedTo(ch, IF 1 = 1 THEN {n + i : i \in 1 .. Len(ms)} ELSE {})
    BY <2>2 DEF ids
  <2>4. 1 \in {0, 1}
    OBVIOUS
  <2> QED
    BY <1>2, <1>3, <1>4, <2>1, <2>3, <2>4, AcceptWaits
<1>6. CASE ch \notin Megagroups
  <2> DEFINE ld == Notified(loading, D.cbs)
  <2>1. Finished(ch, D) /\ Accept(ms, 0, FindHigher(jumped), ld)
    BY <1>1, <1>6
  <2>2. /\ ld \in Seq(MsgLoading) /\ Len(ld) = n
        /\ \A i \in DOMAIN loading : ld[i].msg = loading[i].msg
    BY NotifiedType DEF TypeInv
  <2>3. /\ \A i \in DOMAIN loading : ld[i].pending = Waits(i, requests) + (Registers(i))'
        /\ \A i \in Printed : ld[i].pending = 0
    BY <2>1, NotifiedCounts DEF Channelled
  <2>4. \A i \in 1 .. n + Len(ms) : i \notin DOMAIN loading => (Registers(i))' = 0
    BY <2>1, FinishedRegisters DEF Channelled
  <2> HIDE DEF ld, n
  <2>5. 0 \in Nat
    OBVIOUS
  <2>6. Counts'
    BY <1>2, <1>4, <2>1, <2>2, <2>3, <2>4, <2>5, AcceptCounts DEF n
  <2>7. /\ n \in Nat /\ AcceptResult(ms, 0, ld)
        /\ loading' \in Seq(MsgLoading) /\ Len(loading') = n + Len(ms)
    <3>1. n \in Nat /\ AcceptResult(ms, 0, ld)
      BY <1>2, <1>4, <2>1, <2>2, <2>5, AcceptEffect DEF n
    <3>2. loading' \in Seq(MsgLoading) /\ Len(loading') = n + Len(ms)
      BY <1>2, <1>4, <2>1, <2>2, <2>5, AcceptLog DEF n, TypeInv
    <3> QED
      BY <3>1, <3>2
  <2>8. DOMAIN loading = 1 .. n /\ DOMAIN loading' = 1 .. n + Len(ms)
    BY <2>7 DEF n, TypeInv, TypeOK
  <2>9. /\ \A i \in 1 .. n : loading'[i] = ld[i]
        /\ \A i \in 1 .. Len(ms) : loading'[n + i].msg = ms[i]
    BY <2>7 DEF AcceptResult, n
  <2>10. \A i \in DOMAIN loading : loading'[i].msg = loading[i].msg
    BY <2>2, <2>8, <2>9
  <2>11. ASSUME NEW i \in DOMAIN loading' \ DOMAIN loading
         PROVE  ChannelOf(loading'[i].msg) = ch
    <3>1. i - n \in 1 .. Len(ms) /\ n + (i - n) = i
      BY <1>2, <2>7, <2>8
    <3> QED
      BY <1>3, <2>9, <3>1
  <2>12. DOMAIN loading \subseteq DOMAIN loading'
    BY <1>2, <2>7, <2>8
  <2>13. Channelled'
    BY <2>1, <2>10, <2>11, <2>12, FinishedChannelled
  <2> QED
    BY <2>6, <2>13
<1> QED
  BY <1>5, <1>6

\* A step that touches neither the records nor their callbacks.
LEMMA StutterWaits ==
  ASSUME TypeInv, Counts, Channelled, NEW ch, AddedTo(ch, {}),
         UNCHANGED <<loading, new_messages, printed, requests, channel_members>>
  PROVE  Counts' /\ Channelled'
<1>1. \A i : (Registers(i))' = Registers(i)
  <2>1. \A i : i \notin {}
    OBVIOUS
  <2> QED
    BY <2>1, AddedRegisters
<1>2. Counts'
  BY <1>1 DEF Counts, Counted, PrintedReady, HeadNotReady, Printed
<1>3. Channelled'
  BY AddedChannelled
<1> QED
  BY <1>2, <1>3

\* A load that goes on, with another query or from the start.
LEMMA NextPhaseWaits ==
  ASSUME TypeInv, Counts, Channelled, NEW ch \in Channels, NEW D,
         pending_channels' = [pending_channels EXCEPT ![ch] = D],
         D.phase \notin {"none", "done"}, pending_channels[ch].phase # "done",
         D.cbs = pending_channels[ch].cbs,
         UNCHANGED <<loading, new_messages, printed, requests, channel_members>>
  PROVE  Counts' /\ Channelled'
<1>1. /\ pending_channels'[ch] = D
      /\ \A x \in Channels : x # ch => pending_channels'[x] = pending_channels[x]
  BY DEF TypeInv, TypeOK
<1>2. AddedTo(ch, {})
  BY <1>1 DEF AddedTo, Channelled, LoadsIdle
<1> QED
  BY <1>2, StutterWaits

LEMMA LoadingChannelWaits ==
  ASSUME TypeInv, Counts, Channelled, NEW ch \in Channels,
         \/ ChannelListed(ch) \/ GetHistoryDone(ch) \/ GetMembersDone(ch) \/ LoadAdminsDone(ch)
  PROVE  Counts' /\ Channelled'
<1> DEFINE D == pending_channels[ch]
<1>1. D \in ChannelLoading(DOMAIN loading)
  BY DEF TypeInv, TypeOK
<1>2. CASE ChannelListed(ch)
  <2> DEFINE E == [phase |-> "history", asked |-> posted[ch], min |-> last_server_id[ch],
                   cbs |-> {}, members |-> 0]
  <2>1. /\ pending_channels' = [pending_channels EXCEPT ![ch] = E] /\ D.phase = "none"
        /\ UNCHANGED <<loading, new_messages, printed, requests, channel_members>>
    BY <1>2 DEF ChannelListed
  <2>2. E.phase = "history" /\ E.cbs = D.cbs
    BY <2>1 DEF Channelled, LoadsIdle
  <2> HIDE DEF E
  <2> QED
    BY <2>1, <2>2, NextPhaseWaits
<1>3. CASE GetHistoryDone(ch)
  <2>1. D.phase = "history"
    BY <1>3 DEF GetHistoryDone
  <2>2. ASSUME NEW page \in Pages(ch, D), NEW jumped, HistoryReceived(ch, D, page, jumped)
        PROVE  Counts' /\ Channelled'
    BY <2>1, <2>2, HistoryReceivedWaits
  <2>3. CASE HistoryFailed(ch, D) /\ ch \in Megagroups
    <3> DEFINE E == [D EXCEPT !.phase = "members"]
    <3>1. /\ pending_channels' = [pending_channels EXCEPT ![ch] = E]
          /\ UNCHANGED <<loading, new_messages, printed, requests, channel_members>>
      BY <2>3 DEF HistoryFailed
    <3>2. E.phase = "members" /\ E.cbs = D.cbs
      BY <1>1 DEF ChannelLoading
    <3> HIDE DEF E
    <3> QED
      BY <2>1, <3>1, <3>2, NextPhaseWaits
  <2>4. CASE HistoryFailed(ch, D) /\ ch \notin Megagroups
    BY <2>4, LoadFinishWaits DEF HistoryFailed
  <2> QED
    BY <1>3, <2>2, <2>3, <2>4 DEF GetHistoryDone
<1>4. CASE GetMembersDone(ch)
  <2>1. D.phase = "members"
    BY <1>4 DEF GetMembersDone
  <2>2. CASE LoadFinish(ch, D)
    BY <2>2, LoadFinishWaits
  <2>3. ASSUME NEW n \in MemberCounts,
               pending_channels' = [pending_channels EXCEPT ![ch].phase = "admins",
                                                            ![ch].members = n],
               UNCHANGED <<loading, new_messages, printed, requests, channel_members>>
        PROVE  Counts' /\ Channelled'
    <3> DEFINE E == [D EXCEPT !.phase = "admins", !.members = n]
    <3>1. pending_channels' = [pending_channels EXCEPT ![ch] = E]
      BY <2>3
    <3>2. E.phase = "admins" /\ E.cbs = D.cbs
      BY <1>1 DEF ChannelLoading
    <3> HIDE DEF E
    <3> QED
      BY <2>1, <2>3, <3>1, <3>2, NextPhaseWaits
  <2> QED
    BY <1>4, <2>2, <2>3 DEF GetMembersDone
<1>5. CASE LoadAdminsDone(ch)
  <2>1. CASE LoadFinish(ch, D)
    BY <2>1, LoadFinishWaits
  <2>2. CASE UNCHANGED <<loading, new_messages, printed, requests, pending_channels, channel_members>>
    BY <2>2, NothingAdded, StutterWaits
  <2> QED
    BY <1>5, <2>1, <2>2 DEF LoadAdminsDone
<1> QED
  BY <1>2, <1>3, <1>4, <1>5

\* An answer changes no message.
LEMMA AnswerMsgs ==
  ASSUME TypeInv, NEW i \in DOMAIN loading, Answer(i)
  PROVE  /\ DOMAIN loading' = DOMAIN loading
         /\ \A j \in DOMAIN loading : loading'[j].msg = loading[j].msg
<1>1. loading[i] \in MsgLoading
  BY ElementOfSeq DEF TypeInv, TypeOK
<1>2. \A j \in DOMAIN loading : j # i => loading'[j] = loading[j]
  BY DEF Answer, DocumentLoaded, ChatInfoLoaded, ReplyLoaded
<1>3. DOMAIN loading' = DOMAIN loading
  BY DEF Answer, DocumentLoaded, ChatInfoLoaded, ReplyLoaded
<1>4. ASSUME NEW success \in BOOLEAN, DocumentLoaded(i, success)
      PROVE  loading'[i].msg = loading[i].msg
  <2>1. loading' = [loading EXCEPT ![i] = [loading[i] EXCEPT !.pending = @ - 1,
                                             !.data = success, !.error = ~success]]
    BY <1>4 DEF DocumentLoaded
  <2>2. (~success) \in BOOLEAN /\ loading[i].pending - 1 \in Int
    BY <1>1 DEF MsgLoading
  <2>3. [loading[i] EXCEPT !.pending = @ - 1, !.data = success, !.error = ~success].msg
          = loading[i].msg
    BY <1>1, <1>4, <2>2, RecordExcept, Zenon DEF MsgLoading
  <2> DEFINE c == [loading[i] EXCEPT !.pending = @ - 1, !.data = success, !.error = ~success]
  <2>4. loading' = [loading EXCEPT ![i] = c] /\ c.msg = loading[i].msg
    BY <2>1, <2>3
  <2> HIDE DEF c
  <2> QED
    BY <2>4
<1>5. CASE loading' = [loading EXCEPT ![i].pending = @ - 1]
  BY <1>1, <1>5 DEF MsgLoading
<1>6. loading'[i].msg = loading[i].msg
  BY <1>4, <1>5 DEF Answer, ChatInfoLoaded, ReplyLoaded
<1> QED
  BY <1>2, <1>3, <1>6

LEMMA AnswerChannelled ==
  ASSUME TypeInv, Channelled, NEW i \in DOMAIN loading, Answer(i)
  PROVE  Channelled'
<1>1. /\ DOMAIN loading' = DOMAIN loading
      /\ \A j \in DOMAIN loading : loading'[j].msg = loading[j].msg
  BY AnswerMsgs
<1>2. UNCHANGED <<pending_channels, channel_members>>
  BY DEF Answer
<1>3. AddedTo(0, {})
  BY <1>2, NothingAdded
<1> QED
  BY <1>1, <1>2, <1>3, AddedChannelled

\* A fresh session waits for nothing.
LEMMA FreshWaits ==
  /\ FreshSession => Counts /\ Channelled
  /\ FreshSession' => Counts' /\ Channelled'
BY DEF FreshSession, Counts, Counted, PrintedReady, HeadNotReady, Printed, Channelled,
       OwnLoad, ChannelWaits, LoadsAlive, LoadsIdle, Loaded, NoLoad

\* Without a connection there is no session.
DownIsFresh == proc = "down" => FreshSession

WaitInv == Counts /\ Channelled /\ DownIsFresh

LEMMA StepWaits ==
  ASSUME TypeInv, WaitInv, [Next]_vars
  PROVE  WaitInv'
<1> USE DEF WaitInv
<1>1. DownIsFresh'
  <2>1. CASE Close
    BY <2>1 DEF Close, DownIsFresh, FreshSession
  <2>2. CASE UNCHANGED vars
    BY <2>2 DEF vars, session, DownIsFresh, FreshSession
  <2>3. CASE \E ch \in Channels : Post(ch)
    BY <2>3 DEF Post, session, DownIsFresh, FreshSession
  <2>4. ASSUME NEW ch \in Channels, LoadAdminsDone(ch)
        PROVE  proc' # "down"
    BY <2>4 DEF LoadAdminsDone
  <2>5. ASSUME \/ \E m \in Msgs : Update(m)
               \/ \E i \in DOMAIN loading : Answer(i)
               \/ \E ch \in Channels : ChannelListed(ch) \/ GetHistoryDone(ch) \/ GetMembersDone(ch)
               \/ SetStatus
               \/ \E p \in Peers : WriteTo(p)
               \/ Login
        PROVE  proc' # "down"
    BY <2>5 DEF Update, Answer, ChannelListed, GetHistoryDone, GetMembersDone, SetStatus, WriteTo,
                Login
  <2> QED
    BY <2>1, <2>2, <2>3, <2>4, <2>5 DEF Next, DownIsFresh
<1>2. CASE \/ SetStatus \/ (\E p \in Peers : WriteTo(p)) \/ (\E ch \in Channels : Post(ch)) \/ Login
           \/ UNCHANGED vars
  <2>1. UNCHANGED <<loading, new_messages, printed, requests, pending_channels, channel_members>>
    BY <1>2 DEF SetStatus, WriteTo, Post, Login, vars, session
  <2>2. AddedTo(0, {})
    BY <2>1, NothingAdded
  <2> QED
    BY <1>1, <2>1, <2>2, StutterWaits
<1>3. CASE Close
  <2>1. FreshSession'
    BY <1>3 DEF Close, FreshSession
  <2> QED
    BY <1>1, <2>1, FreshWaits
<1>4. ASSUME NEW m \in Msgs, Update(m)
      PROVE  Counts' /\ Channelled'
  <2>1. CASE RecvUpdate(m)
    BY <2>1, RecvWaits
  <2>2. CASE IgnoreUpdate
    <3>1. UNCHANGED <<loading, new_messages, printed, requests, pending_channels, channel_members>>
      BY <2>2 DEF IgnoreUpdate, session
    <3>2. AddedTo(0, {})
      BY <3>1, NothingAdded
    <3> QED
      BY <3>1, <3>2, StutterWaits
  <2> QED
    BY <1>4, <2>1, <2>2 DEF Update
<1> QED
  BY <1>1, <1>2, <1>3, <1>4, AnswerCounts, AnswerChannelled, LoadingChannelWaits DEF Next

LEMMA WaitsInvariant == Spec => [](TypeInv /\ WaitInv)
<1>1. Init => TypeInv /\ WaitInv
  BY InitType, FreshWaits DEF Init, WaitInv, DownIsFresh
<1>2. (TypeInv /\ WaitInv) /\ [Next]_vars => (TypeInv /\ WaitInv)'
  BY StepType, StepWaits
<1> QED
  BY <1>1, <1>2, PTL DEF Spec

------------------------------------------------------------------------------
(* The results *)

\* The counter of every message is the number of answers that will still call back
\* for it, in whatever order queries, loads and updates come in; none is left for a
\* message that was printed and freed.
THEOREM CountsAreExact == Spec => []PendingExact
<1>1. TypeInv /\ WaitInv => PendingExact
  <2> SUFFICES ASSUME TypeInv, WaitInv
               PROVE  PendingExact
    OBVIOUS
  <2>1. \A i \in Queued : i \in DOMAIN loading
    BY ElementOfSeq DEF Queued, TypeInv, TypeOK
  <2>2. \A i \in Queued : loading[i].pending = Outstanding(i)
    BY <2>1, OutstandingIs DEF WaitInv, Counts, Counted, Channelled
  <2>3. ASSUME NEW i \in Printed
        PROVE  Outstanding(i) = 0
    <3>1. i \in DOMAIN loading /\ loading[i].pending = 0
      BY PrintedIsDone DEF WaitInv, Counts, PrintedReady
    <3>2. loading[i].pending = Waits(i, requests) + Registers(i)
      BY <3>1 DEF WaitInv, Counts, Counted
    <3>3. Outstanding(i) = Waits(i, requests) + Registers(i)
      BY <3>1, OutstandingIs DEF WaitInv, Channelled
    <3> QED
      BY <3>1, <3>2, <3>3
  <2> QED
    BY <2>2, <2>3 DEF PendingExact
<1> QED
  BY <1>1, WaitsInvariant, PTL

\* No handler returns with a printable head: a later event would not print it.
THEOREM HeadIsWaiting == Spec => []HeadWaits
<1>1. TypeInv /\ WaitInv => HeadWaits
  <2> SUFFICES ASSUME TypeInv, WaitInv, new_messages # <<>>
               PROVE  loading[Head(new_messages)].pending > 0
    BY DEF HeadWaits
  <2>1. Head(new_messages) \in DOMAIN loading
    BY HeadTailProperties DEF TypeInv, TypeOK
  <2>2. loading[Head(new_messages)].pending \in Nat
    BY <2>1, CountTypes DEF WaitInv
  <2>3. loading[Head(new_messages)].pending # 0
    BY DEF WaitInv, Counts, HeadNotReady
  <2> QED
    BY <2>2, <2>3
<1> QED
  BY <1>1, WaitsInvariant, PTL

\* No message of a channel is printed before the channel's history was fetched.
THEOREM ChannelsComeFirst == Spec => []ChannelLoadedFirst
<1>1. TypeInv /\ WaitInv => ChannelLoadedFirst
  <2> SUFFICES ASSUME TypeInv, WaitInv, NEW i \in Printed, InChannel(loading[i].msg),
                      ~Loaded(ChannelOf(loading[i].msg))
               PROVE  FALSE
    BY DEF ChannelLoadedFirst
  <2>1. i \in DOMAIN loading /\ Registers(i) = 0
    BY PrintedIsDone DEF WaitInv
  <2>2. ChannelOf(loading[i].msg) \in Channels
    BY DEF InChannel, ChannelOf
  <2>3. i \in pending_channels[ChannelOf(loading[i].msg)].cbs
    BY <2>1, <2>2 DEF WaitInv, Channelled, ChannelWaits
  <2> QED
    BY <2>1, <2>2, <2>3 DEF Registers
<1> QED
  BY <1>1, WaitsInvariant, PTL

\* The load a message registers with is not one that was freed, and a queued message
\* whose channel is not loaded is registered with a load that waits for an answer.
THEOREM LoadsStayAlive == Spec => []LoadAlive
<1>1. TypeInv /\ WaitInv => LoadAlive
  <2> SUFFICES ASSUME TypeInv, WaitInv
               PROVE  LoadAlive
    OBVIOUS
  <2>1. \A ch \in Channels : (pending_channels[ch].phase = "done") <=> Loaded(ch)
    BY DEF WaitInv, Channelled, LoadsAlive
  <2>2. ASSUME NEW i \in Queued, InChannel(loading[i].msg), ~Loaded(ChannelOf(loading[i].msg))
        PROVE  LET ch == ChannelOf(loading[i].msg)
               IN  /\ pending_channels[ch].phase \in {"history", "members", "admins"}
                   /\ i \in pending_channels[ch].cbs
    <3> DEFINE ch == ChannelOf(loading[i].msg)
    <3>1. i \in DOMAIN loading
      BY DEF Queued, TypeInv, TypeOK
    <3>2. ch \in Channels
      BY <2>2 DEF InChannel, ChannelOf
    <3>3. i \in pending_channels[ch].cbs
      BY <2>2, <3>1, <3>2 DEF WaitInv, Channelled, ChannelWaits
    <3>4. pending_channels[ch].phase \notin {"none", "done"}
      BY <2>1, <2>2, <3>2, <3>3 DEF WaitInv, Channelled, LoadsIdle
    <3>5. pending_channels[ch].phase \in Phases
      BY <3>2 DEF TypeInv, TypeOK, ChannelLoading
    <3> QED
      BY <3>3, <3>4, <3>5 DEF Phases
  <2> QED
    BY <2>1, <2>2 DEF LoadAlive
<1> QED
  BY <1>1, WaitsInvariant, PTL

(***************************************************************************)
(* PART THREE.  The message window.  That the queue implements the safety  *)
(* part of PrintedLog, that a chat's messages wait for its members, that   *)
(* receipts are owed for exactly what was printed and not reported, and    *)
(* that last-server-id passes only what was accepted.  All four look at a  *)
(* step from outside (StepPrints): it prints from some queue, or leaves    *)
(* the window alone.                                                       *)
(***************************************************************************)

------------------------------------------------------------------------------
(* What a step prints *)

\* No record is taken back, and none gets another message.
Records ==
  \A i \in DOMAIN loading : i \in DOMAIN loading' /\ loading'[i].msg = loading[i].msg

\* The step ends with tgp_msg_process_in_ready, on some queue.
Prints == \E q \in Seq(DOMAIN loading') : ProcessInReady(q, loading')

WindowStays == UNCHANGED <<printed, new_messages, pending_reads, unread>>

LEMMA AcceptPrints ==
  ASSUME TypeInv, NEW ms \in Seq(Msgs), NEW wait \in Nat, NEW before,
         \A i : Data(i) # before, NEW ld \in Seq(MsgLoading), Len(ld) = Len(loading),
         \A i \in DOMAIN loading : ld[i].msg = loading[i].msg,
         Accept(ms, wait, before, ld)
  PROVE  Records /\ Prints
<1> DEFINE n == Len(loading)
<1>1. /\ n \in Nat /\ Len(ms) \in Nat /\ AcceptResult(ms, wait, ld)
      /\ ProcessInReady(new_messages \o NewIds(Len(ms)), loading')
  BY AcceptEffect
<1>2. loading' \in Seq(MsgLoading) /\ Len(loading') = n + Len(ms)
  BY AcceptLog DEF TypeInv
<1>3. DOMAIN loading' = 1 .. n + Len(ms) /\ DOMAIN loading = 1 .. n
  BY <1>2 DEF TypeInv, TypeOK
<1>4. DOMAIN loading \subseteq DOMAIN loading'
  BY <1>1, <1>3
<1>5. Records
  BY <1>1, <1>3, <1>4 DEF AcceptResult, Records
<1>6. new_messages \in Seq(DOMAIN loading')
  BY <1>4, SeqMonotonic DEF TypeInv, TypeOK
<1>7. NewIds(Len(ms)) \in Seq(DOMAIN loading')
  BY <1>1, <1>3 DEF NewIds
<1>8. new_messages \o NewIds(Len(ms)) \in Seq(DOMAIN loading')
  BY <1>6, <1>7, ConcatProperties
<1> QED
  BY <1>1, <1>5, <1>8 DEF Prints

LEMMA LoadFinishPrints ==
  ASSUME TypeInv, NEW ch \in Channels, LoadFinish(ch, pending_channels[ch])
  PROVE  Records /\ Prints
<1>1. DOMAIN loading' = DOMAIN loading
  BY DEF LoadFinish, Notified
<1>2. \A i \in DOMAIN loading : loading'[i].msg = loading[i].msg
  BY NotifiedType DEF LoadFinish, TypeInv
<1> QED
  BY <1>1, <1>2 DEF Records, Prints, LoadFinish, TypeInv, TypeOK

LEMMA AnswerPrints ==
  ASSUME TypeInv, NEW i \in DOMAIN loading, Answer(i)
  PROVE  Records /\ Prints
<1>1. /\ DOMAIN loading' = DOMAIN loading
      /\ \A j \in DOMAIN loading : loading'[j].msg = loading[j].msg
  BY AnswerMsgs
<1>2. ProcessInReady(new_messages, loading')
  BY DEF Answer, DocumentLoaded, ChatInfoLoaded, ReplyLoaded
<1> QED
  BY <1>1, <1>2 DEF Records, Prints, TypeInv, TypeOK

LEMMA UpdatePrints ==
  ASSUME TypeInv, NEW m \in Msgs, Update(m)
  PROVE  Records /\ (Prints \/ WindowStays)
<1>1. loading \in Seq(MsgLoading) /\ <<m>> \in Seq(Msgs)
  BY DEF TypeInv, TypeOK
<1>2. \A i : Data(i) # Null
  BY NeverFound
<1>3. ASSUME NEW wait \in Nat, Accept(<<m>>, wait, Null, loading)
      PROVE  Records /\ Prints
  BY <1>1, <1>2, <1>3, AcceptPrints
<1>4. CASE IgnoreUpdate
  BY <1>4 DEF IgnoreUpdate, session, Records, WindowStays
<1>5. CASE RecvDirect(m)
  BY <1>3, <1>5 DEF RecvDirect
<1>6. CASE RecvInChannel(m)
  <2> DEFINE c == Loading(m, Wait(ChannelOf(m)), FALSE)
  <2>1. CASE loading' = Append(loading, c) /\ WindowStays
    <3>1. c \in MsgLoading
      BY DEF Loading, MsgLoading, Wait
    <3> HIDE DEF c
    <3>2. /\ loading' \in Seq(MsgLoading) /\ Len(loading') = Len(loading) + 1
          /\ \A i \in 1 .. Len(loading) : loading'[i] = loading[i]
      BY <1>1, <2>1, <3>1, AppendProperties
    <3>3. DOMAIN loading = 1 .. Len(loading) /\ DOMAIN loading' = 1 .. Len(loading) + 1
          /\ Len(loading) \in Nat
      BY <1>1, <3>2
    <3> QED
      BY <2>1, <3>2, <3>3 DEF Records
  <2>2. CASE Accept(<<m>>, Wait(ChannelOf(m)), Null, loading)
    <3>1. Wait(ChannelOf(m)) \in Nat
      BY DEF Wait
    <3> QED
      BY <1>3, <2>2, <3>1
  <2>3. (loading' = Append(loading, c) /\ WindowStays)
          \/ Accept(<<m>>, Wait(ChannelOf(m)), Null, loading)
    BY <1>6 DEF RecvInChannel, WindowStays
  <2> QED
    BY <2>1, <2>2, <2>3
<1> QED
  BY <1>4, <1>5, <1>6 DEF Update, RecvUpdate

LEMMA HistoryReceivedPrints ==
  ASSUME TypeInv, NEW ch \in Channels, NEW page \in Pages(ch, pending_channels[ch]), NEW jumped,
         HistoryReceived(ch, pending_channels[ch], page, jumped)
  PROVE  Records /\ Prints
<1>1. PICK ms \in OldestFirst({m \in page : m.sid > jumped /\ ~m.old}) :
        \/ Accept(ms, 1, FindHigher(jumped), loading)
        \/ Accept(ms, 0, FindHigher(jumped), Notified(loading, pending_channels[ch].cbs))
  BY DEF HistoryReceived
<1>2. ms \in Seq(Msgs)
  BY PagesType, OldestFirstType
<1>3. \A i : Data(i) # FindHigher(jumped)
  BY NeverFound
<1>4. loading \in Seq(MsgLoading) /\ 0 \in Nat /\ 1 \in Nat
  BY DEF TypeInv, TypeOK
<1>5. CASE Accept(ms, 1, FindHigher(jumped), loading)
  BY <1>2, <1>3, <1>4, <1>5, AcceptPrints
<1>6. CASE Accept(ms, 0, FindHigher(jumped), Notified(loading, pending_channels[ch].cbs))
  <2> DEFINE ld == Notified(loading, pending_channels[ch].cbs)
  <2>1. /\ ld \in Seq(MsgLoading) /\ Len(ld) = Len(loading)
        /\ \A i \in DOMAIN loading : ld[i].msg = loading[i].msg
    BY NotifiedType DEF TypeInv
  <2>2. Accept(ms, 0, FindHigher(jumped), ld)
    BY <1>6
  <2> HIDE DEF ld
  <2> QED
    BY <1>2, <1>3, <1>4, <2>1, <2>2, AcceptPrints
<1> QED
  BY <1>1, <1>5, <1>6

LEMMA LoadingPrints ==
  ASSUME TypeInv, NEW ch \in Channels,
         \/ ChannelListed(ch) \/ GetHistoryDone(ch) \/ GetMembersDone(ch) \/ LoadAdminsDone(ch)
  PROVE  Records /\ (Prints \/ WindowStays)
<1>1. CASE LoadFinish(ch, pending_channels[ch])
  BY <1>1, LoadFinishPrints
<1>2. CASE UNCHANGED loading /\ WindowStays
  BY <1>2 DEF Records
<1>3. ASSUME NEW page \in Pages(ch, pending_channels[ch]), NEW jumped,
             HistoryReceived(ch, pending_channels[ch], page, jumped)
      PROVE  Records /\ Prints
  BY <1>3, HistoryReceivedPrints
<1> QED
  BY <1>1, <1>2, <1>3 DEF ChannelListed, GetHistoryDone, HistoryFailed, GetMembersDone,
     LoadAdminsDone, WindowStays

\* The steps that receive or answer, seen from the window.
Handles ==
  \/ \E m \in Msgs : Update(m)
  \/ \E i \in DOMAIN loading : Answer(i)
  \/ \E ch \in Channels :
       ChannelListed(ch) \/ GetHistoryDone(ch) \/ GetMembersDone(ch) \/ LoadAdminsDone(ch)

LEMMA StepPrints ==
  ASSUME TypeInv, Handles
  PROVE  Records /\ (Prints \/ WindowStays) /\ proc = "up" /\ UNCHANGED present
<1>1. Records /\ (Prints \/ WindowStays)
  BY UpdatePrints, AnswerPrints, LoadingPrints DEF Handles
<1>2. proc = "up" /\ UNCHANGED present
  BY DEF Handles, Update, Answer, ChannelListed, GetHistoryDone, GetMembersDone, LoadAdminsDone
<1> QED
  BY <1>1, <1>2

\* The steps that do not.
Others ==
  \/ \E ch \in Channels : Post(ch)
  \/ SetStatus
  \/ \E p \in Peers : WriteTo(p)
  \/ Login
  \/ Close

LEMMA NextSplit == Next <=> Handles \/ Others
BY DEF Next, Handles, Others

------------------------------------------------------------------------------
(* Receipts *)

\* The peers that receipts are due for are those who wrote what is unread; none is
\* due while receipts may be sent, or without a connection.
Owed ==
  /\ {ReadPeer(loading[i].msg) : i \in unread} = pending_reads
  /\ proc = "up" /\ SendsReceipts => pending_reads = {}

\* If the number says which peer it is, ReadsAdd adds.
LEMMA ReadsAdded ==
  ASSUME NumbersIdentify, NEW reads, reads \subseteq Peers, NEW ps, ps \subseteq Peers
  PROVE  ReadsAdd(reads, ps) = reads \cup ps
BY DEF ReadsAdd, NumbersIdentify

LEMMA PrintsOwed ==
  ASSUME NumbersIdentify, TypeInv, TypeInv', Owed, Records, Prints, proc = "up", UNCHANGED present
  PROVE  Owed'
<1> DEFINE Reader(i) == ReadPeer(loading'[i].msg)
<1>1. PICK q \in Seq(DOMAIN loading') : ProcessInReady(q, loading')
  BY DEF Prints
<1>2. PICK k \in 0 .. Len(q) :
        LET due == unread \cup {q[j] : j \in 1 .. k}
            reads == ReadsAdd(pending_reads, {ReadPeer(loading'[q[j]].msg) : j \in 1 .. k})
        IN  IF SendsReceipts
            THEN /\ pending_reads' = {}
                 /\ unread' = {i \in due : ReadPeer(loading'[i].msg) \notin reads}
            ELSE pending_reads' = reads /\ unread' = due
  BY <1>1 DEF ProcessInReady
<1> DEFINE now == {q[j] : j \in 1 .. k}
           ps == {Reader(q[j]) : j \in 1 .. k}
<1>3. \A j \in 1 .. k : q[j] \in DOMAIN loading'
  BY <1>1, ElementOfSeq
<1>4. \A i \in DOMAIN loading' : Reader(i) \in Peers
  <2>1. \A i \in DOMAIN loading' : loading'[i] \in MsgLoading
    BY ElementOfSeq DEF TypeInv, TypeOK
  <2>2. \A i \in DOMAIN loading' : loading'[i].msg \in Msgs
    BY <2>1 DEF MsgLoading
  <2> QED
    BY <2>2, MsgsAssumption DEF ReadPeer
<1>5. ps \subseteq Peers /\ pending_reads \subseteq Peers
  BY <1>3, <1>4 DEF TypeInv, TypeOK
<1>6. ReadsAdd(pending_reads, ps) = pending_reads \cup ps
  <2> HIDE DEF ps
  <2> QED
    BY <1>5, ReadsAdded
<1>7. {Reader(i) : i \in unread} = pending_reads
  <2>1. \A i \in unread : loading'[i].msg = loading[i].msg
    BY DEF Records, TypeInv, TypeOK
  <2> QED
    BY <2>1 DEF Owed
<1>8. {Reader(i) : i \in unread \cup now} = pending_reads \cup ps
  BY <1>7
<1>9. /\ SendsReceipts => pending_reads' = {} /\ unread' = {i \in unread \cup now : Reader(i) \notin pending_reads \cup ps}
      /\ ~SendsReceipts => pending_reads' = pending_reads \cup ps /\ unread' = unread \cup now
  BY <1>2, <1>6
<1>10. {Reader(i) : i \in unread'} = pending_reads'
  <2> HIDE DEF ps, now, Reader
  <2>1. CASE SendsReceipts
    <3>1. \A i \in unread \cup now : Reader(i) \in pending_reads \cup ps
      BY <1>8
    <3>2. unread' = {} /\ pending_reads' = {}
      BY <1>9, <2>1, <3>1
    <3> QED
      BY <3>2
  <2>2. CASE ~SendsReceipts
    BY <1>8, <1>9, <2>2
  <2> QED
    BY <2>1, <2>2
<1>11. SendsReceipts' <=> SendsReceipts
  BY DEF SendsReceipts
<1> QED
  BY <1>9, <1>10, <1>11 DEF Owed

LEMMA StepOwed ==
  ASSUME NumbersIdentify, TypeInv, TypeInv', WaitInv, Owed, [Next]_vars
  PROVE  Owed'
<1>1. CASE Handles
  <2>1. Records /\ (Prints \/ WindowStays) /\ proc = "up" /\ UNCHANGED present
    BY <1>1, StepPrints
  <2>2. CASE WindowStays
    <3>1. \A i \in unread : loading'[i].msg = loading[i].msg
      BY <2>1 DEF Records, TypeInv, TypeOK
    <3>2. UNCHANGED <<pending_reads, unread, present>>
      BY <2>1, <2>2 DEF WindowStays
    <3>3. {ReadPeer(loading'[i].msg) : i \in unread'} = pending_reads'
      BY <3>1, <3>2 DEF Owed
    <3> QED
      BY <2>1, <3>2, <3>3 DEF Owed, SendsReceipts
  <2> QED
    BY <2>1, <2>2, PrintsOwed
<1>2. CASE SetStatus
  <2>1. UNCHANGED loading /\ proc = "up" /\ present' = ~present
    BY <1>2 DEF SetStatus
  <2>2. CASE SendReadNotifications /\ present'
    <3>1. /\ pending_reads' = {}
          /\ unread' = {i \in unread : ReadPeer(loading[i].msg) \notin pending_reads}
      BY <1>2, <2>2 DEF SetStatus
    <3>2. unread' = {}
      BY <3>1 DEF Owed
    <3> QED
      BY <3>1, <3>2 DEF Owed
  <2>3. CASE ~(SendReadNotifications /\ present')
    <3>1. UNCHANGED <<pending_reads, unread>>
      BY <1>2, <2>3 DEF SetStatus
    <3>2. ~(SendsReceipts')
      BY <2>3 DEF SendsReceipts
    <3> QED
      BY <2>1, <3>1, <3>2 DEF Owed
  <2> QED
    BY <2>2, <2>3
<1>3. ASSUME NEW p \in Peers, WriteTo(p)
      PROVE  Owed'
  <2>1. UNCHANGED <<loading, proc, present>>
    BY <1>3 DEF WriteTo
  <2>2. {r \in pending_reads : PeerId[r] = PeerId[p]} = pending_reads \cap {p}
    BY DEF NumbersIdentify, TypeInv, TypeOK
  <2>3. /\ pending_reads' = pending_reads \ {p}
        /\ unread' = {i \in unread : ReadPeer(loading[i].msg) # p}
    BY <1>3, <2>2 DEF WriteTo
  <2>4. {ReadPeer(loading[i].msg) : i \in unread'} = pending_reads'
    BY <2>3 DEF Owed
  <2> QED
    BY <2>1, <2>3, <2>4 DEF Owed, SendsReceipts
<1>4. CASE Login \/ (\E ch \in Channels : Post(ch)) \/ UNCHANGED vars
  <2>1. UNCHANGED <<loading, pending_reads, unread, present>>
    BY <1>4 DEF Login, Post, vars, session
  <2>2. proc' = proc \/ pending_reads = {}
    BY <1>4 DEF Login, Post, vars, WaitInv, DownIsFresh, FreshSession
  <2> QED
    BY <2>1, <2>2 DEF Owed, SendsReceipts
<1>5. CASE Close
  BY <1>5 DEF Close, Owed
<1> QED
  BY <1>1, <1>2, <1>3, <1>4, <1>5, NextSplit DEF Others

\* What was printed and not reported is owed a receipt, and each receipt due is for
\* something printed, however the user comes and goes, if the integer that the table
\* is keyed by identifies a peer.
THEOREM ReceiptsAreOwed ==
  ASSUME NumbersIdentify
  PROVE  Spec => []ReceiptDebt
<1>1. Init => Owed
  BY DEF Init, FreshSession, Owed
<1>2. TypeInv /\ TypeInv' /\ WaitInv /\ Owed /\ [Next]_vars => Owed'
  BY StepOwed
<1>3. Owed => ReceiptDebt
  BY DEF Owed, ReceiptDebt
<1> QED
  BY <1>1, <1>2, <1>3, WaitsInvariant, PTL DEF Spec

------------------------------------------------------------------------------
(* The window as a log *)

\* What a step prints is added to what was printed.
LEMMA PrintsGrow ==
  ASSUME Prints
  PROVE  \E x \in Seq(DOMAIN loading') : printed' = printed \o x
<1>1. PICK q \in Seq(DOMAIN loading') : ProcessInReady(q, loading')
  BY DEF Prints
<1>2. PICK k \in 0 .. Len(q) : printed' = printed \o SubSeq(q, 1, k)
  BY <1>1 DEF ProcessInReady
<1> QED
  BY <1>2, SplitSeq

LEMMA PrefixOfConcat ==
  ASSUME NEW S, NEW s \in Seq(S), NEW t \in Seq(S)
  PROVE  Log!IsPrefix(s, s \o t)
<1>1. /\ Len(s \o t) = Len(s) + Len(t) /\ Len(s) \in Nat /\ Len(t) \in Nat
      /\ \A k \in 1 .. Len(s) + Len(t) : (s \o t)[k] = IF k <= Len(s) THEN s[k] ELSE t[k - Len(s)]
  BY ConcatProperties, LenProperties
<1>2. \A k \in 1 .. Len(s) : s[k] = (s \o t)[k]
  BY <1>1
<1>3. SubSeq(s, 1, Len(s)) = SubSeq(s \o t, 1, Len(s))
  <2>1. SubSeq(s, 1, Len(s)) = [k \in 1 .. Len(s) |-> s[k]]
        /\ SubSeq(s \o t, 1, Len(s)) = [k \in 1 .. Len(s) |-> (s \o t)[k]]
    <3>1. 1 \in Int /\ Len(s) \in Int /\ Len(s) - 1 + 1 = Len(s)
      BY <1>1
    <3>2. \A k \in 1 .. Len(s) : 1 + k - 1 = k
      BY <1>1
    <3> QED
      BY <3>1, <3>2, SubSeqProperties
  <2> QED
    BY <1>2, <2>1
<1> QED
  BY <1>1, <1>3 DEF Log!IsPrefix

\* A sequence that is continued keeps its items and their order.
LEMMA ItemsOfConcat ==
  ASSUME NEW S, NEW s \in Seq(S), NEW t \in Seq(S)
  PROVE  Log!Items(s) \subseteq Log!Items(s \o t) /\ Log!Order(s) \subseteq Log!Order(s \o t)
<1>1. /\ DOMAIN s = 1 .. Len(s) /\ DOMAIN (s \o t) = 1 .. Len(s) + Len(t)
      /\ Len(s) \in Nat /\ Len(t) \in Nat
      /\ \A k \in 1 .. Len(s) + Len(t) : (s \o t)[k] = IF k <= Len(s) THEN s[k] ELSE t[k - Len(s)]
  BY ConcatProperties, LenProperties
<1>2. \A k \in DOMAIN s : k \in DOMAIN (s \o t) /\ (s \o t)[k] = s[k]
  BY <1>1
<1>3. Log!Items(s) \subseteq Log!Items(s \o t)
  BY <1>2 DEF Log!Items
<1>4. Log!Order(s) \subseteq Log!Order(s \o t)
  BY <1>2, <1>3 DEF Log!Order
<1> QED
  BY <1>3, <1>4

\* A step of a connection that stays up extends the log.
LEMMA ExtendStep ==
  ASSUME TypeInv, TypeInv', LogStep, proc = "up", proc' = "up", Prints \/ WindowStays,
         DOMAIN loading \subseteq DOMAIN loading'
  PROVE  Log!Extend
<1> DEFINE S == DOMAIN loading'
<1>1. /\ printed \in Seq(S) /\ new_messages \in Seq(S)
      /\ printed' \in Seq(S) /\ new_messages' \in Seq(S)
  BY SeqMonotonic DEF TypeInv, TypeOK
<1>2. AcceptedLog \in Seq(S) /\ <<>> \in Seq(S)
  BY <1>1, ConcatProperties DEF AcceptedLog
<1>3. \E x \in Seq(S) : printed' = printed \o x
  <2>1. CASE WindowStays
    <3>1. printed' = printed \o <<>>
      BY <1>1, <2>1, ConcatEmptySeq DEF WindowStays
    <3> QED
      BY <1>2, <3>1
  <2>2. CASE Prints
    BY <2>2, PrintsGrow
  <2> QED
    BY <2>1, <2>2
<1>4. \E new \in Seq(S) : AcceptedLog' = AcceptedLog \o new
  <2>1. CASE AcceptedLog' = AcceptedLog
    <3>1. AcceptedLog' = AcceptedLog \o <<>>
      BY <1>2, <2>1, ConcatEmptySeq
    <3> QED
      BY <1>2, <3>1
  <2>2. ASSUME NEW n \in Nat, Len(loading') = Len(loading) + n,
               AcceptedLog' = AcceptedLog \o NewIds(n)
        PROVE  \E new \in Seq(S) : AcceptedLog' = AcceptedLog \o new
    <3>1. DOMAIN loading' = 1 .. Len(loading) + n /\ Len(loading) \in Nat
      BY <2>2 DEF TypeInv, TypeOK
    <3>2. NewIds(n) \in Seq(S)
      BY <3>1 DEF NewIds
    <3> QED
      BY <2>2, <3>2
  <2> QED
    BY <2>1, <2>2 DEF LogStep
<1> HIDE DEF S
<1>5. Log!IsPrefix(printed, printed')
  BY <1>1, <1>3, PrefixOfConcat
<1>6. Log!IsPrefix(printed', AcceptedLog')
  BY <1>1, PrefixOfConcat DEF AcceptedLog
<1>7. Log!Items(AcceptedLog) \subseteq Log!Items(AcceptedLog')
      /\ Log!Order(AcceptedLog) \subseteq Log!Order(AcceptedLog')
  BY <1>2, <1>4, ItemsOfConcat
<1> QED
  BY <1>5, <1>6, <1>7 DEF Log!Extend, AcceptedLog

LEMMA StepOfLog ==
  ASSUME TypeInv, TypeInv', WaitInv, [Next]_vars
  PROVE  [Log!Next]_(Log!vars)
<1>1. LogStep
  BY StepType
<1>2. CASE Handles
  <2>1. Records /\ (Prints \/ WindowStays) /\ proc = "up"
    BY <1>2, StepPrints
  <2>2. CASE proc' = "up"
    <3>1. DOMAIN loading \subseteq DOMAIN loading'
      BY <2>1 DEF Records
    <3> QED
      BY <1>1, <2>1, <2>2, <3>1, ExtendStep DEF Log!Next
  <2>3. CASE proc' # "up"
    BY <2>3 DEF Log!Next, Log!Disconnect
  <2> QED
    BY <2>2, <2>3
<1>3. CASE \/ SetStatus \/ (\E p \in Peers : WriteTo(p)) \/ (\E ch \in Channels : Post(ch))
           \/ UNCHANGED vars
  <2>1. UNCHANGED <<proc, printed, new_messages>>
    BY <1>3 DEF SetStatus, WriteTo, Post, vars, session
  <2> QED
    BY <2>1 DEF Log!vars
<1>4. CASE Login
  <2>1. /\ proc = "down" /\ proc' = "up" /\ printed = <<>> /\ new_messages = <<>>
        /\ UNCHANGED <<printed, new_messages>>
    BY <1>4 DEF Login, session, WaitInv, DownIsFresh, FreshSession
  <2>2. <<>> \o <<>> = <<>>
    BY EmptySeq, ConcatEmptySeq
  <2> QED
    BY <2>1, <2>2 DEF Log!vars
<1>5. CASE Close
  BY <1>5 DEF Close, Log!Next, Log!Disconnect
<1> QED
  BY <1>2, <1>3, <1>4, <1>5, NextSplit DEF Others

\* The queue implements the safety part of PrintedLog: what is printed only grows, in
\* the order in which it was accepted, and nothing accepted is dropped while the
\* connection is up.  (That all of it is printed in the end is left to the runs.)
THEOREM QueueImplementsLog == Spec => Log!SafetySpec
<1>1. Init => Log!Init
  BY DEF Init, Log!Init
<1>2. TypeInv /\ TypeInv' /\ WaitInv /\ [Next]_vars => [Log!Next]_(Log!vars)
  BY StepOfLog
<1> QED
  BY <1>1, <1>2, WaitsInvariant, PTL DEF Spec, Log!SafetySpec

------------------------------------------------------------------------------
(* The members of a chat *)

\* What was accepted: printed or queued.
Accepted == {AcceptedLog[j] : j \in DOMAIN AcceptedLog}

\* Messages that are accepted are added to what was.
LEMMA AcceptItems ==
  ASSUME TypeInv, NEW ms \in Seq(Msgs), NEW wait \in Nat, NEW before,
         \A i : Data(i) # before, NEW ld \in Seq(MsgLoading), Len(ld) = Len(loading),
         \A i \in DOMAIN loading : ld[i].msg = loading[i].msg,
         Accept(ms, wait, before, ld)
  PROVE  Accepted' = Accepted \cup {Len(loading) + i : i \in 1 .. Len(ms)}
<1> DEFINE n == Len(loading)
           new == NewIds(Len(ms))
           log == AcceptedLog
<1>1. n \in Nat /\ Len(ms) \in Nat /\ DOMAIN loading = 1 .. n
  BY DEF TypeInv, TypeOK
<1>2. AcceptedLog' = AcceptedLog \o NewIds(Len(ms))
  BY AcceptLog DEF TypeInv
<1>3. log \in Seq(Nat) /\ new \in Seq(Nat) /\ Len(new) = Len(ms)
      /\ \A i \in 1 .. Len(ms) : new[i] = n + i
  <2>1. new \in Seq(Nat) /\ Len(new) = Len(ms) /\ \A i \in 1 .. Len(ms) : new[i] = n + i
    BY <1>1 DEF NewIds
  <2>2. log \in Seq(DOMAIN loading) /\ DOMAIN loading \subseteq Nat
    BY <1>1, ConcatProperties DEF AcceptedLog, TypeInv, TypeOK
  <2> QED
    BY <2>1, <2>2, SeqMonotonic
<1> HIDE DEF new, log
<1>4. /\ DOMAIN (log \o new) = 1 .. Len(log) + Len(new)
      /\ DOMAIN log = 1 .. Len(log) /\ DOMAIN new = 1 .. Len(new)
      /\ Len(log) \in Nat /\ Len(new) \in Nat
      /\ \A j \in 1 .. Len(log) + Len(new) :
           (log \o new)[j] = IF j <= Len(log) THEN log[j] ELSE new[j - Len(log)]
  <2>1. /\ log \o new \in Seq(Nat) /\ Len(log \o new) = Len(log) + Len(new)
        /\ \A j \in 1 .. Len(log) + Len(new) :
             (log \o new)[j] = IF j <= Len(log) THEN log[j] ELSE new[j - Len(log)]
    BY ONLY <1>3, ConcatProperties
  <2>2. DOMAIN (log \o new) = 1 .. Len(log \o new)
    BY ONLY <2>1, LenProperties
  <2> QED
    BY ONLY <1>3, <2>1, <2>2, LenProperties
<1>5. \A j \in DOMAIN (log \o new) :
        (log \o new)[j] \in {log[x] : x \in DOMAIN log} \cup {new[x] : x \in DOMAIN new}
  BY <1>4
<1>6. \A x \in DOMAIN log : x \in DOMAIN (log \o new) /\ (log \o new)[x] = log[x]
  BY <1>4
<1>7. ASSUME NEW x \in DOMAIN new
      PROVE  Len(log) + x \in DOMAIN (log \o new) /\ (log \o new)[Len(log) + x] = new[x]
  BY <1>4
<1>8. {(log \o new)[j] : j \in DOMAIN (log \o new)}
        = {log[x] : x \in DOMAIN log} \cup {new[x] : x \in DOMAIN new}
  <2> DEFINE both == log \o new
  <2>1. /\ \A j \in DOMAIN both : both[j] \in {log[x] : x \in DOMAIN log} \cup {new[x] : x \in DOMAIN new}
        /\ \A x \in DOMAIN log : x \in DOMAIN both /\ both[x] = log[x]
        /\ \A x \in DOMAIN new : \E j \in DOMAIN both : both[j] = new[x]
    BY <1>5, <1>6, <1>7
  <2> HIDE DEF both
  <2>2. {both[j] : j \in DOMAIN both}
          = {log[x] : x \in DOMAIN log} \cup {new[x] : x \in DOMAIN new}
    BY ONLY <2>1
  <2> QED
    BY <2>2 DEF both
<1>9. {new[x] : x \in DOMAIN new} = {n + i : i \in 1 .. Len(ms)}
  BY <1>3, <1>4
<1>10. AcceptedLog' = log \o new /\ Accepted = {log[x] : x \in DOMAIN log}
  BY <1>2 DEF Accepted, log, new
<1> QED
  BY <1>8, <1>9, <1>10 DEF Accepted

\* Once a message of a chat was accepted, its members are known or were asked for.
ChatsAsked ==
  \A i \in Accepted : loading[i].msg.to \in Chats
                      => loading[i].msg.to \in pending_chat_info \cup userList

\* The message that asks for the members of a chat is the first one of the chat.
FirstAsks ==
  \A i \in DOMAIN loading : <<i, "info">> \in requests =>
    /\ i \in Accepted
    /\ \A j \in Accepted : j < i => loading[j].msg.to # loading[i].msg.to

Names == ChatsAsked /\ FirstAsks

\* A step that keeps what was accepted and asks nothing new.
LEMMA NamesKept ==
  ASSUME TypeInv, TypeInv', Names, Records, AcceptedLog' = AcceptedLog,
         pending_chat_info \subseteq pending_chat_info', userList \subseteq userList',
         requests' \subseteq requests
  PROVE  Names'
<1>1. Accepted' = Accepted
  BY DEF Accepted
<1>2. Accepted \subseteq DOMAIN loading
  <2>1. AcceptedLog \in Seq(DOMAIN loading)
    BY ConcatProperties DEF AcceptedLog, TypeInv, TypeOK
  <2> QED
    BY <2>1, ElementOfSeq DEF Accepted
<1>3. ChatsAsked'
  BY <1>1, <1>2 DEF ChatsAsked, Names, Records
<1>4. FirstAsks'
  <2>1. \A i, k : <<i, k>> \in requests => i \in DOMAIN loading
    BY DEF TypeInv, TypeOK
  <2> QED
    BY <1>1, <1>2, <2>1 DEF FirstAsks, Names, Records
<1> QED
  BY <1>3, <1>4 DEF Names

\* Messages that are accepted: of those to chats there is one at a time.
LEMMA AcceptNames ==
  ASSUME TypeInv, Names, NEW ms \in Seq(Msgs), NEW wait \in Nat, NEW before,
         \A i : Data(i) # before, NEW ld \in Seq(MsgLoading), Len(ld) = Len(loading),
         \A i \in DOMAIN loading : ld[i].msg = loading[i].msg,
         Accept(ms, wait, before, ld), UNCHANGED userList,
         Len(ms) = 1 \/ \A i \in 1 .. Len(ms) : ms[i].to \notin Chats
  PROVE  Names'
<1> DEFINE n == Len(loading)
<1>1. n \in Nat /\ Len(ms) \in Nat /\ AcceptResult(ms, wait, ld)
  BY AcceptEffect
<1>2. /\ Len(loading') = n + Len(ms) /\ loading' \in Seq(MsgLoading)
      /\ AcceptedLog' = AcceptedLog \o NewIds(Len(ms))
      /\ requests' \subseteq (DOMAIN loading') \X Kinds
  BY AcceptLog DEF TypeInv
<1>3. DOMAIN loading = 1 .. n /\ DOMAIN loading' = 1 .. n + Len(ms)
  BY <1>2 DEF TypeInv, TypeOK
<1>4. Accepted \subseteq 1 .. n
  <2>1. AcceptedLog \in Seq(DOMAIN loading)
    BY ConcatProperties DEF AcceptedLog, TypeInv, TypeOK
  <2> QED
    BY <1>3, <2>1, ElementOfSeq DEF Accepted
<1>5. Accepted' = Accepted \cup {n + i : i \in 1 .. Len(ms)}
  BY AcceptItems
<1>6. /\ \A i \in 1 .. n : /\ loading'[i].msg = loading[i].msg
                           /\ <<i, "info">> \in requests' <=> <<i, "info">> \in requests
      /\ \A i \in 1 .. Len(ms) : /\ loading'[n + i].msg = ms[i]
                                 /\ <<n + i, "info">> \in requests' <=> "info" \in Asked(ms[i])
  <2>1. "info" \in Kinds
    BY DEF Kinds
  <2> QED
    BY <1>1, <1>3, <2>1 DEF AcceptResult
<1>7. \A i \in 1 .. Len(ms) :
        "info" \in Asked(ms[i])
          <=> ms[i].to \in Chats /\ ms[i].to \notin pending_chat_info /\ ms[i].to \notin userList
  BY DEF Asked
<1>8. /\ pending_chat_info \subseteq pending_chat_info'
      /\ \A i \in 1 .. Len(ms) : "info" \in Asked(ms[i]) => ms[i].to \in pending_chat_info'
  BY <1>1 DEF AcceptResult
<1>9. ChatsAsked'
  <2> SUFFICES ASSUME NEW i \in Accepted', loading'[i].msg.to \in Chats
               PROVE  loading'[i].msg.to \in pending_chat_info' \cup userList'
    BY DEF ChatsAsked
  <2>1. CASE i \in Accepted
    BY <1>4, <1>6, <1>8, <2>1 DEF Names, ChatsAsked
  <2>2. ASSUME NEW x \in 1 .. Len(ms), i = n + x
        PROVE  loading'[i].msg.to \in pending_chat_info' \cup userList'
    BY <1>6, <1>7, <1>8, <2>2
  <2> QED
    BY <1>5, <2>1, <2>2
<1>10. FirstAsks'
  <2> SUFFICES ASSUME NEW i \in 1 .. n + Len(ms), <<i, "info">> \in requests'
               PROVE  /\ i \in Accepted'
                      /\ \A j \in Accepted' : j < i => loading'[j].msg.to # loading'[i].msg.to
    BY <1>3 DEF FirstAsks
  <2>1. CASE i \in 1 .. n
    <3>1. <<i, "info">> \in requests /\ i \in Accepted
      BY <1>3, <1>6, <2>1 DEF Names, FirstAsks
    <3>2. ASSUME NEW j \in Accepted', j < i
          PROVE  loading'[j].msg.to # loading'[i].msg.to
      <4>1. j \in Accepted
        <5>1. \A x \in 1 .. Len(ms) : ~(n + x < i)
          BY <1>1, <2>1
        <5> QED
          BY <1>5, <3>2, <5>1
      <4> QED
        BY <1>3, <1>4, <1>6, <2>1, <3>1, <3>2, <4>1 DEF Names, FirstAsks
    <3> QED
      BY <1>5, <3>1, <3>2
  <2>2. ASSUME NEW x \in 1 .. Len(ms), i = n + x
        PROVE  /\ i \in Accepted'
               /\ \A j \in Accepted' : j < i => loading'[j].msg.to # loading'[i].msg.to
    <3>1. /\ ms[x].to \in Chats /\ ms[x].to \notin pending_chat_info \cup userList
          /\ loading'[i].msg = ms[x]
      BY <1>6, <1>7, <2>2
    <3>2. Len(ms) = 1
      BY <3>1
    <3>3. ASSUME NEW j \in Accepted', j < i
          PROVE  loading'[j].msg.to # loading'[i].msg.to
      <4>1. \A y \in 1 .. Len(ms) : ~(n + y < i)
        BY <1>1, <2>2, <3>2
      <4>2. j \in Accepted
        BY <1>5, <3>3, <4>1
      <4>3. loading'[j].msg = loading[j].msg
        BY <1>4, <1>6, <4>2
      <4> QED
        BY <3>1, <4>2, <4>3 DEF Names, ChatsAsked
    <3> QED
      BY <1>5, <2>2, <3>3
  <2>3. CASE i \notin 1 .. n
    <3>1. i - n \in 1 .. Len(ms) /\ i = n + (i - n)
      BY <1>1, <2>3
    <3> QED
      BY <2>2, <3>1
  <2> QED
    BY <2>1, <2>3
<1> QED
  BY <1>9, <1>10 DEF Names

\* Messages of a channel are not to chats, since only users write to chats.
LEMMA ChannelsWriteToNoChat ==
  ASSUME NEW m \in Msgs, InChannel(m)
  PROVE  m.to \notin Chats
BY MsgsAssumption, PeersAssumption DEF InChannel

LEMMA HandlesNames ==
  ASSUME TypeInv, TypeInv', Names, Handles
  PROVE  Names'
<1>0. Records
  BY StepPrints
<1>1. ASSUME NEW q \in Seq(DOMAIN loading), q = new_messages,
             ProcessInReady(q, loading'), loading' \in Seq(MsgLoading), Len(loading') = Len(loading)
      PROVE  AcceptedLog' = AcceptedLog
  BY <1>1, ReadyType DEF TypeInv
<1>2. ASSUME NEW ch \in Channels, LoadFinish(ch, pending_channels[ch]), UNCHANGED userList
      PROVE  Names'
  <2>1. loading' \in Seq(MsgLoading) /\ Len(loading') = Len(loading)
    BY <1>2, NotifiedType DEF LoadFinish, TypeInv
  <2>2. AcceptedLog' = AcceptedLog
    BY <1>2, <2>1, ReadyType DEF LoadFinish, TypeInv
  <2>3. UNCHANGED <<requests, pending_chat_info>>
    BY <1>2 DEF LoadFinish
  <2> QED
    BY <1>0, <1>2, <2>2, <2>3, NamesKept
<1>3. CASE UNCHANGED <<new_messages, printed, requests, pending_chat_info, userList>>
  <2>1. AcceptedLog' = AcceptedLog
    BY <1>3 DEF AcceptedLog
  <2> QED
    BY <1>0, <1>3, <2>1, NamesKept
<1>4. ASSUME NEW i \in DOMAIN loading, Answer(i)
      PROVE  Names'
  <2>1. DOMAIN loading' = DOMAIN loading /\ loading' \in Seq(MsgLoading)
    BY <1>4, AnswerMsgs DEF TypeInv, TypeOK
  <2>2. Len(loading') = Len(loading)
    BY <2>1 DEF TypeInv, TypeOK
  <2>3. ProcessInReady(new_messages, loading')
    BY <1>4 DEF Answer, DocumentLoaded, ChatInfoLoaded, ReplyLoaded
  <2>4. AcceptedLog' = AcceptedLog
    BY <2>1, <2>2, <2>3, ReadyType DEF TypeInv
  <2>5. requests' \subseteq requests /\ userList \subseteq userList' /\ UNCHANGED pending_chat_info
    BY <1>4 DEF Answer, DocumentLoaded, ChatInfoLoaded, ReplyLoaded
  <2> QED
    BY <1>0, <2>4, <2>5, NamesKept
<1>5. ASSUME NEW m \in Msgs, Update(m)
      PROVE  Names'
  <2>1. loading \in Seq(MsgLoading) /\ <<m>> \in Seq(Msgs) /\ Len(<<m>>) = 1
    BY DEF TypeInv, TypeOK
  <2>2. \A i : Data(i) # Null
    BY NeverFound
  <2>3. UNCHANGED userList
    BY <1>5 DEF Update, RecvUpdate, IgnoreUpdate, session
  <2>4. ASSUME NEW wait \in Nat, Accept(<<m>>, wait, Null, loading)
        PROVE  Names'
    <3>1. \A ms \in Seq(Msgs) : Len(ms) = 1 /\ Accept(ms, wait, Null, loading) => Names'
      BY <2>1, <2>2, <2>3, AcceptNames
    <3> QED
      BY <2>1, <2>4, <3>1
  <2>5. Wait(ChannelOf(m)) \in Nat /\ 0 \in Nat
    BY DEF Wait
  <2>6. CASE IgnoreUpdate
    BY <1>3, <2>6 DEF IgnoreUpdate, session
  <2>7. CASE RecvDirect(m)
    BY <2>4, <2>5, <2>7 DEF RecvDirect
  <2>8. CASE RecvInChannel(m)
    BY <1>3, <2>3, <2>4, <2>5, <2>8 DEF RecvInChannel
  <2> QED
    BY <1>5, <2>6, <2>7, <2>8 DEF Update, RecvUpdate
<1>6. ASSUME NEW ch \in Channels, NEW page \in Pages(ch, pending_channels[ch]), NEW jumped,
             HistoryReceived(ch, pending_channels[ch], page, jumped), UNCHANGED userList
      PROVE  Names'
  <2> DEFINE ld == Notified(loading, pending_channels[ch].cbs)
  <2>1. PICK ms \in OldestFirst({m \in page : m.sid > jumped /\ ~m.old}) :
          Accept(ms, 1, FindHigher(jumped), loading) \/ Accept(ms, 0, FindHigher(jumped), ld)
    BY <1>6 DEF HistoryReceived
  <2>2. ms \in Seq(Msgs) /\ \A i \in 1 .. Len(ms) : ms[i] \in page
    <3>1. page \subseteq Msgs
      BY PagesType
    <3>2. ms \in Seq(Msgs) /\ \A i \in DOMAIN ms : ms[i] \in {m \in page : m.sid > jumped /\ ~m.old}
      BY <3>1, OldestFirstType
    <3> QED
      BY <3>2
  <2>3. \A i \in 1 .. Len(ms) : ms[i].to \notin Chats
    <3>1. \A m \in page : m \in Msgs /\ InChannel(m)
      BY DEF Pages, ChannelMsgs
    <3> QED
      BY <2>2, <3>1, ChannelsWriteToNoChat
  <2>4. \A i : Data(i) # FindHigher(jumped)
    BY NeverFound
  <2>5. /\ ld \in Seq(MsgLoading) /\ Len(ld) = Len(loading)
        /\ \A i \in DOMAIN loading : ld[i].msg = loading[i].msg
        /\ loading \in Seq(MsgLoading) /\ 0 \in Nat /\ 1 \in Nat
    BY NotifiedType DEF TypeInv, TypeOK
  <2> HIDE DEF ld
  <2>6. CASE Accept(ms, 1, FindHigher(jumped), loading)
    BY <1>6, <2>2, <2>3, <2>4, <2>5, <2>6, AcceptNames
  <2>7. CASE Accept(ms, 0, FindHigher(jumped), ld)
    BY <1>6, <2>2, <2>3, <2>4, <2>5, <2>7, AcceptNames
  <2> QED
    BY <2>1, <2>6, <2>7
<1>7. ASSUME NEW ch \in Channels,
             \/ ChannelListed(ch) \/ GetHistoryDone(ch) \/ GetMembersDone(ch) \/ LoadAdminsDone(ch)
      PROVE  Names'
  <2>1. UNCHANGED userList
    BY <1>7 DEF ChannelListed, GetHistoryDone, GetMembersDone, LoadAdminsDone
  <2> QED
    BY <1>2, <1>3, <1>6, <1>7, <2>1 DEF ChannelListed, GetHistoryDone, HistoryFailed, GetMembersDone,
       LoadAdminsDone
<1> QED
  BY <1>4, <1>5, <1>7 DEF Handles

LEMMA StepNames ==
  ASSUME TypeInv, TypeInv', WaitInv, Names, [Next]_vars
  PROVE  Names'
<1>1. CASE \/ SetStatus \/ (\E p \in Peers : WriteTo(p)) \/ (\E ch \in Channels : Post(ch)) \/ Login
           \/ UNCHANGED vars
  <2>1. UNCHANGED <<loading, new_messages, printed, requests, pending_chat_info, userList>>
    BY <1>1 DEF SetStatus, WriteTo, Post, Login, vars, session
  <2>2. AcceptedLog' = AcceptedLog /\ Records
    BY <2>1 DEF AcceptedLog, Records
  <2> QED
    BY <2>1, <2>2, NamesKept
<1>2. CASE Close
  <2>1. AcceptedLog' = <<>> /\ requests' = {}
    BY <1>2, FreshType, CloseType DEF Close, AcceptedLog
  <2>2. Accepted' = {}
    BY <2>1 DEF Accepted
  <2> QED
    BY <2>1, <2>2 DEF Names, ChatsAsked, FirstAsks
<1> QED
  BY <1>1, <1>2, HandlesNames, NextSplit DEF Others

\* A message to a chat is printed when the chat's members are known or were asked for
\* in vain: some message asked for them (ChatsAsked), and that one is in front of all
\* others to the chat (FirstAsks).
THEOREM NamesComeFirst == Spec => []NamesBeforeChat
<1>1. Init => TypeInv /\ Sorted /\ Names
  <2>1. Init => TypeInv /\ AcceptedLog = <<>> /\ requests = {}
    BY InitType DEF Init, FreshSession
  <2> QED
    BY <2>1 DEF Sorted, Names, ChatsAsked, FirstAsks, Accepted
<1>2. TypeInv /\ TypeInv' /\ WaitInv /\ (Sorted /\ Names) /\ [Next]_vars => (Sorted /\ Names)'
  BY StepType, SortedStep, StepNames
<1>3. TypeInv /\ WaitInv /\ Sorted /\ Names => NamesBeforeChat
  <2> SUFFICES ASSUME TypeInv, WaitInv, Sorted, Names, NEW i \in Printed,
                      loading[i].msg.to \in Chats
               PROVE  /\ loading[i].msg.to \in userList \cup pending_chat_info
                      /\ \A r \in requests : r[2] = "info" => loading[r[1]].msg.to # loading[i].msg.to
    BY DEF NamesBeforeChat
  <2>5. i \in Accepted
    <3>1. /\ DOMAIN AcceptedLog = 1 .. Len(printed) + Len(new_messages)
          /\ DOMAIN printed = 1 .. Len(printed)
          /\ Len(printed) \in Nat /\ Len(new_messages) \in Nat
          /\ \A j \in 1 .. Len(printed) : AcceptedLog[j] = printed[j]
      BY ConcatProperties, LenProperties DEF AcceptedLog, TypeInv, TypeOK
    <3> QED
      BY <3>1 DEF Printed, Accepted
  <2>6. loading[i].msg.to \in userList \cup pending_chat_info
    BY <2>5 DEF Names, ChatsAsked
  <2> SUFFICES ASSUME NEW r \in requests, r[2] = "info",
                      loading[r[1]].msg.to = loading[i].msg.to
               PROVE  FALSE
    BY <2>6
  <2>1. r = <<r[1], "info">> /\ r[1] \in DOMAIN loading
    BY DEF TypeInv, TypeOK
  <2>2. /\ r[1] \in Accepted
        /\ \A j \in Accepted : j < r[1] => loading[j].msg.to # loading[r[1]].msg.to
    BY <2>1 DEF Names, FirstAsks
  <2>3. \E j, k \in DOMAIN AcceptedLog : j < k /\ AcceptedLog[j] = i /\ AcceptedLog[k] = r[1]
    <3>1. /\ DOMAIN AcceptedLog = 1 .. Len(printed) + Len(new_messages)
          /\ DOMAIN printed = 1 .. Len(printed)
          /\ Len(printed) \in Nat /\ Len(new_messages) \in Nat
          /\ \A j \in 1 .. Len(printed) : AcceptedLog[j] = printed[j]
      BY ConcatProperties, LenProperties DEF AcceptedLog, TypeInv, TypeOK
    <3>2. PICK j \in DOMAIN printed : printed[j] = i
      BY DEF Printed
    <3>3. PICK k \in DOMAIN AcceptedLog : AcceptedLog[k] = r[1]
      BY <2>2 DEF Accepted
    <3>4. r[1] \notin Printed
      <4>1. "info" \in Kinds
        BY DEF Kinds
      <4> QED
        BY <2>1, <4>1, PrintedIsDone DEF WaitInv
    <3>5. ~(k <= Len(printed))
      BY <3>1, <3>3, <3>4 DEF Printed
    <3>6. j < k /\ j \in DOMAIN AcceptedLog /\ AcceptedLog[j] = i
      BY <3>1, <3>2, <3>3, <3>5
    <3> QED
      BY <3>3, <3>6
  <2>4. i < r[1] /\ i \in Accepted
    BY <2>3 DEF Sorted, Accepted
  <2> QED
    BY <2>2, <2>4
<1> QED
  BY <1>1, <1>2, <1>3, WaitsInvariant, PTL DEF Spec

------------------------------------------------------------------------------
(* The last server id *)

\* The ids of a channel that last_server_id passed one by one, or that the server
\* had when the history was asked for.
Reached(ch, id) ==
  covered[ch].from < id /\ (id <= last_server_id[ch] \/ id <= covered[ch].upto)

\* They were accepted.
Covers ==
  proc = "up" => \A ch \in Channels : \A m \in ChannelMsgs(ch) :
    Reached(ch, m.sid) /\ ~m.old => \E i \in Accepted : loading[i].msg = m

\* What was accepted stays so while the connection is up.
LEMMA AcceptedStays ==
  ASSUME TypeInv, TypeInv', Handles, proc' = "up"
  PROVE  \A i \in Accepted : i \in Accepted' /\ loading'[i].msg = loading[i].msg
<1>1. LogStep
  BY StepType, NextSplit
<1>2. Records /\ (Prints \/ WindowStays) /\ proc = "up"
  BY StepPrints
<1>3. DOMAIN loading \subseteq DOMAIN loading'
  BY <1>2 DEF Records
<1>4. Log!Extend
  BY <1>1, <1>2, <1>3, ExtendStep
<1>5. Log!Items(AcceptedLog) \subseteq Log!Items(AcceptedLog')
  BY <1>2, <1>4 DEF Log!Extend, AcceptedLog
<1>6. Accepted \subseteq Accepted'
  BY <1>5 DEF Log!Items, Accepted
<1>7. Accepted \subseteq DOMAIN loading
  <2>1. AcceptedLog \in Seq(DOMAIN loading)
    BY ConcatProperties DEF AcceptedLog, TypeInv, TypeOK
  <2> QED
    BY <2>1, ElementOfSeq DEF Accepted
<1> QED
  BY <1>2, <1>6, <1>7 DEF Records

\* The messages a handler passes on are in the log of the next state.
LEMMA AcceptShows ==
  ASSUME TypeInv, NEW ms \in Seq(Msgs), NEW wait \in Nat, NEW before,
         \A i : Data(i) # before, NEW ld \in Seq(MsgLoading), Len(ld) = Len(loading),
         \A i \in DOMAIN loading : ld[i].msg = loading[i].msg,
         Accept(ms, wait, before, ld)
  PROVE  \A i \in 1 .. Len(ms) : \E j \in Accepted' : loading'[j].msg = ms[i]
<1>1. AcceptResult(ms, wait, ld)
  BY AcceptEffect
<1>2. Accepted' = Accepted \cup {Len(loading) + i : i \in 1 .. Len(ms)}
  BY AcceptItems
<1> QED
  BY <1>1, <1>2 DEF AcceptResult

\* What last_server_id advances over is accepted, if what covered.upto adds is.
LEMMA AcceptCovers ==
  ASSUME TypeInv, TypeInv', Covers, Handles, proc' = "up",
         NEW ms \in Seq(Msgs),
         \A i \in 1 .. Len(ms) : \E j \in Accepted' : loading'[j].msg = ms[i],
         NEW ch \in Channels, NEW base \in Nat, NEW S, NEW l \in Advanced(base, S),
         \A x \in S : \E i \in 1 .. Len(ms) : ms[i].sid = x /\ ms[i] \in ChannelMsgs(ch),
         last_server_id' = [last_server_id EXCEPT ![ch] = l],
         \A x \in Channels \ {ch} : covered'[x] = covered[x],
         covered'[ch].from = IF base = last_server_id[ch] THEN covered[ch].from ELSE base,
         \A m \in ChannelMsgs(ch) :
           covered'[ch].from < m.sid /\ m.sid <= covered'[ch].upto /\ ~m.old
             => Reached(ch, m.sid) \/ \E i \in 1 .. Len(ms) : ms[i] = m
  PROVE  Covers'
<1>1. /\ proc = "up"
      /\ \A i \in Accepted : i \in Accepted' /\ loading'[i].msg = loading[i].msg
  BY AcceptedStays, StepPrints
<1>4. \A m \in Msgs : m.sid \in Nat
  BY MsgsAssumption
<1> SUFFICES ASSUME NEW x \in Channels, NEW m \in ChannelMsgs(x),
                    covered'[x].from < m.sid, ~m.old,
                    m.sid <= last_server_id'[x] \/ m.sid <= covered'[x].upto
             PROVE  \E i \in Accepted' : loading'[i].msg = m
  BY DEF Covers, Reached
<1>5. m \in Msgs /\ m.sid \in Nat /\ InChannel(m) /\ ChannelOf(m) = x
  BY <1>4 DEF ChannelMsgs
<1>6. /\ last_server_id \in [Channels -> Nat]
      /\ covered[x].from \in Nat /\ covered'[x].from \in Nat
      /\ covered[x].upto \in Nat /\ covered'[x].upto \in Nat
  BY DEF TypeInv, TypeOK
<1>7. ASSUME Reached(x, m.sid)
      PROVE  \E i \in Accepted' : loading'[i].msg = m
  BY <1>1, <1>7 DEF Covers
<1>8. CASE x # ch
  <2>1. covered'[x] = covered[x] /\ last_server_id'[x] = last_server_id[x]
    BY <1>6, <1>8
  <2> QED
    BY <1>7, <2>1 DEF Reached
<1>10. CASE x = ch /\ m.sid <= covered'[ch].upto
  BY <1>7, <1>10
<1>9. CASE x = ch /\ m.sid <= last_server_id'[ch]
  <2>1. /\ last_server_id'[ch] = l
        /\ covered'[ch].from = IF base = last_server_id[ch] THEN covered[ch].from ELSE base
    BY <1>6
  <2>2. CASE m.sid <= base
    <3>1. base = last_server_id[ch]
      BY <1>5, <1>9, <2>1, <2>2
    <3>2. Reached(x, m.sid)
      BY <1>9, <2>1, <2>2, <3>1 DEF Reached
    <3> QED
      BY <1>7, <3>2
  <2>3. CASE ~(m.sid <= base)
    <3>0. l \in Nat
      <4>1. S \subseteq Nat
        BY <1>4 DEF ChannelMsgs
      <4> QED
        BY <4>1, AdvancedType
    <3>1. m.sid \in base + 1 .. l
      BY <1>5, <1>9, <2>1, <2>3, <3>0
    <3>2. m.sid \in S
      BY <3>1 DEF Advanced
    <3>3. PICK i \in 1 .. Len(ms) : ms[i].sid = m.sid /\ ms[i] \in ChannelMsgs(ch)
      BY <3>2
    <3>4. ms[i] = m
      BY <1>5, <1>9, <3>3, MsgsAssumption DEF ChannelMsgs
    <3> QED
      BY <3>4
  <2> QED
    BY <2>2, <2>3
<1> QED
  BY <1>8, <1>9, <1>10

\* The messages of a page between the oldest one and what the server had when it was
\* asked are in the page: it has no holes.
LEMMA PageHasNoHoles ==
  ASSUME NEW ch, NEW D, D.min \in Nat, D.asked \in Nat, NEW page \in Pages(ch, D),
         NEW p \in page, NEW m \in ChannelMsgs(ch), p.sid <= m.sid, m.sid <= D.asked
  PROVE  m \in page
<1>1. \A x \in Msgs : x.sid \in Nat
  BY MsgsAssumption
<1>2. PICK upto \in D.asked .. posted[ch] :
        page = LET range == {x \in ChannelMsgs(ch) :
                               /\ x.sid <= upto
                               /\ x.sid > D.min \/ (MinIdIncluded /\ x.sid = D.min)}
               IN  {x \in range : Cardinality({y \in range : y.sid > x.sid}) < HistoryLimit}
  BY DEF Pages
<1> DEFINE range == {x \in ChannelMsgs(ch) : /\ x.sid <= upto
                                             /\ x.sid > D.min \/ (MinIdIncluded /\ x.sid = D.min)}
           Above(x) == {y \in range : y.sid > x.sid}
<1>3. range \subseteq Msgs /\ IsFiniteSet(range)
  <2>1. range \in SUBSET Msgs
    BY DEF ChannelMsgs
  <2> QED
    BY <2>1, MsgsAssumption, FS_Subset
<1>4. p \in range /\ Cardinality(Above(p)) < HistoryLimit
  BY <1>2
<1>5. m \in range
  <2>1. m.sid \in Nat /\ p.sid \in Nat /\ upto \in Int /\ D.asked <= upto
    BY <1>1, <1>2, <1>3, <1>4 DEF ChannelMsgs
  <2>2. p.sid > D.min \/ (MinIdIncluded /\ p.sid = D.min)
    BY <1>4
  <2>3. p.sid = m.sid => p = m
    BY <1>4, MsgsAssumption DEF ChannelMsgs
  <2>4. m.sid > D.min \/ (MinIdIncluded /\ m.sid = D.min)
    BY <2>1, <2>2
  <2> QED
    BY <2>1, <2>4
<1>6. IsFiniteSet(Above(p)) /\ Above(m) \in SUBSET Above(p)
  <2>1. \A y \in range : y.sid \in Nat
    BY <1>1, <1>3
  <2>2. Above(p) \in SUBSET range
    OBVIOUS
  <2>3. IsFiniteSet(Above(p))
    BY ONLY <1>3, <2>2, FS_Subset
  <2> QED
    BY <1>4, <1>5, <2>1, <2>3
<1>7. Cardinality(Above(m)) <= Cardinality(Above(p)) /\ IsFiniteSet(Above(m))
  BY ONLY <1>6, FS_Subset
<1>8. Cardinality(Above(m)) \in Nat /\ Cardinality(Above(p)) \in Nat
  BY ONLY <1>6, <1>7, FS_CardinalityType
<1>9. Cardinality(Above(m)) < HistoryLimit
  BY <1>4, <1>7, <1>8, SettingsAssumption
<1> QED
  BY <1>2, <1>5, <1>9

\* A sequence of messages, the oldest first, leaves none out.
LEMMA OldestFirstAll ==
  ASSUME NEW ms, ms \subseteq Msgs, NEW s \in OldestFirst(ms), NEW m \in ms
  PROVE  \E i \in 1 .. Len(s) : s[i] = m
<1>1. IsFiniteSet(ms)
  BY MsgsAssumption, FS_Subset
<1>2. PICK n \in Nat : n = Cardinality(ms)
  BY <1>1, FS_CardinalityType
<1>3. s \in [1 .. n -> ms] /\ \A i, j \in DOMAIN s : i < j => s[i].sid < s[j].sid
  BY <1>2 DEF OldestFirst
<1>4. \A x \in ms : x.sid \in Nat
  BY MsgsAssumption
<1>5. SUFFICES ASSUME \A i \in 1 .. n : s[i] # m
               PROVE  FALSE
  <2>1. Len(s) = n
    BY <1>3
  <2> QED
    BY <2>1
<1>6. IsFiniteSet(ms \ {m}) /\ Cardinality(ms \ {m}) = n - 1
  BY <1>1, <1>2, FS_RemoveElement
<1>7. IsFiniteSet(1 .. n) /\ Cardinality(1 .. n) = n
  BY FS_Interval
<1>8. s \in [1 .. n -> ms \ {m}] /\ Cardinality(ms \ {m}) < Cardinality(1 .. n)
  BY <1>3, <1>5, <1>6, <1>7
<1>9. PICK i, j \in 1 .. n : i # j /\ s[i] = s[j]
  BY ONLY <1>6, <1>7, <1>8, FS_PigeonHole
<1>10. /\ i < j \/ j < i
       /\ s[i].sid \in Nat /\ s[j].sid \in Nat
  BY <1>3, <1>4, <1>9
<1> QED
  BY <1>3, <1>9, <1>10

\* What a page has to pass on.
NewIn(page, jumped) == {m \in page : m.sid > jumped /\ ~m.old}

\* What covered.upto adds is in the page, and is passed on.
LEMMA PageCovers ==
  ASSUME TypeInv, NEW ch \in Channels, NEW page \in Pages(ch, pending_channels[ch]),
         NEW jumped \in Jumps(last_server_id[ch], page),
         NEW ms \in OldestFirst(NewIn(page, jumped))
  PROVE  \A m \in ChannelMsgs(ch) :
           (/\ Covered(ch, pending_channels[ch], page, jumped).from < m.sid
            /\ m.sid <= Covered(ch, pending_channels[ch], page, jumped).upto
            /\ ~m.old)
             => Reached(ch, m.sid) \/ \E i \in 1 .. Len(ms) : ms[i] = m
<1> DEFINE D == pending_channels[ch]
           last == last_server_id[ch]
           new == NewIn(page, jumped)
           after == Covered(ch, D, page, jumped)
<1> SUFFICES ASSUME NEW m \in ChannelMsgs(ch), ~m.old,
                    Covered(ch, pending_channels[ch], page, jumped).from < m.sid,
                    m.sid <= Covered(ch, pending_channels[ch], page, jumped).upto
             PROVE  Reached(ch, m.sid) \/ \E i \in 1 .. Len(ms) : ms[i] = m
  OBVIOUS
<1>0. /\ after.from = IF jumped = last THEN covered[ch].from ELSE jumped
      /\ after.upto = IF page = {} THEN covered[ch].upto ELSE D.asked
  BY DEF Covered
<1>1. /\ last \in Nat /\ D.asked \in Nat /\ D.min \in Nat
      /\ covered[ch].from \in Nat /\ covered[ch].upto \in Nat
  BY DEF TypeInv, TypeOK, ChannelLoading
<1>2. page \subseteq Msgs /\ page \subseteq ChannelMsgs(ch)
  BY DEF Pages, ChannelMsgs
<1>3. m.sid \in Nat /\ \A x \in page : x.sid \in Nat
  BY <1>2, MsgsAssumption DEF ChannelMsgs
<1>4. CASE jumped = last /\ (m.sid <= last \/ page = {})
  BY <1>0, <1>4 DEF Reached
<1>5. ASSUME NEW p \in page, p.sid <= m.sid, jumped < m.sid, page # {}
      PROVE  \E i \in 1 .. Len(ms) : ms[i] = m
  <2>1. m \in page
    <3>1. page \in Pages(ch, D) /\ m.sid <= D.asked
      BY <1>0, <1>5
    <3> HIDE DEF D
    <3> QED
      BY <1>1, <1>5, <3>1, PageHasNoHoles
  <2>2. m \in new /\ new \subseteq Msgs
    BY <1>2, <1>3, <1>5, <2>1 DEF NewIn
  <2>3. ms \in OldestFirst(new)
    OBVIOUS
  <2> HIDE DEF new
  <2> QED
    BY ONLY <2>2, <2>3, OldestFirstAll
<1>6. CASE jumped = last /\ ~(m.sid <= last) /\ page # {}
  <2>1. PICK p \in page : p.sid <= last
    <3>1. CASE \E x \in page : x.sid <= last
      BY <3>1
    <3>2. CASE ~\E x \in page : x.sid <= last
      <4>1. jumped \in Oldest(page)
        BY <1>6, <3>2 DEF Jumps
      <4> QED
        BY <1>6, <4>1 DEF Oldest
    <3> QED
      BY <3>1, <3>2
  <2> QED
    BY <1>0, <1>1, <1>3, <1>5, <1>6, <2>1
<1>7. CASE jumped # last
  <2>1. jumped \in Oldest(page) /\ page # {}
    BY <1>7 DEF Jumps
  <2>2. PICK p \in page : p.sid = jumped
    BY <2>1 DEF Oldest
  <2> QED
    BY <1>0, <1>3, <1>5, <1>7, <2>1, <2>2
<1> QED
  BY <1>4, <1>6, <1>7

LEMMA HandlesCovers ==
  ASSUME TypeInv, TypeInv', Covers, Handles
  PROVE  Covers'
<1>0. CASE proc' # "up"
  BY <1>0 DEF Covers
<1>1. CASE proc' = "up" /\ UNCHANGED <<last_server_id, covered>>
  <2>1. proc = "up"
    BY StepPrints
  <2> QED
    BY <1>1, <2>1, AcceptedStays DEF Covers, Reached
<1>2. ASSUME NEW m \in Msgs, Update(m), RecvInChannel(m), proc' = "up",
             ~UNCHANGED last_server_id
      PROVE  Covers'
  <2> DEFINE ch == ChannelOf(m)
             base == last_server_id[ch]
  <2>1. ch \in Channels /\ InChannel(m) /\ m \in ChannelMsgs(ch)
    BY <1>2 DEF RecvInChannel, InChannel, ChannelOf, ChannelMsgs
  <2>2. base \in Nat /\ loading \in Seq(MsgLoading)
    BY <2>1 DEF TypeInv, TypeOK
  <2>3. PICK l \in Advanced(base, {m.sid}) : last_server_id' = [last_server_id EXCEPT ![ch] = l]
    BY <1>2 DEF RecvInChannel
  <2>4. PICK ms, wait, before :
          /\ ms \in Seq(Msgs) /\ ms = <<m>> /\ wait \in Nat /\ before = Null
          /\ Accept(ms, wait, before, loading)
    <3>1. Accept(<<m>>, Wait(ch), Null, loading)
      BY <1>2 DEF RecvInChannel
    <3>2. <<m>> \in Seq(Msgs) /\ Wait(ch) \in Nat
      BY DEF Wait
    <3> HIDE DEF ch
    <3> QED
      BY <3>1, <3>2
  <2>5. UNCHANGED covered
    BY <1>2, <2>1 DEF Update, RecvUpdate, IgnoreUpdate
  <2>6. /\ covered' = covered
        /\ covered'[ch].from = IF base = last_server_id[ch] THEN covered[ch].from ELSE base
        /\ \A x \in ChannelMsgs(ch) :
             covered'[ch].from < x.sid /\ x.sid <= covered'[ch].upto => Reached(ch, x.sid)
    BY <2>5 DEF Reached
  <2> DEFINE S == {m.sid}
  <2>7. \A x \in S : \E i \in 1 .. Len(ms) : ms[i].sid = x /\ ms[i] \in ChannelMsgs(ch)
    <3>1. 1 \in 1 .. Len(ms) /\ ms[1] = m
      BY <2>4
    <3> QED
      BY <2>1, <3>1
  <2>8. \A i : Data(i) # before
    BY <2>4, NeverFound
  <2>9. \A i \in 1 .. Len(ms) : \E j \in Accepted' : loading'[j].msg = ms[i]
    BY <2>2, <2>4, <2>8, AcceptShows
  <2>10. l \in Advanced(base, S) /\ last_server_id' = [last_server_id EXCEPT ![ch] = l]
    BY <2>3
  <2> HIDE DEF ch, base, S
  <2> QED
    <3>1. ms \in Seq(Msgs) /\ ch \in Channels /\ base \in Nat /\ proc' = "up"
      BY <1>2, <2>1, <2>2, <2>4
    <3> QED
      BY <2>6, <2>7, <2>9, <2>10, <3>1, AcceptCovers
<1>3. ASSUME NEW ch \in Channels, NEW page \in Pages(ch, pending_channels[ch]),
             NEW jumped \in Jumps(last_server_id[ch], page),
             HistoryReceived(ch, pending_channels[ch], page, jumped), proc' = "up"
      PROVE  Covers'
  <2> DEFINE ld == Notified(loading, pending_channels[ch].cbs)
  <2>1. PICK ms \in OldestFirst({m \in page : m.sid > jumped /\ ~m.old}) :
          /\ \E l \in Advanced(jumped, {ms[i].sid : i \in DOMAIN ms}) :
               last_server_id' = [last_server_id EXCEPT ![ch] = l]
          /\ covered' = [covered EXCEPT ![ch] = Covered(ch, pending_channels[ch], page, jumped)]
          /\ Accept(ms, 1, FindHigher(jumped), loading) \/ Accept(ms, 0, FindHigher(jumped), ld)
    BY <1>3 DEF HistoryReceived, Covered
  <2> DEFINE S == {ms[i].sid : i \in DOMAIN ms}
  <2>2. PICK l \in Advanced(jumped, S) : last_server_id' = [last_server_id EXCEPT ![ch] = l]
    BY <2>1
  <2>3. ms \in Seq(Msgs) /\ DOMAIN ms = 1 .. Len(ms) /\ \A i \in 1 .. Len(ms) : ms[i] \in ChannelMsgs(ch)
    <3>1. page \subseteq Msgs /\ page \subseteq ChannelMsgs(ch)
      BY DEF Pages, ChannelMsgs
    <3>2. ms \in Seq(Msgs) /\ \A i \in DOMAIN ms : ms[i] \in {m \in page : m.sid > jumped /\ ~m.old}
      BY <3>1, OldestFirstType
    <3> QED
      BY <3>1, <3>2
  <2>4. \A x \in S : \E i \in 1 .. Len(ms) : ms[i].sid = x /\ ms[i] \in ChannelMsgs(ch)
    BY <2>3
  <2>5. jumped \in Nat
    <3>1. last_server_id[ch] \in Nat /\ page \subseteq Msgs
      BY PagesType DEF TypeInv, TypeOK
    <3> QED
      BY <3>1, JumpsType
  <2>6. \A i : Data(i) # FindHigher(jumped)
    BY NeverFound
  <2>7. /\ ld \in Seq(MsgLoading) /\ Len(ld) = Len(loading)
        /\ \A i \in DOMAIN loading : ld[i].msg = loading[i].msg
        /\ loading \in Seq(MsgLoading) /\ 0 \in Nat /\ 1 \in Nat
    BY NotifiedType DEF TypeInv, TypeOK
  <2> HIDE DEF ld, S
  <2>8. PICK wait, before, items :
          /\ wait \in Nat /\ before = FindHigher(jumped) /\ items \in {loading, ld}
          /\ items \in Seq(MsgLoading) /\ Accept(ms, wait, before, items)
    <3>1. CASE Accept(ms, 1, FindHigher(jumped), loading)
      BY <2>7, <3>1
    <3>2. CASE Accept(ms, 0, FindHigher(jumped), ld)
      BY <2>7, <3>2
    <3> QED
      BY <2>1, <3>1, <3>2 DEF ld
  <2>9. /\ \A i : Data(i) # before
        /\ Len(items) = Len(loading)
        /\ \A i \in DOMAIN loading : items[i].msg = loading[i].msg
    BY <2>6, <2>7, <2>8
  <2>10. \A i \in 1 .. Len(ms) : \E j \in Accepted' : loading'[j].msg = ms[i]
    BY <2>3, <2>8, <2>9, AcceptShows
  <2>11. /\ \A x \in Channels \ {ch} : covered'[x] = covered[x]
         /\ covered'[ch].from = IF jumped = last_server_id[ch] THEN covered[ch].from ELSE jumped
         /\ covered'[ch].upto = IF page = {} THEN covered[ch].upto ELSE pending_channels[ch].asked
    BY <2>1 DEF Covered, TypeInv, TypeOK
  <2>12. covered'[ch] = Covered(ch, pending_channels[ch], page, jumped)
    BY <2>1 DEF TypeInv, TypeOK
  <2>13. \A m \in ChannelMsgs(ch) :
           covered'[ch].from < m.sid /\ m.sid <= covered'[ch].upto /\ ~m.old
             => Reached(ch, m.sid) \/ \E i \in 1 .. Len(ms) : ms[i] = m
    <3>1. ms \in OldestFirst(NewIn(page, jumped))
      BY <2>1 DEF NewIn
    <3>2. \A m \in ChannelMsgs(ch) :
            (/\ Covered(ch, pending_channels[ch], page, jumped).from < m.sid
             /\ m.sid <= Covered(ch, pending_channels[ch], page, jumped).upto
             /\ ~m.old)
              => Reached(ch, m.sid) \/ \E i \in 1 .. Len(ms) : ms[i] = m
      BY <3>1, PageCovers
    <3> QED
      BY ONLY <2>12, <3>2
  <2>14. ms \in Seq(Msgs) /\ jumped \in Nat /\ proc' = "up" /\ ch \in Channels
    BY <1>3, <2>3, <2>5
  <2> QED
    BY ONLY TypeInv, TypeInv', Covers, Handles, <2>2, <2>4, <2>10, <2>11, <2>13, <2>14, AcceptCovers
<1>4. ASSUME NEW m \in Msgs, Update(m), proc' = "up"
      PROVE  Covers'
  <2>1. UNCHANGED covered
    BY <1>4 DEF Update, RecvUpdate, IgnoreUpdate
  <2>2. UNCHANGED last_server_id \/ RecvInChannel(m)
    BY <1>4 DEF Update, RecvUpdate, IgnoreUpdate, RecvDirect
  <2> QED
    BY <1>1, <1>2, <1>4, <2>1, <2>2
<1>5. ASSUME NEW ch \in Channels, GetHistoryDone(ch), proc' = "up"
      PROVE  Covers'
  <2>1. CASE HistoryFailed(ch, pending_channels[ch])
    BY <1>1, <1>5, <2>1 DEF HistoryFailed
  <2> QED
    BY <1>3, <1>5, <2>1 DEF GetHistoryDone
<1>6. ASSUME \/ \E i \in DOMAIN loading : Answer(i)
             \/ \E ch \in Channels : ChannelListed(ch) \/ GetMembersDone(ch) \/ LoadAdminsDone(ch)
      PROVE  UNCHANGED <<last_server_id, covered>>
  BY <1>6 DEF Answer, ChannelListed, GetMembersDone, LoadAdminsDone
<1> QED
  BY <1>0, <1>1, <1>4, <1>5, <1>6 DEF Handles

LEMMA StepCovers ==
  ASSUME TypeInv, TypeInv', Covers, [Next]_vars
  PROVE  Covers'
<1>1. CASE \/ SetStatus \/ (\E p \in Peers : WriteTo(p)) \/ (\E ch \in Channels : Post(ch))
           \/ UNCHANGED vars
  <2>1. UNCHANGED <<proc, loading, new_messages, printed, last_server_id, covered>>
    BY <1>1 DEF SetStatus, WriteTo, Post, vars, session
  <2> QED
    BY <2>1 DEF Covers, Reached, Accepted, AcceptedLog
<1>2. CASE Login
  <2>1. /\ \A ch \in Channels : /\ covered'[ch].from = last_server_id[ch]
                                /\ covered'[ch].upto = last_server_id[ch]
        /\ last_server_id' = last_server_id
    BY <1>2 DEF Login
  <2>2. \A ch \in Channels : \A m \in ChannelMsgs(ch) : last_server_id[ch] \in Nat /\ m.sid \in Nat
    BY MsgsAssumption DEF ChannelMsgs, TypeInv, TypeOK
  <2>3. \A ch \in Channels : \A m \in ChannelMsgs(ch) :
          ~(/\ covered'[ch].from < m.sid
            /\ m.sid <= last_server_id'[ch] \/ m.sid <= covered'[ch].upto)
    BY <2>1, <2>2
  <2> QED
    BY <2>3 DEF Covers, Reached
<1>3. CASE Close
  BY <1>3 DEF Close, Covers
<1> QED
  BY <1>1, <1>2, <1>3, HandlesCovers, NextSplit DEF Others

\* What last-server-id has passed one by one in a session was received in it, and so
\* was what the server had above it when the history was asked for: only the jump to
\* the oldest message of a page loses messages, that one and those below it.
THEOREM ServerIdCovers == Spec => []LastServerIdCovers
<1>1. Init => Covers
  BY DEF Init, Covers
<1>2. TypeInv /\ TypeInv' /\ Covers /\ [Next]_vars => Covers'
  BY StepCovers
<1>3. TypeInv /\ Covers => LastServerIdCovers
  <2> SUFFICES ASSUME TypeInv
               PROVE  Accepted \subseteq Queued \cup Printed
    BY DEF Covers, Reached, LastServerIdCovers
  <2>1. /\ DOMAIN AcceptedLog = 1 .. Len(printed) + Len(new_messages)
        /\ DOMAIN printed = 1 .. Len(printed) /\ DOMAIN new_messages = 1 .. Len(new_messages)
        /\ Len(printed) \in Nat /\ Len(new_messages) \in Nat
        /\ \A j \in 1 .. Len(printed) + Len(new_messages) :
             AcceptedLog[j] = IF j <= Len(printed) THEN printed[j] ELSE new_messages[j - Len(printed)]
    BY ConcatProperties, LenProperties DEF AcceptedLog, TypeInv, TypeOK
  <2> QED
    BY <2>1 DEF Accepted, Queued, Printed
<1> QED
  BY <1>1, <1>2, <1>3, WaitsInvariant, PTL DEF Spec
=============================================================================

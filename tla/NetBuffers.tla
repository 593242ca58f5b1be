----------------------------- MODULE NetBuffers -----------------------------
(***************************************************************************)
(* The byte queues of one connection (struct connection_buffer, tgp-net.c) *)
(* between the socket and tgl, and the frames that try_rpc_read finds in   *)
(* what arrives.                                                           *)
(*                                                                         *)
(* A queue is a list of buffers of one size, filled at the tail and read   *)
(* at the head.  TCP delivers the server's frames as a stream of bytes in  *)
(* pieces of any size, send takes any part of what it is offered; the      *)
(* queues have to keep the bytes and their order, and the reader has to    *)
(* find the frames again.  A frame is a header with its length in words    *)
(* and the words; the header is one byte, or LongHeader bytes for lengths  *)
(* above MaxShort.  Of a byte only its place in the stream matters, and of *)
(* a header the length it stands for.  The event sources of the socket are *)
(* the subject of Connection.                                              *)
(***************************************************************************)
EXTENDS Integers, Sequences, FiniteSets, SequencesExt

CONSTANTS
  BufferSize,     \* size of a buffer, 1 << 20
  Word,           \* bytes in a word, 4
  LongHeader,     \* bytes in a long header, 4
  MaxShort,       \* longest frame with a short header, 0x7e words
  FrameLengths,   \* lengths in words of the frames the server sends
  MaxFrames,      \* bound: frames the server sends
  WriteLengths,   \* bytes tgl writes at once
  MaxWritten      \* bound: bytes tgl writes

ASSUME SizesAssumption ==
  /\ {BufferSize, Word, LongHeader, MaxShort} \subseteq Nat \ {0}
  /\ FrameLengths \subseteq Nat \ {0} /\ WriteLengths \subseteq Nat \ {0}
  /\ MaxFrames \in Nat /\ MaxWritten \in Nat

VARIABLES
  state,      \* open; failed; or out of step, when a header is read where none is
  in,         \* c->in_head ... c->in_tail
  in_bytes,   \* c->in_bytes
  out,        \* c->out_head ... c->out_tail
  out_bytes,  \* c->out_bytes
  frames,     \* server: lengths of the frames it sent
  arrived,    \* network: how many bytes of them the socket returned
  executed,   \* tgl: the words of the frames that it executed, in order
  refused,    \* whether execute returned a negative number with more to read
  written,    \* history: the bytes tgl wrote
  sent        \* history: the bytes send took

reading == <<in, in_bytes, arrived, executed, refused>>
writing == <<out, out_bytes, written, sent>>
vars == <<state, reading, frames, writing>>

------------------------------------------------------------------------------
(* Buffers.  used is wptr - start; the unread bytes end there. *)

Empty == [bytes |-> <<>>, used |-> 0]

Filled(bytes) == [bytes |-> bytes, used |-> Len(bytes)]

Room(b) == BufferSize - b.used

Extended(b, bytes) == [bytes |-> b.bytes \o bytes, used |-> b.used + Len(bytes)]

Unread(q) == FlattenSeq([k \in DOMAIN q |-> q[k].bytes])

\* The bytes from the given place on, in buffers of their own.
Buffers(bytes, from, count) ==
  [k \in 1 .. count |->
     Filled(SubSeq(bytes, from + (k - 1) * BufferSize,
                   IF from + k * BufferSize > Len(bytes) THEN Len(bytes)
                   ELSE from + k * BufferSize - 1))]

\* Mutant: no new buffer when recv has filled the tail to its end.
ReceivedIntoFull(q, bytes) ==
  LET head == IF q = <<>> THEN <<Empty>> ELSE q
      room == Room(Last(head))
  IN  IF Len(bytes) <= room THEN Front(head) \o <<Extended(Last(head), bytes)>>
      ELSE Front(head) \o <<Extended(Last(head), SubSeq(bytes, 1, room))>>
             \o Buffers(bytes, room + 1, (Len(bytes) - room) \div BufferSize + 1)

\* The loop of try_read: whenever recv has filled the tail to its end, there is a
\* new one and recv is called again.
Received(q, bytes) ==
  LET head == IF q = <<>> THEN <<Empty>> ELSE q
      room == Room(Last(head))
  IN  IF Len(bytes) < room THEN Front(head) \o <<Extended(Last(head), bytes)>>
      ELSE Front(head) \o <<Extended(Last(head), SubSeq(bytes, 1, room))>>
             \o Buffers(bytes, room + 1, (Len(bytes) - room) \div BufferSize + 1)

\* Mutant: what does not fit into the tail begins one byte late.
WroteWithGap(q, bytes) ==
  LET head == IF q = <<>> THEN <<Empty>> ELSE q
      room == Room(Last(head))
  IN  IF Len(bytes) <= room THEN Front(head) \o <<Extended(Last(head), bytes)>>
      ELSE Front(head) \o <<Extended(Last(head), SubSeq(bytes, 1, room))>>
             \o Buffers(bytes, room + 2, (Len(bytes) - room + BufferSize - 1) \div BufferSize)

\* The loop of tgln_write_out: a new buffer for what does not fit.
Wrote(q, bytes) ==
  LET head == IF q = <<>> THEN <<Empty>> ELSE q
      room == Room(Last(head))
  IN  IF Len(bytes) <= room THEN Front(head) \o <<Extended(Last(head), bytes)>>
      ELSE Front(head) \o <<Extended(Last(head), SubSeq(bytes, 1, room))>>
             \o Buffers(bytes, room + 1, (Len(bytes) - room + BufferSize - 1) \div BufferSize)

\* How many unread bytes the first k buffers hold.
Sum(q) ==
  LET upTo[k \in 0 .. Len(q)] == IF k = 0 THEN 0 ELSE upTo[k - 1] + Len(q[k].bytes)
  IN  upTo

\* The queue without its first m buffers, and without the next n bytes.
Dropped(q, m, n) ==
  [k \in 1 .. Len(q) - m |->
     IF k = 1 THEN [q[m + 1] EXCEPT !.bytes = SubSeq(@, n + 1, Len(@))] ELSE q[m + k]]

\* tgln_read_in: a buffer is freed as soon as its last byte was read, also when
\* no more bytes are wanted.
ReadIn(q, n) ==
  LET m == Cardinality({k \in DOMAIN q : Sum(q)[k - 1] < n /\ Sum(q)[k] <= n})
  IN  Dropped(q, m, n - Sum(q)[m])

\* tgln_read_in_lookup: n bytes, or all there are.
Lookup(q, n) == SubSeq(Unread(q), 1, IF n > Len(Unread(q)) THEN Len(Unread(q)) ELSE n)

\* The loop of try_write, when send takes n bytes in all: it goes on with the next
\* buffer only after all of the head was taken.
Sent(q, n) ==
  LET m == Cardinality({k \in DOMAIN q : Sum(q)[k] <= n})
  IN  Dropped(q, m, n - Sum(q)[m])

------------------------------------------------------------------------------
(* The server's stream *)

HeaderBytes(len) == IF len <= MaxShort THEN 1 ELSE LongHeader

FrameBytes(len) == HeaderBytes(len) + Word * len

\* The k-th byte of the n-th frame.
Frame(n) == [k \in 1 .. FrameBytes(frames[n]) |-> <<n, k>>]

Stream == FlattenSeq([n \in DOMAIN frames |-> Frame(n)])

------------------------------------------------------------------------------
(* Reading.  r is what try_rpc_read works on: the in queue, in_bytes, and the  *)
(* frames that were executed.                                                  *)

\* The frame whose header begins at the head of the queue.
HeadFrame(r) == Lookup(r.in, 1)[1][1]

\* Whether a header begins there at all.
InStep(r) == Lookup(r.in, 1)[1][2] = 1

\* Mutant: the header is forgotten when the bytes of the frame are counted.
CompleteTooEarly(r) ==
  /\ r.in_bytes >= 1
  /\ InStep(r) => LET len == frames[HeadFrame(r)]
                  IN  r.in_bytes >= HeaderBytes(len) /\ r.in_bytes >= Word * len

\* The early returns of try_rpc_read: not a byte, not the whole header, or not all
\* of the words that it announces.
Complete(r) ==
  /\ r.in_bytes >= 1
  /\ InStep(r) => LET len == frames[HeadFrame(r)]
                  IN  r.in_bytes >= HeaderBytes(len) /\ r.in_bytes >= FrameBytes(len)

\* The rest of its loop: the header is read, and execute reads the words.
ExecuteHead(r) ==
  LET len == frames[HeadFrame(r)]
      words == ReadIn(r.in, HeaderBytes(len))
  IN  [in |-> ReadIn(words, Word * len), in_bytes |-> r.in_bytes - FrameBytes(len),
       executed |-> Append(r.executed, Lookup(words, Word * len))]

\* Mutant: one frame is executed for every read.
RpcReadOnce(r) ==
  {[r |-> IF Complete(r) THEN ExecuteHead(r) ELSE r, stopped |-> FALSE]}

\* try_rpc_read: it executes what is complete, or stops behind a frame for which
\* execute returned a negative number.
RpcRead(r) ==
  LET after[k \in 0 .. Len(frames)] ==
        IF k = 0 THEN r
        ELSE IF Complete(after[k - 1]) /\ InStep(after[k - 1]) THEN ExecuteHead(after[k - 1])
        ELSE after[k - 1]
      last == after[Len(frames)]
      ran == Len(last.executed) - Len(r.executed)
  IN  {[r |-> after[k], stopped |-> k < ran] : k \in {k \in 0 .. ran : k > 0 \/ ran = 0}}

\* conn_try_read, bytes arrive: all that recv returns until there is nothing more.
Read ==
  /\ state = "open" /\ arrived < Len(Stream)
  /\ \E n \in 1 .. Len(Stream) - arrived :
       \E x \in RpcRead([in |-> Received(in, SubSeq(Stream, arrived + 1, arrived + n)),
                         in_bytes |-> in_bytes + n, executed |-> executed]) :
         /\ arrived' = arrived + n
         /\ in' = x.r.in /\ in_bytes' = x.r.in_bytes /\ executed' = x.r.executed
         /\ refused' = x.stopped
         /\ state' = IF Complete(x.r) /\ ~InStep(x.r) THEN "out of step" ELSE state
  /\ UNCHANGED <<frames, writing>>

------------------------------------------------------------------------------
(* Writing, and the end *)

\* tgln_write_out
WriteOut(n) ==
  /\ state = "open" /\ Len(written) + n <= MaxWritten
  /\ LET bytes == [k \in 1 .. n |-> Len(written) + k]
     IN  written' = written \o bytes /\ out' = Wrote(out, bytes)
  /\ out_bytes' = out_bytes + n
  /\ UNCHANGED <<state, reading, frames, sent>>

\* try_write: send takes n bytes, none if the socket has no room after all.
Write(n) ==
  /\ state = "open" /\ out_bytes > 0
  /\ sent' = sent \o Lookup(out, n)
  /\ out' = Sent(out, n)
  /\ out_bytes' = out_bytes - n
  /\ UNCHANGED <<state, reading, frames, written>>

\* fail_connection: recv or send fails, or the server is silent.
Fail ==
  /\ state = "open" /\ state' = "failed"
  /\ in' = <<>> /\ in_bytes' = 0 /\ out' = <<>> /\ out_bytes' = 0
  /\ written' = <<>> /\ sent' = <<>>
  /\ UNCHANGED <<frames, arrived, executed, refused>>

\* The server sends a frame.
Post(len) ==
  /\ Len(frames) < MaxFrames
  /\ frames' = Append(frames, len)
  /\ UNCHANGED <<state, reading, writing>>

Init ==
  /\ state = "open"
  /\ in = <<>> /\ in_bytes = 0 /\ arrived = 0 /\ executed = <<>> /\ refused = FALSE
  /\ out = <<>> /\ out_bytes = 0 /\ written = <<>> /\ sent = <<>>
  /\ frames = <<>>

Next ==
  \/ Read
  \/ \E n \in WriteLengths : WriteOut(n)
  \/ \E n \in 0 .. out_bytes : Write(n)
  \/ Fail
  \/ \E len \in FrameLengths : Post(len)

Spec == Init /\ [][Next]_vars

\* A socket that is reported writable takes something.
Fairness == WF_vars(\E n \in 1 .. out_bytes : Write(n))

FairSpec == Spec /\ Fairness

------------------------------------------------------------------------------
(* Properties *)

Buffer(Bytes) ==
  {b \in [bytes : Seq(Bytes), used : 0 .. BufferSize] : Len(b.bytes) <= b.used}

\* Every variable has its type; a buffer is never filled beyond its end, and the
\* tail of the in queue has room: recv with no room would return 0 for ever.
TypeOK ==
  /\ state \in {"open", "failed", "out of step"}
  /\ in \in Seq(Buffer(Nat \X Nat)) /\ out \in Seq(Buffer(Nat))
  /\ in # <<>> => Room(Last(in)) > 0
  /\ in_bytes \in Nat /\ out_bytes \in Nat /\ arrived \in 0 .. Len(Stream)
  /\ frames \in Seq(FrameLengths) /\ executed \in Seq(Seq(Nat \X Nat))
  /\ refused \in BOOLEAN /\ written \in Seq(Nat) /\ sent \in Seq(Nat)

\* How many bytes of the stream the executed frames took.
Consumed ==
  LET upTo[n \in 0 .. Len(executed)] ==
        IF n = 0 THEN 0 ELSE upTo[n - 1] + FrameBytes(frames[n])
  IN  upTo[Len(executed)]

\* However the stream is cut into pieces and the pieces into buffers, tgl is given
\* the words of the frames in order, the queue holds the bytes that follow them,
\* and in_bytes says how many: no assertion of try_rpc_read fails, and no header is
\* looked for in the middle of a frame.
FramesFound ==
  /\ state # "out of step"
  /\ \A n \in DOMAIN executed :
       executed[n] = SubSeq(Frame(n), HeaderBytes(frames[n]) + 1, FrameBytes(frames[n]))
  /\ state = "open" => /\ Unread(in) = SubSeq(Stream, Consumed + 1, arrived)
                       /\ in_bytes = arrived - Consumed

\* No frame that arrived is left in the queue, where it would wait for bytes that
\* need not come, unless execute refused one before it.
NothingLeftBehind ==
  state = "open" /\ ~refused =>
    ~Complete([in |-> in, in_bytes |-> in_bytes, executed |-> executed])

\* The out queue implements the log of PrintedLog: the bytes tgl writes reach the
\* socket once and in order, all of them unless the connection fails.
Wire == INSTANCE PrintedLog WITH
  MaxLength <- MaxWritten,
  accepted <- written,
  printed <- sent

SendsAll == Wire!Spec
=============================================================================

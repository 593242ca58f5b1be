------------------------------ MODULE Outgoing ------------------------------
(***************************************************************************)
(* How a message the user writes reaches tgl.                              *)
(*                                                                         *)
(* tgp_msg_send (tgp-msg.c) replaces ``` by tags (in a buffer of three     *)
(* times the length of the text), cuts the result into chunks of at most   *)
(* TGP_MAX_MSG_SIZE characters and puts them in the queue out_messages;    *)
(* a libpurple timeout of zero, restarted for every chunk, hands the whole *)
(* queue to tgl once the program is back in its main loop.  A delivered    *)
(* chunk makes write_files_schedule (telegram-base.c) start another such   *)
(* timeout, write_timer, that saves the session.                           *)
(*                                                                         *)
(* Of a text only its length and what the conversion meets in it matter: a *)
(* character takes a byte.  Messages that are refused (no such peer,       *)
(* secret chat not ready, somebody else's channel) change nothing that is  *)
(* modelled here; inline images go to tgl at once.  timers counts the glib *)
(* sources that will call back with this account's data, whether the code  *)
(* knows their number or not; out_timer and write_timer tell whether it    *)
(* does.                                                                   *)
(***************************************************************************)
EXTENDS Integers, Sequences, FiniteSets

CONSTANTS
  MaxMsgSize,         \* TGP_MAX_MSG_SIZE
  MaxMsgSplitCount,   \* TGP_DEFAULT_MAX_MSG_SPLIT_COUNT
  Lengths,            \* bound: the lengths of messages
  MaxMessages         \* bound: messages written in a session

ASSUME SizesAssumption ==
  /\ MaxMsgSize \in Nat \ {0} /\ MaxMsgSplitCount \in Nat \ {0} /\ MaxMessages \in Nat
  /\ Lengths \subseteq Nat

VARIABLES
  up,             \* whether the account has its connection_data
  out_messages,   \* conn->out_messages
  out_timer,      \* whether conn->out_timer holds the number of a source
  write_timer,    \* the same of conn->write_timer
  timers,         \* live glib sources, by their callback
  unanswered,     \* chunks that tgl was given and has not called back for
  conversion,     \* whether tgp_msg_send is in tgp_msg_markdown_convert
  text,           \* the text there: its length and that of the buffer, see Converting
  sizes,          \* history: sizes of the messages accepted in this session
  written,        \* history: their chunks, in the order they were cut
  sent            \* history: the chunks tgl was given, in order

converter == <<conversion, text>>
vars == <<up, out_messages, out_timer, write_timer, timers, unanswered, converter,
          sizes, written, sent>>

\* len bytes of which i are read, room bytes of html of which j are written; open
\* inside of a tag; what is not blank begins at from and ends at to.
Converting == [len : Nat, room : Nat, i : Nat, j : Nat, open : BOOLEAN, from : Nat, to : Nat]

NoText == [len |-> 0, room |-> 0, i |-> 0, j |-> 0, open |-> FALSE, from |-> 0, to |-> 0]

Chunk == [msg : Nat \ {0}, start : Nat, end : Nat]

Smaller(a, b) == IF a < b THEN a ELSE b

\* Mutant: every chunk begins one character late.
ChunksWithGaps(n, size) ==
  [k \in 1 .. (size + MaxMsgSize - 1) \div MaxMsgSize |->
     [msg |-> n, start |-> IF k = 1 THEN 0 ELSE (k - 1) * MaxMsgSize + 1,
      end |-> Smaller(k * MaxMsgSize, size)]]

\* The loop of tgp_msg_send over the n-th text.
Chunks(n, size) ==
  [k \in 1 .. (size + MaxMsgSize - 1) \div MaxMsgSize |->
     [msg |-> n, start |-> (k - 1) * MaxMsgSize, end |-> Smaller(k * MaxMsgSize, size)]]

\* Mutant: a new timeout is added without the removal of the old one.
RestartedWithoutRemove(n) == n + 1

\* tgp_msg_send_schedule: the sources of the queue after the timeout was restarted.
Restarted(n) == (IF out_timer THEN n - 1 ELSE n) + 1

\* The tags of the SPAN that STRIP_BROKEN_HTML takes off.
BrokenHtml == 53

\* tgp_msg_send, which calls tgp_msg_markdown_convert for a text of n bytes.
Begin(n, wrapped) ==
  /\ up /\ ~conversion /\ Len(sizes) < MaxMessages
  /\ conversion' = TRUE
  /\ text' = [NoText EXCEPT !.len = n, !.room = 3 * IF wrapped THEN n + BrokenHtml ELSE n]
  /\ UNCHANGED <<up, out_messages, out_timer, write_timer, timers, unanswered, sizes, written, sent>>

\* The loop: any byte.
Copy(blank) ==
  /\ conversion /\ text.i < text.len
  /\ text' = [text EXCEPT !.i = @ + 1, !.j = @ + 1,
                !.from = IF blank /\ text.to = 0 THEN @ + 1 ELSE @,
                !.to = IF blank THEN @ ELSE text.j + 1]
  /\ UNCHANGED <<up, out_messages, out_timer, write_timer, timers, unanswered, conversion,
                 sizes, written, sent>>

\* </code> is one byte longer than <code>.
TagSize == IF text.open THEN 7 ELSE 6

\* Mutant: only one of the three characters is skipped.
TagReadAgain ==
  /\ conversion /\ text.len - text.i >= 3
  /\ text' = [text EXCEPT !.i = @ + 1, !.j = @ + TagSize, !.to = text.j + TagSize, !.open = ~@]
  /\ UNCHANGED <<up, out_messages, out_timer, write_timer, timers, unanswered, conversion,
                 sizes, written, sent>>

\* The loop: the three characters that begin and end code.
Tag ==
  /\ conversion /\ text.len - text.i >= 3
  /\ text' = [text EXCEPT !.i = @ + 3, !.j = @ + TagSize, !.to = text.j + TagSize, !.open = ~@]
  /\ UNCHANGED <<up, out_messages, out_timer, write_timer, timers, unanswered, conversion,
                 sizes, written, sent>>

\* g_strstrip, g_utf8_strlen: the size of the converted and stripped text.
Size == IF text.to = 0 THEN 0 ELSE text.to - text.from

MaxSize == MaxMsgSize * MaxMsgSplitCount

\* tgp_msg_send_schedule for each chunk of the text.
Schedule(size) ==
  /\ sizes' = Append(sizes, size)
  /\ LET new == Chunks(Len(sizes) + 1, size)
     IN  written' = written \o new /\ out_messages' = out_messages \o new
  /\ timers' = [timers EXCEPT !.out = Restarted(@)]
  /\ out_timer' = TRUE
  /\ UNCHANGED <<up, write_timer, unanswered, sent>>

\* The rest of tgp_msg_send.
Write ==
  /\ conversion /\ text.i = text.len /\ Size \in 1 .. MaxSize
  /\ Schedule(Size)
  /\ conversion' = FALSE /\ text' = NoText

\* A text that is empty after the conversion is dropped, one that is too long refused
\* with E2BIG.
Refuse ==
  /\ conversion /\ text.i = text.len /\ text.room > 0 /\ Size \notin 1 .. MaxSize
  /\ conversion' = FALSE /\ text' = NoText
  /\ UNCHANGED <<up, out_messages, out_timer, write_timer, timers, unanswered, sizes, written, sent>>

\* A text that was empty to begin with: g_new0 gives NULL for its buffer of no bytes,
\* and the byte that ends the text is written there.  The process ends.
WriteToNull ==
  /\ conversion /\ text.i = text.len /\ text.room = 0
  /\ up' = FALSE /\ conversion' = FALSE /\ text' = NoText
  /\ timers' = [out |-> 0, write |-> 0]
  /\ out_messages' = <<>> /\ out_timer' = FALSE /\ write_timer' = FALSE /\ unanswered' = {}
  /\ sizes' = <<>> /\ written' = <<>> /\ sent' = <<>>

\* Mutant: one chunk per timeout, and the timeout is not repeated.
SendFirstChunk ==
  /\ ~conversion /\ timers.out > 0
  /\ timers' = [timers EXCEPT !.out = @ - 1]
  /\ out_timer' = FALSE
  /\ out_messages' = Tail(out_messages)
  /\ sent' = Append(sent, Head(out_messages))
  /\ unanswered' = unanswered \cup {Len(sent')}
  /\ UNCHANGED <<up, write_timer, converter, sizes, written>>

\* tgp_msg_send_schedule_cb: tgl is given the chunks from the head of the queue on.
SendAll ==
  /\ ~conversion /\ timers.out > 0
  /\ timers' = [timers EXCEPT !.out = @ - 1]
  /\ out_timer' = FALSE
  /\ out_messages' = <<>>
  /\ sent' = sent \o out_messages
  /\ unanswered' = unanswered \cup {Len(sent) + k : k \in DOMAIN out_messages}
  /\ UNCHANGED <<up, write_timer, converter, sizes, written>>

\* tgp_msg_send_done: a failure is only reported, a success is going to be saved.
Answer(k) ==
  /\ ~conversion /\ k \in unanswered
  /\ unanswered' = unanswered \ {k}
  /\ \/ UNCHANGED <<write_timer, timers>>
     \/ /\ write_timer' = TRUE
        /\ timers' = [timers EXCEPT !.write = IF write_timer THEN @ ELSE @ + 1]
  /\ UNCHANGED <<up, out_messages, out_timer, converter, sizes, written, sent>>

\* write_files_gw
WriteFiles ==
  /\ ~conversion /\ timers.write > 0
  /\ write_timer' = FALSE
  /\ timers' = [timers EXCEPT !.write = @ - 1]
  /\ UNCHANGED <<up, out_messages, out_timer, unanswered, converter, sizes, written, sent>>

\* tgprpl_login
Login ==
  /\ ~up /\ up' = TRUE
  /\ UNCHANGED <<out_messages, out_timer, write_timer, timers, unanswered, converter, sizes, written, sent>>

\* Mutant: the queries of tgl outlive the account.
CloseKeepingQueries ==
  /\ ~conversion /\ up /\ up' = FALSE
  /\ timers' = [out |-> IF out_timer THEN timers.out - 1 ELSE timers.out,
                write |-> IF write_timer THEN timers.write - 1 ELSE timers.write]
  /\ out_messages' = <<>> /\ out_timer' = FALSE /\ write_timer' = FALSE
  /\ sizes' = <<>> /\ written' = <<>> /\ sent' = <<>>
  /\ UNCHANGED <<unanswered, converter>>

\* tgprpl_close, connection_data_free: what is still in the queue is discarded, and
\* so are the queries of tgl with their callbacks.
Close ==
  /\ ~conversion /\ up /\ up' = FALSE
  /\ timers' = [out |-> IF out_timer THEN timers.out - 1 ELSE timers.out,
                write |-> IF write_timer THEN timers.write - 1 ELSE timers.write]
  /\ out_messages' = <<>> /\ out_timer' = FALSE /\ write_timer' = FALSE /\ unanswered' = {}
  /\ sizes' = <<>> /\ written' = <<>> /\ sent' = <<>>
  /\ UNCHANGED converter

Init ==
  /\ up = FALSE /\ timers = [out |-> 0, write |-> 0]
  /\ out_messages = <<>> /\ out_timer = FALSE /\ write_timer = FALSE /\ unanswered = {}
  /\ conversion = FALSE /\ text = NoText
  /\ sizes = <<>> /\ written = <<>> /\ sent = <<>>

Next ==
  \/ \E n \in Lengths, wrapped \in BOOLEAN : Begin(n, wrapped)
  \/ \E blank \in BOOLEAN : Copy(blank)
  \/ Tag \/ Write \/ Refuse \/ WriteToNull
  \/ SendAll
  \/ \E k \in unanswered : Answer(k)
  \/ WriteFiles
  \/ Login \/ Close

Spec == Init /\ [][Next]_vars

\* glib's main loop, to which every call returns, comes to a timeout that is due however
\* many calls there are; a call of tgp_msg_send goes on to its end.
Fairness ==
  /\ SF_vars(SendAll) /\ SF_vars(WriteFiles)
  /\ WF_vars((\E blank \in BOOLEAN : Copy(blank)) \/ Tag \/ Write \/ Refuse \/ WriteToNull)

FairSpec == Spec /\ Fairness

------------------------------------------------------------------------------
(* Properties *)

\* Every variable has its type.
TypeOK ==
  /\ up \in BOOLEAN /\ out_timer \in BOOLEAN /\ write_timer \in BOOLEAN
  /\ timers \in [out : Nat, write : Nat]
  /\ out_messages \in Seq(Chunk) /\ written \in Seq(Chunk) /\ sent \in Seq(Chunk)
  /\ unanswered \subseteq DOMAIN sent
  /\ conversion \in BOOLEAN /\ text \in Converting
  /\ sizes \in Seq(1 .. MaxSize)

\* The queue is not empty exactly while one timeout is going to empty it, and no
\* timeout fires with the connection_data of an account that was closed, however
\* writing, sending, saving and closing interleave.
TimersOwned ==
  /\ timers.out = IF up /\ out_messages # <<>> THEN 1 ELSE 0
  /\ timers.write = IF up /\ write_timer THEN 1 ELSE 0
  /\ out_timer <=> out_messages # <<>>

\* Whether the k-th chunk of w is the first, or the last, of its text.
First(w, k) == k = 1 \/ w[k - 1].msg # w[k].msg
Last(w, k) == k = Len(w) \/ w[k + 1].msg # w[k].msg

\* The chunk continues where the one before it ended, and is not cut off.
Fits(w, s, k) ==
  /\ w[k].end - w[k].start \in 1 .. MaxMsgSize
  /\ w[k].start = IF First(w, k) THEN 0 ELSE w[k - 1].end
  /\ Last(w, k) => w[k].end = s[w[k].msg]
  /\ ~First(w, k) \/ k = 1 \/ w[k - 1].msg < w[k].msg

\* The chunks of the accepted texts follow each other without a gap or an overlap:
\* none is empty or longer than the server accepts, and no text is cut off.
WholeTexts ==
  /\ {written[k].msg : k \in DOMAIN written} = DOMAIN sizes
  /\ \A k \in DOMAIN written : Fits(written, sizes, k)

\* The converted text and the byte that ends it stay inside the buffer, although </code>
\* takes more than twice the room of what it replaces, and the assertions before a tag
\* is written, which compare with the text without a stripped SPAN, never fail.  This
\* is so of every text but the empty one, whose buffer has no byte at all
\* (WriteToNull).
HtmlFits ==
  conversion /\ text.room > 0 =>
    /\ text.j < text.room
    /\ text.len - text.i >= 3 => text.j + TagSize < 3 * text.len

\* What tgl was given and what waits in the queue are the chunks in the order they
\* were written: none is lost, doubled or overtaken while the account is up.
SentInOrder == sent \o out_messages = written

\* The queue implements the log of PrintedLog: what was written is never reordered
\* or taken back, and all of it reaches tgl unless the account is closed.
Outbox == INSTANCE PrintedLog WITH
  MaxLength <- MaxMessages * MaxMsgSplitCount,
  accepted <- written,
  printed <- sent

DeliversAll == Outbox!Spec
=============================================================================

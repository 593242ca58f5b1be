---------------------------- MODULE Persistence ----------------------------
(***************************************************************************)
(* The files of an account (telegram-base.c): state says up to where       *)
(* updates were received, secret holds the secret chats with their         *)
(* sequence numbers, auth the data centers and our id.                     *)
(*                                                                         *)
(* Files are opened without O_TRUNC and overwritten from the start, one    *)
(* write call after the other.  The main loop waits for the writer, but    *)
(* the process may end between two calls: todo is what is left to write.   *)
(* A file is a sequence of cells, one for a field that a reader looks at   *)
(* or for one character of a chat's name, whose length makes records       *)
(* differ in size.  The fields of a record that nothing tells apart are    *)
(* one cell (rest) and one call here, where the code makes several: port,  *)
(* address and key of a data center (134-139), and what follows the name   *)
(* of a chat (276-288).  Of the updates only messages of secret chats are  *)
(* modelled: they move the state (qts) and the sequence number of their    *)
(* chat.                                                                   *)
(***************************************************************************)
EXTENDS Integers, Sequences, FiniteSets

CONSTANTS
  NumChats,      \* secret chats are numbered in the order tgl iterates them
  NameLength,    \* length of the print name of each chat
  MaxDc,         \* TLS->max_dc_num
  MaxUpdates     \* bound: messages the server sends

Chats == 1 .. NumChats
Dcs == 0 .. MaxDc

ASSUME FilesAssumption ==
  /\ NumChats \in Nat /\ MaxDc \in Nat \ {0} /\ MaxUpdates \in Nat
  /\ NameLength \in [Chats -> Nat \ {0}]

VARIABLES
  phase,        \* where the account is between login and close
  chat,         \* tgl: state of each secret chat
  seq,          \* tgl: messages received in each secret chat
  qts,          \* tgl: updates received
  dcs,          \* tgl: the data centers that are known
  write_timer,  \* whether write_files_gw is going to be called
  todo,         \* the write calls that the running handler has left
  disk,         \* the contents of the three files
  posted,       \* server: the chat of every message sent to us
  saved,        \* history: what the latest writers of secret and auth were to save
  torn,         \* history: files of which the latest writer did not finish
  split         \* history: whether the process ever ended with the secret file next

tgl == <<chat, seq, qts, dcs>>
history == <<posted, saved, torn, split>>
vars == <<phase, tgl, write_timer, todo, disk, history>>

Files == {"state", "secret", "auth"}
Cell == [kind : {"none", "magic", "number", "name", "rest", "id"}, val : Nat, of : Nat]
C(kind, val, of) == [kind |-> kind, val |-> val, of |-> of]

------------------------------------------------------------------------------
(* Writing *)

\* The write calls that write cells to the file f from its start on.
Calls(f, cells) == [k \in DOMAIN cells |-> [file |-> f, pos |-> k, cell |-> cells[k]]]

Open(ch) == {c \in Chats : ch[c] = "ok"}

\* write_secret_chat: id, length of the name, name, and everything else.
ChatCells(c, s) ==
  <<C("id", c, c), C("number", NameLength[c], c)>>
    \o [k \in 1 .. NameLength[c] |-> C("name", 0, c)] \o <<C("rest", s, c)>>

ChatRecords(ch, s) ==
  LET upTo[k \in 0 .. NumChats] ==
        IF k = 0 THEN <<>>
        ELSE upTo[k - 1] \o (IF ch[k] = "ok" THEN ChatCells(k, s[k]) ELSE <<>>)
  IN  upTo[NumChats]

\* magic, version and the number of chats, for the time being.
SecretHeader == <<C("magic", 0, 0), C("number", 2, 0), C("number", 2, 0)>>

\* Mutant: the number is not corrected.
SecretCallsUncorrected(ch, s) == Calls("secret", SecretHeader \o ChatRecords(ch, s))

\* write_secret_chat_file: in the end it seeks to the number and corrects it.
SecretCalls(ch, s) ==
  Calls("secret", SecretHeader \o ChatRecords(ch, s))
    \o <<[file |-> "secret", pos |-> 3, cell |-> C("number", Cardinality(Open(ch)), 0)]>>

SecretContents(ch, s) == {<<c, s[c]>> : c \in Open(ch)}

\* write_state_file writes everything in one call.
StateCalls(q) == Calls("state", <<C("number", q, 0)>>)

\* write_auth_file, write_dc: a flag for every number, and the data center, if any.
DcCells(ds) ==
  LET upTo[k \in 0 .. MaxDc] ==
        (IF k = 0 THEN <<>> ELSE upTo[k - 1])
          \o (IF k \in ds THEN <<C("number", 1, k), C("rest", 0, k)>> ELSE <<C("number", 0, k)>>)
  IN  upTo[MaxDc]

AuthCalls(ds) ==
  Calls("auth", <<C("magic", 0, 0), C("number", MaxDc, 0), C("number", 2, 0)>>
                  \o DcCells(ds) \o <<C("id", 1, 0)>>)

\* The file after a write call: one at its end makes it longer.
Written(f, call) ==
  [k \in 1 .. (IF call.pos > Len(f) THEN call.pos ELSE Len(f)) |->
     IF k = call.pos THEN call.cell ELSE f[k]]

------------------------------------------------------------------------------
(* Reading.  The outcome is ok, short when an assertion finds the end of the *)
(* file, or mixed when bytes are taken for something that they are not.      *)

At(f, p) == IF p \in DOMAIN f THEN f[p] ELSE C("none", 0, 0)

\* Where the records of a secret file begin, taking each at its word.
RecordStart(f, count) ==
  LET start[k \in 0 .. count] ==
        IF k = 0 THEN 4 ELSE start[k - 1] + 3 + At(f, start[k - 1] + 1).val
  IN  start

\* read_secret_chat_file, read_secret_chat
ReadSecret(f) ==
  LET count == At(f, 3).val
      start == RecordStart(f, count)
      Last(k) == start[k + 1] - 1
      Whole(k) == /\ f[start[k]].kind = "id" /\ f[Last(k)].kind = "rest"
                  /\ \A p \in start[k] .. Last(k) : f[p].of = f[start[k]].of
  IN  IF f = <<>> THEN [outcome |-> "ok", contents |-> {}]
      ELSE IF Len(f) < 3 \/ start[count] - 1 > Len(f)
      THEN [outcome |-> "short", contents |-> {}]
      ELSE IF \A k \in 0 .. count - 1 : Whole(k)
      THEN [outcome |-> "ok",
            contents |-> {<<f[start[k]].of, f[Last(k)].val>> : k \in 0 .. count - 1}]
      ELSE [outcome |-> "mixed", contents |-> {}]

\* read_auth_file, read_dc.  When our id is missing the read finds the end of the
\* file, which is not an error; a variable that was never set is then used.
ReadAuth(f) ==
  LET count == At(f, 2).val + 1
      start[k \in 0 .. count] ==
        IF k = 0 THEN 4 ELSE start[k - 1] + (IF At(f, start[k - 1]).val # 0 THEN 2 ELSE 1)
      known == {k \in 0 .. count - 1 : At(f, start[k]).val # 0}
  IN  IF f = <<>> THEN [outcome |-> "ok", contents |-> {}]
      ELSE IF Len(f) < 3 \/ start[count] - 1 > Len(f)
      THEN [outcome |-> "short", contents |-> {}]
      ELSE IF /\ At(f, start[count]).kind = "id"
              /\ \A k \in known : At(f, start[k] + 1).kind = "rest" /\ At(f, start[k] + 1).of = k
      THEN [outcome |-> "ok", contents |-> known]
      ELSE [outcome |-> "mixed", contents |-> {}]

\* Where a login is after a file was read: an assertion ends the process.  One that
\* goes on with mixed contents is not followed further.
After(read, next) ==
  CASE read.outcome = "ok" -> next
    [] read.outcome = "short" -> "aborted"
    [] read.outcome = "mixed" -> "garbled"

------------------------------------------------------------------------------
(* The account *)

Idle == phase = "in" /\ todo = <<>>

\* tgprpl_login: read_auth_file, read_state_file
Login ==
  /\ phase = "down"
  /\ LET auth == ReadAuth(disk.auth)
     IN  /\ phase' = After(auth, "connecting")
         /\ dcs' = auth.contents
  /\ qts' = At(disk.state, 1).val
  /\ chat' = [c \in Chats |-> "none"] /\ seq' = [c \in Chats |-> 0]
  /\ UNCHANGED <<write_timer, todo, disk, history>>

\* update_on_logged_in: write_auth_file, with the data centers tgl has learnt of.
LoggedIn ==
  /\ phase = "connecting"
  /\ phase' = "loggingIn"
  /\ dcs' \in {ds \in SUBSET Dcs : dcs \subseteq ds /\ ds # {}}
  /\ todo' = AuthCalls(dcs')
  /\ saved' = [saved EXCEPT !.auth = dcs']
  /\ UNCHANGED <<chat, seq, qts, write_timer, disk, posted, torn, split>>

\* ... read_secret_chat_file
SecretsRead ==
  /\ phase = "loggingIn" /\ todo = <<>>
  /\ LET secret == ReadSecret(disk.secret)
         Saved(c) == {e \in secret.contents : e[1] = c}
     IN  /\ phase' = After(secret, "in")
         /\ chat' = [c \in Chats |-> IF Saved(c) # {} THEN "ok" ELSE "none"]
         /\ seq' = [c \in Chats |->
                      IF Saved(c) # {} THEN (CHOOSE e \in Saved(c) : TRUE)[2] ELSE 0]
  /\ UNCHANGED <<qts, dcs, write_timer, todo, disk, history>>

\* The next write call of the running handler.  After the state file write_files_gw
\* goes on with write_secret_chat_file.
WriteCall ==
  /\ todo # <<>>
  /\ LET call == Head(todo)
         rest == Tail(todo)
     IN  /\ disk' = [disk EXCEPT ![call.file] = Written(@, call)]
         /\ todo' = rest
         /\ torn' = IF \E k \in DOMAIN rest : rest[k].file = call.file
                    THEN torn ELSE torn \ {call.file}
         /\ saved' = IF call.file = "state"
                     THEN [saved EXCEPT !.secret = SecretContents(chat, seq)] ELSE saved
  /\ UNCHANGED <<phase, tgl, write_timer, posted, split>>

\* Mutant: the secret chats are only written when they change.
WriteStateOnly ==
  /\ Idle /\ write_timer
  /\ write_timer' = FALSE
  /\ todo' = StateCalls(qts)
  /\ UNCHANGED <<phase, tgl, disk, history>>

\* write_files_gw
WriteFiles ==
  /\ Idle /\ write_timer
  /\ write_timer' = FALSE
  /\ todo' = StateCalls(qts) \o SecretCalls(chat, seq)
  /\ UNCHANGED <<phase, tgl, disk, history>>

\* A handler that ends with write_secret_chat_file.
Saving(ch) ==
  /\ todo' = SecretCalls(ch, seq)
  /\ saved' = [saved EXCEPT !.secret = SecretContents(ch, seq)]
  /\ UNCHANGED <<phase, seq, qts, dcs, write_timer, disk, posted, torn, split>>

\* A secret chat was accepted: write_secret_chat_gw, update_secret_chat_handler.
Accept(c) ==
  /\ Idle /\ chat[c] = "none"
  /\ \A n \in DOMAIN posted : posted[n] # c
  /\ chat' = [chat EXCEPT ![c] = "ok"]
  /\ Saving(chat')

\* update_secret_chat_handler, TGL_UPDATE_DELETED
Terminate(c) ==
  /\ Idle /\ chat[c] = "ok"
  /\ chat' = [chat EXCEPT ![c] = "deleted"]
  /\ Saving(chat')

\* A message in a secret chat that we have accepted.
Post(c) ==
  /\ phase = "in" /\ chat[c] = "ok" /\ Len(posted) < MaxUpdates
  /\ posted' = Append(posted, c)
  /\ UNCHANGED <<phase, tgl, write_timer, todo, disk, saved, torn, split>>

\* The number that the n-th message has in its chat.
NumberInChat(n) == Cardinality({k \in 1 .. n : posted[k] = posted[n]})

\* Mutant: update_message_handler saves nothing.
ReceiveUnsaved ==
  /\ Idle /\ qts < Len(posted)
  /\ qts' = qts + 1
  /\ seq' = [seq EXCEPT ![posted[qts']] =
               IF chat[posted[qts']] = "ok" /\ NumberInChat(qts') = @ + 1 THEN @ + 1 ELSE @]
  /\ UNCHANGED <<phase, chat, dcs, todo, disk, write_timer, history>>

\* tgl receives the next message, in its chat if it is the next one there, and
\* update_message_handler calls write_files_schedule.
Receive ==
  /\ Idle /\ qts < Len(posted)
  /\ qts' = qts + 1
  /\ seq' = [seq EXCEPT ![posted[qts']] =
               IF chat[posted[qts']] = "ok" /\ NumberInChat(qts') = @ + 1 THEN @ + 1 ELSE @]
  /\ write_timer' = TRUE
  /\ UNCHANGED <<phase, chat, dcs, todo, disk, history>>

\* tgprpl_close, connection_data_free: the timer is removed, nothing is written.
Close ==
  /\ phase \in {"connecting", "in"} /\ todo = <<>>
  /\ phase' = "down" /\ write_timer' = FALSE
  /\ UNCHANGED <<tgl, todo, disk, history>>

\* The file that is being written, or is to be written next.
Current == IF todo = <<>> THEN {} ELSE {Head(todo).file}

\* The process ends, whatever it was doing.
Crash ==
  /\ phase # "down"
  /\ phase' = "down" /\ write_timer' = FALSE /\ todo' = <<>>
  /\ torn' = torn \cup Current
  /\ split' = (split \/ "secret" \in Current)
  /\ UNCHANGED <<tgl, disk, posted, saved>>

Init ==
  /\ phase = "down" /\ write_timer = FALSE /\ todo = <<>>
  /\ chat = [c \in Chats |-> "none"] /\ seq = [c \in Chats |-> 0]
  /\ qts = 0 /\ dcs = {}
  /\ disk = [f \in Files |-> <<>>]
  /\ posted = <<>> /\ saved = [secret |-> {}, auth |-> {}]
  /\ torn = {} /\ split = FALSE

Next ==
  \/ Login \/ LoggedIn \/ SecretsRead
  \/ WriteCall \/ WriteFiles
  \/ \E c \in Chats : Accept(c) \/ Terminate(c) \/ Post(c)
  \/ Receive
  \/ Close \/ Crash

Spec == Init /\ [][Next]_vars

\* A handler goes on, and a timeout that is due is called.
Fairness == WF_vars(WriteCall) /\ WF_vars(WriteFiles)

FairSpec == Spec /\ Fairness

------------------------------------------------------------------------------
(* Properties *)

\* A file whose latest writer finished is read as what that writer was to save,
\* whatever longer or half written contents it was written over.
ReadsWhatWasSaved ==
  todo = <<>> =>
    /\ "secret" \notin torn =>
         ReadSecret(disk.secret) = [outcome |-> "ok", contents |-> saved.secret]
    /\ "auth" \notin torn =>
         ReadAuth(disk.auth) = [outcome |-> "ok", contents |-> saved.auth]

\* No secret chat misses a message, whatever closes and crashes come in between: the
\* files never say that an update was received which its chat does not count.  This is
\* so for a delayed write, a close that drops it and a crash at any point but one: after
\* write_state_file and before write_secret_chat_file is done (telegram-base.c:101-102)
\* the state file counts messages that the chats of the other file never got, and
\* tgl does not ask for them again.  The order of the two calls does leave that hole.
NoHole ==
  phase = "in" /\ ~split =>
    \A c \in Open(chat) : Cardinality({k \in 1 .. qts : posted[k] = c}) <= seq[c]

\* What was received is saved, if the account stays up.
ReceivedIsSaved ==
  \A n \in 1 .. MaxUpdates :
    (phase = "in" /\ qts >= n) ~> (At(disk.state, 1).val >= n \/ phase # "in")

\* telegram-base.c:237-374, assert (read (...) == ...) (not what the files hold
\* after a crash): no login ends at the end of a file that the program wrote.
LoginReads == phase # "aborted"
=============================================================================

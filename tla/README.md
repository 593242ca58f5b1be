# telegram-purple: a TLA+ verification development

telegram-purple is a libpurple plugin: one process, one glib main loop, with
`tgl` (the Telegram protocol library, a git submodule that is not part of this
tree) below it and libpurple's accounts, conversations and file transfers above
it. All of its code runs in callbacks that the main loop calls one at a time
and that run to their end. The hard part is therefore not threads but *what
comes next*: answers of the server in any order, timeouts that were armed for a
state that is gone, an account that is closed while queries are under way, a
process that ends between two `write` calls. The modules below take every
callback as one action and let TLC choose the order.

- [Inventory](#inventory)
- [Modules](#modules)
- [Runs, bounds and fairness](#runs-bounds-and-fairness)
- [What the code does not do](#what-the-code-does-not-do)
- [Proofs](#proofs)
- [What is not modelled](#what-is-not-modelled)
- [Plan](#plan)

## Inventory

| Component | Code | State | Operations | Hard behaviour | What makes it correct |
|---|---|---|---|---|---|
| Incoming messages | `tgp-msg.c` 560-1176, `tgp-structs.c` 26-75 | `new_messages`, the `tgp_msg_loading` records, `pending_chat_info`, `pending_reads`, `last-server-id` | receive, five kinds of answers, print the ready head, receipts | answers in any order for several queued messages; counters raised here and lowered there; libpurple's window cannot be changed afterwards | messages printed in order, complete, and at all; receipts owed exactly |
| Channels: loading and history | `tgp-chat.c` 500-640 | `pending_channels`, `channel_members`, `last-server-id` | start or join a load, history / members / admins answers, finish | three chained requests of which each can fail, a second trigger in the middle, a bounded history page | history before the first print, no load used after its free, every waiter called back, `last-server-id` passes nothing unseen but in its jump |
| Server connections | `tgp-net.c` | `struct connection`: socket, two timers, two watchers, port, byte queues | create, connect result, alarms, read, write, fail, free | a number of an event source that is stale; wall clock against timers; partial reads and writes | nothing calls back after the free; a silent server is noticed; the byte stream keeps its bytes and their order |
| Outgoing messages | `tgp-msg.c` 226-452 | the conversion buffer, `out_messages`, `out_timer`, queries of tgl | convert, split, queue, timeout, answer | a buffer measured before the text is shortened; the timeout is restarted for every chunk and removed on close | the converted text fits, every chunk sent once, in order, unless the account closes |
| Session files | `telegram-base.c` 60-412 | three files, `write_timer` | write, delayed write, read on login | crash between two write calls, shorter contents over longer ones, order of two files | what was saved is read back; no message is counted that was lost, but for one crash point |
| Login and user requests | `tgp-request.c`, `telegram-purple.c` 530-650 | `password_retries`, `login_retries`, `request_code_data`, the reset flag | ask, answer, cancel, sign on and off | a window that is a question for one message only; retries; a session revoked while it is reset | every question of tgl has one place to be answered or the login ends; the user gets in |
| Chat joins, room list | `tgp-chat.c` 331-492 | `pending_joins`, `roomlist`, `dialogues_ready` | join, list, dialogues arrive or fail | asked for before the dialogue list is there | every join by id is served or refused |
| Buddy list and names | `tgp-blist.c`, `telegram-purple.c` 63-145, 230-256, `tgp-chat.c` 66-99, 644-662 | `id_to_purple_name`, `purple_name_to_id`, the entries of the list, tgl's print names | name, look up, load the list, make, migrate, rename and remove an entry | two peers with one name, a name of an entry whose peer tgl does not know yet, numbers of different types | a name leads to one peer, now and after the next sign on |
| File transfers | `tgp-ft.c` | `pending_xfers` data, loading flag, timer | offer, accept, progress, done, cancel, close | a cancel while tgl loads, a close while it does | data freed once, not before the callbacks that use it, and at all |
| Secret chats | `telegram-purple.c` 147-191, 324-336, `tgp-request.c` 130-155, 316-417 | chat states, the open question, the file | start, request, accept, decline, working, discard, restore | the question outlives the chat; the entry is gone when the chat ends | in the file while in use, gone when over; only a request is accepted |
| Timers | `tgp-timers.c` | one libpurple timeout per tgl timer | insert, delete, fire | delete inside the callback | fires while inserted, never after free |
| Profile photos, info | `tgp-info.c` | photo load | start, done | an answer for a user who is gone | - |
| Mapping, account data, utilities, logging | `tgp-2prpl.c`, `*.h`, `tgp-utils.c`, `msglog.c` | accessors | - | - | - |
| Adium plugin, tests, packaging | `telegram-adium/`, `test/`, `debian/`, ... | - | - | - | - |

How they interact. `tgl` calls `update_message_handler` for a message, which
calls `tgp_msg_recv` and `write_files_schedule`; `tgp_msg_recv` asks tgl for
what the message needs and, for a channel, calls `tgp_channel_load`, which
calls back into the queue. `tgp_msg_send` is called by libpurple and hands
chunks to tgl from a timeout; its answer schedules a save. tgl writes through
`tgln_write_out` and is called by `try_rpc_read`. `tgprpl_close` frees
everything (`connection_data_free`), and is what every pending timeout and
answer has to survive. `fail_connection` reports an error to libpurple, which
closes the account later, from a timeout of its own.

`PROJECT.json` lists every component, its state of coverage and the hazards at
their lines.

## Modules

```
PrintedLog            what a queue promises: append-only, ordered, all of it in the end
  ^ implemented by      Incoming   (tgp-msg.c, tgp-chat.c, tgp-structs.c)
  ^ implemented by      Outgoing   (tgp-msg.c, timers of telegram-base.c)
  ^ implemented by      NetBuffers (the byte queues of tgp-net.c, the out queue)
Connection            life of one connection (tgp-net.c)
Persistence           the files (telegram-base.c)
Login                 questions, sessions, joins and the room list (tgp-request.c, tgp-chat.c)
Transfers             the data of file transfers (tgp-ft.c)
Peers                 names, entries of the list, secret chats (tgp-blist.c, telegram-purple.c)

MCIncoming, MCPersistence, MCPeers     definitions for TLC's instances
IncomingProofs, ConnectionProofs, OutgoingProofs, LoginProofs, TransfersProofs,
PeersProofs, PersistenceProofs, NetBuffersProofs    theorems and their proofs
```

In all modules a definition that begins with `Mutant:` is a plausible mistake
in the definition that follows it. No specification uses them; they exist to
show that each property can fail, and which mistake it finds.

### PrintedLog

Two sequences, `accepted` and `printed`. A step extends both: what is printed
stays and grows at its end, it is a prefix of what is accepted, and what was
accepted keeps its items and their order. `Disconnect` empties both. The fair
specification adds that the n-th accepted item is printed or the log is emptied.

### Incoming

State. `loading` is every `struct tgp_msg_loading` of this session, so an
index stands for the pointer the code passes around; `new_messages` is the
GQueue; `requests` are the queries for media, chat info and replies whose
answers are outstanding; `pending_channels[ch]` is the `tgp_channel_loading` of
a channel with the request it has reached (`phase`) and its callbacks (`cbs`);
`channel_members[ch] = 0` is the absent table entry that makes
`tgp_channel_loaded` false. `printed`, `unread` and `covered` are history:
`covered[ch].from` is the id `last-server-id` had at login or jumped to,
`covered[ch].upto` what the server had when the history was asked for, once a
page came.

| Action | Code |
|---|---|
| `Update(m)` | `update_message_handler` -> `tgp_msg_recv`: ignore old read messages, register with the load of the channel, duplicate check, `last-server-id`, ask for what is missing, queue, print what is ready |
| `Answer(i)` | `tgp_msg_on_loaded_document`, `..._chat_full`, `..._message_for_cache` |
| `ChannelListed(ch)` | `tgp_channel_load` without a message: the channel list, a join |
| `GetHistoryDone`, `GetMembersDone`, `LoadAdminsDone` | the chained answers of a load, each success and failure, with the notification of the waiting messages |
| `SetStatus`, `WriteTo` | `tgprpl_set_status`, `pending_reads_send_user` |
| `Login`, `Close`, `Post` | `connection_data_init` / `_free`; the server |

Every action that touches the queue includes `tgp_msg_process_in_ready` and the
receipts it sends. `Place` models `g_queue_find (new_messages, before)` as it
is: the caller passes a list *link*, the function compares element *data*, so
`Data(i)` and `Link(i)` are different values and the place is never found.
`LoadAdminsDone` with an empty member list ends the process: `tgp-chat.c:541`
reads the first element before testing for the end.

Assumed of the server: updates of a channel come in the order of their ids,
with holes; a history answer is the newest `HistoryLimit` messages above
`min_id`, as posted at some moment between the question and now
(`MinIdIncluded`: `min_id` itself may be in it). Assumed of tgl: a query for
something it already has is answered before the call returns (`cached` in
`Accept`). What a message looks like on the screen is left out: of its content
only what it has to load for it remains.

### Connection

`c` is the `struct connection`, one record; the operators on records (`Add`,
`Remove`, `WriteOut`, `Fail`, `Freed`, ...) are the functions of the file with
these names. `ev[k]` says what the number in `ping_ev`, `fail_ev`, `read_ev`,
`write_ev` refers to: no source, a live one, or one that already went
(`stale`: the code keeps the number of a timeout that returned FALSE).
`orphans` collects live sources whose number was overwritten. `attempt` is
`prpl_data`: whether a `purple_proxy_connect` is pending and which of the two
callbacks it has. Time is discrete and a due timer fires before time goes on;
`idle` is the time since `last_receive_time`, `slept` says that the wall clock
jumped (suspend), which makes the silence test true at once. A `recv` of 0, the
end of the stream, changes nothing in the code and so is no action. libpurple
cancels a pending attempt before it closes an account (external). tgl may write
to a connection that has failed and was not freed yet (`TglWrite`).

### NetBuffers

The contents of the queues that `Connection` reduces to a number. A buffer is
its unread bytes and how far it is filled; a byte is its place in the stream:
frame and offset in what arrives, a running number in what tgl writes.
`Received`, `Wrote`, `ReadIn`, `Lookup`, `Sent` are the loops of `try_read`,
`tgln_write_out`, `tgln_read_in`, `tgln_read_in_lookup`, `try_write`;
`RpcRead` is `try_rpc_read`. Assumed of tgl: `execute` reads exactly the
words of the frame it was called for, and may return a negative number, which
ends the loop. If a header is looked for where none is, the state is `out of
step` and is not followed further; that this does not happen is a property.
`Fail` empties the queues and is the end of the stream.

### Outgoing

`tgp_msg_send` runs to its end, but its conversion of markup is a step machine
over a buffer and is modelled as one: `Begin` allocates, `Copy` and `Tag` are
the two branches of the loop of `tgp_msg_markdown_convert` (which three
characters are the backticks is left open, so every placement of tags occurs),
`Write` and `Refuse` are the rest of the function; nothing else happens until
one of them. `WriteToNull` is the end of the conversion of an empty text, whose
buffer has no byte: it ends the process. Of a text its length is kept, what is
blank at its two ends, and whether it is wrapped in the `SPAN` that is stripped
after the buffer was measured. A character takes a byte; a cut inside of a tag
is not distinguished.

`timers` counts the live glib sources per callback; `out_timer` and
`write_timer` say whether the code knows their numbers. `Schedule` is the
splitting loop with the zero timeout that each chunk restarts, `SendAll` the
timeout `tgp_msg_send_schedule_cb`, `Answer` the callback `tgp_msg_send_done`
with the save it schedules, `WriteFiles` that save, `Close`
`connection_data_free`. Messages that the callers refuse for their receiver
change nothing here.

### Persistence

A file is a sequence of *cells*. A character of a chat's name is one (names are
the only thing that makes records differ in size); the fields of a record that
the reader takes one after the other, and of which nothing depends, share one,
although the code writes them with a call each (`telegram-base.c:134-139`, 276-288).
`todo` is the list of write calls the running handler has left: `WriteCall`
performs one, `Crash` may come between any two (a killed process, or the
assertion on a write that failed). `state` is written in one call, and what the
secret file is to hold is fixed behind it, when `write_secret_chat_file` begins;
`split` remembers that the process ended between there and the end of that
file. Files are
overwritten in place without truncation, as the code opens them.
`ReadSecret` and `ReadAuth` read back cell by cell, taking each cell at its word:
the outcome is `ok`, `short` (an assertion finds the end of the file: the login
aborts) or `mixed` (cells of different records are taken together; the login
goes on with garbage and the model does not follow it). Updates are messages of
secret chats, which move `qts` and the sequence number of their chat.

### Login

From sign on to the moment chats can be joined, over several sign ons.
`client` is what libpurple's front end can do and two account settings;
`number` is what the server knows of the account. `saved` is the session in
the auth file, `key` the one tgl has; `step` and `asked` are tgl's place in the
chain of its questions (external). `dialog` and `request_code_data` are the two
places where a question can be answered.

| Action | Code |
|---|---|
| `SignOn`, `Disconnect`, `SignOff` | `tgprpl_login` with the reset of a revoked session; libpurple's close after an error, or for the user: `tgprpl_close`, `connection_data_free` |
| `Ask` | `request_value`: the phone number is the account's name, the password of the settings is tried once, the rest opens a dialog, or (`request_code`) the code conversation, which shows the account as connected |
| `AnswerInDialog`, `CancelDialog`, `SendIm` | the callbacks of the dialogs; the head of `tgprpl_send_im`: any message is the code |
| `LoggedIn`, `FailedLogin`, `FailedOtherwise`, `Ready` | the callbacks of tgl with these names |
| `DialogList`, `DialogListFailed` | `on_get_dialog_list_done`, with `tgp_chat_join_all_pending` and `tgp_chat_roomlist_populate` |
| `Join`, `GetRoomlist`, `CancelRoomlist` | `tgprpl_chat_join`, `tgprpl_roomlist_get_list`, `tgprpl_roomlist_cancel` |
| `Accepted`, `Refused`, `Revoke` | the server |

A join names a known id, an unknown id, or a name or link; `joins` remembers
what became of it. An error is reported at once (`error`) and the account closed
later, so callbacks may still come in between. Left out: a name without `+` and
a failing `tgl_init`, which end the sign on with an error and leave nothing
behind, and the dialogs that are not part of a login.

### Transfers

One record per transfer: libpurple's `status`, `data` (the `tgp_xfer_send_data`
behind `X->data`), its fields `loading` and `timer`, whether the timeout lives
(`source`), whether tgl still has the load (`query`), and the references this
code holds. `FreeData`, `Canceled`, `Load`, `SendFinished`, `RecvFinished` and
`Closed` are the functions of the file on such a record (`Load` the two init
functions, `Closed` the body of the loop of `tgprpl_xfer_free_all`); the actions
apply one of them to a transfer, `Close` to all. External: libpurple calls the
cancel function from `purple_xfer_cancel_local` and `_remote` (`Cancel`), does not call
this code for a declined offer, for which no function is registered
(`Decline`, whose data stays), and keeps a transfer while the front end shows it.
tgl may call back at once for a file it has (`AcceptKnownFile`). A peer that is not
found by its name any more leaves the transfer accepted and not loading
(`g_return_if_fail` of both init functions).

### Peers

What libpurple calls a peer, and what the buddy list remembers of it. `print_name`
is tgl's table of peers, `id_to_purple_name` and `purple_name_to_id` the two of
the connection, `blist` libpurple's entries: kind, the peer whose number and
type the entry carries (`NoPeer` for one that the user made), and its name. `sc`
is tgl's state of a secret chat, `asked` the open questions, `accepting` the
chats tgl was told to accept, `saved` the file (its cells are Persistence's),
`fate` the history of a chat. A name is a text and the numbers appended to it:
`title #1` of one peer can be the title of another.

| Action | Code |
|---|---|
| `SignOn`, `LoadEntry`, `Restore`, `Loaded` | `update_on_logged_in`: `tgp_blist_lookup_init` entry by entry, `read_secret_chat_file` chat by chat; nothing else comes in between |
| `OwnUserNamed`, `DeletedUserCreated`, `ListedUserCreated`, `NewUserCreated`, `UserRenamed`, `UserDeleted` | the branches of `update_user_handler` and `_update_buddy` |
| `DialogList`, `AddBuddy`, `RemoveEntry` | `on_get_dialog_list_done`, `tgprpl_add_buddy`, `tgprpl_request_delete_contact` |
| `ChatCreated`, `ChatRetitled`, `ChatDeleted` | `update_chat` with `tgp_chat_blist_store`; `leave_and_delete_chat` |
| `SecretStarted`, `SecretRequested`, `SecretWorking`, `SecretDiscarded` | `start_secret_chat`, the branches of `update_secret_chat_handler` |
| `Accept`, `AcceptFailed`, `Decline` | the two answers to the question, the callback of tgl |
| `WriteFiles`, `SignOff` | `write_files_gw`; `connection_data_free` |

`PrintNames` is `tgp_blist_create_print_name`, which tgl calls for every name it
stores: the first of `title`, `title #1`, ... that is not `Taken`. `Taken` asks
the table first and tgl only if the table does not know the name, and both
compare numbers without the type, as the code does. `Found` is the search of an
entry, by number only. If a group is added as a buddy by its print name,
`tgp_blist_buddy_set_id` ends the program (`AddBuddy`).

Assumed: tgl hands out no peer before it reports `logged_in`, and reports a secret
chat as made before anything else of it; the user gives chats no alias of his own;
libpurple closes the open questions of a connection with it. Entries of chats
without a number, made by hand, are not in the model. A secret chat that is
asked for again after the sign on before it was answered keeps its entry.

## Runs, bounds and fairness

| Run | Question | Bounds | Why they are enough |
|---|---|---|---|
| `incoming_mixed` | order, completeness, counters and receipts with every kind of message in one queue | five messages: a picture, two of a chat (one a reply), two of a megagroup (one old, one a picture); page 2; member lists of 0 and 1; one session | each kind of answer is outstanding together with each other; two messages share a chat and two a channel; an empty member list occurs |
| `incoming_channel` | history, `last-server-id`, restart, liveness | four messages of a channel with a missing id, and a private one; page 2; two sessions | the history is longer than a page, so both branches of the jump are taken; the hole can be before or in the page; the second login reads the setting of the first |
| `connection` | event sources, silence, failure | ping period 3, connect timeout 1, two bytes of output, idle time up to 8 periods | every test of the code is against at most 6 periods; two bytes make a partial write; the timeouts differ, so they can be due together or not |
| `net_buffers` | frames found, bytes kept | buffers of 3 bytes, words of 2, short header 1, long header 2; three frames of 1 or 2 words; writes of 1 and 4 bytes, six in all | a frame is as long as a buffer or twice that, and pieces and partial reads shift it against the boundaries; a write spans two buffers |
| `outgoing` | conversion, timers and chunks | chunk 4, split 4, two texts of length 0, 1 or 7 | the empty text has no buffer; seven characters hold none, one or two pairs of three and reach both tags; converted they make every size up to one that is refused, with partial and full last chunks; two texts can wait together |
| `persistence` | files and crashes | two secret chats with names of 1 and 2, one data center beyond 0, two messages | a record can be replaced by a shorter or longer one and the file can shrink; one message per chat or two in one |
| `login` | questions, retries, revoked sessions, joins, getting in | every client, setting and kind of number; two troubles (wrong answers, cancels, revocations, failures, closes of the user), two joins | each counter is compared with 1; a session can be revoked again while it is reset, an answer refused twice; a join can wait while another is made |
| `transfers` | who frees the data of a transfer, and when | three transfers | transfers do not interact but in the close, which must treat running, cancelled and offered ones in one pass |
| `peers` | names, entries, secret chats, restarts | two users (one the account), a group, a secret chat; titles `A` and `A #1`, the second also what a second `A` gets; numbers up to `#4`; one change by the user or of a name; two sign ons | a name can be taken in the table, in tgl, or in both; an entry is loaded whose peer comes under another name; a secret chat is restored next to a peer with its title; the second sign on sees what the first left |
| `channel_order`, `login_reads`, `secret_ended` | see the next section | as above | - |

Model values stand for peers; no symmetry is used, since the peers of an
instance differ in type. `CHECK_DEADLOCK FALSE` is set everywhere because every
instance ends: the bounded supply of messages is used up or the connection was freed.

Liveness and what it assumes:

- `PrintsLog` (Incoming): weak fairness of `Answered`. tgl answers every query
  of a connection that stays up, with an error if need be, and a load is a chain
  of such queries. Nothing is assumed of the user or of new updates.
- `ReadyOrTold` (for the main data center), `SilenceReported` (Connection): `purple_proxy_connect` calls
  back, a socket that is watched for writing is reported at some time, time goes
  on and glib fires due timers. Nothing is assumed of the server or of reads.
- `SendsAll` (NetBuffers): a socket that is reported writable takes at least a
  byte in the end.
- `GetsIn` (Login): the user signs on again after an error and answers what can
  be answered with this client (`CanAnswer`), libpurple closes an account with an
  error, tgl asks and reports, the server takes a right answer and sends the
  dialogue list. Troubles are bounded: they end.
- `DeliversAll` (Outgoing): strong fairness of the two timeouts: glib's main loop,
  to which every call returns, comes to a timeout that is due however often
  the user writes in between (a conversion disables it each time); weak fairness
  of the conversion, which is a loop that ends. `ReceivedIsSaved` (Persistence):
  glib calls a due timeout and a handler that writes goes on.

What the runs say beyond single assignments:

- *Incoming*: the pending counter of every queued message equals the answers
  that will still call back for it, and none is left for a record that was freed
  (`PendingExact`), no handler returns with a printable head (`HeadWaits`), a
  chat's messages wait until its members are known or were asked for in vain
  (`NamesBeforeChat`), a channel's messages wait for its history
  (`ChannelLoadedFirst`) and are registered with a load that is under way
  (`LoadAlive`). `last-server-id` passes messages that were not received in its
  jump to the oldest one of a page, and nowhere else: above where it began or
  jumped to, all that it passed and all that the server had when the history was
  asked for is queued or printed (`LastServerIdCovers`). Receipts owed and
  receipts stored are the same and none is held back without need
  (`ReceiptDebt`).
- *Connection*: bytes wait exactly while the socket is watched
  (`WriteWatched`), `tgln_free` knows every live source
  (`NoCallbackAfterFree`), an alarm cancels only an attempt that is pending
  (`RestartSafe`), a silent server is given up within seven ping periods in
  every order of reads and alarms (`SilenceBounded`), and an attempt to connect to
  the main data center ends in a connection or in an error (`ReadyOrTold`).
- *NetBuffers*: however TCP cuts the stream, tgl is given the words of every
  frame in order (`FramesFound`), and nothing complete is left in the queue
  (`NothingLeftBehind`); the tail of the in queue always has room (`TypeOK`),
  without which `recv` would return 0 for ever.
- *Outgoing*: at most one timeout, exactly while it is needed, never for a
  closed account (`TimersOwned`); the chunks of a text cover it (`WholeTexts`); the
  converted text, the byte that ends it and each tag stay in a buffer of three
  times the length, although `</code>` takes seven bytes for three and the
  assertions compare with the length after the `SPAN` was stripped (`HtmlFits`,
  of every text that has a buffer).
- *Peers*: whoever is renamed, added, removed or restored in whatever order, a
  print name is that of one peer, the tables lead from a peer to its name and
  back (`NamesLeadBack`), a name in use is not given away (`NamesKept`), the
  entries of two peers differ in name, also those of peers tgl does not know yet
  and over sign ons (`EntriesOwnNames`). A secret chat in use is in the file
  (`SecretsSaved`); an answer to a question comes too late without harm (`TypeOK`).
- *Persistence*: a file whose last writer finished reads back as what it was to
  save, over whatever it was written (`ReadsWhatWasSaved`); delayed writes, closes
  that drop them and crashes leave no hole in a chat (`NoHole`), but for a crash
  behind `state` and before the end of `secret`, where the order of the two does
  leave one.
- *Login*: a question has one place to be answered, and a message or a dialog is
  never an answer to nothing (`QuestionHeard`); once the dialogue list is there
  every chat asked for by id was served, refused or closed with its account, and
  the room list does not wait (`ServedWhenReady`), although the account is shown as connected before
  it is logged in; errors, refused answers and revoked sessions do not fail an
  account for ever (`GetsIn`), which needs the counters to start anew
  (`TypeOK`) and the reset flag to be set again when a reset was interrupted.
- *Transfers*: whatever is cancelled, declined or closed in whatever order, the
  answer of tgl and the timer find what they use (`CallbacksHaveData`), and the
  data does not outlive its use (`DataReleased`).

## What the code does not do

Three runs expect a violation: a comment, an assertion or a text shown to the
user says what the program does, and TLC shows a behaviour that does not.

- `channel_order` (`tgp-msg.c:1136`): `g_queue_find` gets a list link where it
  compares data. Messages of a history page are appended, behind an update of the
  same channel that arrived meanwhile. The comment at 1012-1016 says they are
  inserted "into the correct position of the queue".
- `login_reads` (`telegram-base.c:150`): a process that ends between two write
  calls leaves a file that stops early, and the assertions of the readers end the
  next login, and each one after it.
- `secret_ended` (`telegram-purple.c:160`): libpurple removes the entry of a secret
  chat before the question "Do you want to terminate this secret chat
  permanently?" (`tgp-request.c:378`) is answered. When tgl reports the discarded
  chat there is no entry any more, and marking the chat and writing the file are
  inside of that branch: the next sign on restores the chat.

Met while modelling, and visible in the modules, but not the subject of a run:

- The update that reveals a hole does not move `last-server-id`, so the page that
  fills the hole delivers it again, past the check that logs "dropping duplicate
  channel messages" (`tgp-msg.c:1030`). `FirstInFirstOut` is about the order of the
  other messages.
- If a page of history has no message at or below `last-server-id`, that is set
  to the id of the page's oldest message, and only what is above it is received
  (`tgp-chat.c:585-593`): that message is never printed, even if the page reaches
  back to the one before it, and neither is what lies below the page. It is
  `covered.from` in Incoming, and `LastServerIdCovers` exempts what the jump passes.
- Before the dialogue list is there only joins with an id are kept; one by name or
  link is dropped without a word (`tgp-chat.c:343`; fate `forgotten` in Login).
  The comment at 335-336 says such chats are remembered and joined later.
  `ServedWhenReady` is about joins by id.
- A refused connection to a data center that is not the main one is given up with
  a line in the debug log (`tgp-net.c:253-257`): the user is told nothing, the fail
  timer is gone and nothing tries again. `ReadyOrTold` is about the main one; of
  any attempt TLC finds it violated.
- `write_files_gw` writes the state file, which counts updates, before the secret
  file (`telegram-base.c:101-102`). If the process ends in between, or inside of
  the second, the next session does not ask again for messages that its chats
  have not got. `NoHole` without its hypothesis `~split` is violated.
- An empty text has a buffer of no bytes, which `g_new0` gives as NULL, and
  the byte that ends it is written there (`tgp-msg.c:342`, 374), although
  `tgp_msg_send` means to "fail quietly on empty messages" (407). It is
  `WriteToNull` in Outgoing, which ends the process.
- An empty list of members ends the process when the admins come
  (`tgp-chat.c:541`, `LoadAdminsDone`): the properties of loads end with it.
- `accept_secret_chat_cb` (`tgp-request.c:130`) does not look at the chat's state.
  That only a request is accepted rests on tgl, which refuses what is none.
- Names are compared by number without the type of the peer (`tgp-blist.c:232`),
  and so are entries (146, 176). Two peers with one number, a user and a group,
  may get one print name and share an entry of the table; without
  `NumbersIdentify`, TLC finds `NamesLeadBack` and `EntriesOwnNames` violated.

## Proofs

Checked by tlapm for every value of the constants under the named assumptions of
the modules (`PeersAssumption`, `MsgsAssumption`, `SettingsAssumption`,
`TimeAssumption`, `SizesAssumption`, `BoundsAssumption`, `FilesAssumption`), which TLC evaluates on the
instances.
`MsgsAssumption` says what the server guarantees of messages: only users write to
chats, and a channel numbers its messages. That no two peers have one number
(`NumbersIdentify`) is not assumed of the modules but named in the theorems that
need it, since the tables keyed by that number are this program's own choice.

**IncomingProofs**, in three parts. The first is the queue. `TypeCorrect`: the
inductive invariant `TypeInv` adds to `TypeOK` that queries for chat info are
about messages of chats (`InfoOfChats`), without which the answer would not keep
`userList` a set of chats. The type of `new_messages` says that the queue refers
to records that exist. `QueueIsFifo`: `PlaceAppends` shows that the place of a
history page is never found, so every handler appends to the log `printed \o
new_messages` or empties it (`LogStep`), and the records appended are newer than
all in it (`SortedStep`): the log lists records in the order in which they were
made, which for messages outside of channels is that of their arrival. (It does
not say that a channel's message is there once.) The lemma that carries this
proof is also the defect that `channel_order` shows.

The second part is what a message waits for. The invariant `WaitInv` joins
the counters with the loads of channels, since a counter is decremented by both.
`Counted`: pending is the number of the message's queries plus one while it is
registered with a load; `OutstandingIs` turns this into what `PendingExact` says.
It needs that a message registers with its own channel only (`OwnLoad`), and that
a load that is over has no callbacks (`LoadsIdle`, `LoadsAlive`), or finishing it
would count twice. `PrintedReady` is kept because answers only go to messages that
count them. `HeadNotReady` is what `tgp_msg_process_in_ready` leaves behind; each
handler that decrements ends with it. `ChannelWaits`, every message of a channel
that is not loaded is registered with its load, is where the window between the
last answer and the end of the load would show. Theorems: `CountsAreExact`,
`HeadIsWaiting`, `ChannelsComeFirst`, `LoadsStayAlive` (what is queued for a channel
that is not loaded is registered, and a load with callbacks has begun and is not
over, by `LoadsIdle` and `LoadsAlive`).

The third part is the window. `StepPrints`: seen from the window, a handler prints from
some queue or leaves it alone, and no record changes its message. Then
`ReceiptsAreOwed`, by the set of peers of what is unread (`Owed`);
`QueueImplementsLog`, where `ExtendStep` makes every handler an `Extend` of
`PrintedLog`; `NamesComeFirst`, which rests on the order of the queue: the first
message of a chat asks for its members (`FirstAsks`), nothing of the chat is
accepted unless they are known or asked for (`ChatsAsked`), and what is behind a
message that waits is not printed. So what is printed has its members known, or
the one query for them was answered in vain. Last `ServerIdCovers`:
`last-server-id` moves over what a handler accepts in the same step
(`AcceptCovers`), a page has no holes (`PageHasNoHoles`) and is passed on whole
above where `last-server-id` jumped to (`OldestFirstAll`, `PageCovers`), and what
was accepted stays queued or printed.

**ConnectionProofs.** One inductive invariant `Inv`: `TypeOK`; no orphans; bytes
wait iff the write source is known; the fail timer runs only with a pending
attempt and no socket; a pending attempt excludes a socket; a connection without
socket that is not freed has no reader, writer, ping timer or output
(`Unconnected`); a freed one has nothing. The parts need each other: `orphans =
{}` needs that no source is added over a live one, which is known for the ping
timer on connect only through `Unconnected`, and that only through the exclusion
of attempt and socket. `AddEffect`, `RemoveEffect`, `WriteOutEffect`,
`FailEffect`, `ReceivedEffect` say what the operators do; then one lemma per
action. From it `BuffersWatched`, `FreeIsFinal`, `RestartsPending`. On top of
it `Pinging`: while a connection is established its ping timer runs, and what is
left of it does not lead beyond seven times PING_TIMEOUT of silence
(`SilenceIsBounded`).

**OutgoingProofs.** `Inv` adds to the checked invariants that nothing is left
when the account is down (`NothingWhenDown`). `ChunksFit` is the arithmetic of
the splitting loop for every size (with `Quotient` for the rounded division),
`WholeAppend` that appending the chunks of one more text keeps the whole list
well formed. Theorems: `TypeCorrect`, `TimersAreOwned`, `OutboxIsFifo`,
`TextsStayWhole`, and `OutboxImplementsLog`: `Spec` implements the safety part of
`PrintedLog` under the mapping, every step being an `Extend`, a `Disconnect` or
a stutter.

`TextsFit` is about the conversion: `FitInv` bounds what is written by what
was read (three bytes read make at most seven written, `3j <= 7i`), which with
a buffer of three times the length leaves room for the last byte exactly if the
text is not empty. Nothing is assumed of the lengths: the property is about texts
that have a buffer, the other one is where `WriteToNull` ends the process. The
assertions before a tag follow
from the same bound although they compare with the shortened length.

**LoginProofs.** `EveryQuestionHeard` rests on the order of tgl's questions:
nothing is asked while a place is open, because an open place means that the last
question has no answer yet. `NothingWaits` needs that a join by id is waiting,
closed or has what a join gets now (`Remembered`), that none waits once the list
is there (`NoneWaits`), that a join which waits is in
`pending_joins` (`WaitingIsPending`), since only those are served, and that none
waits for an account that is down (`NothingWhenDown`), since a sign on empties the
list; the latter needs that a join is only accepted from a connected account.
`NewFates` and `JoinedChats` are the facts about the two sequences.
`TypeCorrect` needs `Bounds`: a connection starts its counters anew, the phone
number is asked for only at the first step and the password only at the last
(`StepsOrder`), and either is asked for again only after a refusal, so a counter is
at most one more than the troubles so far.

**TransfersProofs.** Transfers do not touch each other, so the inductive invariant
is a predicate on one (`Sound`): a transfer loads exactly while tgl has the query,
the reference is held and the timer may run only then, and an offered or started
one has data, which is what makes `FreeData` right in each place that calls it.
One lemma per function of the file, then `OneTransfer` and the steps.

**PeersProofs.** Two inductive invariants. `SInv` is about secret chats: which state,
question, file and history go together, for any numbers; it gives `TypeCorrect`
(with the claim that only a request is accepted) and `SecretsSafe`. `NInv` is
about names and needs `NumbersIdentify`: print names are unique; each pair in one
table has its counterpart in the other; the entries of the list, the file and
the entries still to be loaded agree on who has which name, and the tables know
all of them once the loading is over, so that `PrintNames` cannot hand out
a name that only the list knows. Names of deleted accounts, which are in tgl
but not in the table, are why `Taken` has to ask both. From it `NamesLead`,
`EntriesDiffer` and the action property `NamesStay`. TLC found `NInv` to hold on the
instance of the run.

**PersistenceProofs.** What a writer writes and what a reader makes of a file are
functions defined by recursion. The library's induction theorems take an operator
as parameter, which the provers cannot instantiate; its theorem that the finite
subsets of a set are well-founded by inclusion does not. `LeastNatural` takes from
it that a set of numbers has a least element (the sets `0 .. n`), `InductionUpTo`
is induction with a set in the place of the predicate, and `Recursion` says that
the functions the module defines by recursion exist and have their equations.

With these: where the records of a file begin (`StartsAre`, `FlagStartsAre`), of
which cells they consist (`RecordsAre`, `DcRecordsAre`), and that reading is total
and yields numbers, whatever is in the file (`ReadSecretType`, `ReadAuthType`).
`SecretReads` and `AuthReads`: a file that begins with what the writer wrote, with
whatever longer remains of the last one behind it, is read as what was to be saved.
For the secret file this takes that the number of chats, written as 2 at first, was
corrected in the end (`CorrectionCompletes`).

The inductive invariant `FilesInv` is `TypeOK`; `Writing`, that `todo` is a rest of
the calls of one writer and the file begins with what the others of them wrote; and
`Restores`, which says of each file of which no call is left what `ReadsWhatWasSaved`
says when there are none at all. Without `Writing` nothing would tie the file to
what its last call completes. It gives `TypeCorrect` and `FilesReadBack`, for every
number and state of chats, every length of name and every number of data centers.

`NoHoleEver` (`NoHole`) adds `HoleInv`: the number in the state file is behind what
was received, it is what a login starts from (`StateBehind`), and, unless the
process ended behind the state file and before the end of the secret file
(`split`), the secret file is not torn and no chat in what it holds or is to hold
counts less than the state file says (`StateFirst`). In between the two,
`StateFirst` is about what the running writer will still write, since `saved` is
set when it begins; a login that reads the file comes after its end or after
`split`.
TLC found `FilesInv` and `HoleInv` to hold on the instance of the run.

**NetBuffersProofs.** The same induction serves where buffers begin in a queue, how
many bytes frames take, and the turns of the loop of `try_rpc_read`. The first
half says what each queue operator does to what the queue holds, `Unread`, for a
queue of any buffers: `ReceivedIs` and `WroteIs` (the bytes are at the end, and after
`Received` the tail has room), `ReadInIs`, `SentIs` and `DroppedIs` (the first n are
gone), `LookupIs` (they are what was given out). They rest on where the items of
concatenated sequences lie (`Laid`, `FlattenLaid`, `FlattenJoin`) and, for the new
buffers, on division by `BufferSize` (`Quotients`): they are enough for what does
not fit into the tail, and those of `try_read` are one more where the last would
be full, which is what leaves room in it.

The second half is the stream. `StreamIs` says where each frame is in it. `Good` is
what the reader knows between two turns: what was executed are the words of the
first frames, and the queue holds exactly what follows them. `HeadFrameIs`: if there
is a byte at all, it is the first of the next frame's header; so `ExecuteIs`, a turn
keeps `Good`; and `RunIs`, the loop ends at a frame that is not complete, or behind
one that `execute` refused. The invariant `Inv` is `TypeOK`, `Reader` (that is `Good`
while the connection is open), `NothingLeftBehind`, and for the out queue `Queued`:
what was sent is the beginning of what was written, and the queue holds the rest.
`TypeOK` and `NothingLeftBehind` are not inductive without `Good`: that a complete
frame is recognised, and that a frame the server sends later does not complete
the head of the queue, depends on the queue beginning with a header (`PostKeepsInv`).
Theorems: `TypeCorrect`, `FramesFoundEver`, `NothingLeftBehindEver`, and
`QueueImplementsLog`: the out queue implements the safety part of `PrintedLog`. The
invariant held on the instance before it was proved.

Only model-checked: the liveness properties (`PrintsLog`, `ReadyOrTold`,
`SilenceReported`, `SendsAll`, `GetsIn`, `DeliversAll`, `ReceivedIsSaved`), since
liveness under fairness, and ENABLED, are out of the provers' reach. Every other
property of a passing run is stated by a theorem. Modules with theorems declare no
RECURSIVE operator; recursion is written as functions on finite domains.

## What is not modelled

- The texts shown; inline images, which are handed to tgl without the queue;
  messages refused for their receiver before they are queued.
- `tgp-timers.c`: forty lines that forward to a libpurple timeout. What is armed
  and when is tgl's. `tgp-info.c`: one load per picture, whose result only the
  user sees, and dialogs that show what tgl knows. Online status, which is
  overwritten by each update.
- The choice of what a service message prints, and the member lists and titles
  shown in a conversation: display, with no state of this program behind it.
- Legacy versions 0 and 1 of the files, and the paths of downloads.
- In Peers: the entry that a join makes or updates for a chat tgl knows already
  (`tgp_chat_blist_store` from `tgp-chat.c:108`, 124), and the branch of
  `update_secret_chat_handler` for changes of any other kind, which makes an entry
  again that the user removed.
- `execute` of tgl and all of its protocol: modelled from how this code calls it.
- Utilities, logging, the Adium plugin, the test harness, packaging and translations, which keep no state that
  a model could say something about.

## Plan

Written in this order, the core first: PrintedLog and Incoming, Connection,
Outgoing, Persistence, NetBuffers, Login, Transfers; then the conversion in
Outgoing, and Peers. What would come next: the composition of Login with
Persistence (what a reset leaves in the files) and of Peers with Persistence
(both have the secret file, one as a set of chats, one as cells).

## Checking

```
cd tla
tlc -workers 2 -config MCIncoming.cfg MCIncoming     # likewise the other runs of PROJECT.json
tlapm IncomingProofs.tla                             # likewise the other proof modules
```

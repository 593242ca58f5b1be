------------------------------ MODULE Incoming ------------------------------
(***************************************************************************)
(* How a received message reaches the conversation window.                 *)
(*                                                                         *)
(* libpurple's history cannot be changed after a message is printed, so    *)
(* tgp_msg_recv (tgp-msg.c) puts every message in the queue new_messages   *)
(* and prints only from its head, once nothing that the head waits for is  *)
(* outstanding: its picture, the quoted message, the member list of its    *)
(* chat, or the history of its channel.  A channel is loaded on first use  *)
(* (tgp-chat.c): history, then the members and the admins of a megagroup,  *)
(* then the callbacks of every message that registered in the meantime.    *)
(*                                                                         *)
(* Every handler runs to its end before the glib main loop calls another   *)
(* one, so each is one action; the interleaving is that of the answers.    *)
(* A message being loaded (struct tgp_msg_loading) is an index of loading, *)
(* the way the code passes it around as a pointer.                         *)
(***************************************************************************)
EXTENDS Integers, Sequences, FiniteSets

CONSTANTS
  Users, Chats, Channels,   \* peers, by type
  Msgs,                     \* the messages the server may deliver
  Megagroups,               \* channels whose members are fetched as well
  PeerId,                   \* tgl_get_peer_id: the integer without the type
  SendReadNotifications,    \* account option TGP_KEY_SEND_READ_NOTIFICATIONS
  MinIdIncluded,            \* whether a history answer contains min_id itself
  HistoryLimit,             \* TGP_CHANNEL_HISTORY_LIMIT
  MemberCounts,             \* sizes of the server's member lists
  MaxSessions               \* bound: logins in one behaviour

Peers == Users \cup Chats \cup Channels

\* What tgp_msg_recv has to load before it can print the message: nothing, a
\* document or picture, or nothing because it becomes a file transfer.
Media == {"none", "load", "transfer"}

ASSUME PeersAssumption ==
  /\ Users \cap Chats = {} /\ Users \cap Channels = {} /\ Chats \cap Channels = {}
  /\ Megagroups \subseteq Channels
  /\ PeerId \in [Peers -> Nat]

\* No user, chat and channel have the same number.
NumbersIdentify == \A p, q \in Peers : PeerId[p] = PeerId[q] => p = q

InChannel(m) == m.from \in Channels \/ m.to \in Channels

ChannelOf(m) == IF m.from \in Channels THEN m.from ELSE m.to

\* to is the conversation; sid is the position in its channel.  A message is old
\* when it is read and below the history threshold, which tgp_msg_recv ignores.
\* Only users write to chats, and no two messages of a channel have the same sid.
ASSUME MsgsAssumption ==
  /\ IsFiniteSet(Msgs)
  /\ Msgs \subseteq [from : Peers, to : Peers, sid : Nat \ {0}, media : Media,
                     reply : BOOLEAN, old : BOOLEAN]
  /\ \A m \in Msgs : m.to \in Chats => m.from \in Users
  /\ \A m, x \in Msgs :
       InChannel(m) /\ InChannel(x) /\ ChannelOf(m) = ChannelOf(x) /\ m.sid = x.sid => m = x

ASSUME SettingsAssumption ==
  /\ SendReadNotifications \in BOOLEAN /\ MinIdIncluded \in BOOLEAN
  /\ HistoryLimit \in Nat \ {0} /\ MemberCounts \subseteq Nat /\ MaxSessions \in Nat

VARIABLES
  proc,               \* "up", "down" (no connection_data) or "crashed"
  sessions,           \* logins so far
  present,            \* p2tgl_status_is_present of the account's status
  loading,            \* every tgp_msg_loading allocated in this session
  new_messages,       \* conn->new_messages, indices of loading
  printed,            \* indices in the order tgp_msg_display printed them
  requests,           \* queries without an answer: <<index, kind>>
  pending_chat_info,  \* chats whose info was asked for in this session
  userList,           \* chats whose members tgl knows
  pending_channels,   \* the tgp_channel_loading of each channel
  channel_members,    \* length of the stored member list, 0 for no entry
  pending_reads,      \* peers a read receipt is due for
  last_server_id,     \* account setting last-server-id/<id>, kept over logins
  posted,             \* per channel: highest sid on the server
  delivered,          \* per channel: highest sid sent to us as an update
  arrived,            \* messages outside of channels that were sent to us
  unread,             \* history: printed, and no mark_read sent since
  covered             \* history: what this session received of each channel, see
                      \* LastServerIdCovers

session == <<loading, new_messages, printed, requests, pending_chat_info, userList,
             pending_channels, channel_members, pending_reads, unread>>
server == <<posted, delivered, arrived>>
vars == <<proc, sessions, present, session, last_server_id, covered, server>>

Kinds == {"media", "info", "reply"}
Phases == {"none", "history", "members", "admins", "done"}
NoLoad == [phase |-> "none", asked |-> 0, min |-> 0, cbs |-> {}, members |-> 0]

------------------------------------------------------------------------------
(* Messages *)

ChannelMsgs(ch) == {m \in Msgs : InChannel(m) /\ ChannelOf(m) = ch}

\* The peer a read receipt for the message goes to: the sender of a private
\* message, the conversation of any other.
ReadPeer(m) == IF m.to \in Users THEN m.from ELSE m.to

\* Mutant: the chat info of every conversation is asked for, not that of chats only.
AskedForAnyPeer(m) ==
  (IF m.media = "load" THEN {"media"} ELSE {})
    \cup (IF m.to \notin pending_chat_info THEN {"info"} ELSE {})
    \cup (IF m.reply THEN {"reply"} ELSE {})

\* What has to be answered before the message can be printed.
Asked(m) ==
  (IF m.media = "load" THEN {"media"} ELSE {})
    \cup (IF m.to \in Chats /\ m.to \notin pending_chat_info /\ m.to \notin userList
          THEN {"info"} ELSE {})
    \cup (IF m.reply THEN {"reply"} ELSE {})

Loaded(ch) == channel_members[ch] # 0

\* Mutant: only the message that starts the load of its channel waits for it.
WaitOfFirst(ch) == IF pending_channels[ch].phase # "none" THEN 0 ELSE 1

\* The answers that a message of the channel waits for on account of the channel.
Wait(ch) == IF Loaded(ch) THEN 0 ELSE 1

------------------------------------------------------------------------------
(* The queue.  An element's data is the tgp_msg_loading, its link the GList  *)
(* node: two addresses that are never equal.                                 *)

Data(i) == <<"data", i>>
Link(i) == <<"link", i>>
Null == <<"null", 0>>

\* Mutant: g_queue_push_head in place of g_queue_push_tail.
PlaceAtHead(q, before, ids) == ids \o q

\* g_queue_find (new_messages, before) compares the DATA of each element with
\* before, which its caller obtained as a LINK; the new messages go before the
\* element found, and to the tail when there is none.
Place(q, before, ids) ==
  LET found == {j \in DOMAIN q : Data(q[j]) = before}
  IN  IF found = {} THEN q \o ids
      ELSE LET j == CHOOSE j \in found : \A k \in found : j <= k
           IN  SubSeq(q, 1, j - 1) \o ids \o SubSeq(q, j, Len(q))

\* g_queue_find_custom with tgp_channel_find_higher_id: the link of the first
\* queued message whose server id is not below sid, whatever its conversation.
FindHigher(sid) ==
  LET higher == {j \in DOMAIN new_messages : loading[new_messages[j]].msg.sid >= sid}
  IN  IF higher = {} THEN Null
      ELSE Link(new_messages[CHOOSE j \in higher : \A k \in higher : j <= k])

\* Mutant: one message is printed for each answer.
ReadyOne(k, q, ld) ==
  IF q = <<>> \/ ld[q[1]].pending # 0 THEN k = 0 ELSE k = 1

\* The elements tgp_msg_process_in_ready pops: up to the first one that waits.
Ready(k, q, ld) ==
  /\ \A j \in 1 .. k : ld[q[j]].pending = 0
  /\ k < Len(q) => ld[q[k + 1]].pending # 0

\* Mutant: the table keeps the newest receipts only.
ReadsReplace(reads, ps) == IF ps = {} THEN reads ELSE ps

\* pending_reads_add: the table is keyed by the peer's integer.
ReadsAdd(reads, ps) ==
  {r \in reads : \A p \in ps : PeerId[r] # PeerId[p]} \cup ps

SendsReceipts == SendReadNotifications /\ present

\* tgp_msg_process_in_ready on the queue q: print and pop the ready messages,
\* note the receipts they call for, then pending_reads_send_all.
ProcessInReady(q, ld) ==
  \E k \in 0 .. Len(q) :
    /\ Ready(k, q, ld)
    /\ new_messages' = SubSeq(q, k + 1, Len(q))
    /\ printed' = printed \o SubSeq(q, 1, k)
    /\ LET due == unread \cup {q[j] : j \in 1 .. k}
           reads == ReadsAdd(pending_reads, {ReadPeer(ld[q[j]].msg) : j \in 1 .. k})
       IN  IF SendsReceipts
           THEN /\ pending_reads' = {}
                /\ unread' = {i \in due : ReadPeer(ld[i].msg) \notin reads}
           ELSE pending_reads' = reads /\ unread' = due

------------------------------------------------------------------------------
(* tgp_msg_recv *)

\* A new tgp_msg_loading, waits answers away from being ready.
Loading(m, waits, data) == [msg |-> m, pending |-> waits, data |-> data, error |-> FALSE]

\* Mutant: the counter is not raised for the chat info.
WaitsWithoutInfo(i, open) == Cardinality({k \in {"media", "reply"} : <<i, k>> \in open})

\* The answers among open that the message i waits for.
Waits(i, open) == Cardinality({k \in Kinds : <<i, k>> \in open})

\* The sequences that list the messages ms of one channel, the oldest first.
OldestFirst(ms) ==
  {s \in [1 .. Cardinality(ms) -> ms] : \A i, j \in DOMAIN s : i < j => s[i].sid < s[j].sid}

\* Mutant: last_server_id follows every id that is received.
AdvancedToNewest(last, S) == {l \in {last} \cup S : \A x \in S : x <= l}

\* last_server_id after the ids in S were received one by one, the oldest first:
\* it only ever steps to the id that follows it.
Advanced(last, S) ==
  {l \in {last} \cup S : (last + 1) .. l \subseteq S /\ l + 1 \notin S /\ l >= last}

\* The part of tgp_msg_recv behind the duplicate check, for the messages ms: ask
\* for what they need, queue them, print what is ready.  wait is 1 while they
\* also wait for their channel.  tgl answers a query for something it already
\* has (cached) before the call returns.
Accept(ms, wait, before, ld) ==
  LET n == Len(ld)
      asks == UNION {{<<n + i, k>> : k \in Asked(ms[i])} : i \in DOMAIN ms}
  IN  \E cached \in SUBSET {a \in asks : a[2] # "info"} :
        LET open == asks \ cached
            new == [i \in 1 .. Len(ms) |->
                     Loading(ms[i], wait + Waits(n + i, open), <<n + i, "media">> \in cached)]
        IN  /\ loading' = ld \o new
            /\ requests' = requests \cup open
            /\ pending_chat_info' = pending_chat_info
                 \cup {ms[i].to : i \in {i \in DOMAIN ms : <<n + i, "info">> \in asks}}
            /\ ProcessInReady(Place(new_messages, before, [i \in 1 .. Len(ms) |-> n + i]), loading')

\* Mutant: a load that is under way takes no more callbacks.
RegisterFirst(D, ch, i) ==
  IF D.phase = "none"
  THEN [phase |-> "history", asked |-> posted[ch], min |-> last_server_id[ch],
        cbs |-> {i}, members |-> 0]
  ELSE D

\* tgp_channel_load with a callback for the tgp_msg_loading i.
Register(D, ch, i) ==
  IF D.phase = "none"
  THEN [phase |-> "history", asked |-> posted[ch], min |-> last_server_id[ch],
        cbs |-> {i}, members |-> 0]
  ELSE [D EXCEPT !.cbs = @ \cup {i}]

\* A message that belongs to no channel.
RecvDirect(m) ==
  /\ ~InChannel(m)
  /\ Accept(<<m>>, 0, Null, loading)
  /\ UNCHANGED <<pending_channels, last_server_id>>

\* A message of a channel: it waits for the channel unless that is loaded.  The
\* duplicate check comes after it registered, and leaves it registered.
RecvInChannel(m) ==
  LET ch == ChannelOf(m)
      wait == Wait(ch)
  IN  /\ InChannel(m)
      /\ pending_channels' = IF Loaded(ch) THEN pending_channels
           ELSE [pending_channels EXCEPT ![ch] = Register(@, ch, Len(loading) + 1)]
      /\ \/ /\ last_server_id[ch] >= m.sid
            /\ loading' = Append(loading, Loading(m, wait, FALSE))
            /\ UNCHANGED <<new_messages, printed, requests, pending_chat_info,
                           pending_reads, unread, last_server_id>>
         \/ /\ last_server_id[ch] < m.sid
            /\ \E l \in Advanced(last_server_id[ch], {m.sid}) :
                 last_server_id' = [last_server_id EXCEPT ![ch] = l]
            /\ Accept(<<m>>, wait, Null, loading)

\* update_message_handler, for a message that tgp_msg_recv does not ignore.
RecvUpdate(m) ==
  /\ RecvDirect(m) \/ RecvInChannel(m)
  /\ UNCHANGED <<userList, channel_members, covered>>

IgnoreUpdate == UNCHANGED <<session, last_server_id, covered>>

\* Updates of a channel arrive in order, with holes where the client was offline.
Update(m) ==
  /\ proc = "up"
  /\ IF InChannel(m)
     THEN LET ch == ChannelOf(m)
          IN  /\ delivered[ch] < m.sid /\ m.sid <= posted[ch]
              /\ delivered' = [delivered EXCEPT ![ch] = m.sid]
              /\ UNCHANGED arrived
     ELSE /\ m \notin arrived
          /\ arrived' = arrived \cup {m}
          /\ UNCHANGED delivered
  /\ IF m.old THEN IgnoreUpdate ELSE RecvUpdate(m)
  /\ UNCHANGED <<proc, sessions, present, posted>>

------------------------------------------------------------------------------
(* Answers that a tgp_msg_loading waits for *)

\* tgp_msg_on_loaded_document
DocumentLoaded(i, success) ==
  /\ <<i, "media">> \in requests
  /\ requests' = requests \ {<<i, "media">>}
  /\ loading' = [loading EXCEPT ![i].pending = @ - 1, ![i].data = success,
                                ![i].error = ~success]
  /\ ProcessInReady(new_messages, loading')
  /\ UNCHANGED userList

\* tgp_msg_on_loaded_chat_full: a failure leaves the names of the chat unknown,
\* and pending_chat_info keeps the chat.
ChatInfoLoaded(i, success) ==
  /\ <<i, "info">> \in requests
  /\ requests' = requests \ {<<i, "info">>}
  /\ loading' = [loading EXCEPT ![i].pending = @ - 1]
  /\ userList' = IF success THEN userList \cup {loading[i].msg.to} ELSE userList
  /\ ProcessInReady(new_messages, loading')

\* tgp_msg_on_loaded_message_for_cache
ReplyLoaded(i) ==
  /\ <<i, "reply">> \in requests
  /\ requests' = requests \ {<<i, "reply">>}
  /\ loading' = [loading EXCEPT ![i].pending = @ - 1]
  /\ ProcessInReady(new_messages, loading')
  /\ UNCHANGED userList

Answer(i) ==
  /\ proc = "up"
  /\ \/ \E success \in BOOLEAN : DocumentLoaded(i, success) \/ ChatInfoLoaded(i, success)
     \/ ReplyLoaded(i)
  /\ UNCHANGED <<proc, sessions, present, pending_chat_info, pending_channels,
                 channel_members, last_server_id, covered, server>>

------------------------------------------------------------------------------
(* Loading a channel *)

\* tgp_msg_on_loaded_channel_history, for every registered message.
Notified(ld, cbs) ==
  [i \in DOMAIN ld |-> IF i \in cbs THEN [ld[i] EXCEPT !.pending = @ - 1] ELSE ld[i]]

\* Mutant: the list of a channel without members stays empty.
FinishedWithoutSelf(ch, D) ==
  /\ channel_members' = [channel_members EXCEPT ![ch] = D.members]
  /\ pending_channels' = [pending_channels EXCEPT ![ch] = [NoLoad EXCEPT !.phase = "done"]]

\* The tables after tgp_channel_load_finish: a list without members gets our own
\* entry, so that the channel counts as loaded, and the load is freed.
Finished(ch, D) ==
  /\ channel_members' = [channel_members EXCEPT ![ch] = IF D.members = 0 THEN 1 ELSE D.members]
  /\ pending_channels' = [pending_channels EXCEPT ![ch] = [NoLoad EXCEPT !.phase = "done"]]

LoadFinish(ch, D) ==
  /\ Finished(ch, D)
  /\ loading' = Notified(loading, D.cbs)
  /\ ProcessInReady(new_messages, loading')
  /\ UNCHANGED <<requests, pending_chat_info>>

\* tgp_channel_load without a message: on_get_channel_list_done, or a join.
ChannelListed(ch) ==
  /\ proc = "up"
  /\ pending_channels[ch].phase = "none"
  /\ pending_channels' = [pending_channels EXCEPT ![ch] =
       [phase |-> "history", asked |-> posted[ch], min |-> last_server_id[ch],
        cbs |-> {}, members |-> 0]]
  /\ UNCHANGED <<proc, sessions, present, loading, new_messages, printed, requests,
                 pending_chat_info, userList, channel_members, pending_reads, unread,
                 last_server_id, covered, server>>

\* The server's possible answers: the newest messages above min, at most
\* HistoryLimit, of those posted when it looked, between the question and now.
Pages(ch, D) ==
  LET page(upto) ==
        LET range == {m \in ChannelMsgs(ch) : /\ m.sid <= upto
                                              /\ m.sid > D.min \/ (MinIdIncluded /\ m.sid = D.min)}
        IN  {m \in range : Cardinality({x \in range : x.sid > m.sid}) < HistoryLimit}
  IN  {page(upto) : upto \in D.asked .. posted[ch]}

\* The server id of the oldest message of the page.
Oldest(page) == {m.sid : m \in {m \in page : \A x \in page : m.sid <= x.sid}}

\* last_server_id before the page is passed on: the history may be longer than a
\* page, so it jumps to the oldest message of a page that is all above it.  Only
\* messages above the result reach tgp_msg_recv: the oldest message itself does not,
\* and neither does what the server has below the page.
Jumps(last, page) ==
  IF page = {} \/ \E m \in page : m.sid <= last THEN {last} ELSE Oldest(page)

\* tgp_channel_get_history_done, success.
HistoryReceived(ch, D, page, jumped) ==
  \E ms \in OldestFirst({m \in page : m.sid > jumped /\ ~m.old}) :
    /\ \E l \in Advanced(jumped, {ms[i].sid : i \in DOMAIN ms}) :
         last_server_id' = [last_server_id EXCEPT ![ch] = l]
    /\ covered' = [covered EXCEPT
         ![ch] = [from |-> IF jumped = last_server_id[ch] THEN @.from ELSE jumped,
                  upto |-> IF page = {} THEN @.upto ELSE D.asked]]
    /\ IF ch \in Megagroups
       THEN /\ pending_channels' = [pending_channels EXCEPT ![ch].phase = "members",
                 ![ch].cbs = @ \cup {Len(loading) + i : i \in DOMAIN ms}]
            /\ Accept(ms, 1, FindHigher(jumped), loading)
            /\ UNCHANGED channel_members
       ELSE /\ Finished(ch, D)
            /\ Accept(ms, 0, FindHigher(jumped), Notified(loading, D.cbs))

\* Mutant: the callbacks of a load that failed are dropped.
HistoryFailedSilently(ch, D) ==
  /\ Finished(ch, D)
  /\ UNCHANGED <<loading, new_messages, printed, requests, pending_chat_info,
                 pending_reads, unread, last_server_id, covered>>

\* tgp_channel_get_history_done, failure: the gap stays.
HistoryFailed(ch, D) ==
  /\ IF ch \in Megagroups
     THEN /\ pending_channels' = [pending_channels EXCEPT ![ch].phase = "members"]
          /\ UNCHANGED <<loading, new_messages, printed, requests, pending_chat_info,
                         channel_members, pending_reads, unread>>
     ELSE LoadFinish(ch, D)
  /\ UNCHANGED <<last_server_id, covered>>

GetHistoryDone(ch) ==
  LET D == pending_channels[ch]
  IN  /\ proc = "up"
      /\ D.phase = "history"
      /\ \/ \E page \in Pages(ch, D) : \E jumped \in Jumps(last_server_id[ch], page) :
              HistoryReceived(ch, D, page, jumped)
         \/ HistoryFailed(ch, D)
      /\ UNCHANGED <<proc, sessions, present, userList, server>>

\* tgp_channel_get_members_done
GetMembersDone(ch) ==
  LET D == pending_channels[ch]
  IN  /\ proc = "up"
      /\ D.phase = "members"
      /\ \/ LoadFinish(ch, D)
         \/ \E n \in MemberCounts :
              /\ pending_channels' = [pending_channels EXCEPT ![ch].phase = "admins",
                                                              ![ch].members = n]
              /\ UNCHANGED <<loading, new_messages, printed, requests, pending_chat_info,
                             channel_members, pending_reads, unread>>
      /\ UNCHANGED <<proc, sessions, present, userList, last_server_id, covered, server>>

\* tgp_channel_load_admins_done: on success the loop reads the first member
\* before it tests for the end of the list, which ends the process if it is empty.
LoadAdminsDone(ch) ==
  LET D == pending_channels[ch]
  IN  /\ proc = "up"
      /\ D.phase = "admins"
      /\ \/ LoadFinish(ch, D) /\ UNCHANGED proc
         \/ /\ D.members = 0
            /\ proc' = "crashed"
            /\ UNCHANGED <<loading, new_messages, printed, requests, pending_chat_info,
                           pending_channels, channel_members, pending_reads, unread>>
      /\ UNCHANGED <<sessions, present, userList, last_server_id, covered, server>>

------------------------------------------------------------------------------
(* The user, the server and the connection *)

\* tgprpl_set_status: libpurple has changed the status, receipts are sent if it
\* is now a present one.
SetStatus ==
  /\ proc = "up"
  /\ present' = ~present
  /\ IF SendReadNotifications /\ present'
     THEN /\ pending_reads' = {}
          /\ unread' = {i \in unread : ReadPeer(loading[i].msg) \notin pending_reads}
     ELSE UNCHANGED <<pending_reads, unread>>
  /\ UNCHANGED <<proc, sessions, loading, new_messages, printed, requests,
                 pending_chat_info, userList, pending_channels, channel_members,
                 last_server_id, covered, server>>

\* pending_reads_send_user: writing or typing to a peer tells it that we have
\* read what it wrote, whatever the settings.
WriteTo(p) ==
  LET same == {r \in pending_reads : PeerId[r] = PeerId[p]}
  IN  /\ proc = "up"
      /\ same # {}
      /\ pending_reads' = pending_reads \ same
      /\ unread' = {i \in unread : ReadPeer(loading[i].msg) # p}
      /\ UNCHANGED <<proc, sessions, present, loading, new_messages, printed, requests,
                     pending_chat_info, userList, pending_channels, channel_members,
                     last_server_id, covered, server>>

Post(ch) ==
  /\ \E m \in ChannelMsgs(ch) :
       /\ m.sid > posted[ch]
       /\ \A x \in ChannelMsgs(ch) : x.sid > posted[ch] => m.sid <= x.sid
       /\ posted' = [posted EXCEPT ![ch] = m.sid]
  /\ UNCHANGED <<proc, sessions, present, session, last_server_id, covered, delivered, arrived>>

FreshSession ==
  /\ loading = <<>> /\ new_messages = <<>> /\ printed = <<>>
  /\ requests = {} /\ pending_chat_info = {} /\ userList = {}
  /\ pending_channels = [ch \in Channels |-> NoLoad]
  /\ channel_members = [ch \in Channels |-> 0]
  /\ pending_reads = {} /\ unread = {}

\* tgprpl_login: connection_data_init.
Login ==
  /\ proc = "down"
  /\ sessions < MaxSessions
  /\ proc' = "up"
  /\ sessions' = sessions + 1
  /\ covered' = [ch \in Channels |-> [from |-> last_server_id[ch], upto |-> last_server_id[ch]]]
  /\ UNCHANGED <<present, session, last_server_id, server>>

\* tgprpl_close: connection_data_free.  Only the account's settings survive.
Close ==
  /\ proc = "up"
  /\ proc' = "down"
  /\ loading' = <<>> /\ new_messages' = <<>> /\ printed' = <<>>
  /\ requests' = {} /\ pending_chat_info' = {} /\ userList' = {}
  /\ pending_channels' = [ch \in Channels |-> NoLoad]
  /\ channel_members' = [ch \in Channels |-> 0]
  /\ pending_reads' = {} /\ unread' = {}
  /\ UNCHANGED <<sessions, present, last_server_id, covered, server>>

Init ==
  /\ proc = "down" /\ sessions = 0 /\ present \in BOOLEAN
  /\ FreshSession
  /\ last_server_id = [ch \in Channels |-> 0]
  /\ covered = [ch \in Channels |-> [from |-> 0, upto |-> 0]]
  /\ posted = [ch \in Channels |-> 0]
  /\ delivered = [ch \in Channels |-> 0]
  /\ arrived = {}

Next ==
  \/ \E m \in Msgs : Update(m)
  \/ \E i \in DOMAIN loading : Answer(i)
  \/ \E ch \in Channels : \/ ChannelListed(ch) \/ GetHistoryDone(ch)
                          \/ GetMembersDone(ch) \/ LoadAdminsDone(ch) \/ Post(ch)
  \/ SetStatus
  \/ \E p \in Peers : WriteTo(p)
  \/ Login
  \/ Close

Spec == Init /\ [][Next]_vars

\* tgl answers every query of a connection that stays up, with an error if need be.
Answered ==
  \/ \E i \in DOMAIN loading : Answer(i)
  \/ \E ch \in Channels : GetHistoryDone(ch) \/ GetMembersDone(ch) \/ LoadAdminsDone(ch)

Fairness == WF_vars(Answered)

FairSpec == Spec /\ Fairness

------------------------------------------------------------------------------
(* Properties *)

Queued == {new_messages[j] : j \in DOMAIN new_messages}
Printed == {printed[j] : j \in DOMAIN printed}

\* The number of answers that the tgp_msg_loading i still waits for: to its own
\* queries, and the loads of channels it registered with.
Outstanding(i) ==
  Cardinality({k \in Kinds : <<i, k>> \in requests})
    + Cardinality({ch \in Channels : i \in pending_channels[ch].cbs})

MsgLoading == [msg : Msgs, pending : Int, data : BOOLEAN, error : BOOLEAN]

ChannelLoading(ids) ==
  [phase : Phases, asked : Nat, min : Nat, cbs : SUBSET ids, members : Nat]

\* Every variable has its type.
TypeOK ==
  /\ proc \in {"up", "down", "crashed"}
  /\ sessions \in 0 .. MaxSessions
  /\ present \in BOOLEAN
  /\ loading \in Seq(MsgLoading)
  /\ new_messages \in Seq(DOMAIN loading)
  /\ printed \in Seq(DOMAIN loading)
  /\ requests \subseteq (DOMAIN loading) \X Kinds
  /\ pending_chat_info \subseteq Chats
  /\ userList \subseteq Chats
  /\ pending_channels \in [Channels -> ChannelLoading(DOMAIN loading)]
  /\ channel_members \in [Channels -> Nat]
  /\ pending_reads \subseteq Peers
  /\ last_server_id \in [Channels -> Nat]
  /\ covered \in [Channels -> [from : Nat, upto : Nat]]
  /\ posted \in [Channels -> Nat]
  /\ delivered \in [Channels -> Nat]
  /\ arrived \subseteq Msgs
  /\ unread \subseteq DOMAIN loading

\* tgp-msg.c:987: the queue is first in, first out.  However the answers come,
\* messages outside of channels are printed in the order in which they arrived.
FirstInFirstOut ==
  LET log == printed \o new_messages
  IN  \A j, k \in DOMAIN log :
        (j < k /\ ~InChannel(loading[log[j]].msg) /\ ~InChannel(loading[log[k]].msg))
          => log[j] < log[k]

\* The counter C->pending of a message that waits in the queue is the number of
\* answers that will still call back for it: one too few prints it unfinished,
\* one too many blocks every conversation behind it.  None is left for a record
\* that was printed, and so freed.
PendingExact ==
  /\ \A i \in Queued : loading[i].pending = Outstanding(i)
  /\ \A i \in Printed : Outstanding(i) = 0

\* No handler returns with a printable message left at the head of the queue: no
\* later event would print it.
HeadWaits == new_messages # <<>> => loading[Head(new_messages)].pending > 0

\* tgp-msg.c:1104: a message to a chat is printed when tgl knows the chat's members,
\* or after they were asked for in vain: whichever message asked, no later one is
\* printed before the answer.
NamesBeforeChat ==
  \A i \in Printed :
    LET to == loading[i].msg.to
    IN  to \in Chats => /\ to \in userList \cup pending_chat_info
                        /\ \A r \in requests : r[2] = "info" => loading[r[1]].msg.to # to

\* tgp-msg.c:1012: a message of a channel is not printed before the channel's
\* history was fetched, however many messages registered while it was loading.
ChannelLoadedFirst ==
  \A i \in Printed : InChannel(loading[i].msg) => Loaded(ChannelOf(loading[i].msg))

\* A message can register with a load that exists: the entry of pending_channels
\* that tgp_channel_load uses is not the one tgp_channel_load_finish freed.  And
\* what is queued for a channel that is not loaded will be called back by a load
\* that waits for an answer.
LoadAlive ==
  proc = "up" =>
    /\ \A ch \in Channels : (pending_channels[ch].phase = "done") <=> Loaded(ch)
    /\ \A i \in Queued :
         LET ch == ChannelOf(loading[i].msg)
         IN  InChannel(loading[i].msg) /\ ~Loaded(ch)
               => /\ pending_channels[ch].phase \in {"history", "members", "admins"}
                  /\ i \in pending_channels[ch].cbs

\* A restart asks for the history above last-server-id: what that passes without
\* being received is lost for good.  This happens in the jump to the oldest message
\* of a page (tgp-chat.c:585) and nowhere else.  Above covered.from, the id at login
\* or the one that was jumped to, every message that last-server-id has passed was
\* received, and so was every message the server had when the history was asked for
\* (covered.upto).  The jump itself loses the messages at and below covered.from.
LastServerIdCovers ==
  proc = "up" => \A ch \in Channels : \A m \in ChannelMsgs(ch) :
    (/\ covered[ch].from < m.sid /\ ~m.old
     /\ m.sid <= last_server_id[ch] \/ m.sid <= covered[ch].upto)
      => \E i \in Queued \cup Printed : loading[i].msg = m

\* A printed message that the server was not told about is owed a receipt, and
\* the table holds the peer it is owed to: none is forgotten while the user is
\* away, none is sent twice, none held back while receipts may be sent.
ReceiptDebt ==
  /\ {ReadPeer(loading[i].msg) : i \in unread} = pending_reads
  /\ proc = "up" /\ SendsReceipts => pending_reads = {}

\* The queue implements the message window of PrintedLog: nothing accepted is
\* lost, reordered or taken back, and every accepted message is printed once the
\* answers are in.
Log == INSTANCE PrintedLog WITH
  MaxLength <- Cardinality(Msgs),
  accepted <- IF proc = "up" THEN printed \o new_messages ELSE <<>>,
  printed <- IF proc = "up" THEN printed ELSE <<>>

PrintsLog == Log!Spec

\* tgp-msg.c:1012-1016 (not what the code does): "the messages have been inserted
\* into the correct position of the queue".  Two messages of a channel are
\* printed in the order of the channel.
ChannelOrder ==
  \A j, k \in DOMAIN printed :
    LET a == loading[printed[j]].msg
        b == loading[printed[k]].msg
    IN  (j < k /\ InChannel(a) /\ InChannel(b) /\ ChannelOf(a) = ChannelOf(b)) => a.sid <= b.sid
=============================================================================

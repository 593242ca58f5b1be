-------------------------------- MODULE Peers --------------------------------
(***************************************************************************)
(* What a peer is called, and which entry of the buddy list is its own     *)
(* (tgp-blist.c, and the handlers of telegram-purple.c and tgp-chat.c that *)
(* tgl calls for users, chats, channels and secret chats).                 *)
(*                                                                         *)
(* libpurple knows a peer by a name, tgl by a type and a number.  A peer   *)
(* gets a print name nobody else has when tgl first hears of it; two       *)
(* tables of the connection lead from the number to the name in use and    *)
(* from a name to the peer.  The entries of the buddy list, which remember *)
(* number and type, fill the tables at the next sign on, so that a name    *)
(* once shown stays that of the same peer.  Secret chats are saved with    *)
(* their name in a file that is read right after that.                     *)
(*                                                                         *)
(* tgl hands out no peer before it reports logged_in.  The user does not   *)
(* give a chat an alias of his own.                                        *)
(***************************************************************************)
EXTENDS Integers, Sequences, FiniteSets

CONSTANTS
  Users, Groups, Channels, SecretChats,   \* the peers of an account
  Self,          \* its own user
  Partner,       \* the user at the other end of a secret chat
  Numbers, Num,  \* the number of a peer, which does not tell its type
  Words,         \* what a name is made of
  Titles,        \* what a peer calls itself, at one time or another
  NoPeer,        \* an entry of the list that was not made by this code
  MaxNumber,     \* bound: the number appended to a name that is taken
  MaxChanges,    \* bound: renamings and changes of the list by the user
  MaxSessions    \* bound: sign ons

Peers == Users \cup Groups \cup Channels \cup SecretChats
Chats == Groups \cup Channels

\* The text, and the numbers " #1", " #2" that were appended to it.
Names == [text : Words \cup Numbers, nos : Seq(Nat)]

ASSUME PeersAssumption ==
  /\ Self \in Users /\ NoPeer \notin Peers
  /\ Users \cap Chats = {} /\ Users \cap SecretChats = {} /\ Chats \cap SecretChats = {}
  /\ Groups \cap Channels = {}
  /\ Partner \in [SecretChats -> Users]
  /\ Num \in [Peers -> Numbers]
  /\ Titles \in [Peers -> SUBSET Names]
  /\ MaxNumber \in Nat /\ MaxChanges \in Nat /\ MaxSessions \in Nat

\* No user, chat and secret chat have the same number.
NumbersIdentify == \A p, q \in Peers : Num[p] = Num[q] => p = q

VARIABLES
  session,             \* off, loading (inside update_on_logged_in) or on
  todo,                \* the entries tgp_blist_lookup_init has not come to
  print_name,          \* the peers tgl knows, and their print names
  gone,                \* the users of them with a deleted account
  id_to_purple_name, purple_name_to_id,   \* the tables of connection_data
  blist,               \* libpurple: the entries of the buddy list
  sc,                  \* tgl: the state of a secret chat
  asked,               \* the secret chats the user is being asked about
  accepting,           \* those tgl was told to accept and has not answered for
  saved,               \* the secret file: usable chats and their names
  fate,                \* history: what became of a secret chat
  changes, sessions    \* how much of the bounds is used up

tables == <<id_to_purple_name, purple_name_to_id>>
secrets == <<sc, asked, accepting, saved, fate>>
bounds == <<changes, sessions>>
vars == <<session, todo, print_name, gone, tables, blist, secrets, bounds>>

Entry == [kind : {"buddy", "chat"}, peer : Peers \cup {NoPeer}, name : Names]

EmptyTable == [x \in {} |-> x]

\* The table or tree f with v in it under the key k.
Put(f, k, v) == [x \in DOMAIN f \cup {k} |-> IF x = k THEN v ELSE f[x]]

------------------------------------------------------------------------------
(* Names and entries *)

\* tgp_blist_lookup_add
LookupAdd(p, name) ==
  /\ id_to_purple_name' = Put(id_to_purple_name, Num[p], name)
  /\ purple_name_to_id' = Put(purple_name_to_id, name, p)

\* Mutant: only the names tgl has are looked at.
TakenInTree(p, name) ==
  \E q \in DOMAIN print_name : print_name[q] = name /\ Num[q] # Num[p]

\* Mutant: only the names in the table are looked at.
TakenInTable(p, name) ==
  name \in DOMAIN purple_name_to_id /\ Num[purple_name_to_id[name]] # Num[p]

\* The name is that of somebody else: the table is asked first, then tgl.
Taken(p, name) ==
  IF name \in DOMAIN purple_name_to_id
  THEN Num[purple_name_to_id[name]] # Num[p]
  ELSE \E q \in DOMAIN print_name : print_name[q] = name /\ Num[q] # Num[p]

Numbered(title, i) ==
  IF i = 0 THEN title ELSE [title EXCEPT !.nos = Append(@, i)]

\* tgp_blist_create_print_name: the first of title, title #1, title #2 ... not taken.
PrintNames(p, title) ==
  {Numbered(title, i) : i \in {j \in 0 .. MaxNumber :
     /\ ~Taken(p, Numbered(title, j))
     /\ \A k \in 0 .. j - 1 : Taken(p, Numbered(title, k))}}

\* tgl has a new print name for the peer.
Named(p, name) == print_name' = Put(print_name, p, name)

\* tgp_blist_buddy_find and tgp_blist_chat_find: the type is not compared.
Found(kind, p) ==
  {b \in blist : b.kind = kind /\ b.peer # NoPeer /\ Num[b.peer] = Num[p]}

\* tgp_blist_buddy_new
NewBuddy(p) == [kind |-> "buddy", peer |-> p, name |-> id_to_purple_name'[Num[p]]]

\* The entry found, if there is one, is gone.
Removed(kind, p) == {blist \ {b} : b \in Found(kind, p)} \cup {x \in {blist} : Found(kind, p) = {}}

\* An entry is made unless one is found.
WithBuddy(p) == IF Found("buddy", p) = {} THEN blist \cup {NewBuddy(p)} ELSE blist

\* tgp_blist_contact_add for each of some peers.  One without a name gets no entry.
WithContacts(some) ==
  blist \cup {NewBuddy(p) : p \in {q \in some :
                /\ Found("buddy", q) = {} /\ Num[q] \in DOMAIN id_to_purple_name}}

\* The number of a user, which was the name of its entry before version 1.2.2.
LegacyName(u) == [text |-> Num[u], nos |-> <<>>]

Change == changes < MaxChanges /\ changes' = changes + 1 /\ UNCHANGED sessions
On == session = "on"
Known(p) == p \in DOMAIN print_name

------------------------------------------------------------------------------
(* Sign on and off *)

\* update_on_logged_in, which goes through the list and the secret file at once.
SignOn ==
  /\ session = "off" /\ session' = "loading"
  /\ sessions < MaxSessions /\ sessions' = sessions + 1
  /\ todo' = {b \in blist : b.peer # NoPeer}
  /\ UNCHANGED <<print_name, gone, tables, blist, secrets, changes>>

\* tgp_blist_lookup_init_cb
LoadEntry(b) ==
  /\ b \in todo /\ todo' = todo \ {b}
  /\ LookupAdd(b.peer, b.name)
  /\ UNCHANGED <<session, print_name, gone, blist, secrets, bounds>>

\* read_secret_chat, with the call of update_secret_chat_handler from tgl in it.
Restore(e) ==
  /\ session = "loading" /\ todo = {} /\ e \in DOMAIN saved /\ ~Known(e)
  /\ Named(e, saved[e])
  /\ LookupAdd(e, saved[e])
  /\ blist' = WithBuddy(e)
  /\ sc' = [sc EXCEPT ![e] = "ok"]
  /\ UNCHANGED <<session, todo, gone, asked, accepting, saved, fate, bounds>>

Loaded ==
  /\ session = "loading" /\ todo = {} /\ \A e \in DOMAIN saved : Known(e)
  /\ session' = "on"
  /\ UNCHANGED <<todo, print_name, gone, tables, blist, secrets, bounds>>

\* connection_data_free, tgl_free_all; libpurple closes the open questions.
Disconnected ==
  /\ session' = "off" /\ todo' = {}
  /\ print_name' = EmptyTable /\ gone' = {}
  /\ id_to_purple_name' = EmptyTable /\ purple_name_to_id' = EmptyTable
  /\ sc' = [e \in SecretChats |-> "none"] /\ asked' = {} /\ accepting' = {}

SignOff ==
  /\ On
  /\ Disconnected
  /\ UNCHANGED <<blist, saved, fate, bounds>>

------------------------------------------------------------------------------
(* Users *)

\* update_user_handler for the own user, new or renamed: it gets no entry.
OwnUserNamed(title) ==
  /\ On /\ IF Known(Self) THEN Change ELSE UNCHANGED bounds
  /\ \E n \in PrintNames(Self, title) : Named(Self, n) /\ LookupAdd(Self, n)
  /\ UNCHANGED <<session, todo, gone, blist, secrets>>

\* update_user_handler for a user tgl has not known, whose account is deleted.
DeletedUserCreated(u, title) ==
  /\ On /\ u # Self /\ ~Known(u)
  /\ \E n \in PrintNames(u, title) : Named(u, n)
  /\ gone' = gone \cup {u}
  /\ blist' \in Removed("buddy", u)
  /\ UNCHANGED <<session, todo, tables, secrets, bounds>>

\* The same for one with an entry in the list, whose name stays the one to use.
ListedUserCreated(u, title) ==
  /\ On /\ u # Self /\ ~Known(u) /\ Found("buddy", u) # {}
  /\ \E n \in PrintNames(u, title) : Named(u, n)
  /\ UNCHANGED <<session, todo, gone, tables, blist, secrets, bounds>>

\* The same for one without: an entry in the old format is migrated, otherwise only a
\* contact gets one.
NewUserCreated(u, title) ==
  /\ On /\ u # Self /\ ~Known(u) /\ Found("buddy", u) = {}
  /\ \E n \in PrintNames(u, title) : Named(u, n) /\ LookupAdd(u, n)
  /\ LET old == {b \in blist : b.kind = "buddy" /\ b.name = LegacyName(u)}
     IN  IF old # {}
         THEN \E b \in old : blist' = (blist \ {b}) \cup {NewBuddy(u)}
         ELSE blist' = blist \/ blist' = WithBuddy(u)
  /\ UNCHANGED <<session, todo, gone, secrets, bounds>>

\* update_user_handler, _update_buddy: a new name is only an alias of the entry.
UserRenamed(u, title) ==
  /\ On /\ u # Self /\ Known(u) /\ Change
  /\ \E n \in PrintNames(u, title) : Named(u, n)
  /\ UNCHANGED <<session, todo, gone, tables, blist, secrets>>

\* _update_buddy: the account of a user was deleted.
UserDeleted(u) ==
  /\ On /\ u # Self /\ Known(u) /\ u \notin gone
  /\ gone' = gone \cup {u}
  /\ blist' \in Removed("buddy", u)
  /\ UNCHANGED <<session, todo, print_name, tables, secrets, bounds>>

\* on_get_dialog_list_done: the users of the list who are not deleted get an entry.
DialogList(listed) ==
  /\ On /\ listed \subseteq {u \in Users : Known(u) /\ Num[u] # Num[Self]} \ gone
  /\ UNCHANGED tables
  /\ blist' = WithContacts(listed)
  /\ UNCHANGED <<session, todo, print_name, gone, secrets, bounds>>

------------------------------------------------------------------------------
(* What the user does to the list *)

\* libpurple has made an entry for the name, and tgprpl_add_buddy makes that of the
\* peer tgl knows by it; for a group tgp_blist_buddy_set_id ends the program.
AddBuddy(name) ==
  /\ On /\ Change
  /\ LET new == [kind |-> "buddy", peer |-> NoPeer, name |-> name]
         some == {q \in DOMAIN print_name : print_name[q] = name}
         fatal == some \cap Groups
     IN  IF \E q \in fatal : Found("buddy", q) = {}
         THEN Disconnected /\ blist' = blist
         ELSE /\ UNCHANGED <<session, todo, print_name, gone, tables, sc, asked, accepting>>
              /\ blist' = WithContacts(some) \cup {new}
  /\ UNCHANGED <<saved, fate>>

\* libpurple removes the entry at once; what tgprpl_remove_buddy then asks the user
\* leads to an update from tgl, for which see SecretDiscarded.
RemoveEntry(b) ==
  /\ On /\ Change /\ b \in blist
  /\ blist' = blist \ {b}
  /\ UNCHANGED <<session, todo, print_name, gone, tables, secrets>>

------------------------------------------------------------------------------
(* Groups and channels *)

\* tgp_chat_blist_store: the entry of a chat after it was left, or with the setting
\* TGP_KEY_JOIN_GROUP_CHATS.
Stored(c, left, join) ==
  IF left THEN Removed("chat", c)
  ELSE IF Found("chat", c) = {}
  THEN {IF join THEN blist \cup {[kind |-> "chat", peer |-> c, name |-> print_name'[c]]}
        ELSE blist}
  ELSE {(blist \ {b}) \cup {[b EXCEPT !.peer = c]} : b \in Found("chat", c)}

\* update_chat, the chat is new to tgl.
ChatCreated(c, title) ==
  /\ On /\ ~Known(c)
  /\ \E n \in PrintNames(c, title) : Named(c, n) /\ LookupAdd(c, n)
  /\ \E left, join \in BOOLEAN : blist' \in Stored(c, left, join)
  /\ UNCHANGED <<session, todo, gone, secrets, bounds>>

\* Mutant: the alias is the title, which another peer may have, too.
ChatAliasIsTitle(c, title) ==
  /\ On /\ Known(c) /\ Change
  /\ \E n \in PrintNames(c, title) :
       /\ Named(c, n)
       /\ \/ Found("chat", c) = {} /\ UNCHANGED blist
          \/ \E b \in Found("chat", c) : blist' = (blist \ {b}) \cup {[b EXCEPT !.name = title]}
  /\ UNCHANGED <<session, todo, gone, tables, secrets>>

\* update_chat, TGL_UPDATE_TITLE: the alias of the entry, and so its name, changes.
ChatRetitled(c, title) ==
  /\ On /\ Known(c) /\ Change
  /\ \E n \in PrintNames(c, title) :
       /\ Named(c, n)
       /\ \/ Found("chat", c) = {} /\ UNCHANGED blist
          \/ \E b \in Found("chat", c) : blist' = (blist \ {b}) \cup {[b EXCEPT !.name = n]}
  /\ UNCHANGED <<session, todo, gone, tables, secrets>>

\* update_chat, TGL_UPDATE_DELETED, and leave_and_delete_chat.
ChatDeleted(c) ==
  /\ On /\ Known(c) /\ Found("chat", c) # {}
  /\ blist' \in Removed("chat", c)
  /\ UNCHANGED <<session, todo, print_name, gone, tables, secrets, bounds>>

------------------------------------------------------------------------------
(* Secret chats *)

\* write_secret_chat_file, when the states are s.
Written(s) == [e \in {x \in SecretChats : s[x] = "ok"} |-> print_name[e]]

\* update_secret_chat_handler for a chat tgl has just made.
SecretCreated(e, title, state) ==
  /\ On /\ ~Known(e)
  /\ \E n \in PrintNames(e, title) : Named(e, n) /\ LookupAdd(e, n)
  /\ blist' = WithBuddy(e)
  /\ sc' = [sc EXCEPT ![e] = state]
  /\ UNCHANGED <<session, todo, gone, bounds>>

\* start_secret_chat, and create_secret_chat_done.
SecretStarted(e, title) ==
  /\ fate[e] = "new" /\ Known(Partner[e])
  /\ SecretCreated(e, title, "waiting")
  /\ saved' = Written(sc')
  /\ fate' = [fate EXCEPT ![e] = "open"]
  /\ UNCHANGED <<asked, accepting>>

\* The handler for a chat somebody else asks for: the setting
\* TGP_KEY_ACCEPT_SECRET_CHATS says whether to accept it, to ask, or neither.
SecretRequested(e, title) ==
  /\ fate[e] \in {"new", "open"}
  /\ SecretCreated(e, title, "requested")
  /\ fate' = [fate EXCEPT ![e] = "open"]
  /\ \/ accepting' = accepting \cup {e} /\ UNCHANGED asked
     \/ /\ asked' = IF Known(Partner[e]) THEN asked \cup {e} ELSE asked
        /\ UNCHANGED accepting
     \/ UNCHANGED <<asked, accepting>>
  /\ UNCHANGED saved

\* Mutant: a chat that was ended while the question was open is accepted.
AcceptEnded(e) ==
  /\ e \in asked /\ asked' = asked \ {e}
  /\ accepting' = accepting \cup {e}
  /\ UNCHANGED <<session, todo, print_name, gone, tables, blist, sc, saved, fate, bounds>>

\* accept_secret_chat_cb: tgl refuses at once what is not a request any more.
Accept(e) ==
  /\ e \in asked /\ asked' = asked \ {e}
  /\ accepting' = IF sc[e] = "requested" THEN accepting \cup {e} ELSE accepting
  /\ UNCHANGED <<session, todo, print_name, gone, tables, blist, sc, saved, fate, bounds>>

\* write_secret_chat_gw, the chat was not accepted.
AcceptFailed(e) ==
  /\ e \in accepting /\ accepting' = accepting \ {e}
  /\ UNCHANGED <<session, todo, print_name, gone, tables, blist, sc, asked, saved, fate, bounds>>

\* Mutant: the file is left to the next time something is saved.
SecretWorkingUnsaved(e) ==
  /\ fate[e] = "open"
  /\ sc[e] = "waiting" \/ (sc[e] = "requested" /\ e \in accepting)
  /\ sc' = [sc EXCEPT ![e] = "ok"] /\ accepting' = accepting \ {e}
  /\ UNCHANGED saved
  /\ fate' = [fate EXCEPT ![e] = "made"]
  /\ UNCHANGED tables
  /\ blist' = WithBuddy(e)
  /\ UNCHANGED <<session, todo, print_name, gone, asked, bounds>>

\* update_secret_chat_handler, TGL_UPDATE_WORKING: both ends have the key.
SecretWorking(e) ==
  /\ fate[e] = "open"
  /\ sc[e] = "waiting" \/ (sc[e] = "requested" /\ e \in accepting)
  /\ sc' = [sc EXCEPT ![e] = "ok"] /\ accepting' = accepting \ {e}
  /\ saved' = Written(sc')
  /\ fate' = [fate EXCEPT ![e] = "made"]
  /\ UNCHANGED tables
  /\ blist' = WithBuddy(e)
  /\ UNCHANGED <<session, todo, print_name, gone, asked, bounds>>

\* update_secret_chat_handler, TGL_UPDATE_DELETED.  A chat without an entry is only
\* marked if tgl itself does so.
Discarded(e) ==
  IF Found("buddy", e) # {}
  THEN /\ sc' = [sc EXCEPT ![e] = "deleted"]
       /\ saved' = Written(sc')
       /\ blist' \in Removed("buddy", e)
       /\ fate' = [fate EXCEPT ![e] = "over"]
  ELSE /\ sc' = [sc EXCEPT ![e] = "deleted"] \/ UNCHANGED sc
       /\ fate' = [fate EXCEPT ![e] = "unlisted"]
       /\ UNCHANGED <<saved, blist>>

\* One of the two ends has discarded the chat.
SecretDiscarded(e) ==
  /\ On /\ Known(e) /\ fate[e] \in {"open", "made"}
  /\ Discarded(e)
  /\ accepting' = accepting \ {e}
  /\ UNCHANGED <<session, todo, print_name, gone, tables, asked, bounds>>

\* decline_secret_chat_cb: tgl forgets the chat, if it has not, and the entry is
\* removed if it is still there.
Decline(e) ==
  /\ e \in asked /\ asked' = asked \ {e}
  /\ IF fate[e] \in {"over", "unlisted"}
     THEN blist' \in Removed("buddy", e) /\ UNCHANGED <<sc, saved, fate>>
     ELSE Discarded(e)
  /\ UNCHANGED <<session, todo, print_name, gone, tables, accepting, bounds>>

\* write_files_gw, after a message.
WriteFiles ==
  /\ On /\ saved' = Written(sc)
  /\ UNCHANGED <<session, todo, print_name, gone, tables, blist, sc, asked, accepting, fate, bounds>>

------------------------------------------------------------------------------

\* Nothing is known, and the list may be that of a version before 1.2.2.
Init ==
  /\ session = "off" /\ todo = {} /\ print_name = EmptyTable /\ gone = {}
  /\ id_to_purple_name = EmptyTable /\ purple_name_to_id = EmptyTable
  /\ blist \in SUBSET {[kind |-> "buddy", peer |-> NoPeer, name |-> LegacyName(u)] : u \in Users \ {Self}}
  /\ sc = [e \in SecretChats |-> "none"] /\ asked = {} /\ accepting = {}
  /\ saved = EmptyTable /\ fate = [e \in SecretChats |-> "new"]
  /\ changes = 0 /\ sessions = 0

OfUser(u) ==
  \/ \E title \in Titles[u] :
       DeletedUserCreated(u, title) \/ ListedUserCreated(u, title)
         \/ NewUserCreated(u, title) \/ UserRenamed(u, title)
  \/ UserDeleted(u)

OfChat(c) ==
  \/ \E title \in Titles[c] : ChatCreated(c, title) \/ ChatRetitled(c, title)
  \/ ChatDeleted(c)

OfSecretChat(e) ==
  \/ \E title \in Titles[e] : SecretStarted(e, title) \/ SecretRequested(e, title)
  \/ Restore(e) \/ Accept(e) \/ AcceptFailed(e) \/ Decline(e)
  \/ SecretWorking(e) \/ SecretDiscarded(e)

Next ==
  \/ SignOn \/ (\E b \in todo : LoadEntry(b)) \/ Loaded \/ SignOff
  \/ \E title \in Titles[Self] : OwnUserNamed(title)
  \/ \E name \in UNION {Titles[p] : p \in Peers} : AddBuddy(name)
  \/ \E u \in Users : OfUser(u)
  \/ \E listed \in SUBSET Users : DialogList(listed)
  \/ \E b \in blist : RemoveEntry(b)
  \/ \E c \in Chats : OfChat(c)
  \/ \E e \in SecretChats : OfSecretChat(e)
  \/ WriteFiles

Spec == Init /\ [][Next]_vars

------------------------------------------------------------------------------
(* Properties *)

\* Every variable has its type; what tgl is told to accept is a request still.
TypeOK ==
  /\ session \in {"off", "loading", "on"}
  /\ todo \subseteq {b \in Entry : b.peer # NoPeer}
  /\ print_name \in [DOMAIN print_name -> Names] /\ DOMAIN print_name \subseteq Peers
  /\ gone \subseteq Users
  /\ id_to_purple_name \in [DOMAIN id_to_purple_name -> Names]
  /\ DOMAIN id_to_purple_name \subseteq Numbers
  /\ purple_name_to_id \in [DOMAIN purple_name_to_id -> Peers]
  /\ DOMAIN purple_name_to_id \subseteq Names
  /\ blist \subseteq Entry
  /\ sc \in [SecretChats -> {"none", "waiting", "requested", "ok", "deleted"}]
  /\ asked \subseteq SecretChats
  /\ accepting \subseteq {e \in SecretChats : sc[e] = "requested"}
  /\ saved \in [DOMAIN saved -> Names] /\ DOMAIN saved \subseteq SecretChats
  /\ fate \in [SecretChats -> {"new", "open", "made", "over", "unlisted"}]
  /\ changes \in Nat /\ sessions \in Nat

\* tgl, which would fail, never has two peers with the same print name, and what is
\* sent to the name under which a peer was shown goes to that peer and to nobody who
\* called himself the same before or after.  Only a deleted account has no name.
NamesLeadBack ==
  /\ \A p, q \in DOMAIN print_name : print_name[p] = print_name[q] => p = q
  /\ On => \A p \in DOMAIN print_name \ gone :
       /\ Num[p] \in DOMAIN id_to_purple_name
       /\ id_to_purple_name[Num[p]] \in DOMAIN purple_name_to_id
       /\ purple_name_to_id[id_to_purple_name[Num[p]]] = p

\* A name that was in use is not given to somebody else as long as the connection lasts.
NamesKept ==
  [][session' = "on" /\ On =>
       \A n \in DOMAIN purple_name_to_id :
         n \in DOMAIN purple_name_to_id' /\ purple_name_to_id'[n] = purple_name_to_id[n]]_vars

\* The entries of two peers never have the same name, in no session: not that of a
\* user who was renamed, of a chat with a new title or of a secret chat restored from
\* the file.  While the account is online the name of a buddy leads to its peer, and a
\* listed user is shown under the name of his entry.
EntriesOwnNames ==
  /\ \A b, c \in blist : b.peer # NoPeer /\ c.peer # NoPeer /\ b.name = c.name => b.peer = c.peer
  /\ On => \A b \in blist : b.kind = "buddy" /\ b.peer # NoPeer =>
       /\ b.name \in DOMAIN purple_name_to_id /\ purple_name_to_id[b.name] = b.peer
       /\ b.peer \in Users \ {Self} => id_to_purple_name[Num[b.peer]] = b.name

\* The keys of a secret chat both ends use are in the file at any time, so that the
\* chat survives a crash; of the chats that are over only one that had no entry in the
\* list can still be in it.
SecretsSaved ==
  /\ {e \in SecretChats : fate[e] = "made"} \subseteq DOMAIN saved
  /\ \A e \in DOMAIN saved : fate[e] \in {"made", "unlisted"}
  /\ On => \A e \in DOMAIN saved : Known(e) /\ saved[e] = print_name[e]

\* A secret chat that was terminated permanently is not restored.
EndedForgotten == \A e \in DOMAIN saved : fate[e] \notin {"over", "unlisted"}
=============================================================================

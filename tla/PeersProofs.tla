----------------------------- MODULE PeersProofs -----------------------------
(***************************************************************************)
(* Proofs about Peers, for any peers, names and numbers of sessions.       *)
(*                                                                         *)
(* The secret chats come first: SInv relates the states tgl has, the names *)
(* and the file, and needs nothing of the numbers.  That names lead back   *)
(* to their peers holds if the numbers identify them (NumbersIdentify);    *)
(* NInv is its inductive invariant.                                        *)
(***************************************************************************)
EXTENDS Peers, TLAPS

------------------------------------------------------------------------------
(* Tables and names *)

\* A name with a number is a name.
LEMMA NumberedName ==
  ASSUME NEW title \in Names, NEW i \in Nat
  PROVE  Numbered(title, i) \in Names
<1>1. title.nos \in Seq(Nat) /\ title.text \in Words \cup Numbers
  BY DEF Names
<1>2. Append(title.nos, i) \in Seq(Nat)
  BY <1>1
<1>3. [title EXCEPT !.nos = Append(@, i)] \in Names
  BY <1>2 DEF Names
<1> QED
  BY <1>3 DEF Numbered

\* A new print name is nobody else's.
LEMMA PrintNameFree ==
  ASSUME NEW p, NEW title \in Names, NEW n \in PrintNames(p, title)
  PROVE  n \in Names /\ ~Taken(p, n)
<1>1. PICK i \in 0 .. MaxNumber : n = Numbered(title, i) /\ ~Taken(p, Numbered(title, i))
  BY DEF PrintNames
<1>2. i \in Nat
  BY <1>1, PeersAssumption
<1> QED
  BY <1>1, <1>2, NumberedName

\* The titles of the peers are names.
LEMMA TitleNames ==
  ASSUME NEW p \in Peers, NEW title \in Titles[p]
  PROVE  title \in Names
  BY PeersAssumption

\* An entry of the list is removed or not.
LEMMA RemovedSmaller ==
  ASSUME NEW kind, NEW p, NEW x \in Removed(kind, p)
  PROVE  x \subseteq blist
  BY DEF Removed

------------------------------------------------------------------------------
(* Secret chats *)

SecretNames ==
  /\ \A e \in SecretChats : sc[e] \in {"waiting", "requested", "ok"} => Known(e)
  /\ \A e \in SecretChats : Known(e) => Num[e] \in DOMAIN id_to_purple_name
  /\ asked \cup accepting \subseteq DOMAIN print_name /\ asked \cap accepting = {}
  /\ session = "off" => DOMAIN print_name = {}
  /\ ~On => asked = {}

SecretFates ==
  /\ \A e \in SecretChats : sc[e] = "ok" => fate[e] \in {"made", "unlisted"}
  /\ \A e \in SecretChats : fate[e] = "made" => e \in DOMAIN saved
  /\ \A e \in DOMAIN saved : fate[e] \in {"made", "unlisted"}
  /\ On => \A e \in SecretChats : fate[e] = "made" => sc[e] = "ok"
  /\ On => \A e \in DOMAIN saved : Known(e) /\ saved[e] = print_name[e]
  /\ session = "loading" =>
       \A e \in DOMAIN print_name : e \in DOMAIN saved /\ saved[e] = print_name[e] /\ sc[e] = "ok"

SInv == TypeOK /\ SecretNames /\ SecretFates

\* The invariant holds at the start.
LEMMA SInvInit == Init => SInv
<1> SUFFICES ASSUME Init PROVE SInv
  OBVIOUS
<1>1. blist \subseteq Entry
  <2> SUFFICES ASSUME NEW u \in Users
               PROVE  [kind |-> "buddy", peer |-> NoPeer, name |-> LegacyName(u)] \in Entry
    BY DEF Init
  <2>1. Num[u] \in Numbers
    BY PeersAssumption DEF Peers
  <2>2. LegacyName(u) \in Names
    BY <2>1 DEF LegacyName, Names
  <2> QED
    BY <2>2 DEF Entry
<1>2. TypeOK
  BY <1>1 DEF Init, TypeOK, EmptyTable
<1> QED
  BY <1>2 DEF Init, SInv, SecretNames, SecretFates, EmptyTable, Known, On

\* Steps that are not about secret chats keep their part of the invariant.
LEMMA SecretsFrame ==
  ASSUME SInv, UNCHANGED <<session, secrets>>, TypeOK',
         DOMAIN id_to_purple_name \subseteq DOMAIN id_to_purple_name',
         On, DOMAIN print_name \subseteq DOMAIN print_name',
         \A e \in SecretChats : Known(e)' <=> Known(e),
         \A e \in SecretChats : Known(e) => print_name'[e] = print_name[e]
  PROVE  SInv'
<1>1. SecretNames'
  BY DEF SInv, SecretNames, secrets, On, Known
<1>2. SecretFates'
  BY DEF SInv, TypeOK, SecretFates, secrets, On, Known
<1> QED
  BY <1>1, <1>2 DEF SInv

\* A lookup entry keeps the types of the tables, which only grow.
LEMMA LookupTypes ==
  ASSUME TypeOK, NEW p \in Peers, NEW n \in Names, LookupAdd(p, n)
  PROVE  /\ id_to_purple_name' \in [DOMAIN id_to_purple_name' -> Names]
         /\ DOMAIN id_to_purple_name' = DOMAIN id_to_purple_name \cup {Num[p]}
         /\ id_to_purple_name'[Num[p]] = n
         /\ \A k \in DOMAIN id_to_purple_name : k # Num[p] =>
              id_to_purple_name'[k] = id_to_purple_name[k]
         /\ purple_name_to_id' \in [DOMAIN purple_name_to_id' -> Peers]
         /\ DOMAIN purple_name_to_id' = DOMAIN purple_name_to_id \cup {n}
         /\ purple_name_to_id'[n] = p
         /\ \A m \in DOMAIN purple_name_to_id : m # n =>
              purple_name_to_id'[m] = purple_name_to_id[m]
         /\ DOMAIN id_to_purple_name' \subseteq Numbers
         /\ DOMAIN purple_name_to_id' \subseteq Names
<1>1. Num[p] \in Numbers
  BY PeersAssumption
<1>2. /\ id_to_purple_name' = Put(id_to_purple_name, Num[p], n)
      /\ purple_name_to_id' = Put(purple_name_to_id, n, p)
  BY DEF LookupAdd
<1>3. /\ id_to_purple_name \in [DOMAIN id_to_purple_name -> Names]
      /\ purple_name_to_id \in [DOMAIN purple_name_to_id -> Peers]
      /\ DOMAIN id_to_purple_name \subseteq Numbers /\ DOMAIN purple_name_to_id \subseteq Names
  BY DEF TypeOK
<1>4. /\ id_to_purple_name' \in [DOMAIN id_to_purple_name \cup {Num[p]} -> Names]
      /\ DOMAIN id_to_purple_name' = DOMAIN id_to_purple_name \cup {Num[p]}
      /\ id_to_purple_name'[Num[p]] = n
      /\ \A k \in DOMAIN id_to_purple_name : k # Num[p] =>
           id_to_purple_name'[k] = id_to_purple_name[k]
  BY <1>2, <1>3 DEF Put
<1>5. /\ purple_name_to_id' \in [DOMAIN purple_name_to_id \cup {n} -> Peers]
      /\ DOMAIN purple_name_to_id' = DOMAIN purple_name_to_id \cup {n}
      /\ purple_name_to_id'[n] = p
      /\ \A m \in DOMAIN purple_name_to_id : m # n =>
           purple_name_to_id'[m] = purple_name_to_id[m]
  BY <1>2, <1>3 DEF Put
<1> QED
  BY <1>1, <1>3, <1>4, <1>5

\* A print name keeps the type of the tree.
LEMMA NamedTypes ==
  ASSUME TypeOK, NEW p \in Peers, NEW n \in Names, Named(p, n)
  PROVE  /\ print_name' \in [DOMAIN print_name' -> Names]
         /\ DOMAIN print_name' = DOMAIN print_name \cup {p}
         /\ DOMAIN print_name' \subseteq Peers
         /\ print_name'[p] = n
         /\ \A q \in DOMAIN print_name : q # p => print_name'[q] = print_name[q]
<1>1. print_name \in [DOMAIN print_name -> Names] /\ DOMAIN print_name \subseteq Peers
  BY DEF TypeOK
<1>2. print_name' = Put(print_name, p, n)
  BY DEF Named
<1>3. /\ print_name' \in [DOMAIN print_name \cup {p} -> Names]
      /\ DOMAIN print_name' = DOMAIN print_name \cup {p}
      /\ print_name'[p] = n
      /\ \A q \in DOMAIN print_name : q # p => print_name'[q] = print_name[q]
  BY <1>1, <1>2 DEF Put
<1> QED
  BY <1>1, <1>3

\* A new entry is one when the peer has a name.
LEMMA WithBuddyType ==
  ASSUME blist \subseteq Entry, NEW p \in Peers, id_to_purple_name'[Num[p]] \in Names
  PROVE  WithBuddy(p) \subseteq Entry
<1>1. NewBuddy(p) \in Entry
  BY DEF NewBuddy, Entry
<1> QED
  BY <1>1 DEF WithBuddy

\* So are those of contacts.
LEMMA WithContactsType ==
  ASSUME TypeOK, NEW some, some \subseteq Peers, UNCHANGED id_to_purple_name
  PROVE  WithContacts(some) \subseteq Entry
<1> SUFFICES ASSUME NEW p \in some, Num[p] \in DOMAIN id_to_purple_name
             PROVE  NewBuddy(p) \in Entry
  BY DEF WithContacts, TypeOK
<1>1. id_to_purple_name'[Num[p]] \in Names
  BY DEF TypeOK
<1> QED
  BY <1>1 DEF NewBuddy, Entry

\* What the file is given.
LEMMA WrittenFile ==
  ASSUME TypeOK, NEW s, \A e \in SecretChats : s[e] = "ok" => Known(e)
  PROVE  /\ Written(s) \in [DOMAIN Written(s) -> Names]
         /\ DOMAIN Written(s) = {e \in SecretChats : s[e] = "ok"}
         /\ \A e \in DOMAIN Written(s) : Written(s)[e] = print_name[e]
<1>1. \A e \in SecretChats : s[e] = "ok" => print_name[e] \in Names
  BY DEF TypeOK, Known
<1> QED
  BY <1>1 DEF Written

------------------------------------------------------------------------------
(* The steps of users, chats and the list *)

Secretless ==
  \/ \E title \in Titles[Self] : OwnUserNamed(title)
  \/ \E u \in Users : OfUser(u)
  \/ \E listed \in SUBSET Users : DialogList(listed)
  \/ \E b \in blist : RemoveEntry(b)
  \/ \E c \in Chats : OfChat(c)

\* What such a step leaves alone.
LEMMA SecretlessFrame ==
  ASSUME SInv, UNCHANGED <<session, secrets>>, TypeOK', On,
         NEW p \in Peers \ SecretChats, NEW n \in Names,
         Named(p, n) \/ UNCHANGED print_name,
         LookupAdd(p, n) \/ UNCHANGED tables
  PROVE  SInv'
<1>0. TypeOK
  BY DEF SInv
<1>1. DOMAIN id_to_purple_name \subseteq DOMAIN id_to_purple_name'
  <2>1. CASE UNCHANGED tables
    BY <2>1 DEF tables
  <2>2. CASE LookupAdd(p, n)
    BY <2>2, <1>0, LookupTypes
  <2> QED
    BY <2>1, <2>2
<1>2. /\ DOMAIN print_name \subseteq DOMAIN print_name'
      /\ \A e \in SecretChats : e \in DOMAIN print_name' <=> e \in DOMAIN print_name
      /\ \A e \in SecretChats : e \in DOMAIN print_name => print_name'[e] = print_name[e]
  <2>1. CASE UNCHANGED print_name
    BY <2>1
  <2>2. CASE Named(p, n)
    BY <2>2, <1>0, NamedTypes
  <2> QED
    BY <2>1, <2>2
<1> QED
  BY <1>1, <1>2, SecretsFrame DEF Known

\* Stored entries are entries.
LEMMA StoredType ==
  ASSUME blist \subseteq Entry, NEW c \in Chats, print_name'[c] \in Names,
         NEW left \in BOOLEAN, NEW join \in BOOLEAN, NEW x \in Stored(c, left, join)
  PROVE  x \subseteq Entry
<1>1. [kind |-> "chat", peer |-> c, name |-> print_name'[c]] \in Entry
  BY DEF Entry, Peers, Chats
<1>2. \A b \in Found("chat", c) : [b EXCEPT !.peer = c] \in Entry
  BY DEF Found, Entry, Peers, Chats
<1>3. CASE left
  BY <1>3, RemovedSmaller DEF Stored
<1>4. CASE ~left /\ Found("chat", c) = {}
  BY <1>1, <1>4 DEF Stored
<1>5. CASE ~left /\ Found("chat", c) # {}
  BY <1>2, <1>5 DEF Stored
<1> QED
  BY <1>3, <1>4, <1>5

\* A step of a user, of a chat or of the user's with the list.
LEMMA SecretlessStep == SInv /\ Secretless => SInv'
<1> SUFFICES ASSUME SInv, Secretless PROVE SInv'
  OBVIOUS
<1>0. TypeOK /\ blist \subseteq Entry
  BY DEF SInv, TypeOK
<1>a. Users \subseteq Peers \ SecretChats /\ Chats \subseteq Peers \ SecretChats /\ Self \in Users
  BY PeersAssumption DEF Peers, Chats
<1>b. Change \/ UNCHANGED bounds => changes' \in Nat /\ sessions' \in Nat
  BY <1>0 DEF TypeOK, Change, bounds
<1>1. ASSUME NEW title \in Titles[Self], OwnUserNamed(title)
      PROVE  SInv'
  <2>1. PICK n \in PrintNames(Self, title) : Named(Self, n) /\ LookupAdd(Self, n)
    BY <1>1 DEF OwnUserNamed
  <2>2. n \in Names
    BY <1>1, <1>a, <2>1, TitleNames, PrintNameFree
  <2>3. TypeOK'
    BY <1>0, <1>1, <1>a, <1>b, <2>1, <2>2, NamedTypes, LookupTypes
       DEF TypeOK, OwnUserNamed, secrets
  <2> QED
    BY <1>1, <1>a, <2>1, <2>2, <2>3, SecretlessFrame DEF OwnUserNamed
<1>2. ASSUME NEW u \in Users, NEW title \in Titles[u], DeletedUserCreated(u, title)
      PROVE  SInv'
  <2>1. PICK n \in PrintNames(u, title) : Named(u, n)
    BY <1>2 DEF DeletedUserCreated
  <2>2. n \in Names
    BY <1>2, <1>a, <2>1, TitleNames, PrintNameFree
  <2>3. blist' \subseteq Entry
    BY <1>0, <1>2, RemovedSmaller DEF DeletedUserCreated
  <2>4. TypeOK'
    BY <1>0, <1>2, <1>a, <2>1, <2>2, <2>3, NamedTypes
       DEF TypeOK, DeletedUserCreated, secrets, tables, bounds
  <2> QED
    BY <1>2, <1>a, <2>1, <2>2, <2>4, SecretlessFrame DEF DeletedUserCreated
<1>3. ASSUME NEW u \in Users, NEW title \in Titles[u],
             ListedUserCreated(u, title) \/ UserRenamed(u, title)
      PROVE  SInv'
  <2>1. PICK n \in PrintNames(u, title) : Named(u, n)
    BY <1>3 DEF ListedUserCreated, UserRenamed
  <2>2. n \in Names
    BY <1>3, <1>a, <2>1, TitleNames, PrintNameFree
  <2>3. UNCHANGED <<session, todo, gone, tables, blist, secrets>> /\ On
        /\ (Change \/ UNCHANGED bounds)
    BY <1>3 DEF ListedUserCreated, UserRenamed
  <2>4. TypeOK'
    BY <1>0, <1>a, <1>b, <2>1, <2>2, <2>3, NamedTypes DEF TypeOK, secrets, tables
  <2> QED
    BY <1>a, <2>1, <2>2, <2>3, <2>4, SecretlessFrame
<1>4. ASSUME NEW u \in Users, NEW title \in Titles[u], NewUserCreated(u, title)
      PROVE  SInv'
  <2>1. PICK n \in PrintNames(u, title) : Named(u, n) /\ LookupAdd(u, n)
    BY <1>4 DEF NewUserCreated
  <2>2. n \in Names
    BY <1>4, <1>a, <2>1, TitleNames, PrintNameFree
  <2>3. id_to_purple_name'[Num[u]] \in Names
    BY <1>0, <1>a, <2>1, <2>2, LookupTypes
  <2>4. NewBuddy(u) \in Entry /\ WithBuddy(u) \subseteq Entry
    BY <1>0, <1>a, <2>3, WithBuddyType DEF NewBuddy, Entry
  <2>5. blist' \subseteq Entry
    BY <1>0, <1>4, <2>4 DEF NewUserCreated
  <2>6. TypeOK'
    BY <1>0, <1>4, <1>a, <2>1, <2>2, <2>5, NamedTypes, LookupTypes
       DEF TypeOK, NewUserCreated, secrets, bounds
  <2> QED
    BY <1>4, <1>a, <2>1, <2>2, <2>6, SecretlessFrame DEF NewUserCreated
<1>5. ASSUME NEW u \in Users, UserDeleted(u)
      PROVE  SInv'
  <2>1. blist' \subseteq Entry
    BY <1>0, <1>5, RemovedSmaller DEF UserDeleted
  <2>2. TypeOK'
    BY <1>0, <1>5, <2>1 DEF TypeOK, UserDeleted, secrets, tables, bounds
  <2> QED
    BY <1>5, <2>2, SecretsFrame DEF UserDeleted, tables, Known
<1>6. ASSUME NEW listed \in SUBSET Users, DialogList(listed)
      PROVE  SInv'
  <2>1. blist' \subseteq Entry
    BY <1>0, <1>6, <1>a, WithContactsType DEF DialogList, tables
  <2>2. TypeOK'
    BY <1>0, <1>6, <2>1 DEF TypeOK, DialogList, secrets, tables, bounds
  <2> QED
    BY <1>6, <2>2, SecretsFrame DEF DialogList, tables, Known
<1>7. ASSUME NEW b \in blist, RemoveEntry(b)
      PROVE  SInv'
  <2>1. TypeOK'
    BY <1>0, <1>7, <1>b DEF TypeOK, RemoveEntry, secrets, tables
  <2> QED
    BY <1>7, <2>1, SecretsFrame DEF RemoveEntry, tables, Known
<1>8. ASSUME NEW c \in Chats, NEW title \in Titles[c], ChatCreated(c, title)
      PROVE  SInv'
  <2>1. PICK n \in PrintNames(c, title) : Named(c, n) /\ LookupAdd(c, n)
    BY <1>8 DEF ChatCreated
  <2>2. n \in Names
    BY <1>8, <1>a, <2>1, TitleNames, PrintNameFree
  <2>3. print_name'[c] \in Names
    BY <1>0, <1>a, <2>1, <2>2, NamedTypes
  <2>4. blist' \subseteq Entry
    BY <1>0, <1>8, <2>3, StoredType DEF ChatCreated
  <2>5. TypeOK'
    BY <1>0, <1>8, <1>a, <2>1, <2>2, <2>4, NamedTypes, LookupTypes
       DEF TypeOK, ChatCreated, secrets, bounds
  <2> QED
    BY <1>8, <1>a, <2>1, <2>2, <2>5, SecretlessFrame DEF ChatCreated
<1>9. ASSUME NEW c \in Chats, NEW title \in Titles[c], ChatRetitled(c, title)
      PROVE  SInv'
  <2>1. PICK n \in PrintNames(c, title) :
          /\ Named(c, n)
          /\ \/ Found("chat", c) = {} /\ UNCHANGED blist
             \/ \E b \in Found("chat", c) : blist' = (blist \ {b}) \cup {[b EXCEPT !.name = n]}
    BY <1>9 DEF ChatRetitled
  <2>2. n \in Names
    BY <1>9, <1>a, <2>1, TitleNames, PrintNameFree
  <2>3. \A b \in Found("chat", c) : [b EXCEPT !.name = n] \in Entry
    BY <1>0, <2>2 DEF Found, Entry
  <2>4. blist' \subseteq Entry
    BY <1>0, <2>1, <2>3
  <2>5. TypeOK'
    BY <1>0, <1>9, <1>a, <1>b, <2>1, <2>2, <2>4, NamedTypes
       DEF TypeOK, ChatRetitled, secrets, tables
  <2> QED
    BY <1>9, <1>a, <2>1, <2>2, <2>5, SecretlessFrame DEF ChatRetitled
<1>10. ASSUME NEW c \in Chats, ChatDeleted(c)
       PROVE  SInv'
  <2>1. blist' \subseteq Entry
    BY <1>0, <1>10, RemovedSmaller DEF ChatDeleted
  <2>2. TypeOK'
    BY <1>0, <1>10, <2>1 DEF TypeOK, ChatDeleted, secrets, tables, bounds
  <2> QED
    BY <1>10, <2>2, SecretsFrame DEF ChatDeleted, tables, Known
<1> QED
  BY <1>1, <1>2, <1>3, <1>4, <1>5, <1>6, <1>7, <1>8, <1>9, <1>10
     DEF Secretless, OfUser, OfChat

------------------------------------------------------------------------------
(* The steps of a sign on and of secret chats *)

\* After the end of the connection nothing is known.
LEMMA DisconnectedTypes ==
  ASSUME SInv, Disconnected, UNCHANGED <<saved, fate>>, blist' \subseteq Entry,
         changes' \in Nat, sessions' \in Nat
  PROVE  SInv'
<1>1. TypeOK'
  BY DEF SInv, TypeOK, Disconnected, EmptyTable
<1>2. SecretNames'
  BY DEF SecretNames, Disconnected, EmptyTable, Known
<1>3. SecretFates'
  BY DEF SInv, SecretFates, Disconnected, EmptyTable, On
<1> QED
  BY <1>1, <1>2, <1>3 DEF SInv

\* update_on_logged_in
LEMMA SignOnStep ==
  ASSUME SInv, SignOn \/ (\E b \in todo : LoadEntry(b)) \/ Loaded
  PROVE  SInv'
<1>0. TypeOK
  BY DEF SInv
<1>1. CASE SignOn
  <2>1. TypeOK'
    BY <1>0, <1>1 DEF TypeOK, SignOn, secrets, tables
  <2>2. SecretNames' /\ SecretFates'
    BY <1>1 DEF SInv, SecretNames, SecretFates, SignOn, secrets, tables, On, Known
  <2> QED
    BY <2>1, <2>2 DEF SInv
<1>2. ASSUME NEW b \in todo, LoadEntry(b)
      PROVE  SInv'
  <2>1. PICK p \in Peers, n \in Names : LookupAdd(p, n)
    BY <1>0, <1>2 DEF TypeOK, Entry, LoadEntry
  <2>a. /\ id_to_purple_name' \in [DOMAIN id_to_purple_name' -> Names]
        /\ DOMAIN id_to_purple_name' \subseteq Numbers
        /\ DOMAIN id_to_purple_name \subseteq DOMAIN id_to_purple_name'
        /\ purple_name_to_id' \in [DOMAIN purple_name_to_id' -> Peers]
        /\ DOMAIN purple_name_to_id' \subseteq Names
    BY <1>0, <2>1, LookupTypes
  <2>2. TypeOK' /\ DOMAIN id_to_purple_name \subseteq DOMAIN id_to_purple_name'
    BY <1>0, <1>2, <2>a DEF TypeOK, LoadEntry, secrets, bounds
  <2> QED
    BY <1>2, <2>2 DEF SInv, SecretNames, SecretFates, LoadEntry, secrets, On, Known
<1>3. CASE Loaded
  <2>1. TypeOK'
    BY <1>0, <1>3 DEF TypeOK, Loaded, secrets, tables, bounds
  <2>2. SecretNames'
    BY <1>3 DEF SInv, SecretNames, Loaded, secrets, tables, On, Known
  <2>3. SecretFates'
    BY <1>0, <1>3 DEF SInv, TypeOK, SecretFates, Loaded, secrets, On, Known
  <2> QED
    BY <2>1, <2>2, <2>3 DEF SInv
<1> QED
  BY <1>1, <1>2, <1>3

\* read_secret_chat
LEMMA RestoreStep ==
  ASSUME SInv, NEW e \in SecretChats, Restore(e)
  PROVE  SInv'
<1>0. TypeOK /\ blist \subseteq Entry /\ e \in Peers
  BY DEF SInv, TypeOK, Peers
<1>1. PICK n \in Names : n = saved[e] /\ Named(e, n) /\ LookupAdd(e, n)
  BY <1>0 DEF Restore, TypeOK
<1>2. id_to_purple_name'[Num[e]] \in Names
  BY <1>0, <1>1, LookupTypes
<1>3. blist' \subseteq Entry
  BY <1>0, <1>2, WithBuddyType DEF Restore
<1>4. e \notin accepting /\ e \notin asked
  BY DEF SInv, SecretNames, Restore, Known
<1>5. /\ print_name' \in [DOMAIN print_name' -> Names]
      /\ DOMAIN print_name' = DOMAIN print_name \cup {e}
      /\ DOMAIN print_name' \subseteq Peers
      /\ print_name'[e] = saved[e]
      /\ \A q \in DOMAIN print_name : q # e => print_name'[q] = print_name[q]
  BY <1>0, <1>1, NamedTypes
<1>6. /\ id_to_purple_name' \in [DOMAIN id_to_purple_name' -> Names]
      /\ DOMAIN id_to_purple_name' \subseteq Numbers
      /\ DOMAIN id_to_purple_name' = DOMAIN id_to_purple_name \cup {Num[e]}
      /\ purple_name_to_id' \in [DOMAIN purple_name_to_id' -> Peers]
      /\ DOMAIN purple_name_to_id' \subseteq Names
  BY <1>0, <1>1, LookupTypes
<1>7. sc' = [sc EXCEPT ![e] = "ok"] /\ sc \in [SecretChats -> {"none", "waiting", "requested", "ok", "deleted"}]
  BY <1>0 DEF Restore, TypeOK
<1>8. TypeOK'
  BY <1>0, <1>3, <1>4, <1>5, <1>6, <1>7 DEF TypeOK, Restore, bounds
<1>9. SecretNames'
  BY <1>5, <1>6, <1>7 DEF SInv, SecretNames, Restore, On, Known
<1>10. SecretFates'
  <2>1. \A x \in SecretChats : sc'[x] = "ok" => fate'[x] \in {"made", "unlisted"}
    BY <1>7 DEF SInv, SecretFates, Restore
  <2>2. session' = "loading" /\ UNCHANGED <<saved, fate>> /\ e \in DOMAIN saved
    BY DEF Restore
  <2>3. \A x \in DOMAIN print_name' :
          x \in DOMAIN saved' /\ saved'[x] = print_name'[x] /\ sc'[x] = "ok"
    <3> SUFFICES ASSUME NEW x \in DOMAIN print_name'
                 PROVE  x \in DOMAIN saved /\ saved[x] = print_name'[x] /\ sc'[x] = "ok"
      BY <2>2
    <3>1. CASE x = e
      BY <1>5, <1>7, <2>2, <3>1
    <3>2. CASE x # e
      <4>1. x \in DOMAIN print_name /\ print_name'[x] = print_name[x]
        BY <1>5, <3>2
      <4>2. x \in DOMAIN saved /\ saved[x] = print_name[x] /\ sc[x] = "ok"
        BY <4>1 DEF SInv, SecretFates, Restore
      <4>3. x \in SecretChats
        BY <1>0, <4>2 DEF TypeOK
      <4> QED
        BY <1>7, <3>2, <4>1, <4>2, <4>3
    <3> QED
      BY <3>1, <3>2
  <2>4. /\ \A x \in SecretChats : fate[x] = "made" => x \in DOMAIN saved
        /\ \A x \in DOMAIN saved : fate[x] \in {"made", "unlisted"}
    BY DEF SInv, SecretFates
  <2> QED
    BY <2>1, <2>2, <2>3, <2>4 DEF SecretFates, On
<1> QED
  BY <1>8, <1>9, <1>10 DEF SInv

\* tgp_add_buddy, which may end the program
LEMMA AddBuddyStep ==
  ASSUME SInv, NEW name \in Names, AddBuddy(name)
  PROVE  SInv'
<1> DEFINE new == [kind |-> "buddy", peer |-> NoPeer, name |-> name]
           some == {q \in DOMAIN print_name : print_name[q] = name}
<1>0. TypeOK /\ blist \subseteq Entry /\ some \subseteq Peers
  BY DEF SInv, TypeOK
<1>1. changes' \in Nat /\ sessions' \in Nat
  BY <1>0 DEF TypeOK, AddBuddy, Change
<1>2. CASE Disconnected /\ blist' = blist
  BY <1>0, <1>1, <1>2, DisconnectedTypes DEF AddBuddy
<1>3. CASE /\ UNCHANGED <<session, todo, print_name, gone, tables, sc, asked, accepting>>
           /\ blist' = WithContacts(some) \cup {new}
  <2>1. blist' \subseteq Entry
    BY <1>0, <1>3, WithContactsType DEF Entry, tables
  <2>2. UNCHANGED <<session, todo, print_name, gone, tables, secrets>> /\ On
    BY <1>3 DEF AddBuddy, secrets
  <2>3. TypeOK'
    BY <1>0, <1>1, <2>1, <2>2 DEF TypeOK, secrets, tables
  <2> QED
    BY <2>2, <2>3, SecretsFrame DEF tables, Known
<1> QED
  BY <1>2, <1>3 DEF AddBuddy

\* A chat tgl has just made: the names.
LEMMA CreatedTypes ==
  ASSUME SInv, NEW e \in SecretChats, NEW title \in Names, NEW state \in {"waiting", "requested"},
         SecretCreated(e, title, state)
  PROVE  /\ blist' \subseteq Entry
         /\ print_name' \in [DOMAIN print_name' -> Names]
         /\ DOMAIN print_name' = DOMAIN print_name \cup {e} /\ e \notin DOMAIN print_name
         /\ DOMAIN print_name' \subseteq Peers
         /\ \A q \in DOMAIN print_name : print_name'[q] = print_name[q]
         /\ id_to_purple_name' \in [DOMAIN id_to_purple_name' -> Names]
         /\ DOMAIN id_to_purple_name' \subseteq Numbers
         /\ DOMAIN id_to_purple_name' = DOMAIN id_to_purple_name \cup {Num[e]}
         /\ purple_name_to_id' \in [DOMAIN purple_name_to_id' -> Peers]
         /\ DOMAIN purple_name_to_id' \subseteq Names
         /\ e \notin asked /\ e \notin accepting
<1>0. TypeOK /\ blist \subseteq Entry /\ e \in Peers
  BY DEF SInv, TypeOK, Peers
<1>1. PICK n \in PrintNames(e, title) : Named(e, n) /\ LookupAdd(e, n)
  BY DEF SecretCreated
<1>2. n \in Names
  BY <1>0, <1>1, PrintNameFree
<1>3. id_to_purple_name'[Num[e]] \in Names
  BY <1>0, <1>1, <1>2, LookupTypes
<1>4. blist' \subseteq Entry
  BY <1>0, <1>3, WithBuddyType DEF SecretCreated
<1>5. e \notin DOMAIN print_name /\ e \notin asked /\ e \notin accepting
  BY DEF SInv, SecretNames, SecretCreated, Known
<1>6. /\ print_name' \in [DOMAIN print_name' -> Names]
      /\ DOMAIN print_name' = DOMAIN print_name \cup {e}
      /\ DOMAIN print_name' \subseteq Peers
      /\ \A q \in DOMAIN print_name : q # e => print_name'[q] = print_name[q]
  BY <1>0, <1>1, <1>2, NamedTypes
<1>7. /\ id_to_purple_name' \in [DOMAIN id_to_purple_name' -> Names]
      /\ DOMAIN id_to_purple_name' \subseteq Numbers
      /\ DOMAIN id_to_purple_name' = DOMAIN id_to_purple_name \cup {Num[e]}
      /\ purple_name_to_id' \in [DOMAIN purple_name_to_id' -> Peers]
      /\ DOMAIN purple_name_to_id' \subseteq Names
  BY <1>0, <1>1, <1>2, LookupTypes
<1> QED
  BY <1>4, <1>5, <1>6, <1>7

\* start_secret_chat
LEMMA StartedStep ==
  ASSUME SInv, NEW e \in SecretChats, NEW title \in Names, SecretStarted(e, title)
  PROVE  SInv'
<1>0. TypeOK /\ SecretCreated(e, title, "waiting") /\ On /\ fate[e] = "new"
  BY DEF SInv, SecretStarted, SecretCreated
<1>1. /\ blist' \subseteq Entry
      /\ print_name' \in [DOMAIN print_name' -> Names]
      /\ DOMAIN print_name' = DOMAIN print_name \cup {e} /\ e \notin DOMAIN print_name
      /\ DOMAIN print_name' \subseteq Peers
      /\ \A q \in DOMAIN print_name : print_name'[q] = print_name[q]
      /\ id_to_purple_name' \in [DOMAIN id_to_purple_name' -> Names]
      /\ DOMAIN id_to_purple_name' \subseteq Numbers
      /\ DOMAIN id_to_purple_name' = DOMAIN id_to_purple_name \cup {Num[e]}
      /\ purple_name_to_id' \in [DOMAIN purple_name_to_id' -> Peers]
      /\ DOMAIN purple_name_to_id' \subseteq Names
      /\ e \notin asked /\ e \notin accepting
  BY <1>0, CreatedTypes
<1>2. /\ sc' = [sc EXCEPT ![e] = "waiting"] /\ fate' = [fate EXCEPT ![e] = "open"]
      /\ saved' = Written(sc')
      /\ UNCHANGED <<session, todo, gone, bounds, asked, accepting>>
  BY DEF SecretStarted, SecretCreated
<1>3. \A x \in SecretChats : sc'[x] = "ok" <=> sc[x] = "ok"
  BY <1>0, <1>1, <1>2 DEF SInv, TypeOK, SecretNames, Known
<1>4. /\ Written(sc') \in [DOMAIN Written(sc') -> Names]
      /\ DOMAIN Written(sc') = {x \in SecretChats : sc[x] = "ok"}
      /\ \A x \in DOMAIN Written(sc') : Written(sc')[x] = print_name[x]
  <2>1. \A x \in SecretChats : sc'[x] = "ok" => Known(x)
    BY <1>3 DEF SInv, SecretNames
  <2>2. /\ Written(sc') \in [DOMAIN Written(sc') -> Names]
        /\ DOMAIN Written(sc') = {x \in SecretChats : sc'[x] = "ok"}
        /\ \A x \in DOMAIN Written(sc') : Written(sc')[x] = print_name[x]
    BY <1>0, <2>1, WrittenFile
  <2> QED
    BY <1>3, <2>2
<1>5. TypeOK'
  BY <1>0, <1>1, <1>2, <1>4 DEF TypeOK, bounds
<1>6. SecretNames'
  BY <1>0, <1>1, <1>2 DEF SInv, TypeOK, SecretNames, On, Known
<1>7. SecretFates'
  <2>1. \A x \in SecretChats : x # e => fate'[x] = fate[x]
    BY <1>0, <1>2 DEF TypeOK
  <2>2. sc[e] # "ok" /\ fate'[e] = "open"
    BY <1>0, <1>1, <1>2 DEF SInv, TypeOK, SecretNames, Known
  <2>3. \A x \in SecretChats : sc'[x] = "ok" => fate'[x] \in {"made", "unlisted"}
    BY <1>3, <2>1, <2>2 DEF SInv, SecretFates
  <2>4. \A x \in SecretChats : fate'[x] = "made" => sc[x] = "ok"
    BY <1>0, <2>1, <2>2 DEF SInv, SecretFates
  <2>5. /\ DOMAIN saved' = {x \in SecretChats : sc[x] = "ok"}
        /\ \A x \in DOMAIN saved' : saved'[x] = print_name[x] /\ x \in DOMAIN print_name
    BY <1>2, <1>4 DEF SInv, SecretNames, Known
  <2>6. session' = "on"
    BY <1>0, <1>2 DEF On
  <2> QED
    BY <1>1, <1>3, <2>3, <2>4, <2>5, <2>6 DEF SecretFates, On, Known
<1> QED
  BY <1>5, <1>6, <1>7 DEF SInv

\* Somebody asks for a secret chat.
LEMMA RequestedStep ==
  ASSUME SInv, NEW e \in SecretChats, NEW title \in Names, SecretRequested(e, title)
  PROVE  SInv'
<1>0. TypeOK /\ SecretCreated(e, title, "requested") /\ On /\ fate[e] \in {"new", "open"}
  BY DEF SInv, SecretRequested, SecretCreated
<1>1. /\ blist' \subseteq Entry
      /\ print_name' \in [DOMAIN print_name' -> Names]
      /\ DOMAIN print_name' = DOMAIN print_name \cup {e} /\ e \notin DOMAIN print_name
      /\ DOMAIN print_name' \subseteq Peers
      /\ \A q \in DOMAIN print_name : print_name'[q] = print_name[q]
      /\ id_to_purple_name' \in [DOMAIN id_to_purple_name' -> Names]
      /\ DOMAIN id_to_purple_name' \subseteq Numbers
      /\ DOMAIN id_to_purple_name' = DOMAIN id_to_purple_name \cup {Num[e]}
      /\ purple_name_to_id' \in [DOMAIN purple_name_to_id' -> Peers]
      /\ DOMAIN purple_name_to_id' \subseteq Names
      /\ e \notin asked /\ e \notin accepting
  BY <1>0, CreatedTypes
<1>2. /\ sc' = [sc EXCEPT ![e] = "requested"] /\ fate' = [fate EXCEPT ![e] = "open"]
      /\ UNCHANGED <<session, todo, gone, bounds, saved>>
  BY DEF SecretRequested, SecretCreated
<1>3. /\ asked' \in {asked, asked \cup {e}} /\ accepting' \in {accepting, accepting \cup {e}}
      /\ asked' = asked \/ accepting' = accepting
  BY DEF SecretRequested
<1>4. TypeOK'
  BY <1>0, <1>1, <1>2, <1>3 DEF TypeOK, bounds
<1>5. SecretNames'
  BY <1>0, <1>1, <1>2, <1>3 DEF SInv, TypeOK, SecretNames, On, Known
<1>6. SecretFates'
  BY <1>0, <1>1, <1>2 DEF SInv, TypeOK, SecretNames, SecretFates, On, Known
<1> QED
  BY <1>4, <1>5, <1>6 DEF SInv

\* The file after a change of the states while the account is online.
LEMMA WrittenStep ==
  ASSUME SInv, TypeOK', SecretNames', On, UNCHANGED <<session, print_name>>,
         saved' = Written(sc'),
         \A e \in SecretChats : sc'[e] = "ok" => Known(e),
         \A e \in SecretChats : sc'[e] = "ok" => fate'[e] \in {"made", "unlisted"},
         \A e \in SecretChats : fate'[e] = "made" => sc'[e] = "ok"
  PROVE  SInv'
<1>1. /\ DOMAIN saved' = {e \in SecretChats : sc'[e] = "ok"}
      /\ \A e \in DOMAIN saved' : saved'[e] = print_name[e]
  BY WrittenFile DEF SInv
<1>2. SecretFates'
  BY <1>1 DEF SecretFates, On, Known
<1> QED
  BY <1>2 DEF SInv

\* The answers of the user, and of tgl.
LEMMA AnswerStep ==
  ASSUME SInv, NEW e \in SecretChats, Accept(e) \/ AcceptFailed(e)
  PROVE  SInv'
<1>0. UNCHANGED <<session, todo, print_name, gone, tables, blist, sc, saved, fate, bounds>>
  BY DEF Accept, AcceptFailed
<1>1. /\ asked' \cup accepting' \subseteq asked \cup accepting
      /\ asked' \cap accepting' = {}
      /\ asked' \subseteq asked
      /\ accepting' \subseteq accepting \cup {x \in SecretChats : sc[x] = "requested"}
  BY DEF SInv, SecretNames, Accept, AcceptFailed
<1>2. TypeOK'
  BY <1>0, <1>1 DEF SInv, TypeOK, tables, bounds
<1>3. SecretNames'
  BY <1>0, <1>1 DEF SInv, SecretNames, tables, On, Known
<1>4. SecretFates'
  BY <1>0 DEF SInv, SecretFates, On, Known
<1> QED
  BY <1>2, <1>3, <1>4 DEF SInv

\* Both ends have the key.
LEMMA WorkingStep ==
  ASSUME SInv, NEW e \in SecretChats, SecretWorking(e)
  PROVE  SInv'
<1>0. TypeOK /\ Known(e) /\ e \in Peers /\ Num[e] \in DOMAIN id_to_purple_name
  BY DEF SInv, TypeOK, SecretNames, SecretWorking, Peers
<1>1. On
  BY <1>0 DEF SInv, TypeOK, SecretNames, SecretFates, SecretWorking, On, Known
<1>2. /\ UNCHANGED <<session, todo, print_name, gone, tables, asked, bounds>>
      /\ sc' = [sc EXCEPT ![e] = "ok"] /\ accepting' = accepting \ {e}
      /\ saved' = Written(sc') /\ fate' = [fate EXCEPT ![e] = "made"]
      /\ blist' = WithBuddy(e)
  BY DEF SecretWorking
<1>3. blist' \subseteq Entry
  <2>1. id_to_purple_name'[Num[e]] \in Names
    BY <1>0, <1>2 DEF TypeOK, tables
  <2> QED
    BY <1>0, <1>2, <2>1, WithBuddyType DEF TypeOK
<1>4. /\ \A x \in SecretChats : sc'[x] = "ok" => Known(x)
      /\ \A x \in SecretChats : sc'[x] = "ok" => fate'[x] \in {"made", "unlisted"}
      /\ \A x \in SecretChats : fate'[x] = "made" => sc'[x] = "ok"
  BY <1>0, <1>1, <1>2 DEF SInv, TypeOK, SecretNames, SecretFates
<1>5. Written(sc') \in [DOMAIN Written(sc') -> Names] /\ DOMAIN Written(sc') \subseteq SecretChats
  BY <1>0, <1>4, WrittenFile
<1>6. TypeOK'
  BY <1>0, <1>2, <1>3, <1>5 DEF TypeOK, tables, bounds
<1>7. SecretNames'
  BY <1>0, <1>2 DEF SInv, TypeOK, SecretNames, tables, On, Known
<1> QED
  BY <1>1, <1>2, <1>4, <1>6, <1>7, WrittenStep

\* What a chat that is over leaves: its state, the file and the list.
LEMMA DiscardedStep ==
  ASSUME SInv, NEW e \in SecretChats, Known(e), On, Discarded(e),
         UNCHANGED <<session, todo, print_name, gone, tables, bounds>>,
         asked' \subseteq asked, accepting' \subseteq accepting, e \notin accepting'
  PROVE  SInv'
<1>0. TypeOK
  BY DEF SInv
<1>1. CASE Found("buddy", e) # {}
  <2>1. /\ sc' = [sc EXCEPT ![e] = "deleted"] /\ saved' = Written(sc')
        /\ blist' \subseteq Entry /\ fate' = [fate EXCEPT ![e] = "over"]
    BY <1>0, <1>1, RemovedSmaller DEF Discarded, TypeOK
  <2>2. /\ \A x \in SecretChats : sc'[x] = "ok" => Known(x)
        /\ \A x \in SecretChats : sc'[x] = "ok" => fate'[x] \in {"made", "unlisted"}
        /\ \A x \in SecretChats : fate'[x] = "made" => sc'[x] = "ok"
    BY <1>0, <2>1 DEF SInv, TypeOK, SecretNames, SecretFates
  <2>3. Written(sc') \in [DOMAIN Written(sc') -> Names] /\ DOMAIN Written(sc') \subseteq SecretChats
    BY <1>0, <2>2, WrittenFile
  <2>4. TypeOK'
    BY <1>0, <2>1, <2>3 DEF TypeOK, tables, bounds
  <2>5. SecretNames'
    BY <1>0, <2>1 DEF SInv, TypeOK, SecretNames, tables, On, Known
  <2> QED
    BY <2>1, <2>2, <2>4, <2>5, WrittenStep
<1>2. CASE Found("buddy", e) = {}
  <2>1. /\ sc' \in {sc, [sc EXCEPT ![e] = "deleted"]}
        /\ fate' = [fate EXCEPT ![e] = "unlisted"] /\ UNCHANGED <<saved, blist>>
    BY <1>2 DEF Discarded
  <2>2. TypeOK'
    BY <1>0, <2>1 DEF TypeOK, tables, bounds
  <2>3. SecretNames'
    BY <1>0, <2>1 DEF SInv, TypeOK, SecretNames, tables, On, Known
  <2>4. SecretFates'
    BY <1>0, <2>1 DEF SInv, TypeOK, SecretFates, On, Known
  <2> QED
    BY <2>2, <2>3, <2>4 DEF SInv
<1> QED
  BY <1>1, <1>2

\* The user declines.
LEMMA DeclineStep ==
  ASSUME SInv, NEW e \in SecretChats, Decline(e)
  PROVE  SInv'
<1>0. /\ TypeOK /\ Known(e) /\ On /\ e \notin accepting
      /\ asked' = asked \ {e}
      /\ UNCHANGED <<session, todo, print_name, gone, tables, accepting, bounds>>
  BY DEF SInv, SecretNames, Decline, Known
<1>1. CASE fate[e] \in {"over", "unlisted"}
  <2>1. blist' \subseteq Entry /\ UNCHANGED <<sc, saved, fate>>
    BY <1>0, <1>1, RemovedSmaller DEF Decline, TypeOK
  <2>2. TypeOK'
    BY <1>0, <2>1 DEF TypeOK, tables, bounds
  <2>3. SecretNames' /\ SecretFates'
    BY <1>0, <2>1 DEF SInv, SecretNames, SecretFates, tables, On, Known
  <2> QED
    BY <2>2, <2>3 DEF SInv
<1>2. CASE fate[e] \notin {"over", "unlisted"}
  <2>1. Discarded(e)
    BY <1>2 DEF Decline
  <2> QED
    BY <1>0, <2>1, DiscardedStep
<1> QED
  BY <1>1, <1>2

\* write_files_gw
LEMMA WriteFilesStep ==
  ASSUME SInv, WriteFiles
  PROVE  SInv'
<1>0. /\ TypeOK /\ On /\ saved' = Written(sc')
      /\ UNCHANGED <<session, todo, print_name, gone, tables, blist, sc, asked, accepting, fate, bounds>>
  BY DEF SInv, WriteFiles
<1>1. \A x \in SecretChats : sc'[x] = "ok" => Known(x)
  BY <1>0 DEF SInv, SecretNames
<1>2. Written(sc') \in [DOMAIN Written(sc') -> Names] /\ DOMAIN Written(sc') \subseteq SecretChats
  BY <1>0, <1>1, WrittenFile
<1>3. TypeOK'
  BY <1>0, <1>2 DEF TypeOK, tables, bounds
<1>4. SecretNames'
  BY <1>0 DEF SInv, SecretNames, tables, On, Known
<1> QED
  BY <1>0, <1>1, <1>3, <1>4, WrittenStep DEF SInv, SecretFates

\* Every step keeps the invariant.
LEMMA SInvStep == SInv /\ [Next]_vars => SInv'
<1> SUFFICES ASSUME SInv, [Next]_vars PROVE SInv'
  OBVIOUS
<1>0. TypeOK /\ blist \subseteq Entry /\ SecretChats \subseteq Peers
  BY DEF SInv, TypeOK, Peers
<1>1. CASE SignOn \/ (\E b \in todo : LoadEntry(b)) \/ Loaded
  BY <1>1, SignOnStep
<1>2. CASE SignOff
  BY <1>0, <1>2, DisconnectedTypes DEF SignOff, TypeOK, bounds
<1>3. CASE Secretless
  BY <1>3, SecretlessStep
<1>4. ASSUME NEW p \in Peers, NEW name \in Titles[p], AddBuddy(name)
      PROVE  SInv'
  BY <1>4, TitleNames, AddBuddyStep
<1>5. ASSUME NEW e \in SecretChats, NEW title \in Titles[e],
             SecretStarted(e, title) \/ SecretRequested(e, title)
      PROVE  SInv'
  BY <1>0, <1>5, TitleNames, StartedStep, RequestedStep
<1>6. ASSUME NEW e \in SecretChats, Restore(e) \/ Accept(e) \/ AcceptFailed(e) \/ Decline(e)
      PROVE  SInv'
  BY <1>6, RestoreStep, AnswerStep, DeclineStep
<1>7. ASSUME NEW e \in SecretChats, SecretWorking(e) \/ SecretDiscarded(e)
      PROVE  SInv'
  <2>1. CASE SecretWorking(e)
    BY <2>1, WorkingStep
  <2>2. CASE SecretDiscarded(e)
    BY <2>2, DiscardedStep DEF SecretDiscarded
  <2> QED
    BY <1>7, <2>1, <2>2
<1>8. CASE WriteFiles
  BY <1>8, WriteFilesStep
<1>9. CASE UNCHANGED vars
  BY <1>9 DEF vars, tables, secrets, bounds, SInv, TypeOK, SecretNames, SecretFates, On, Known
<1> QED
  BY <1>1, <1>2, <1>3, <1>4, <1>5, <1>6, <1>7, <1>8, <1>9 DEF Next, Secretless, OfSecretChat

\* The variables always have their types, and tgl is told to accept requests only.
THEOREM TypeCorrect == Spec => []TypeOK
<1>1. SInv => TypeOK
  BY DEF SInv
<1> QED
  BY <1>1, SInvInit, SInvStep, PTL DEF Spec

\* The usable secret chats are always in the file, whatever the numbers are.
THEOREM SecretsSafe == Spec => []SecretsSaved
<1>1. SInv => SecretsSaved
  BY DEF SInv, TypeOK, SecretFates, SecretsSaved
<1> QED
  BY <1>1, SInvInit, SInvStep, PTL DEF Spec

------------------------------------------------------------------------------
(* Names, when the numbers identify the peers *)

Lookup ==
  \A k \in DOMAIN id_to_purple_name :
    /\ id_to_purple_name[k] \in DOMAIN purple_name_to_id
    /\ Num[purple_name_to_id[id_to_purple_name[k]]] = k

Printed ==
  /\ \A p, q \in DOMAIN print_name : print_name[p] = print_name[q] => p = q
  /\ \A q \in DOMAIN print_name : print_name[q] \in DOMAIN purple_name_to_id =>
       purple_name_to_id[print_name[q]] = q

\* An entry's name is in the table, or it is a chat's that tgl has.
Listed ==
  session # "off" => \A b \in blist \ todo : b.peer # NoPeer =>
    /\ Num[b.peer] \in DOMAIN id_to_purple_name
    /\ \/ b.name \in DOMAIN purple_name_to_id /\ purple_name_to_id[b.name] = b.peer
       \/ b.kind = "chat" /\ Known(b.peer) /\ print_name[b.peer] = b.name

Shapes ==
  /\ \A b \in blist : b.kind = "chat" => b.peer \in Chats
  /\ \A b, c \in blist : b.kind = "chat" /\ c.kind = "chat" /\ b.peer = c.peer => b = c
  /\ \A b, c \in blist :
       b.kind = "buddy" /\ c.kind = "buddy" /\ b.peer = c.peer /\ b.peer \in Users \ {Self}
         => b.name = c.name

Distinct ==
  /\ \A b, c \in blist : b.peer # NoPeer /\ c.peer # NoPeer /\ b.name = c.name => b.peer = c.peer
  /\ \A e, f \in DOMAIN saved : saved[e] = saved[f] => e = f
  /\ \A e \in DOMAIN saved : \A b \in blist : b.peer # NoPeer /\ b.name = saved[e] => b.peer = e

Shown ==
  session # "off" => \A b \in blist \ todo :
    b.kind = "buddy" /\ b.peer \in Users \ {Self} => id_to_purple_name[Num[b.peer]] = b.name

Callable ==
  session # "off" => \A p \in DOMAIN print_name \ gone : Num[p] \in DOMAIN id_to_purple_name

\* Where the names in the table are from while the list and the file are read.
Loading ==
  /\ todo \subseteq blist
  /\ session # "loading" => todo = {}
  /\ todo # {} => DOMAIN print_name = {}
  /\ session = "off" => DOMAIN id_to_purple_name = {} /\ DOMAIN purple_name_to_id = {}
  /\ session = "loading" => \A n \in DOMAIN purple_name_to_id :
       \/ \E b \in blist : b.peer = purple_name_to_id[n] /\ b.name = n
       \/ purple_name_to_id[n] \in DOMAIN saved /\ saved[purple_name_to_id[n]] = n

NInv == SInv /\ Lookup /\ Printed /\ Listed /\ Shapes /\ Distinct /\ Shown /\ Callable /\ Loading

\* The invariant holds at the start.
LEMMA NInvInit == Init => NInv
<1> SUFFICES ASSUME Init PROVE NInv
  OBVIOUS
<1>1. SInv
  BY SInvInit
<1>2. DOMAIN print_name = {} /\ DOMAIN id_to_purple_name = {} /\ DOMAIN purple_name_to_id = {}
      /\ DOMAIN saved = {} /\ session = "off" /\ todo = {}
  BY DEF Init, EmptyTable
<1>3. \A b \in blist : b.kind = "buddy" /\ b.peer = NoPeer
  BY DEF Init
<1>4. NoPeer \notin Users
  BY PeersAssumption DEF Peers
<1> QED
  BY <1>1, <1>2, <1>3, <1>4
     DEF NInv, Lookup, Printed, Listed, Shapes, Distinct, Shown, Callable, Loading

\* A new name of a peer, in tgl only or in the tables, too, takes no other's.
LEMMA TablesStep ==
  ASSUME NumbersIdentify, TypeOK, Lookup, Printed,
         NEW p \in Peers, NEW n \in Names, ~Taken(p, n), Named(p, n),
         LookupAdd(p, n) \/ UNCHANGED tables
  PROVE  /\ Lookup' /\ Printed'
         /\ \A m \in DOMAIN purple_name_to_id :
              m \in DOMAIN purple_name_to_id' /\ purple_name_to_id'[m] = purple_name_to_id[m]
<1>1. n \in DOMAIN purple_name_to_id => purple_name_to_id[n] = p
  BY DEF Taken, NumbersIdentify, TypeOK
<1>2. /\ DOMAIN print_name' = DOMAIN print_name \cup {p}
      /\ print_name'[p] = n
      /\ \A q \in DOMAIN print_name : q # p => print_name'[q] = print_name[q]
      /\ DOMAIN print_name \subseteq Peers
  BY NamedTypes DEF TypeOK
<1>3. \A q \in DOMAIN print_name : print_name[q] = n => q = p
  BY <1>1, <1>2 DEF Taken, Printed, NumbersIdentify
<1>4. CASE UNCHANGED tables
  <2>1. Printed'
    BY <1>1, <1>2, <1>3, <1>4 DEF Printed, tables
  <2> QED
    BY <1>4, <2>1 DEF Lookup, tables
<1>5. CASE LookupAdd(p, n)
  <2>1. /\ DOMAIN id_to_purple_name' = DOMAIN id_to_purple_name \cup {Num[p]}
        /\ id_to_purple_name'[Num[p]] = n
        /\ \A k \in DOMAIN id_to_purple_name : k # Num[p] =>
             id_to_purple_name'[k] = id_to_purple_name[k]
        /\ DOMAIN purple_name_to_id' = DOMAIN purple_name_to_id \cup {n}
        /\ purple_name_to_id'[n] = p
        /\ \A m \in DOMAIN purple_name_to_id : m # n =>
             purple_name_to_id'[m] = purple_name_to_id[m]
    BY <1>5, LookupTypes
  <2>2. \A m \in DOMAIN purple_name_to_id :
          m \in DOMAIN purple_name_to_id' /\ purple_name_to_id'[m] = purple_name_to_id[m]
    BY <1>1, <2>1
  <2>3. Lookup'
    BY <2>1, <2>2 DEF Lookup
  <2>4. Printed'
    BY <1>2, <1>3, <2>1, <2>2 DEF Printed
  <2> QED
    BY <2>2, <2>3, <2>4
<1> QED
  BY <1>4, <1>5

\* What a step while the account is online may do to the list.
Grown(b, p) ==
  \/ b \in blist /\ (b.kind = "chat" /\ b.peer = p => ~Known(p) \/ UNCHANGED print_name)
  \/ b.kind = "buddy" /\ b.peer = NoPeer
  \/ /\ b.kind = "buddy" /\ b.peer \in Peers
     /\ Num[b.peer] \in DOMAIN id_to_purple_name' /\ b.name = id_to_purple_name'[Num[b.peer]]
  \/ /\ b.kind = "chat" /\ b.peer \in Chats
     /\ b.peer \in DOMAIN print_name' /\ print_name'[b.peer] = b.name
     /\ Num[b.peer] \in DOMAIN id_to_purple_name'

\* A step that names at most one peer and adds entries under the names in use.
LEMMA OnlineStep ==
  ASSUME NumbersIdentify, NInv, SInv', On, session' = "on", UNCHANGED todo,
         NEW p \in Peers, NEW n \in Names,
         \/ /\ Named(p, n) /\ ~Taken(p, n)
            /\ \/ LookupAdd(p, n)
               \/ UNCHANGED tables /\ (Num[p] \in DOMAIN id_to_purple_name \/ p \in gone')
         \/ UNCHANGED <<print_name, tables>>,
         gone \subseteq gone',
         \A b \in blist' : Grown(b, p),
         UNCHANGED tables \/ p \notin Users \ {Self} \/ Found("buddy", p) = {},
         \A b, c \in blist' : b.kind = "chat" /\ c.kind = "chat" /\ b.peer = c.peer => b = c
  PROVE  NInv'
<1>0. TypeOK /\ Lookup /\ Printed /\ Listed /\ Shapes /\ Shown /\ Callable /\ todo = {} /\ session = "on"
  BY DEF NInv, SInv, Loading, On
<1>a. NoPeer \notin Peers /\ Chats \subseteq Peers /\ Users \cap Chats = {} /\ Users \subseteq Peers
  BY PeersAssumption DEF Peers, Chats
<1>1. /\ Lookup' /\ Printed'
      /\ \A m \in DOMAIN purple_name_to_id :
           m \in DOMAIN purple_name_to_id' /\ purple_name_to_id'[m] = purple_name_to_id[m]
  <2>1. CASE UNCHANGED <<print_name, tables>>
    BY <1>0, <2>1 DEF Lookup, Printed, tables
  <2>2. CASE ~UNCHANGED <<print_name, tables>>
    BY <1>0, <2>2, TablesStep
  <2> QED
    BY <2>1, <2>2
<1>2. /\ DOMAIN id_to_purple_name \subseteq DOMAIN id_to_purple_name'
      /\ \A k \in DOMAIN id_to_purple_name :
           k # Num[p] \/ UNCHANGED tables => id_to_purple_name'[k] = id_to_purple_name[k]
      /\ LookupAdd(p, n) => Num[p] \in DOMAIN id_to_purple_name'
  <2>1. CASE LookupAdd(p, n)
    <3>1. /\ DOMAIN id_to_purple_name' = DOMAIN id_to_purple_name \cup {Num[p]}
          /\ \A k \in DOMAIN id_to_purple_name : k # Num[p] =>
               id_to_purple_name'[k] = id_to_purple_name[k]
      BY <1>0, <2>1, LookupTypes
    <3>2. UNCHANGED tables => id_to_purple_name' = id_to_purple_name
      BY DEF tables
    <3> QED
      BY <3>1, <3>2
  <2>2. CASE UNCHANGED tables /\ ~LookupAdd(p, n)
    BY <2>2 DEF tables
  <2> QED
    BY <2>1, <2>2
<1>3. /\ DOMAIN print_name \subseteq DOMAIN print_name'
      /\ DOMAIN print_name' \subseteq DOMAIN print_name \cup {p}
      /\ \A q \in DOMAIN print_name :
           q # p \/ UNCHANGED print_name => print_name'[q] = print_name[q]
      /\ Named(p, n) \/ DOMAIN print_name' = DOMAIN print_name
  <2>1. CASE Named(p, n)
    BY <1>0, <2>1, NamedTypes
  <2>2. CASE UNCHANGED print_name
    BY <2>2
  <2> QED
    BY <2>1, <2>2
<1>4. Listed'
  <2> SUFFICES ASSUME NEW b \in blist', b.peer # NoPeer
               PROVE  /\ Num[b.peer] \in DOMAIN id_to_purple_name'
                      /\ \/ /\ b.name \in DOMAIN purple_name_to_id'
                            /\ purple_name_to_id'[b.name] = b.peer
                         \/ /\ b.kind = "chat" /\ b.peer \in DOMAIN print_name'
                            /\ print_name'[b.peer] = b.name
    BY DEF Listed, Known
  <2>1. CASE b \in blist /\ (b.kind = "chat" /\ b.peer = p => ~Known(p) \/ UNCHANGED print_name)
    <3>1. Num[b.peer] \in DOMAIN id_to_purple_name'
      BY <1>0, <1>2, <2>1 DEF Listed
    <3>2. CASE b.name \in DOMAIN purple_name_to_id /\ purple_name_to_id[b.name] = b.peer
      BY <1>1, <3>1, <3>2
    <3>3. CASE b.kind = "chat" /\ Known(b.peer) /\ print_name[b.peer] = b.name
      BY <1>3, <2>1, <3>1, <3>3 DEF Known
    <3> QED
      BY <1>0, <2>1, <3>2, <3>3 DEF Listed
  <2>2. CASE /\ b.kind = "buddy" /\ b.peer \in Peers
             /\ Num[b.peer] \in DOMAIN id_to_purple_name'
             /\ b.name = id_to_purple_name'[Num[b.peer]]
    <3>1. b.name \in DOMAIN purple_name_to_id' /\ Num[purple_name_to_id'[b.name]] = Num[b.peer]
      BY <1>1, <2>2 DEF Lookup
    <3>2. purple_name_to_id'[b.name] \in Peers
      BY <3>1 DEF SInv, TypeOK
    <3> QED
      BY <2>2, <3>1, <3>2 DEF NumbersIdentify
  <2>3. CASE /\ b.kind = "chat" /\ b.peer \in Chats
             /\ b.peer \in DOMAIN print_name' /\ print_name'[b.peer] = b.name
             /\ Num[b.peer] \in DOMAIN id_to_purple_name'
    BY <2>3 DEF Known
  <2> QED
    BY <2>1, <2>2, <2>3 DEF Grown
<1>5. Shown'
  <2> SUFFICES ASSUME NEW b \in blist', b.kind = "buddy", b.peer \in Users \ {Self}
               PROVE  id_to_purple_name'[Num[b.peer]] = b.name
    BY DEF Shown
  <2>1. CASE b \in blist
    <3>1. id_to_purple_name[Num[b.peer]] = b.name /\ Num[b.peer] \in DOMAIN id_to_purple_name
      BY <1>0, <1>a, <2>1 DEF Shown, Listed
    <3>2. CASE UNCHANGED tables
      BY <1>2, <3>1, <3>2
    <3>3. CASE ~UNCHANGED tables
      <4>1. Num[b.peer] # Num[p]
        BY <1>a, <2>1, <3>3 DEF NumbersIdentify, Found
      <4> QED
        BY <1>2, <3>1, <4>1
    <3> QED
      BY <3>2, <3>3
  <2> QED
    BY <1>a, <2>1 DEF Grown
<1>6. Shapes'
  <2>1. \A b \in blist' : b.kind = "chat" => b.peer \in Chats
    BY <1>0 DEF Grown, Shapes
  <2>2. \A b, c \in blist' :
          b.kind = "buddy" /\ c.kind = "buddy" /\ b.peer = c.peer /\ b.peer \in Users \ {Self}
            => b.name = c.name
    <3>1. \A b \in blist' : b.kind = "buddy" /\ b.peer \in Users \ {Self} =>
            id_to_purple_name'[Num[b.peer]] = b.name
      BY <1>0, <1>5 DEF Shown
    <3> SUFFICES ASSUME NEW b \in blist', NEW c \in blist', b.kind = "buddy", c.kind = "buddy",
                        b.peer = c.peer, b.peer \in Users \ {Self}
                 PROVE  b.name = c.name
      OBVIOUS
    <3>2. id_to_purple_name'[Num[b.peer]] = b.name
      BY <3>1
    <3>3. id_to_purple_name'[Num[c.peer]] = c.name
      BY <3>1
    <3> QED
      BY <3>2, <3>3
  <2> QED
    BY <2>1, <2>2 DEF Shapes
<1>7. Distinct'
  <2>1. \A b, c \in blist' : b.peer # NoPeer /\ c.peer # NoPeer /\ b.name = c.name => b.peer = c.peer
    BY <1>0, <1>1, <1>4 DEF Listed, Printed, Known
  <2>2. \A e \in DOMAIN saved' : e \in DOMAIN print_name' /\ saved'[e] = print_name'[e]
    BY DEF SInv, SecretFates, On, Known
  <2>3. \A e, f \in DOMAIN saved' : saved'[e] = saved'[f] => e = f
    BY <1>1, <2>2 DEF Printed
  <2>4. \A e \in DOMAIN saved' : \A b \in blist' : b.peer # NoPeer /\ b.name = saved'[e] => b.peer = e
    BY <1>0, <1>1, <1>4, <2>2 DEF Listed, Printed, Known
  <2> QED
    BY <2>1, <2>3, <2>4 DEF Distinct
<1>8. Callable'
  BY <1>0, <1>2, <1>3 DEF Callable
<1>9. Loading'
  BY <1>0 DEF Loading
<1> QED
  BY <1>1, <1>4, <1>5, <1>6, <1>7, <1>8, <1>9 DEF NInv

\* A name that is given is free, and a step gives one to one peer.
LEMMA GivenFree ==
  ASSUME NEW p \in Peers, NEW title \in Titles[p], NEW n \in PrintNames(p, title)
  PROVE  n \in Names /\ ~Taken(p, n)
  BY TitleNames, PrintNameFree

\* What is left of the list is unchanged.
LEMMA GrownLess ==
  ASSUME NEW p, p \notin Chats \/ ~Known(p) \/ UNCHANGED print_name, Shapes,
         NEW b \in blist
  PROVE  Grown(b, p)
  BY DEF Grown, Shapes

\* The steps of the user and of those he knows.
LEMMA UsersStep ==
  ASSUME NumbersIdentify, NInv, SInv',
         \/ \E title \in Titles[Self] : OwnUserNamed(title)
         \/ \E u \in Users : OfUser(u)
  PROVE  NInv'
<1>0. session = "on" => TypeOK /\ Shapes /\ Listed /\ Callable /\ todo = {}
  BY DEF NInv, SInv, Loading, On
<1>a. NoPeer \notin Peers /\ Users \subseteq Peers /\ Users \cap Chats = {} /\ Self \in Users
  BY PeersAssumption DEF Peers, Chats
<1>b. \A b, c \in blist : b.kind = "chat" /\ c.kind = "chat" /\ b.peer = c.peer => b = c
  BY DEF NInv, Shapes
<1>1. ASSUME NEW title \in Titles[Self], OwnUserNamed(title)
      PROVE  NInv'
  <2>1. PICK n \in PrintNames(Self, title) : Named(Self, n) /\ LookupAdd(Self, n)
    BY <1>1 DEF OwnUserNamed
  <2>2. n \in Names /\ ~Taken(Self, n)
    BY <1>1, <1>a, <2>1, GivenFree
  <2>3. UNCHANGED <<session, todo, gone, blist>> /\ On
    BY <1>1 DEF OwnUserNamed
  <2>4. \A b \in blist' : Grown(b, Self)
    BY <1>a, <2>3, GrownLess DEF NInv
  <2> QED
    BY <1>a, <1>b, <2>1, <2>2, <2>3, <2>4, OnlineStep DEF On
<1>2. ASSUME NEW u \in Users, NEW title \in Titles[u], DeletedUserCreated(u, title)
      PROVE  NInv'
  <2>1. PICK n \in PrintNames(u, title) : Named(u, n)
    BY <1>2 DEF DeletedUserCreated
  <2>2. n \in Names /\ ~Taken(u, n)
    BY <1>2, <1>a, <2>1, GivenFree
  <2>3. UNCHANGED <<session, todo, tables>> /\ On /\ gone' = gone \cup {u} /\ blist' \subseteq blist
    BY <1>2, RemovedSmaller DEF DeletedUserCreated
  <2>4. \A b \in blist' : Grown(b, u)
    BY <1>a, <2>3, GrownLess DEF NInv
  <2> QED
    BY <1>a, <1>b, <2>1, <2>2, <2>3, <2>4, OnlineStep DEF On
<1>3. ASSUME NEW u \in Users, NEW title \in Titles[u],
             ListedUserCreated(u, title) \/ UserRenamed(u, title)
      PROVE  NInv'
  <2>1. PICK n \in PrintNames(u, title) : Named(u, n)
    BY <1>3 DEF ListedUserCreated, UserRenamed
  <2>2. n \in Names /\ ~Taken(u, n)
    BY <1>3, <1>a, <2>1, GivenFree
  <2>3. UNCHANGED <<session, todo, gone, tables, blist>> /\ On
    BY <1>3 DEF ListedUserCreated, UserRenamed
  <2>4. \A b \in blist' : Grown(b, u)
    BY <1>a, <2>3, GrownLess DEF NInv
  <2>5. Num[u] \in DOMAIN id_to_purple_name \/ u \in gone'
    <3>1. CASE ListedUserCreated(u, title)
      <4>1. PICK b \in blist : b.peer # NoPeer /\ Num[b.peer] = Num[u]
        BY <3>1 DEF ListedUserCreated, Found
      <4> QED
        BY <1>0, <2>3, <4>1 DEF Listed, On
    <3>2. CASE UserRenamed(u, title)
      BY <1>0, <2>3, <3>2 DEF UserRenamed, Callable, On, Known
    <3> QED
      BY <1>3, <3>1, <3>2
  <2> QED
    BY <1>a, <1>b, <2>1, <2>2, <2>3, <2>4, <2>5, OnlineStep DEF On
<1>4. ASSUME NEW u \in Users, NEW title \in Titles[u], NewUserCreated(u, title)
      PROVE  NInv'
  <2>1. PICK n \in PrintNames(u, title) : Named(u, n) /\ LookupAdd(u, n)
    BY <1>4 DEF NewUserCreated
  <2>2. n \in Names /\ ~Taken(u, n)
    BY <1>4, <1>a, <2>1, GivenFree
  <2>3. UNCHANGED <<session, todo, gone>> /\ On /\ Found("buddy", u) = {}
        /\ blist' \subseteq blist \cup {NewBuddy(u)}
    BY <1>4 DEF NewUserCreated, WithBuddy
  <2>4. Num[u] \in DOMAIN id_to_purple_name'
    <3>1. TypeOK /\ u \in Peers
      BY <1>0, <1>a, <2>3 DEF On
    <3>2. DOMAIN id_to_purple_name' = DOMAIN id_to_purple_name \cup {Num[u]}
      BY <2>1, <2>2, <3>1, LookupTypes
    <3> QED
      BY <3>2
  <2>5. Grown(NewBuddy(u), u)
    BY <1>a, <2>4 DEF Grown, NewBuddy
  <2>6. \A b \in blist' : Grown(b, u)
    BY <1>a, <2>3, <2>5, GrownLess DEF NInv
  <2>7. \A b, c \in blist' : b.kind = "chat" /\ c.kind = "chat" /\ b.peer = c.peer => b = c
    BY <1>b, <2>3 DEF NewBuddy
  <2> QED
    BY <1>a, <2>1, <2>2, <2>3, <2>6, <2>7, OnlineStep DEF On
<1>5. ASSUME NEW u \in Users, UserDeleted(u)
      PROVE  NInv'
  <2>1. UNCHANGED <<session, todo, print_name, tables>> /\ On
        /\ gone \subseteq gone' /\ blist' \subseteq blist
    BY <1>5, RemovedSmaller DEF UserDeleted
  <2>2. \A b \in blist' : Grown(b, u)
    BY <2>1, GrownLess DEF NInv
  <2>3. PICK n : n \in Names
    BY <1>0, <1>5 DEF UserDeleted, Known, On, TypeOK
  <2> QED
    BY <1>a, <1>b, <2>1, <2>2, <2>3, OnlineStep DEF On
<1> QED
  BY <1>1, <1>2, <1>3, <1>4, <1>5 DEF OfUser

\* A step that only takes entries from the list or adds buddies under their names.
LEMMA ListStep ==
  ASSUME NumbersIdentify, NInv, SInv', On, UNCHANGED <<session, todo, print_name, tables, gone>>,
         NEW E, blist' \subseteq blist \cup E,
         \A b \in E : b.kind = "buddy" /\
           \/ b.peer = NoPeer
           \/ /\ b.peer \in Peers /\ Num[b.peer] \in DOMAIN id_to_purple_name
              /\ b.name = id_to_purple_name[Num[b.peer]]
  PROVE  NInv'
<1>0. Shapes /\ Self \in Peers /\ Self \notin Chats
  BY PeersAssumption DEF NInv, Peers, Chats
<1>1. \A b \in blist : Grown(b, Self)
  BY <1>0, GrownLess
<1>2. \A b \in E : Grown(b, Self)
  BY DEF Grown, tables
<1>3. \A b, c \in blist' : b.kind = "chat" /\ c.kind = "chat" /\ b.peer = c.peer => b = c
  BY <1>0 DEF Shapes
<1>4. \A b \in blist' : Grown(b, Self)
  BY <1>1, <1>2
<1>5. LegacyName(Self) \in Names
  BY <1>0, PeersAssumption DEF LegacyName, Names
<1> QED
  BY <1>0, <1>3, <1>4, <1>5, OnlineStep DEF On

\* A step that only takes entries from the list.
LEMMA LessStep ==
  ASSUME NumbersIdentify, NInv, SInv', On, UNCHANGED <<session, todo, print_name, tables, gone>>,
         blist' \subseteq blist
  PROVE  NInv'
<1>1. PICK E : E = {}
  OBVIOUS
<1>2. blist' \subseteq blist \cup E
  BY <1>1
<1>3. \A b \in E : b.kind = "buddy" /\
        \/ b.peer = NoPeer
        \/ /\ b.peer \in Peers /\ Num[b.peer] \in DOMAIN id_to_purple_name
           /\ b.name = id_to_purple_name[Num[b.peer]]
  BY <1>1
<1> QED
  BY <1>2, <1>3, ListStep

\* The entries of contacts.
LEMMA ContactEntries ==
  ASSUME TypeOK, NEW some, some \subseteq Peers, UNCHANGED tables
  PROVE  \A b \in WithContacts(some) :
           \/ b \in blist
           \/ /\ b.kind = "buddy" /\ b.peer \in Peers /\ Num[b.peer] \in DOMAIN id_to_purple_name
              /\ b.name = id_to_purple_name[Num[b.peer]]
  BY DEF WithContacts, NewBuddy, tables

\* The steps on the list.
LEMMA ListSteps ==
  ASSUME NumbersIdentify, NInv, SInv',
         \/ \E listed \in SUBSET Users : DialogList(listed)
         \/ \E b \in blist : RemoveEntry(b)
  PROVE  NInv'
<1>0. TypeOK
  BY DEF NInv, SInv
<1>1. ASSUME NEW listed \in SUBSET Users, DialogList(listed)
      PROVE  NInv'
  <2> DEFINE E == {b \in WithContacts(listed) : b \notin blist}
  <2>1. UNCHANGED <<session, todo, print_name, tables, gone>> /\ On /\ blist' = WithContacts(listed)
    BY <1>1 DEF DialogList
  <2>2. \A b \in E : /\ b.kind = "buddy" /\ b.peer \in Peers
                     /\ Num[b.peer] \in DOMAIN id_to_purple_name
                     /\ b.name = id_to_purple_name[Num[b.peer]]
    BY <1>0, <2>1, ContactEntries DEF Peers
  <2>3. blist' \subseteq blist \cup E
    BY <2>1
  <2> HIDE DEF E
  <2> QED
    BY <2>1, <2>2, <2>3, ListStep
<1>2. ASSUME NEW b \in blist, RemoveEntry(b)
      PROVE  NInv'
  <2>1. UNCHANGED <<session, todo, print_name, tables, gone>> /\ On /\ blist' \subseteq blist
    BY <1>2 DEF RemoveEntry
  <2> QED
    BY <2>1, LessStep
<1> QED
  BY <1>1, <1>2

\* After the end of a connection the names of the list and the file stay distinct.
LEMMA DisconnectedNames ==
  ASSUME NInv, SInv', Disconnected, UNCHANGED <<blist, saved>>
  PROVE  NInv'
<1>1. /\ DOMAIN print_name' = {} /\ DOMAIN id_to_purple_name' = {} /\ DOMAIN purple_name_to_id' = {}
      /\ session' = "off" /\ todo' = {}
  BY DEF Disconnected, EmptyTable
<1>2. Lookup' /\ Printed' /\ Listed' /\ Shown' /\ Callable' /\ Loading'
  BY <1>1 DEF Lookup, Printed, Listed, Shown, Callable, Loading
<1>3. Shapes' /\ Distinct'
  BY DEF NInv, Shapes, Distinct
<1> QED
  BY <1>2, <1>3 DEF NInv

\* tgprpl_add_buddy
LEMMA AddBuddyNames ==
  ASSUME NumbersIdentify, NInv, SInv', NEW name \in Names, AddBuddy(name)
  PROVE  NInv'
<1> DEFINE new == [kind |-> "buddy", peer |-> NoPeer, name |-> name]
           some == {q \in DOMAIN print_name : print_name[q] = name}
           E == {b \in WithContacts(some) : b \notin blist} \cup {new}
<1>1. CASE Disconnected /\ blist' = blist
  BY <1>1, DisconnectedNames DEF AddBuddy
<1>2. CASE /\ UNCHANGED <<session, todo, print_name, gone, tables, sc, asked, accepting>>
           /\ blist' = WithContacts(some) \cup {new}
  <2>1. TypeOK /\ some \subseteq Peers /\ On
    BY DEF NInv, SInv, TypeOK, AddBuddy
  <2>2. \A b \in E : b.kind = "buddy" /\
          \/ b.peer = NoPeer
          \/ /\ b.peer \in Peers /\ Num[b.peer] \in DOMAIN id_to_purple_name
             /\ b.name = id_to_purple_name[Num[b.peer]]
    BY <1>2, <2>1, ContactEntries
  <2>3. blist' \subseteq blist \cup E
    BY <1>2
  <2> HIDE DEF E, some, new
  <2> QED
    BY <1>2, <2>1, <2>2, <2>3, ListStep
<1> QED
  BY <1>1, <1>2 DEF AddBuddy

\* The steps of groups and channels.
LEMMA ChatsStep ==
  ASSUME NumbersIdentify, NInv, SInv', \E c \in Chats : OfChat(c)
  PROVE  NInv'
<1>0. TypeOK /\ Shapes /\ Listed /\ Callable /\ blist \subseteq Entry
  BY DEF NInv, SInv, TypeOK
<1>a. NoPeer \notin Peers /\ Chats \subseteq Peers /\ Users \cap Chats = {}
  BY PeersAssumption DEF Peers, Chats
<1>b. \A b, c \in blist : b.kind = "chat" /\ c.kind = "chat" /\ b.peer = c.peer => b = c
  BY <1>0 DEF Shapes
<1>c. \A c \in Chats : \A b \in Found("chat", c) : b.peer = c
  BY <1>0, <1>a DEF Found, NumbersIdentify, Shapes
<1>1. ASSUME NEW c \in Chats, NEW title \in Titles[c], ChatCreated(c, title)
      PROVE  NInv'
  <2>1. PICK n \in PrintNames(c, title) : Named(c, n) /\ LookupAdd(c, n)
    BY <1>1 DEF ChatCreated
  <2>2. n \in Names /\ ~Taken(c, n)
    BY <1>1, <1>a, <2>1, GivenFree
  <2>3. UNCHANGED <<session, todo, gone>> /\ On /\ ~Known(c)
    BY <1>1 DEF ChatCreated
  <2>4. Num[c] \in DOMAIN id_to_purple_name' /\ c \in DOMAIN print_name'
    <3>1. DOMAIN id_to_purple_name' = DOMAIN id_to_purple_name \cup {Num[c]}
      BY <1>0, <1>a, <2>1, <2>2, LookupTypes
    <3>2. DOMAIN print_name' = DOMAIN print_name \cup {c}
      BY <1>0, <1>a, <2>1, <2>2, NamedTypes
    <3> QED
      BY <3>1, <3>2
  <2> DEFINE new == [kind |-> "chat", peer |-> c, name |-> print_name'[c]]
  <2>5. /\ blist' \subseteq blist \cup {new}
        /\ Found("chat", c) # {} => blist' \subseteq blist
    <3>1. PICK left, join \in BOOLEAN : blist' \in Stored(c, left, join)
      BY <1>1 DEF ChatCreated
    <3>2. CASE left
      BY <3>1, <3>2, RemovedSmaller DEF Stored
    <3>3. CASE ~left /\ Found("chat", c) = {}
      BY <3>1, <3>3 DEF Stored
    <3>4. CASE ~left /\ Found("chat", c) # {}
      <4>1. PICK b \in Found("chat", c) : blist' = (blist \ {b}) \cup {[b EXCEPT !.peer = c]}
        BY <3>1, <3>4 DEF Stored
      <4>2. b \in blist /\ b \in Entry /\ b.peer = c
        BY <1>0, <1>c, <4>1 DEF Found
      <4>3. [b EXCEPT !.peer = c] = b
        BY <4>2 DEF Entry
      <4> QED
        BY <3>4, <4>1, <4>2, <4>3
    <3> QED
      BY <3>2, <3>3, <3>4
  <2>6. Grown(new, c)
    BY <1>a, <2>4 DEF Grown, Known
  <2>7. \A b \in blist' : Grown(b, c)
    BY <1>0, <2>3, <2>5, <2>6, GrownLess
  <2>8. \A b, d \in blist' : b.kind = "chat" /\ d.kind = "chat" /\ b.peer = d.peer => b = d
    <3>1. CASE Found("chat", c) # {}
      BY <1>b, <2>5, <3>1
    <3>2. CASE Found("chat", c) = {}
      <4>1. \A b \in blist : b.kind = "chat" => b.peer # c
        BY <1>a, <3>2 DEF Found
      <4> QED
        BY <1>b, <2>5, <4>1
    <3> QED
      BY <3>1, <3>2
  <2> QED
    BY <1>a, <2>1, <2>2, <2>3, <2>7, <2>8, OnlineStep DEF On
<1>2. ASSUME NEW c \in Chats, NEW title \in Titles[c], ChatRetitled(c, title)
      PROVE  NInv'
  <2>1. PICK n \in PrintNames(c, title) :
          /\ Named(c, n)
          /\ \/ Found("chat", c) = {} /\ UNCHANGED blist
             \/ \E b \in Found("chat", c) : blist' = (blist \ {b}) \cup {[b EXCEPT !.name = n]}
    BY <1>2 DEF ChatRetitled
  <2>2. n \in Names /\ ~Taken(c, n)
    BY <1>2, <1>a, <2>1, GivenFree
  <2>3. UNCHANGED <<session, todo, gone, tables>> /\ On /\ Known(c)
    BY <1>2 DEF ChatRetitled
  <2>4. /\ DOMAIN print_name' = DOMAIN print_name \cup {c} /\ print_name'[c] = n
    BY <1>0, <1>a, <2>1, <2>2, NamedTypes
  <2>5. Num[c] \in DOMAIN id_to_purple_name \/ c \in gone'
    BY <1>0, <2>3 DEF Callable, On, Known
  <2>6. gone \subseteq Users
    BY <1>0 DEF TypeOK
  <2>7. Num[c] \in DOMAIN id_to_purple_name'
    BY <1>a, <2>3, <2>5, <2>6 DEF tables
  <2>8. CASE Found("chat", c) = {} /\ UNCHANGED blist
    <3>1. \A b \in blist : b.kind = "chat" => b.peer # c
      BY <1>a, <2>8 DEF Found
    <3>2. \A b \in blist' : Grown(b, c)
      BY <2>8, <3>1 DEF Grown
    <3> QED
      BY <1>a, <1>b, <2>1, <2>2, <2>3, <2>5, <2>8, <3>2, OnlineStep DEF On
  <2>9. ASSUME NEW b \in Found("chat", c), blist' = (blist \ {b}) \cup {[b EXCEPT !.name = n]}
        PROVE  NInv'
    <3>1. b \in blist /\ b \in Entry /\ b.peer = c /\ b.kind = "chat"
      BY <1>0, <1>c, <2>9 DEF Found
    <3> DEFINE d == [b EXCEPT !.name = n]
    <3>2. d.kind = "chat" /\ d.peer = c /\ d.name = n
      BY <3>1 DEF Entry
    <3> HIDE DEF d
    <3>3. Grown(d, c)
      BY <2>4, <2>7, <3>2 DEF Grown, Known
    <3>4. \A x \in blist \ {b} : x.kind = "chat" => x.peer # c
      BY <1>b, <3>1
    <3>5. \A x \in blist \ {b} : Grown(x, c)
      BY <3>4 DEF Grown
    <3>6. blist' = (blist \ {b}) \cup {d}
      BY <2>9 DEF d
    <3>7. \A x, y \in blist' : x.kind = "chat" /\ y.kind = "chat" /\ x.peer = y.peer => x = y
      BY <1>b, <3>2, <3>4, <3>6
    <3>8. \A x \in blist' : Grown(x, c)
      BY <3>3, <3>5, <3>6
    <3> QED
      BY <1>a, <2>1, <2>2, <2>3, <2>5, <3>7, <3>8, OnlineStep DEF On
  <2> QED
    BY <2>1, <2>8, <2>9
<1>3. ASSUME NEW c \in Chats, ChatDeleted(c)
      PROVE  NInv'
  <2>1. UNCHANGED <<session, todo, print_name, tables, gone>> /\ On /\ blist' \subseteq blist
    BY <1>3, RemovedSmaller DEF ChatDeleted
  <2> QED
    BY <2>1, LessStep
<1> QED
  BY <1>1, <1>2, <1>3 DEF OfChat

\* Secret chats that are made, answered and ended.
LEMMA SecretsStep ==
  ASSUME NumbersIdentify, NInv, SInv', NEW e \in SecretChats, OfSecretChat(e), ~Restore(e)
  PROVE  NInv'
<1>0. TypeOK /\ Shapes /\ SecretNames /\ SecretFates
  BY DEF NInv, SInv
<1>a. e \in Peers /\ e \notin Users /\ e \notin Chats
  BY PeersAssumption DEF Peers, Chats
<1>b. \A b, c \in blist : b.kind = "chat" /\ c.kind = "chat" /\ b.peer = c.peer => b = c
  BY <1>0 DEF Shapes
<1>1. ASSUME NEW title \in Titles[e], NEW state, SecretCreated(e, title, state)
      PROVE  NInv'
  <2>1. PICK n \in PrintNames(e, title) : Named(e, n) /\ LookupAdd(e, n)
    BY <1>1 DEF SecretCreated
  <2>2. n \in Names /\ ~Taken(e, n)
    BY <1>1, <1>a, <2>1, GivenFree
  <2>3. UNCHANGED <<session, todo, gone>> /\ On /\ blist' \subseteq blist \cup {NewBuddy(e)}
    BY <1>1 DEF SecretCreated, WithBuddy
  <2>4. Num[e] \in DOMAIN id_to_purple_name'
    <3>1. DOMAIN id_to_purple_name' = DOMAIN id_to_purple_name \cup {Num[e]}
      BY <1>0, <1>a, <2>1, <2>2, LookupTypes
    <3> QED
      BY <3>1
  <2>5. Grown(NewBuddy(e), e)
    BY <1>a, <2>4 DEF Grown, NewBuddy
  <2>6. \A b \in blist' : Grown(b, e)
    BY <1>0, <1>a, <2>3, <2>5, GrownLess
  <2>7. \A b, c \in blist' : b.kind = "chat" /\ c.kind = "chat" /\ b.peer = c.peer => b = c
    BY <1>b, <2>3 DEF NewBuddy
  <2> QED
    BY <1>a, <2>1, <2>2, <2>3, <2>6, <2>7, OnlineStep DEF On
<1>2. CASE Accept(e) \/ AcceptFailed(e)
  <2>1. UNCHANGED <<session, todo, print_name, tables, gone>> /\ blist' \subseteq blist
    BY <1>2 DEF Accept, AcceptFailed
  <2>2. On
    BY <1>0, <1>2 DEF Accept, AcceptFailed, TypeOK, SecretNames, SecretFates, On
  <2> QED
    BY <2>1, <2>2, LessStep
<1>3. CASE Decline(e) \/ SecretDiscarded(e)
  <2>1. blist' \subseteq blist
    BY <1>3, RemovedSmaller DEF Decline, SecretDiscarded, Discarded
  <2>2. UNCHANGED <<session, todo, print_name, tables, gone>> /\ On
    BY <1>0, <1>3 DEF Decline, SecretDiscarded, SecretNames
  <2> QED
    BY <2>1, <2>2, LessStep
<1>4. CASE SecretWorking(e)
  <2> DEFINE E == {NewBuddy(e)}
  <2>1. UNCHANGED <<session, todo, print_name, tables, gone>> /\ blist' \subseteq blist \cup E
    BY <1>4 DEF SecretWorking, WithBuddy
  <2>2. On /\ Num[e] \in DOMAIN id_to_purple_name
    BY <1>0, <1>4 DEF SecretWorking, TypeOK, SecretNames, SecretFates, On, Known
  <2>3. \A b \in E : /\ b.kind = "buddy" /\ b.peer \in Peers
                     /\ Num[b.peer] \in DOMAIN id_to_purple_name
                     /\ b.name = id_to_purple_name[Num[b.peer]]
    BY <1>a, <2>1, <2>2 DEF NewBuddy, tables
  <2> HIDE DEF E
  <2> QED
    BY <2>1, <2>2, <2>3, ListStep
<1> QED
  BY <1>1, <1>2, <1>3, <1>4 DEF OfSecretChat, SecretStarted, SecretRequested

\* The list is about to be read.
LEMMA SignOnNames ==
  ASSUME NInv, SInv', SignOn
  PROVE  NInv'
<1>0. /\ session = "off" /\ session' = "loading" /\ todo' = {b \in blist : b.peer # NoPeer}
      /\ UNCHANGED <<print_name, gone, id_to_purple_name, purple_name_to_id, blist, saved>>
  BY DEF SignOn, tables, secrets
<1>1. DOMAIN print_name = {} /\ DOMAIN purple_name_to_id = {}
  BY <1>0 DEF NInv, SInv, SecretNames, Loading
<1>2. NoPeer \notin Users
  BY PeersAssumption DEF Peers
<1>3. Lookup' /\ Printed' /\ Shapes' /\ Distinct'
  BY <1>0 DEF NInv, Lookup, Printed, Shapes, Distinct
<1>4. Listed' /\ Shown' /\ Callable' /\ Loading'
  BY <1>0, <1>1, <1>2 DEF Listed, Shown, Callable, Loading
<1> QED
  BY <1>3, <1>4 DEF NInv

\* An entry of the list is read.
LEMMA LoadEntryNames ==
  ASSUME NumbersIdentify, NInv, SInv', NEW b \in todo, LoadEntry(b)
  PROVE  NInv'
<1>0. /\ TypeOK /\ session = "loading" /\ DOMAIN print_name = {}
      /\ b \in blist /\ b.peer \in Peers /\ b.name \in Names
      /\ UNCHANGED <<session, print_name, gone, blist, saved>> /\ todo' = todo \ {b}
  BY DEF NInv, SInv, TypeOK, Entry, Loading, LoadEntry, secrets
<1>a. NoPeer \notin Peers /\ Users \subseteq Peers /\ Users \cap Chats = {}
  BY PeersAssumption DEF Peers, Chats
<1>1. /\ DOMAIN id_to_purple_name' = DOMAIN id_to_purple_name \cup {Num[b.peer]}
      /\ id_to_purple_name'[Num[b.peer]] = b.name
      /\ \A k \in DOMAIN id_to_purple_name : k # Num[b.peer] =>
           id_to_purple_name'[k] = id_to_purple_name[k]
      /\ DOMAIN purple_name_to_id' = DOMAIN purple_name_to_id \cup {b.name}
      /\ purple_name_to_id'[b.name] = b.peer
      /\ \A m \in DOMAIN purple_name_to_id : m # b.name =>
           purple_name_to_id'[m] = purple_name_to_id[m]
  <2>1. LookupAdd(b.peer, b.name)
    BY DEF LoadEntry
  <2>2. PICK p \in Peers, n \in Names : p = b.peer /\ n = b.name
    BY <1>0
  <2>3. LookupAdd(p, n) /\ TypeOK
    BY <1>0, <2>1, <2>2
  <2>4. /\ DOMAIN id_to_purple_name' = DOMAIN id_to_purple_name \cup {Num[p]}
        /\ id_to_purple_name'[Num[p]] = n
        /\ \A k \in DOMAIN id_to_purple_name : k # Num[p] =>
             id_to_purple_name'[k] = id_to_purple_name[k]
        /\ DOMAIN purple_name_to_id' = DOMAIN purple_name_to_id \cup {n}
        /\ purple_name_to_id'[n] = p
        /\ \A m \in DOMAIN purple_name_to_id : m # n =>
             purple_name_to_id'[m] = purple_name_to_id[m]
    BY <2>3, LookupTypes
  <2> QED
    BY <2>2, <2>4
<1>2. b.name \in DOMAIN purple_name_to_id => purple_name_to_id[b.name] = b.peer
  <2> SUFFICES ASSUME b.name \in DOMAIN purple_name_to_id
               PROVE  purple_name_to_id[b.name] = b.peer
    OBVIOUS
  <2>1. purple_name_to_id[b.name] \in Peers
    BY <1>0 DEF TypeOK
  <2>2. \/ \E c \in blist : c.peer = purple_name_to_id[b.name] /\ c.name = b.name
        \/ /\ purple_name_to_id[b.name] \in DOMAIN saved
           /\ saved[purple_name_to_id[b.name]] = b.name
    BY <1>0 DEF NInv, Loading
  <2> QED
    BY <1>0, <1>a, <2>1, <2>2 DEF NInv, Distinct
<1>3. \A m \in DOMAIN purple_name_to_id :
        m \in DOMAIN purple_name_to_id' /\ purple_name_to_id'[m] = purple_name_to_id[m]
  BY <1>1, <1>2
<1>4. Lookup'
  BY <1>1, <1>3 DEF NInv, Lookup
<1>5. Printed' /\ Callable' /\ Shapes' /\ Distinct'
  BY <1>0 DEF NInv, Printed, Callable, Shapes, Distinct
<1>6. Listed'
  <2> SUFFICES ASSUME NEW c \in blist \ todo', c.peer # NoPeer
               PROVE  /\ Num[c.peer] \in DOMAIN id_to_purple_name'
                      /\ c.name \in DOMAIN purple_name_to_id' /\ purple_name_to_id'[c.name] = c.peer
    BY <1>0 DEF Listed
  <2>1. CASE c = b
    BY <1>1, <2>1
  <2>2. CASE c # b
    <3>1. /\ Num[c.peer] \in DOMAIN id_to_purple_name
          /\ c.name \in DOMAIN purple_name_to_id /\ purple_name_to_id[c.name] = c.peer
      BY <1>0, <2>2 DEF NInv, Listed, Known
    <3> QED
      BY <1>1, <1>3, <3>1
  <2> QED
    BY <2>1, <2>2
<1>7. Shown'
  <2> SUFFICES ASSUME NEW c \in blist \ todo', c.kind = "buddy", c.peer \in Users \ {Self}
               PROVE  id_to_purple_name'[Num[c.peer]] = c.name
    BY <1>0 DEF Shown
  <2>1. CASE c = b
    BY <1>1, <2>1
  <2>2. CASE c # b /\ c.peer = b.peer
    <3>1. b.kind = "buddy"
      BY <1>0, <1>a, <2>2 DEF NInv, Shapes, TypeOK, Entry
    <3>2. b.name = c.name
      BY <1>0, <2>2, <3>1 DEF NInv, Shapes
    <3> QED
      BY <1>1, <2>2, <3>2
  <2>3. CASE c # b /\ c.peer # b.peer
    <3>1. Num[c.peer] # Num[b.peer]
      BY <1>0, <1>a, <2>3 DEF NumbersIdentify
    <3>2. id_to_purple_name[Num[c.peer]] = c.name /\ Num[c.peer] \in DOMAIN id_to_purple_name
      BY <1>0, <1>a, <2>3 DEF NInv, Shown, Listed
    <3> QED
      BY <1>1, <3>1, <3>2
  <2> QED
    BY <2>1, <2>2, <2>3
<1>8. Loading'
  <2>1. \A n \in DOMAIN purple_name_to_id' :
          \/ \E c \in blist : c.peer = purple_name_to_id'[n] /\ c.name = n
          \/ purple_name_to_id'[n] \in DOMAIN saved /\ saved[purple_name_to_id'[n]] = n
    BY <1>0, <1>1, <1>3 DEF NInv, Loading
  <2> QED
    BY <1>0, <2>1 DEF NInv, Loading
<1> QED
  BY <1>4, <1>5, <1>6, <1>7, <1>8 DEF NInv

\* A secret chat is read from the file.
LEMMA RestoreNames ==
  ASSUME NumbersIdentify, NInv, SInv', NEW e \in SecretChats, Restore(e)
  PROVE  NInv'
<1>0. /\ TypeOK /\ session = "loading" /\ todo = {} /\ e \in DOMAIN saved
      /\ e \notin DOMAIN print_name /\ blist' = WithBuddy(e)
      /\ UNCHANGED <<session, todo, gone, saved>>
  BY DEF NInv, SInv, Restore, Known
<1>a. /\ NoPeer \notin Peers /\ e \in Peers /\ e \notin Users /\ e \notin Chats
      /\ Users \subseteq Peers /\ Chats \cap SecretChats = {}
  BY PeersAssumption DEF Peers, Chats
<1>1. PICK n \in Names : n = saved[e] /\ Named(e, n) /\ LookupAdd(e, n)
  BY <1>0 DEF Restore, TypeOK
<1>2. \A q \in DOMAIN print_name : q \in DOMAIN saved /\ saved[q] = print_name[q]
  BY <1>0 DEF NInv, SInv, SecretFates
<1>3. ~Taken(e, n)
  <2>1. CASE n \in DOMAIN purple_name_to_id
    <3>1. purple_name_to_id[n] \in Peers
      BY <1>0, <2>1 DEF TypeOK
    <3>2. \/ \E c \in blist : c.peer = purple_name_to_id[n] /\ c.name = n
          \/ purple_name_to_id[n] \in DOMAIN saved /\ saved[purple_name_to_id[n]] = n
      BY <1>0, <2>1 DEF NInv, Loading
    <3>3. purple_name_to_id[n] = e
      BY <1>0, <1>1, <1>a, <3>1, <3>2 DEF NInv, Distinct
    <3> QED
      BY <2>1, <3>3 DEF Taken
  <2>2. CASE n \notin DOMAIN purple_name_to_id
    <3>1. \A q \in DOMAIN print_name : print_name[q] # n
      BY <1>0, <1>1, <1>2 DEF NInv, Distinct
    <3> QED
      BY <2>2, <3>1 DEF Taken
  <2> QED
    BY <2>1, <2>2
<1>4. /\ Lookup' /\ Printed'
      /\ \A m \in DOMAIN purple_name_to_id :
           m \in DOMAIN purple_name_to_id' /\ purple_name_to_id'[m] = purple_name_to_id[m]
  BY <1>0, <1>1, <1>3, <1>a, TablesStep DEF NInv
<1>5. /\ DOMAIN id_to_purple_name' = DOMAIN id_to_purple_name \cup {Num[e]}
      /\ id_to_purple_name'[Num[e]] = n
      /\ \A k \in DOMAIN id_to_purple_name : k # Num[e] =>
           id_to_purple_name'[k] = id_to_purple_name[k]
      /\ DOMAIN purple_name_to_id' = DOMAIN purple_name_to_id \cup {n}
      /\ purple_name_to_id'[n] = e
  BY <1>0, <1>1, <1>a, LookupTypes
<1> DEFINE new == [kind |-> "buddy", peer |-> e, name |-> n]
<1>6. blist' \subseteq blist \cup {new}
  BY <1>0, <1>5 DEF WithBuddy, NewBuddy
<1>7. Listed'
  <2> SUFFICES ASSUME NEW b \in blist', b.peer # NoPeer
               PROVE  /\ Num[b.peer] \in DOMAIN id_to_purple_name'
                      /\ b.name \in DOMAIN purple_name_to_id' /\ purple_name_to_id'[b.name] = b.peer
    BY DEF Listed
  <2>1. CASE b \in blist
    <3>1. ~(b.kind = "chat" /\ Known(b.peer))
      BY <1>0, <1>2, <1>a, <2>1 DEF NInv, Shapes, TypeOK, Known
    <3>2. /\ Num[b.peer] \in DOMAIN id_to_purple_name
          /\ b.name \in DOMAIN purple_name_to_id /\ purple_name_to_id[b.name] = b.peer
      BY <1>0, <2>1, <3>1 DEF NInv, Listed
    <3> QED
      BY <1>4, <1>5, <3>2
  <2>2. CASE b = new
    BY <1>5, <2>2
  <2> QED
    BY <1>6, <2>1, <2>2
<1>8. Shapes'
  <2>1. new.kind = "buddy" /\ new.peer = e
    OBVIOUS
  <2> HIDE DEF new
  <2> QED
    BY <1>6, <1>a, <2>1 DEF NInv, Shapes
<1>9. Distinct'
  <2>1. new.peer = e /\ new.name = saved[e]
    BY <1>1
  <2> HIDE DEF new
  <2> QED
    BY <1>0, <1>6, <2>1 DEF NInv, Distinct
<1>10. Shown'
  <2> SUFFICES ASSUME NEW b \in blist', b.kind = "buddy", b.peer \in Users \ {Self}
               PROVE  id_to_purple_name'[Num[b.peer]] = b.name
    BY DEF Shown
  <2>1. b \in blist /\ b.peer # e /\ b.peer \in Peers /\ b.peer # NoPeer
    BY <1>6, <1>a
  <2>2. id_to_purple_name[Num[b.peer]] = b.name /\ Num[b.peer] \in DOMAIN id_to_purple_name
    BY <1>0, <2>1 DEF NInv, Shown, Listed
  <2>3. Num[b.peer] # Num[e]
    BY <1>a, <2>1 DEF NumbersIdentify
  <2> QED
    BY <1>5, <2>2, <2>3
<1>11. Callable'
  <2>1. DOMAIN print_name' = DOMAIN print_name \cup {e}
    BY <1>0, <1>1, <1>a, NamedTypes
  <2> QED
    BY <1>0, <1>5, <2>1 DEF NInv, Callable
<1>12. Loading'
  <2>1. blist \subseteq blist'
    BY <1>0 DEF WithBuddy
  <2>2. \A m \in DOMAIN purple_name_to_id' :
          \/ \E c \in blist' : c.peer = purple_name_to_id'[m] /\ c.name = m
          \/ purple_name_to_id'[m] \in DOMAIN saved /\ saved[purple_name_to_id'[m]] = m
    <3> SUFFICES ASSUME NEW m \in DOMAIN purple_name_to_id'
                 PROVE  \/ \E c \in blist' : c.peer = purple_name_to_id'[m] /\ c.name = m
                        \/ purple_name_to_id'[m] \in DOMAIN saved /\ saved[purple_name_to_id'[m]] = m
      OBVIOUS
    <3>1. CASE m = n
      BY <1>0, <1>1, <1>5, <3>1
    <3>2. CASE m # n
      <4>1. m \in DOMAIN purple_name_to_id /\ purple_name_to_id'[m] = purple_name_to_id[m]
        BY <1>4, <1>5, <3>2
      <4>2. \/ \E c \in blist : c.peer = purple_name_to_id[m] /\ c.name = m
            \/ purple_name_to_id[m] \in DOMAIN saved /\ saved[purple_name_to_id[m]] = m
        BY <1>0, <4>1 DEF NInv, Loading
      <4> QED
        BY <2>1, <4>1, <4>2
    <3> QED
      BY <3>1, <3>2
  <2> QED
    BY <1>0, <2>2 DEF Loading
<1> QED
  BY <1>4, <1>7, <1>8, <1>9, <1>10, <1>11, <1>12 DEF NInv

\* Every step keeps the invariant.
LEMMA NInvStep ==
  ASSUME NumbersIdentify
  PROVE  NInv /\ [Next]_vars => NInv'
<1> SUFFICES ASSUME NInv, [Next]_vars PROVE NInv'
  OBVIOUS
<1>0. SInv'
  BY SInvStep DEF NInv
<1>1. CASE SignOn
  BY <1>0, <1>1, SignOnNames
<1>2. ASSUME NEW b \in todo, LoadEntry(b) PROVE NInv'
  BY <1>0, <1>2, LoadEntryNames
<1>3. CASE Loaded
  BY <1>0, <1>3 DEF NInv, Loaded, tables, secrets, Lookup, Printed, Listed, Shapes, Distinct,
     Shown, Callable, Loading, Known
<1>4. CASE SignOff
  BY <1>0, <1>4, DisconnectedNames DEF SignOff
<1>5. CASE \/ \E title \in Titles[Self] : OwnUserNamed(title)
           \/ \E u \in Users : OfUser(u)
  BY <1>0, <1>5, UsersStep
<1>6. ASSUME NEW p \in Peers, NEW name \in Titles[p], AddBuddy(name)
      PROVE  NInv'
  BY <1>0, <1>6, TitleNames, AddBuddyNames
<1>7. CASE \/ \E listed \in SUBSET Users : DialogList(listed)
           \/ \E b \in blist : RemoveEntry(b)
  BY <1>0, <1>7, ListSteps
<1>8. CASE \E c \in Chats : OfChat(c)
  BY <1>0, <1>8, ChatsStep
<1>9. ASSUME NEW e \in SecretChats, OfSecretChat(e)
      PROVE  NInv'
  BY <1>0, <1>9, SecretsStep, RestoreNames
<1>10. CASE WriteFiles
  <2>1. UNCHANGED <<session, todo, print_name, tables, gone>> /\ On /\ blist' \subseteq blist
    BY <1>10 DEF WriteFiles
  <2> QED
    BY <1>0, <2>1, LessStep
<1>11. CASE UNCHANGED vars
  BY <1>0, <1>11 DEF vars, tables, secrets, NInv, Lookup, Printed, Listed, Shapes, Distinct,
     Shown, Callable, Loading, Known
<1> QED
  BY <1>1, <1>2, <1>3, <1>4, <1>5, <1>6, <1>7, <1>8, <1>9, <1>10, <1>11 DEF Next

\* While numbers identify the peers, a name leads back to the peer it was shown for.
THEOREM NamesLead ==
  ASSUME NumbersIdentify
  PROVE  Spec => []NamesLeadBack
<1>1. NInv => NamesLeadBack
  <2> SUFFICES ASSUME NInv PROVE NamesLeadBack
    OBVIOUS
  <2>1. ASSUME On, NEW p \in DOMAIN print_name \ gone
        PROVE  /\ Num[p] \in DOMAIN id_to_purple_name
               /\ id_to_purple_name[Num[p]] \in DOMAIN purple_name_to_id
               /\ purple_name_to_id[id_to_purple_name[Num[p]]] = p
    <3>1. p \in Peers /\ Num[p] \in DOMAIN id_to_purple_name
      BY <2>1 DEF NInv, SInv, TypeOK, Callable, On
    <3>2. /\ id_to_purple_name[Num[p]] \in DOMAIN purple_name_to_id
          /\ Num[purple_name_to_id[id_to_purple_name[Num[p]]]] = Num[p]
      BY <3>1 DEF NInv, Lookup
    <3>3. purple_name_to_id[id_to_purple_name[Num[p]]] \in Peers
      BY <3>2 DEF NInv, SInv, TypeOK
    <3> QED
      BY <3>1, <3>2, <3>3 DEF NumbersIdentify
  <2> QED
    BY <2>1 DEF NInv, Printed, NamesLeadBack
<1> QED
  BY <1>1, NInvInit, NInvStep, PTL DEF Spec

\* ... and the entries of two peers never have the same name, in no session.
THEOREM EntriesDiffer ==
  ASSUME NumbersIdentify
  PROVE  Spec => []EntriesOwnNames
<1>1. NInv => EntriesOwnNames
  BY DEF NInv, SInv, TypeOK, Distinct, Listed, Shown, Loading, EntriesOwnNames, On
<1> QED
  BY <1>1, NInvInit, NInvStep, PTL DEF Spec

\* ... and a name in use is given to nobody else.
THEOREM NamesStay ==
  ASSUME NumbersIdentify
  PROVE  Spec => NamesKept
<1> DEFINE Kept == \A n \in DOMAIN purple_name_to_id :
             n \in DOMAIN purple_name_to_id' /\ purple_name_to_id'[n] = purple_name_to_id[n]
<1>1. NInv /\ [Next]_vars => [session' = "on" /\ On => Kept]_vars
  <2> SUFFICES ASSUME NInv, Next, session' = "on", On PROVE Kept
    OBVIOUS
  <2>0. TypeOK /\ Lookup /\ Printed /\ todo = {}
    BY DEF NInv, SInv, Loading, On
  <2>a. Users \subseteq Peers /\ Chats \subseteq Peers /\ SecretChats \subseteq Peers /\ Self \in Peers
    BY PeersAssumption DEF Peers, Chats
  <2>1. ASSUME NEW p \in Peers, NEW title \in Titles[p], NEW n \in PrintNames(p, title),
               Named(p, n), LookupAdd(p, n)
        PROVE  Kept
    <3>1. n \in Names /\ ~Taken(p, n)
      BY <2>1, GivenFree
    <3> QED
      BY <2>0, <2>1, <3>1, TablesStep
  <2>2. CASE UNCHANGED tables
    BY <2>2 DEF tables
  <2>3. ASSUME NEW title \in Titles[Self], OwnUserNamed(title) PROVE Kept
    BY <2>a, <2>1, <2>3 DEF OwnUserNamed
  <2>4. ASSUME NEW u \in Users, NEW title \in Titles[u], NewUserCreated(u, title) PROVE Kept
    BY <2>a, <2>1, <2>4 DEF NewUserCreated
  <2>5. ASSUME NEW c \in Chats, NEW title \in Titles[c], ChatCreated(c, title) PROVE Kept
    BY <2>a, <2>1, <2>5 DEF ChatCreated
  <2>6. ASSUME NEW e \in SecretChats, NEW title \in Titles[e], NEW state,
               SecretCreated(e, title, state)
        PROVE  Kept
    BY <2>a, <2>1, <2>6 DEF SecretCreated
  <2>7. CASE SignOn \/ SignOff \/ Loaded \/ WriteFiles \/ (\E b \in todo : LoadEntry(b))
    BY <2>0, <2>2, <2>7 DEF SignOn, SignOff, Disconnected, Loaded, WriteFiles, On
  <2>8. ASSUME NEW name, AddBuddy(name) PROVE Kept
    BY <2>2, <2>8 DEF AddBuddy, Disconnected
  <2>9. ASSUME NEW u \in Users, OfUser(u) PROVE Kept
    BY <2>2, <2>4, <2>9 DEF OfUser, DeletedUserCreated, ListedUserCreated, UserRenamed, UserDeleted
  <2>10. CASE \/ \E listed \in SUBSET Users : DialogList(listed)
              \/ \E b \in blist : RemoveEntry(b)
    BY <2>2, <2>10 DEF DialogList, RemoveEntry
  <2>11. ASSUME NEW c \in Chats, OfChat(c) PROVE Kept
    BY <2>2, <2>5, <2>11 DEF OfChat, ChatRetitled, ChatDeleted
  <2>12. ASSUME NEW e \in SecretChats, OfSecretChat(e) PROVE Kept
    <3>1. CASE \E title \in Titles[e] : SecretStarted(e, title) \/ SecretRequested(e, title)
      BY <2>6, <3>1 DEF SecretStarted, SecretRequested
    <3>2. CASE Restore(e)
      BY <3>2 DEF Restore, On
    <3>3. CASE Accept(e) \/ AcceptFailed(e) \/ Decline(e) \/ SecretWorking(e) \/ SecretDiscarded(e)
      BY <2>2, <3>3 DEF Accept, AcceptFailed, Decline, SecretWorking, SecretDiscarded
    <3> QED
      BY <2>12, <3>1, <3>2, <3>3 DEF OfSecretChat
  <2> QED
    BY <2>3, <2>7, <2>8, <2>9, <2>10, <2>11, <2>12 DEF Next
<1> QED
  BY <1>1, NInvInit, NInvStep, PTL DEF Spec, NamesKept
=============================================================================

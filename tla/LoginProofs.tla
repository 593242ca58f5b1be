----------------------------- MODULE LoginProofs -----------------------------
(***************************************************************************)
(* Proofs about Login: every question has one place to be answered, and    *)
(* nothing waits for a dialogue list that is there.  The second needs to   *)
(* know that a chat which waits to be joined is in pending_joins, because  *)
(* only what is there is served.  And the type invariant, whose hard part  *)
(* are the counters of the questions asked again (Bounds).                 *)
(***************************************************************************)
EXTENDS Login, TLAPS, SequenceTheorems

Fates == {"waiting", "served", "refused", "forgotten", "closed"}

\* The part of the type invariant that the arguments use.
Types ==
  /\ client.api \in BOOLEAN
  /\ error \in BOOLEAN /\ dialog \in BOOLEAN /\ request_code_data \in BOOLEAN
  /\ joins \in Seq([kind : JoinKinds, fate : Fates])
  /\ pending_joins \in Seq(Nat)

\* Every chat that waits is in the list that on_get_dialog_list_done works off.
WaitingIsPending ==
  \A n \in DOMAIN joins : joins[n].fate = "waiting" =>
    \E k \in DOMAIN pending_joins : pending_joins[k] = n

\* No chat waits for an account that is down, and none is joined there.
NothingWhenDown ==
  phase = "down" => ~connected /\ \A n \in DOMAIN joins : joins[n].fate # "waiting"

\* Once the dialogue list is there nothing waits for it.
NoneWaits ==
  dialogues_ready =>
    /\ \A n \in DOMAIN joins : joins[n].fate # "waiting"
    /\ pending_joins = <<>> /\ roomlist # "progress"

\* A chat that is asked for by its id waits, gets what a join gets when the dialogue
\* list is there, or is closed with its account.
Remembered ==
  \A n \in DOMAIN joins : joins[n].kind # "named" =>
    joins[n].fate \in {"waiting", "closed", Fate(joins[n].kind)}

Inv == Types /\ QuestionHeard /\ WaitingIsPending /\ NothingWhenDown /\ NoneWaits /\ Remembered

------------------------------------------------------------------------------
(* Questions *)

LEMMA QuestionInit == Init => QuestionHeard
<1> QED
  BY DEF Init, QuestionHeard

\* A dialog is opened for a question that had no place yet.
LEMMA OpenDialogHeard ==
  ASSUME Types, OpenDialog, ~request_code_data
  PROVE  QuestionHeard'
<1>1. /\ asked' = "asked" /\ dialog' = client.api /\ request_code_data' = FALSE
      /\ ~client.api => error'
  BY DEF Types, OpenDialog
<1> QED
  BY <1>1 DEF QuestionHeard, Types

LEMMA AskHeard ==
  ASSUME Types, QuestionHeard, Ask
  PROVE  QuestionHeard'
<1>1. ~dialog /\ ~request_code_data
  BY DEF Ask, QuestionHeard
<1>2. CASE AskPhone
  BY <1>1, <1>2 DEF AskPhone, QuestionHeard
<1>3. CASE AskName
  BY <1>1, <1>3, OpenDialogHeard DEF AskName
<1>4. CASE AskCode
  <2>1. CASE client.api /\ ~client.compat
    BY <1>1, <1>4, <2>1, OpenDialogHeard DEF AskCode
  <2>2. CASE ~(client.api /\ ~client.compat)
    BY <1>1, <1>4, <2>2 DEF AskCode, QuestionHeard
  <2> QED
    BY <2>1, <2>2
<1>5. CASE AskPassword
  <2>1. CASE client.password /\ password_retries < 1
    BY <1>1, <1>5, <2>1 DEF AskPassword, QuestionHeard
  <2>2. CASE ~(client.password /\ password_retries < 1)
    BY <1>1, <1>5, <2>2, OpenDialogHeard DEF AskPassword
  <2> QED
    BY <2>1, <2>2
<1> QED
  BY <1>2, <1>3, <1>4, <1>5 DEF Ask

LEMMA QuestionStep ==
  ASSUME Types, QuestionHeard, [Next]_vars
  PROVE  QuestionHeard'
<1>1. CASE SignOn \/ Disconnect \/ SignOff
  BY <1>1 DEF SignOn, Disconnect, SignOff, Closed, NewConnection, QuestionHeard
<1>2. CASE Ask
  BY <1>2, AskHeard
<1>3. CASE AnswerInDialog \/ CancelDialog
  BY <1>3 DEF AnswerInDialog, CancelDialog, QuestionHeard, session
<1>4. CASE SendIm
  BY <1>4 DEF SendIm, QuestionHeard, session
<1>5. CASE Accepted \/ Refused
  BY <1>5 DEF Accepted, Refused, QuestionHeard, session
<1>6. CASE LoggedIn \/ FailedLogin \/ FailedOtherwise \/ Revoke
  BY <1>6 DEF LoggedIn, FailedLogin, FailedOtherwise, Revoke, QuestionHeard, session, questions
<1>7. CASE Ready \/ DialogList \/ DialogListFailed
  BY <1>7 DEF Ready, DialogList, DialogListFailed, QuestionHeard, session, questions
<1>8. CASE (\E kind \in JoinKinds : Join(kind)) \/ GetRoomlist \/ CancelRoomlist
  <2>1. UNCHANGED <<session, questions>>
    BY <1>8 DEF Join, GetRoomlist, CancelRoomlist
  <2> QED
    BY <2>1 DEF QuestionHeard, session, questions
<1>9. CASE UNCHANGED vars
  BY <1>9 DEF vars, QuestionHeard, session, questions
<1> QED
  BY <1>1, <1>2, <1>3, <1>4, <1>5, <1>6, <1>7, <1>8, <1>9 DEF Next

------------------------------------------------------------------------------
(* Types *)

LEMMA TypesInit == Init => Types
<1> SUFFICES ASSUME Init PROVE Types
  OBVIOUS
<1>1. client.api \in BOOLEAN
  BY DEF Init
<1>2. joins \in Seq([kind : JoinKinds, fate : Fates]) /\ pending_joins \in Seq(Nat)
  BY EmptySeq DEF Init
<1> QED
  BY <1>1, <1>2 DEF Init, Types

\* The theorem IsASeq, for a function.
LEMMA FunctionIsSeq ==
  ASSUME NEW S, NEW n \in Nat, NEW f \in [1 .. n -> S]
  PROVE  f \in Seq(S)
<1> QED
  BY SeqDef

\* Chats that get a new fate are still chats, and none is added.
LEMMA NewFates ==
  ASSUME NEW j, joins \in Seq([kind : JoinKinds, fate : Fates]),
         j = [n \in DOMAIN joins |-> j[n]],
         \A n \in DOMAIN joins :
           j[n] = joins[n] \/ \E x \in Fates : j[n] = [joins[n] EXCEPT !.fate = x]
  PROVE  /\ j \in Seq([kind : JoinKinds, fate : Fates])
         /\ DOMAIN j = DOMAIN joins
<1>1. /\ DOMAIN joins = 1 .. Len(joins) /\ Len(joins) \in Nat
      /\ \A n \in DOMAIN joins : joins[n] \in [kind : JoinKinds, fate : Fates]
  <2>1. DOMAIN joins = 1 .. Len(joins) /\ Len(joins) \in Nat
    BY LenProperties
  <2>2. \A n \in 1 .. Len(joins) : joins[n] \in [kind : JoinKinds, fate : Fates]
    BY ElementOfSeq
  <2> QED
    BY <2>1, <2>2
<1>2. \A n \in DOMAIN joins : j[n] \in [kind : JoinKinds, fate : Fates]
  BY <1>1
<1>3. j \in [1 .. Len(joins) -> [kind : JoinKinds, fate : Fates]]
  BY <1>1, <1>2
<1> QED
  BY <1>1, <1>3, FunctionIsSeq

\* What becomes of the chats when the account is closed.
LEMMA ClosedJoins ==
  ASSUME Types, Closed
  PROVE  /\ joins' \in Seq([kind : JoinKinds, fate : Fates])
         /\ \A n \in DOMAIN joins' : joins'[n].fate # "waiting"
<1> DEFINE j == [n \in DOMAIN joins |->
                   IF joins[n].fate = "waiting" THEN [joins[n] EXCEPT !.fate = "closed"]
                   ELSE joins[n]]
<1>1. joins' = j /\ joins \in Seq([kind : JoinKinds, fate : Fates])
  BY DEF Closed, Types
<1>2. \A n \in DOMAIN joins : joins[n] \in [kind : JoinKinds, fate : Fates]
  BY <1>1, LenProperties, ElementOfSeq
<1>3. \A n \in DOMAIN joins :
        j[n] = joins[n] \/ \E x \in Fates : j[n] = [joins[n] EXCEPT !.fate = x]
  BY DEF Fates
<1>4. \A n \in DOMAIN joins : j[n].fate # "waiting"
  BY <1>2
<1>5. j = [n \in DOMAIN joins |-> j[n]]
  OBVIOUS
<1>6. j \in Seq([kind : JoinKinds, fate : Fates]) /\ DOMAIN j = DOMAIN joins
  <2> HIDE DEF j
  <2> QED
    BY <1>1, <1>3, <1>5, NewFates
<1> QED
  BY <1>1, <1>4, <1>6

\* What becomes of them when the dialogue list comes.
LEMMA ServedJoins ==
  ASSUME Types, WaitingIsPending, DialogList
  PROVE  /\ joins' \in Seq([kind : JoinKinds, fate : Fates])
         /\ \A n \in DOMAIN joins' : joins'[n].fate # "waiting"
<1> DEFINE pending(n) == \E k \in DOMAIN pending_joins : pending_joins[k] = n
           j == [n \in DOMAIN joins |->
                   IF pending(n) THEN [joins[n] EXCEPT !.fate = Fate(joins[n].kind)]
                   ELSE joins[n]]
<1>1. joins' = j /\ joins \in Seq([kind : JoinKinds, fate : Fates])
  BY DEF DialogList, Types
<1>2. \A n \in DOMAIN joins : joins[n] \in [kind : JoinKinds, fate : Fates]
  BY <1>1, LenProperties, ElementOfSeq
<1>3. \A kind : Fate(kind) \in Fates \ {"waiting"}
  BY DEF Fate, Fates
<1>4. \A n \in DOMAIN joins :
        j[n] = joins[n] \/ \E x \in Fates : j[n] = [joins[n] EXCEPT !.fate = x]
  BY <1>3
<1>5. \A n \in DOMAIN joins : j[n].fate # "waiting"
  BY <1>2, <1>3 DEF WaitingIsPending
<1>6. j = [n \in DOMAIN joins |-> j[n]]
  OBVIOUS
<1>7. j \in Seq([kind : JoinKinds, fate : Fates]) /\ DOMAIN j = DOMAIN joins
  <2> HIDE DEF j
  <2> QED
    BY <1>1, <1>4, <1>6, NewFates
<1> QED
  BY <1>1, <1>5, <1>7

\* A chat that is joined is added, to the pending ones if it waits.
LEMMA JoinedChats ==
  ASSUME Types, WaitingIsPending, NEW kind \in JoinKinds, Join(kind)
  PROVE  /\ joins' \in Seq([kind : JoinKinds, fate : Fates])
         /\ pending_joins' \in Seq(Nat)
         /\ WaitingIsPending'
         /\ dialogues_ready => /\ pending_joins' = pending_joins
                               /\ \A n \in DOMAIN joins' :
                                    (n \in DOMAIN joins /\ joins'[n] = joins[n])
                                      \/ joins'[n].fate # "waiting"
<1> DEFINE fate == IF dialogues_ready THEN Fate(kind)
                   ELSE IF kind = "named" THEN "forgotten" ELSE "waiting"
           join == [kind |-> kind, fate |-> fate]
<1>1. /\ joins' = Append(joins, join)
      /\ pending_joins' = IF fate = "waiting" THEN Append(pending_joins, Len(joins'))
                          ELSE pending_joins
  BY DEF Join
<1>2. fate \in Fates /\ (dialogues_ready => fate # "waiting")
  BY DEF Fate, Fates
<1> HIDE DEF fate
<1>3. join \in [kind : JoinKinds, fate : Fates] /\ join.fate = fate
  BY <1>2
<1> HIDE DEF join
<1>4. /\ joins \in Seq([kind : JoinKinds, fate : Fates]) /\ pending_joins \in Seq(Nat)
      /\ Len(joins) \in Nat /\ DOMAIN joins = 1 .. Len(joins)
      /\ Len(pending_joins) \in Nat /\ DOMAIN pending_joins = 1 .. Len(pending_joins)
  BY LenProperties DEF Types
<1>5. /\ joins' \in Seq([kind : JoinKinds, fate : Fates])
      /\ Len(joins') = Len(joins) + 1 /\ DOMAIN joins' = 1 .. Len(joins) + 1
      /\ \A n \in 1 .. Len(joins) : joins'[n] = joins[n]
      /\ joins'[Len(joins) + 1] = join
  BY <1>1, <1>3, <1>4, AppendProperties, LenProperties
<1>6. CASE fate = "waiting"
  <2>1. pending_joins' = Append(pending_joins, Len(joins) + 1)
    BY <1>1, <1>5, <1>6
  <2>2. /\ pending_joins' \in Seq(Nat)
        /\ DOMAIN pending_joins' = 1 .. Len(pending_joins) + 1
        /\ \A k \in 1 .. Len(pending_joins) : pending_joins'[k] = pending_joins[k]
        /\ pending_joins'[Len(pending_joins) + 1] = Len(joins) + 1
    BY <2>1, <1>4, AppendProperties, LenProperties
  <2>3. ASSUME NEW n \in DOMAIN joins', joins'[n].fate = "waiting"
        PROVE  \E k \in DOMAIN pending_joins' : pending_joins'[k] = n
    <3>1. CASE n = Len(joins) + 1
      BY <3>1, <2>2, <1>4
    <3>2. CASE n \in 1 .. Len(joins)
      <4>1. PICK k \in DOMAIN pending_joins : pending_joins[k] = n
        BY <3>2, <2>3, <1>4, <1>5 DEF WaitingIsPending
      <4> QED
        BY <4>1, <2>2, <1>4
    <3> QED
      BY <3>1, <3>2, <1>4, <1>5
  <2> QED
    BY <1>2, <1>5, <1>6, <2>2, <2>3 DEF WaitingIsPending
<1>7. CASE fate # "waiting"
  <2>1. pending_joins' = pending_joins
    BY <1>1, <1>7
  <2>2. \A n \in DOMAIN joins' :
          (n \in DOMAIN joins /\ joins'[n] = joins[n]) \/ joins'[n].fate # "waiting"
    BY <1>3, <1>4, <1>5, <1>7
  <2>3. WaitingIsPending'
    BY <2>1, <2>2 DEF WaitingIsPending
  <2> QED
    BY <1>4, <1>5, <2>1, <2>2, <2>3
<1> QED
  BY <1>6, <1>7

------------------------------------------------------------------------------
(* The steps *)

\* A question changes neither the chats nor the type of anything.
LEMMA AskSteps ==
  ASSUME Types, Ask
  PROVE  /\ Types' /\ UNCHANGED <<phase, chats>> /\ phase = "connecting"
<1>1. /\ UNCHANGED <<phase, chats, client>> /\ phase = "connecting"
  BY DEF Ask, world
<1>2. error' \in BOOLEAN /\ dialog' \in BOOLEAN /\ request_code_data' \in BOOLEAN
  <2>1. CASE AskPhone
    BY <2>1 DEF AskPhone, Types
  <2>2. CASE AskName
    BY <2>2 DEF AskName, OpenDialog, Types
  <2>3. CASE AskCode
    BY <2>3 DEF AskCode, OpenDialog, Types
  <2>4. CASE AskPassword
    BY <2>4 DEF AskPassword, OpenDialog, Types
  <2> QED
    BY <2>1, <2>2, <2>3, <2>4 DEF Ask
<1> QED
  BY <1>1, <1>2 DEF Types, chats

\* The steps that change a flag and leave the chats and the connection alone.
LEMMA SmallSteps ==
  ASSUME Types,
         \/ AnswerInDialog \/ CancelDialog \/ SendIm \/ Accepted \/ Refused
         \/ FailedLogin \/ FailedOtherwise \/ Revoke \/ UNCHANGED vars
  PROVE  /\ Types' /\ UNCHANGED <<phase, connected, chats>>
<1>1. CASE AnswerInDialog \/ CancelDialog \/ SendIm \/ Accepted \/ Refused
  BY <1>1 DEF AnswerInDialog, CancelDialog, SendIm, Accepted, Refused, Types, world,
              session, chats
<1>2. CASE FailedLogin \/ FailedOtherwise \/ Revoke \/ UNCHANGED vars
  BY <1>2 DEF FailedLogin, FailedOtherwise, Revoke, Types, vars, world, session,
              questions, chats
<1> QED
  BY <1>1, <1>2

\* The parts of the invariant that are about chats.
ChatsInv == Types /\ WaitingIsPending /\ NothingWhenDown /\ NoneWaits

LEMMA ChatsInit == Init => ChatsInv
<1> SUFFICES ASSUME Init PROVE ChatsInv
  OBVIOUS
<1>1. Types
  BY TypesInit
<1>2. joins = <<>> /\ DOMAIN joins = {}
  BY DEF Init
<1> QED
  BY <1>1, <1>2 DEF Init, ChatsInv, WaitingIsPending, NothingWhenDown, NoneWaits,
                    dialogues_ready

\* A new connection has no lists, and nothing of the old account waits.
LEMMA ConnectionSteps ==
  ASSUME ChatsInv, SignOn \/ Disconnect \/ SignOff
  PROVE  ChatsInv'
<1>1. /\ UNCHANGED client /\ NewConnection
      /\ joins' \in Seq([kind : JoinKinds, fate : Fates])
      /\ \A n \in DOMAIN joins' : joins'[n].fate # "waiting"
  <2>1. CASE SignOn
    BY <2>1 DEF SignOn, ChatsInv, NothingWhenDown, Types, world
  <2>2. CASE Closed
    BY <2>2, ClosedJoins DEF ChatsInv, Closed, world
  <2> QED
    BY <2>1, <2>2 DEF Disconnect, SignOff
<1>2. pending_joins' \in Seq(Nat)
  BY <1>1, EmptySeq DEF NewConnection
<1>3. Types'
  BY <1>1, <1>2 DEF Types, NewConnection, ChatsInv
<1> QED
  BY <1>1, <1>3 DEF NewConnection, ChatsInv, WaitingIsPending, NothingWhenDown,
                    NoneWaits, dialogues_ready

LEMMA DialogListStep ==
  ASSUME ChatsInv, DialogList
  PROVE  ChatsInv'
<1>1. /\ joins' \in Seq([kind : JoinKinds, fate : Fates])
      /\ \A n \in DOMAIN joins' : joins'[n].fate # "waiting"
  BY ServedJoins DEF ChatsInv
<1>2. /\ pending_joins' = <<>> /\ roomlist' # "progress"
      /\ UNCHANGED <<client, phase, error, connected, dialog, request_code_data>>
  BY DEF DialogList, Populated, world, session, questions
<1>3. Types'
  BY <1>1, <1>2, EmptySeq DEF Types, ChatsInv
<1> QED
  BY <1>1, <1>2, <1>3 DEF ChatsInv, WaitingIsPending, NothingWhenDown, NoneWaits

\* A chat can be joined only when the account is shown as connected, so not when it
\* is down.
LEMMA JoinStep ==
  ASSUME ChatsInv, NEW kind \in JoinKinds, Join(kind)
  PROVE  ChatsInv'
<1>1. /\ UNCHANGED <<client, phase, error, connected, dialog, request_code_data,
                     dialogues, roomlist>>
      /\ connected
  BY DEF Join, world, session, questions
<1>2. /\ joins' \in Seq([kind : JoinKinds, fate : Fates]) /\ pending_joins' \in Seq(Nat)
      /\ WaitingIsPending'
      /\ dialogues_ready => /\ pending_joins' = pending_joins
                            /\ \A n \in DOMAIN joins' :
                                 (n \in DOMAIN joins /\ joins'[n] = joins[n])
                                   \/ joins'[n].fate # "waiting"
  BY JoinedChats DEF ChatsInv
<1>3. Types'
  BY <1>1, <1>2 DEF Types, ChatsInv
<1>4. NothingWhenDown'
  BY <1>1 DEF ChatsInv, NothingWhenDown
<1>5. NoneWaits'
  BY <1>1, <1>2 DEF ChatsInv, NoneWaits, dialogues_ready
<1> QED
  BY <1>2, <1>3, <1>4, <1>5 DEF ChatsInv

LEMMA ChatsStep ==
  ASSUME ChatsInv, [Next]_vars
  PROVE  ChatsInv'
<1>1. CASE SignOn \/ Disconnect \/ SignOff
  BY <1>1, ConnectionSteps
<1>2. CASE Ask
  <2>1. Types' /\ UNCHANGED <<phase, chats>> /\ phase = "connecting"
    BY <1>2, AskSteps DEF ChatsInv
  <2> QED
    BY <2>1 DEF ChatsInv, WaitingIsPending, NothingWhenDown, NoneWaits,
                dialogues_ready, chats
<1>3. CASE \/ AnswerInDialog \/ CancelDialog \/ SendIm \/ Accepted \/ Refused
           \/ FailedLogin \/ FailedOtherwise \/ Revoke \/ UNCHANGED vars
  <2>1. Types' /\ UNCHANGED <<phase, connected, chats>>
    BY <1>3, SmallSteps DEF ChatsInv
  <2> QED
    BY <2>1 DEF ChatsInv, WaitingIsPending, NothingWhenDown, NoneWaits,
                dialogues_ready, chats
<1>4. CASE LoggedIn
  <2>1. /\ phase' = "in" /\ UNCHANGED <<client, error, questions, chats>>
    BY <1>4 DEF LoggedIn, world
  <2> QED
    BY <2>1 DEF ChatsInv, Types, WaitingIsPending, NothingWhenDown, NoneWaits,
                dialogues_ready, questions, chats
<1>5. CASE Ready \/ DialogListFailed
  <2>1. /\ UNCHANGED <<client, phase, connected, questions, pending_joins, joins, roomlist>>
        /\ dialogues' # "ready" /\ error' \in BOOLEAN
    BY <1>5 DEF Ready, DialogListFailed, world, session, ChatsInv, Types
  <2> QED
    BY <2>1 DEF ChatsInv, Types, WaitingIsPending, NothingWhenDown, NoneWaits,
                dialogues_ready, questions
<1>6. CASE DialogList
  BY <1>6, DialogListStep
<1>7. CASE \E kind \in JoinKinds : Join(kind)
  BY <1>7, JoinStep
<1>8. CASE GetRoomlist \/ CancelRoomlist
  <2>1. /\ UNCHANGED <<client, session, questions, dialogues, pending_joins, joins>>
        /\ (dialogues_ready /\ roomlist # "progress") => roomlist' # "progress"
    BY <1>8 DEF GetRoomlist, CancelRoomlist, world
  <2> QED
    BY <2>1 DEF ChatsInv, Types, WaitingIsPending, NothingWhenDown, NoneWaits,
                dialogues_ready, session, questions
<1> QED
  BY <1>1, <1>2, <1>3, <1>4, <1>5, <1>6, <1>7, <1>8 DEF Next

------------------------------------------------------------------------------
(* Every variable has its type *)

\* What no step puts in danger.
Plain ==
  /\ client \in [api : BOOLEAN, compat : BOOLEAN, password : BOOLEAN]
  /\ number \in [registered : BOOLEAN, password : BOOLEAN]
  /\ phase \in {"down", "connecting", "in"}
  /\ error \in BOOLEAN /\ connected \in BOOLEAN
  /\ saved \in {"none", "good", "revoked"} /\ key \in {"none", "good", "revoked"}
  /\ reset \in BOOLEAN
  /\ dialog \in BOOLEAN /\ request_code_data \in BOOLEAN
  /\ dialogues \in {"none", "requested", "failed", "ready"}
  /\ roomlist \in {"none", "progress", "done"}

\* A question is asked once more only after a refusal, which is trouble: this bounds
\* the counters of one connection.
Bounds ==
  /\ trouble \in 0 .. MaxTrouble
  /\ step \in 1 .. Len(Steps) + 1
  /\ asked \in {"no", "asked", "answered"} /\ (asked # "no" => step <= Len(Steps))
  /\ login_retries \in 0 .. trouble + 1
  /\ step = 1 /\ asked = "no" => login_retries <= trouble
  /\ password_retries \in 0 .. trouble + 1
  /\ step < Len(Steps) => password_retries = 0
  /\ step = Len(Steps) /\ asked = "no" => password_retries <= trouble

PendingExist == pending_joins \in Seq(DOMAIN joins)

\* tgl asks for the number first and for the password last.
LEMMA StepsOrder ==
  ASSUME Plain
  PROVE  /\ Len(Steps) \in Nat /\ Len(Steps) >= 2
         /\ \A i \in 1 .. Len(Steps) : Steps[i] = "phone" => i = 1
         /\ \A i \in 1 .. Len(Steps) : Steps[i] = "password" => i = Len(Steps)
<1> DEFINE S == {"phone", "register", "code", "password"}
           one == <<"phone">>
           code == <<"code">>
           name == IF number.registered THEN <<>> ELSE <<"register">>
           secret == IF number.password THEN <<"password">> ELSE <<>>
           front == one \o name
           back == front \o code
<1>1. /\ one \in Seq(S) /\ Len(one) = 1 /\ one[1] = "phone"
      /\ code \in Seq(S) /\ Len(code) = 1 /\ code[1] = "code"
  OBVIOUS
<1>2. /\ name \in Seq(S) /\ Len(name) \in {0, 1} /\ \A i \in 1 .. Len(name) : name[i] = "register"
      /\ secret \in Seq(S) /\ Len(secret) \in {0, 1} /\ \A i \in 1 .. Len(secret) : secret[i] = "password"
  <2>1. <<>> \in Seq(S) /\ Len(<<>>) = 0 /\ 1 .. 0 = {}
    OBVIOUS
  <2>2. \A x \in S : /\ <<x>> \in Seq(S) /\ Len(<<x>>) = 1
                    /\ \A i \in 1 .. 1 : <<x>>[i] = x
    OBVIOUS
  <2>3. "register" \in S /\ "password" \in S
    OBVIOUS
  <2>4. name = <<>> \/ name = <<"register">>
    OBVIOUS
  <2>5. secret = <<>> \/ secret = <<"password">>
    OBVIOUS
  <2> HIDE DEF S, name, secret
  <2> QED
    BY <2>1, <2>2, <2>3, <2>4, <2>5
<1>3. Steps = back \o secret
  BY DEF Steps
<1> HIDE DEF one, name, code, secret, S
<1>4. /\ front \in Seq(S) /\ Len(front) = 1 + Len(name)
      /\ \A i \in 1 .. 1 + Len(name) : front[i] = IF i <= 1 THEN one[i] ELSE name[i - 1]
  BY <1>1, <1>2, ConcatProperties
<1> HIDE DEF front
<1>5. /\ front \in Seq(S) /\ Len(front) \in {1, 2}
      /\ \A i \in 1 .. Len(front) : front[i] = IF i = 1 THEN "phone" ELSE "register"
  BY <1>1, <1>2, <1>4
<1>6. /\ back \in Seq(S) /\ Len(back) = Len(front) + 1
      /\ \A i \in 1 .. Len(front) + 1 :
           back[i] = IF i <= Len(front) THEN front[i] ELSE code[i - Len(front)]
  BY <1>1, <1>5, ConcatProperties
<1> HIDE DEF back
<1>7. /\ back \in Seq(S) /\ Len(back) \in {2, 3}
      /\ \A i \in 1 .. Len(back) : /\ back[i] = "phone" => i = 1
                                 /\ back[i] # "password"
  BY <1>1, <1>5, <1>6
<1>8. /\ Len(Steps) = Len(back) + Len(secret)
      /\ \A i \in 1 .. Len(back) + Len(secret) :
           Steps[i] = IF i <= Len(back) THEN back[i] ELSE secret[i - Len(back)]
  BY <1>2, <1>3, <1>7, ConcatProperties
<1>9. ASSUME NEW i \in 1 .. Len(Steps)
      PROVE  /\ Steps[i] = "phone" => i = 1
             /\ Steps[i] = "password" => i = Len(Steps)
  BY <1>2, <1>7, <1>8
<1>10. Len(Steps) \in Nat /\ Len(Steps) >= 2
  <2>1. PICK b \in {2, 3}, s \in {0, 1} : Len(Steps) = b + s
    BY <1>2, <1>7, <1>8
  <2>2. b + s \in Nat /\ b + s >= 2
    OBVIOUS
  <2> QED
    BY <2>1, <2>2
<1> QED
  BY <1>9, <1>10

\* The client and the number are what they are.
LEMMA WorldStays ==
  ASSUME [Next]_vars
  PROVE  UNCHANGED <<client, number>>
<1> USE DEF world
<1>1. CASE SignOn \/ Disconnect \/ SignOff \/ Ask \/ UNCHANGED vars
  BY <1>1 DEF SignOn, Disconnect, SignOff, Closed, Ask, vars
<1>2. CASE AnswerInDialog \/ CancelDialog \/ SendIm \/ Accepted \/ Refused \/ LoggedIn
  BY <1>2 DEF AnswerInDialog, CancelDialog, SendIm, Accepted, Refused, LoggedIn
<1>3. CASE FailedLogin \/ FailedOtherwise \/ Revoke \/ Ready \/ DialogList \/ DialogListFailed
  BY <1>3 DEF FailedLogin, FailedOtherwise, Revoke, Ready, DialogList, DialogListFailed
<1>4. CASE (\E kind \in JoinKinds : Join(kind)) \/ GetRoomlist \/ CancelRoomlist
  BY <1>4 DEF Join, GetRoomlist, CancelRoomlist
<1> QED
  BY <1>1, <1>2, <1>3, <1>4 DEF Next

LEMMA PlainStep ==
  ASSUME Plain, [Next]_vars
  PROVE  Plain'
<1> USE DEF session, auth, questions, chats
<1>1. UNCHANGED <<client, number>>
  BY WorldStays
<1>2. /\ phase' \in {"down", "connecting", "in"}
      /\ saved' \in {"none", "good", "revoked"} /\ key' \in {"none", "good", "revoked"}
  <2> USE DEF Plain
  <2>1. CASE SignOn \/ Disconnect \/ SignOff
    BY <2>1 DEF SignOn, Disconnect, SignOff, Closed
  <2>2. CASE Ask \/ AnswerInDialog \/ CancelDialog \/ SendIm \/ Accepted \/ Refused
    BY <2>2 DEF Ask, AnswerInDialog, CancelDialog, SendIm, Accepted, Refused
  <2>3. CASE LoggedIn \/ FailedLogin \/ FailedOtherwise \/ Revoke
    BY <2>3 DEF LoggedIn, FailedLogin, FailedOtherwise, Revoke
  <2>4. CASE Ready \/ DialogList \/ DialogListFailed \/ UNCHANGED vars
    BY <2>4 DEF Ready, DialogList, DialogListFailed, vars
  <2>5. CASE (\E kind \in JoinKinds : Join(kind)) \/ GetRoomlist \/ CancelRoomlist
    BY <2>5 DEF Join, GetRoomlist, CancelRoomlist
  <2> QED
    BY <2>1, <2>2, <2>3, <2>4, <2>5 DEF Next
<1>3. /\ dialogues' \in {"none", "requested", "failed", "ready"}
      /\ roomlist' \in {"none", "progress", "done"}
  <2> USE DEF Plain
  <2>1. CASE SignOn \/ Disconnect \/ SignOff
    BY <2>1 DEF SignOn, Disconnect, SignOff, Closed, NewConnection
  <2>2. CASE Ask \/ AnswerInDialog \/ CancelDialog \/ SendIm \/ Accepted \/ Refused
    BY <2>2 DEF Ask, AnswerInDialog, CancelDialog, SendIm, Accepted, Refused
  <2>3. CASE LoggedIn \/ FailedLogin \/ FailedOtherwise \/ Revoke
    BY <2>3 DEF LoggedIn, FailedLogin, FailedOtherwise, Revoke
  <2>4. CASE Ready \/ DialogList \/ DialogListFailed \/ UNCHANGED vars
    BY <2>4 DEF Ready, DialogList, DialogListFailed, Populated, vars
  <2>5. CASE (\E kind \in JoinKinds : Join(kind)) \/ GetRoomlist \/ CancelRoomlist
    BY <2>5 DEF Join, GetRoomlist, CancelRoomlist
  <2> QED
    BY <2>1, <2>2, <2>3, <2>4, <2>5 DEF Next
<1>4. /\ error' \in BOOLEAN /\ connected' \in BOOLEAN /\ reset' \in BOOLEAN
      /\ dialog' \in BOOLEAN /\ request_code_data' \in BOOLEAN
  <2> /\ error \in BOOLEAN /\ connected \in BOOLEAN /\ reset \in BOOLEAN
      /\ dialog \in BOOLEAN /\ request_code_data \in BOOLEAN /\ client.api \in BOOLEAN
    BY DEF Plain
  <2>1. CASE SignOn \/ Disconnect \/ SignOff
    BY <2>1 DEF SignOn, Disconnect, SignOff, Closed, NewConnection
  <2>2. CASE Ask
    <3>1. UNCHANGED reset
      BY <2>2 DEF Ask
    <3>2. CASE AskPhone
      BY <3>1, <3>2 DEF AskPhone
    <3>3. CASE AskName
      BY <3>1, <3>3 DEF AskName, OpenDialog
    <3>4. CASE AskCode
      BY <3>1, <3>4 DEF AskCode, OpenDialog
    <3>5. CASE AskPassword
      BY <3>1, <3>5 DEF AskPassword, OpenDialog
    <3> QED
      BY <2>2, <3>2, <3>3, <3>4, <3>5 DEF Ask
  <2>3. CASE AnswerInDialog \/ CancelDialog \/ SendIm \/ Accepted \/ Refused
    BY <2>3 DEF AnswerInDialog, CancelDialog, SendIm, Accepted, Refused
  <2>4. CASE LoggedIn \/ FailedLogin \/ FailedOtherwise \/ Revoke
    BY <2>4 DEF LoggedIn, FailedLogin, FailedOtherwise, Revoke
  <2>5. CASE Ready \/ DialogList \/ DialogListFailed \/ UNCHANGED vars
    BY <2>5 DEF Ready, DialogList, DialogListFailed, vars
  <2>6. CASE (\E kind \in JoinKinds : Join(kind)) \/ GetRoomlist \/ CancelRoomlist
    BY <2>6 DEF Join, GetRoomlist, CancelRoomlist
  <2> QED
    BY <2>1, <2>2, <2>3, <2>4, <2>5, <2>6 DEF Next
<1> QED
  BY <1>1, <1>2, <1>3, <1>4 DEF Plain

\* Asking counts in one of the counters, and only at the step that has it.
LEMMA AskBounds ==
  ASSUME Plain, Bounds, Ask
  PROVE  Bounds'
<1>1. /\ Len(Steps) \in Nat /\ Len(Steps) >= 2 /\ MaxTrouble \in Nat
      /\ Steps[step] = "phone" => step = 1
      /\ Steps[step] = "password" => step = Len(Steps)
      /\ asked = "no" /\ step \in 1 .. Len(Steps)
  BY StepsOrder, BoundsAssumption DEF Ask, Bounds
<1>2. UNCHANGED <<number, step, trouble>> /\ Steps' = Steps
  BY DEF Ask, world, Steps
<1>3. asked' \in {"asked", "answered"}
  BY DEF Ask, AskPhone, AskName, AskCode, AskPassword, OpenDialog
<1>4. CASE AskPhone
  BY <1>1, <1>2, <1>3, <1>4 DEF AskPhone, Bounds
<1>5. CASE AskName \/ AskCode
  BY <1>1, <1>2, <1>3, <1>5 DEF AskName, AskCode, Bounds
<1>6. CASE AskPassword
  BY <1>1, <1>2, <1>3, <1>6 DEF AskPassword, Bounds
<1> QED
  BY <1>4, <1>5, <1>6 DEF Ask

LEMMA BoundsStep ==
  ASSUME Plain, Bounds, QuestionHeard, [Next]_vars
  PROVE  Bounds'
<1>1. /\ Len(Steps) \in Nat /\ Len(Steps) >= 2 /\ MaxTrouble \in Nat
  BY StepsOrder, BoundsAssumption
<1>2. Steps' = Steps
  BY WorldStays DEF Steps
<1>3. CASE SignOn \/ Disconnect \/ SignOff
  BY <1>1, <1>2, <1>3 DEF SignOn, Disconnect, SignOff, Closed, NewConnection, InTrouble, Bounds
<1>4. CASE Ask
  BY <1>4, AskBounds
<1>5. CASE AnswerInDialog \/ SendIm
  <2>1. asked = "asked" /\ asked' = "answered"
        /\ UNCHANGED <<step, login_retries, password_retries, trouble>>
    BY <1>5 DEF AnswerInDialog, SendIm, QuestionHeard
  <2> QED
    BY <1>1, <1>2, <2>1 DEF Bounds
<1>6. CASE Accepted
  BY <1>1, <1>2, <1>6 DEF Accepted, Bounds
<1>7. CASE Refused
  BY <1>1, <1>2, <1>7 DEF Refused, InTrouble, Bounds
<1>8. ASSUME UNCHANGED <<step, asked, login_retries, password_retries>>,
             UNCHANGED trouble \/ InTrouble
      PROVE  Bounds'
  BY <1>1, <1>2, <1>8 DEF InTrouble, Bounds
<1>9. CASE \/ CancelDialog \/ LoggedIn \/ FailedLogin \/ FailedOtherwise \/ Revoke
           \/ UNCHANGED vars
  BY <1>8, <1>9 DEF CancelDialog, LoggedIn, FailedLogin, FailedOtherwise, Revoke, vars, questions
<1>10. CASE \/ Ready \/ DialogList \/ DialogListFailed
            \/ (\E kind \in JoinKinds : Join(kind)) \/ GetRoomlist \/ CancelRoomlist
  BY <1>8, <1>10 DEF Ready, DialogList, DialogListFailed, Join, GetRoomlist, CancelRoomlist, questions
<1> QED
  BY <1>3, <1>4, <1>5, <1>6, <1>7, <1>9, <1>10 DEF Next

\* No chat is taken from joins, and what is added to pending_joins was added to joins.
LEMMA PendingStep ==
  ASSUME Types, WaitingIsPending, PendingExist, [Next]_vars
  PROVE  PendingExist'
<1>1. CASE SignOn \/ Disconnect \/ SignOff \/ DialogList
  <2>1. pending_joins' = <<>>
    BY <1>1 DEF SignOn, Disconnect, SignOff, Closed, NewConnection, DialogList
  <2> QED
    BY <2>1, EmptySeq DEF PendingExist
<1>2. ASSUME UNCHANGED <<joins, pending_joins>>
      PROVE  PendingExist'
  BY <1>2 DEF PendingExist
<1>3. CASE \/ Ask \/ AnswerInDialog \/ CancelDialog \/ SendIm \/ Accepted \/ Refused
           \/ LoggedIn \/ FailedLogin \/ FailedOtherwise \/ Revoke \/ UNCHANGED vars
  BY <1>2, <1>3 DEF Ask, AnswerInDialog, CancelDialog, SendIm, Accepted, Refused, LoggedIn,
       FailedLogin, FailedOtherwise, Revoke, vars, chats
<1>4. CASE Ready \/ DialogListFailed \/ GetRoomlist \/ CancelRoomlist
  BY <1>2, <1>4 DEF Ready, DialogListFailed, GetRoomlist, CancelRoomlist
<1>5. ASSUME NEW kind \in JoinKinds, Join(kind)
      PROVE  PendingExist'
  <2>1. PICK x : joins' = Append(joins, x)
    BY <1>5 DEF Join
  <2>2. pending_joins' = pending_joins \/ pending_joins' = Append(pending_joins, Len(joins'))
    BY <1>5 DEF Join
  <2>3. joins' \in Seq([kind : JoinKinds, fate : Fates]) /\ joins \in Seq([kind : JoinKinds, fate : Fates])
    BY <1>5, JoinedChats DEF Types
  <2>4. /\ Len(joins) \in Nat /\ Len(joins') = Len(joins) + 1
        /\ DOMAIN joins = 1 .. Len(joins) /\ DOMAIN joins' = 1 .. Len(joins')
    BY <2>1, <2>3, LenProperties
  <2>5. DOMAIN joins \subseteq DOMAIN joins' /\ Len(joins') \in DOMAIN joins'
    BY <2>4
  <2>6. pending_joins \in Seq(DOMAIN joins')
    BY <2>5, SeqMonotonic DEF PendingExist
  <2> QED
    BY <2>2, <2>5, <2>6, AppendProperties DEF PendingExist
<1> QED
  BY <1>1, <1>3, <1>4, <1>5 DEF Next

\* No step changes the fate of a chat in any other way.
LEMMA RememberedStep ==
  ASSUME Types, Remembered, [Next]_vars
  PROVE  Remembered'
<1>1. joins \in Seq([kind : JoinKinds, fate : Fates])
  BY DEF Types
<1>2. \A n \in DOMAIN joins : joins[n] \in [kind : JoinKinds, fate : Fates]
  BY <1>1, LenProperties, ElementOfSeq
<1>3. CASE UNCHANGED joins
  BY <1>3 DEF Remembered, Fate
<1>4. CASE Disconnect \/ SignOff
  <2>1. joins' = [n \in DOMAIN joins |->
                    IF joins[n].fate = "waiting" THEN [joins[n] EXCEPT !.fate = "closed"]
                    ELSE joins[n]]
    BY <1>4 DEF Disconnect, SignOff, Closed
  <2> QED
    BY <1>2, <2>1 DEF Remembered, Fate
<1>5. CASE DialogList
  <2> DEFINE pending(n) == \E k \in DOMAIN pending_joins : pending_joins[k] = n
  <2>1. joins' = [n \in DOMAIN joins |->
                    IF pending(n) THEN [joins[n] EXCEPT !.fate = Fate(joins[n].kind)]
                    ELSE joins[n]]
    BY <1>5 DEF DialogList
  <2> HIDE DEF pending
  <2> QED
    BY <1>2, <2>1 DEF Remembered, Fate
<1>6. ASSUME NEW kind \in JoinKinds, Join(kind)
      PROVE  Remembered'
  <2> DEFINE fate == IF dialogues_ready THEN Fate(kind)
                     ELSE IF kind = "named" THEN "forgotten" ELSE "waiting"
             join == [kind |-> kind, fate |-> fate]
  <2>1. joins' = Append(joins, join)
    BY <1>6 DEF Join
  <2>2. join.kind = kind /\ (kind # "named" => join.fate \in {"waiting", Fate(kind)})
    OBVIOUS
  <2>3. join \in [kind : JoinKinds, fate : Fates]
    BY DEF Fates, Fate
  <2> HIDE DEF join
  <2>4. /\ DOMAIN joins' = 1 .. Len(joins) + 1 /\ Len(joins) \in Nat
        /\ DOMAIN joins = 1 .. Len(joins)
        /\ \A n \in 1 .. Len(joins) : joins'[n] = joins[n]
        /\ joins'[Len(joins) + 1] = join
    BY <1>1, <2>1, <2>3, AppendProperties, LenProperties
  <2>5. ASSUME NEW n \in DOMAIN joins'
        PROVE  (n \in DOMAIN joins /\ joins'[n] = joins[n]) \/ joins'[n] = join
    BY <2>4
  <2> QED
    BY <2>2, <2>5 DEF Remembered, Fate
<1>7. CASE \/ SignOn \/ Ask \/ AnswerInDialog \/ CancelDialog \/ SendIm \/ Accepted \/ Refused
           \/ LoggedIn \/ FailedLogin \/ FailedOtherwise \/ Revoke \/ UNCHANGED vars
  BY <1>3, <1>7 DEF SignOn, Ask, AnswerInDialog, CancelDialog, SendIm, Accepted, Refused,
                    LoggedIn, FailedLogin, FailedOtherwise, Revoke, vars, chats
<1>8. CASE Ready \/ DialogListFailed \/ GetRoomlist \/ CancelRoomlist
  BY <1>3, <1>8 DEF Ready, DialogListFailed, GetRoomlist, CancelRoomlist
<1> QED
  BY <1>4, <1>5, <1>6, <1>7, <1>8 DEF Next

------------------------------------------------------------------------------
(* The theorems *)

LEMMA Invariance == Spec => []Inv
<1>1. Init => Inv
  <2> SUFFICES ASSUME Init PROVE Inv
    OBVIOUS
  <2>1. Remembered
    BY DEF Init, Remembered
  <2> QED
    BY <2>1, QuestionInit, ChatsInit DEF Inv, ChatsInv
<1>2. Inv /\ [Next]_vars => Inv'
  BY QuestionStep, ChatsStep, RememberedStep DEF Inv, ChatsInv
<1> QED
  BY <1>1, <1>2, PTL DEF Spec

\* For every bound on wrong answers, failures and joins: a question of tgl has exactly
\* one place where it can be answered unless the user was told that the login is over,
\* and nothing is answered that tgl no longer waits for (request_value,
\* tgprpl_send_im).
THEOREM EveryQuestionHeard == Spec => []QuestionHeard
<1>1. Inv => QuestionHeard
  BY DEF Inv
<1> QED
  BY <1>1, Invariance, PTL

\* For every bound, once the dialogue list is there no chat asked for by its id and no
\* room list waits for it any more: each was served, refused, or closed with its
\* account (tgprpl_chat_join, tgp_chat_join_all_pending, tgp_chat_roomlist_populate).
THEOREM NothingWaits == Spec => []ServedWhenReady
<1>1. Inv => ServedWhenReady
  BY DEF Inv, NoneWaits, Remembered, ServedWhenReady
<1> QED
  BY <1>1, Invariance, PTL

\* For every bound on troubles and joins: every variable keeps its type.  The counters
\* start anew with each connection and then grow only with the troubles.
THEOREM TypeCorrect == Spec => []TypeOK
<1>1. Init => Plain /\ Bounds /\ PendingExist
  <2> SUFFICES ASSUME Init
               PROVE  Plain /\ Bounds /\ PendingExist
    OBVIOUS
  <2>1. Plain
    BY DEF Init, Plain
  <2>2. Len(Steps) \in Nat /\ Len(Steps) >= 2
    BY <2>1, StepsOrder
  <2>3. Bounds
    BY <2>2, BoundsAssumption DEF Init, Bounds
  <2>4. PendingExist
    BY EmptySeq DEF Init, PendingExist
  <2> QED
    BY <2>1, <2>3, <2>4
<1>2. Inv /\ Plain /\ Bounds /\ PendingExist /\ [Next]_vars => (Plain /\ Bounds /\ PendingExist)'
  BY PlainStep, BoundsStep, PendingStep DEF Inv
<1>3. Inv /\ Plain /\ Bounds /\ PendingExist => TypeOK
  <2> SUFFICES ASSUME Inv, Plain, Bounds, PendingExist
               PROVE  TypeOK
    OBVIOUS
  <2>1. password_retries \in 0 .. MaxTrouble + 1 /\ login_retries \in 0 .. MaxTrouble + 1
    BY BoundsAssumption DEF Bounds
  <2>2. joins \in Seq([kind : JoinKinds,
                      fate : {"waiting", "served", "refused", "forgotten", "closed"}])
    BY DEF Inv, Types, Fates
  <2> QED
    BY <2>1, <2>2 DEF TypeOK, Plain, Bounds, PendingExist
<1> QED
  BY <1>1, <1>2, <1>3, Invariance, PTL DEF Spec
=============================================================================

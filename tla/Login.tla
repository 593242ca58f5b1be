-------------------------------- MODULE Login --------------------------------
(***************************************************************************)
(* From the sign on of an account to the moment its chats can be joined:   *)
(* the questions tgl asks the user (tgp-request.c), the session that was   *)
(* revoked and has to be reset, and the chat joins and the room list that  *)
(* libpurple asks for before the dialogue list is there (tgp-chat.c).      *)
(*                                                                         *)
(* A client that has no request API, or the setting compat-verification,   *)
(* asks for the login code in a conversation: the account is shown as      *)
(* connected before it is logged in, and the next message written to       *)
(* anybody is the code (request_code_data).  An error is reported to       *)
(* libpurple at once; it closes the account later, from a timeout.         *)
(***************************************************************************)
EXTENDS Integers, Sequences, FiniteSets

CONSTANTS
  MaxTrouble,   \* bound: wrong answers, failures, cancels and closes
  MaxJoins      \* bound: chats libpurple asks us to join

ASSUME BoundsAssumption == MaxTrouble \in Nat /\ MaxJoins \in Nat

VARIABLES
  client,              \* whether there is a request API, and two account settings
  number,              \* server: whether the number is registered, and has a password
  phase,               \* down, connecting, in
  error,               \* whether the end of the connection was reported to libpurple
  connected,           \* whether libpurple shows the account as connected
  saved,               \* the session in the auth file: none, good or revoked
  key,                 \* tgl: the session it has
  reset,               \* account setting TGP_KEY_RESET_AUTH
  step,                \* tgl: the question it is at, an index of Steps
  asked,               \* tgl: whether that question was asked and answered
  dialog,              \* whether a dialog with the question is open
  request_code_data,   \* whether conn->request_code_data holds it
  password_retries, login_retries,
  dialogues,           \* the dialogue list: none, requested, failed, ready
  pending_joins,       \* conn->pending_joins, indices of joins
  joins,               \* the chats to join, and what became of it
  roomlist,            \* conn->roomlist: none, progress, done
  trouble              \* how much of the bound is used up

world == <<client, number>>
session == <<phase, error, connected>>
auth == <<saved, key, reset>>
questions == <<step, asked, dialog, request_code_data, password_retries, login_retries>>
chats == <<dialogues, pending_joins, joins, roomlist>>
vars == <<world, session, auth, questions, chats, trouble>>

\* The questions of a login, in tgl's order.
Steps ==
  <<"phone">> \o (IF number.registered THEN <<>> ELSE <<"register">>)
    \o <<"code">> \o (IF number.password THEN <<"password">> ELSE <<>>)

Up == phase # "down"
dialogues_ready == dialogues = "ready"

InTrouble == trouble < MaxTrouble /\ trouble' = trouble + 1

------------------------------------------------------------------------------
(* Sign on and off *)

\* Mutant: the counters survive in the account.
NewConnectionSameCounters ==
  /\ error' = FALSE /\ connected' = FALSE
  /\ step' = 1 /\ asked' = "no" /\ dialog' = FALSE /\ request_code_data' = FALSE
  /\ UNCHANGED <<password_retries, login_retries>>
  /\ dialogues' = "none" /\ pending_joins' = <<>> /\ roomlist' = "none"

\* connection_data_init; tgl has asked nothing.
NewConnection ==
  /\ error' = FALSE /\ connected' = FALSE
  /\ step' = 1 /\ asked' = "no" /\ dialog' = FALSE /\ request_code_data' = FALSE
  /\ password_retries' = 0 /\ login_retries' = 0
  /\ dialogues' = "none" /\ pending_joins' = <<>> /\ roomlist' = "none"

\* tgprpl_login
SignOn ==
  /\ phase = "down" /\ phase' = "connecting"
  /\ NewConnection
  /\ key' = IF reset THEN "none" ELSE saved
  /\ reset' = FALSE
  /\ UNCHANGED <<world, saved, joins, trouble>>

\* tgprpl_close: libpurple closes the dialogs of the account, connection_data_free
\* the rest.
Closed ==
  /\ phase' = "down"
  /\ NewConnection
  /\ key' = "none"
  /\ joins' = [n \in DOMAIN joins |->
                 IF joins[n].fate = "waiting" THEN [joins[n] EXCEPT !.fate = "closed"]
                 ELSE joins[n]]
  /\ UNCHANGED <<world, saved, reset>>

\* libpurple does so after an error, or for the user.
Disconnect == Up /\ error /\ Closed /\ UNCHANGED trouble
SignOff == Up /\ InTrouble /\ Closed

------------------------------------------------------------------------------
(* Questions: request_value *)

\* Asking needs the request API: without it the user is told to use another client.
OpenDialog ==
  /\ asked' = "asked"
  /\ dialog' = client.api
  /\ error' = (error \/ ~client.api)
  /\ UNCHANGED <<connected, request_code_data>>

\* The phone number is the account's name.  Asked for it again, we tell the user
\* that it is wrong, and answer all the same.
AskPhone ==
  /\ Steps[step] = "phone"
  /\ login_retries' = login_retries + 1
  /\ error' = (error \/ login_retries >= 1)
  /\ asked' = "answered"
  /\ UNCHANGED <<connected, dialog, request_code_data, password_retries>>

\* request_name
AskName ==
  /\ Steps[step] = "register"
  /\ OpenDialog
  /\ UNCHANGED <<password_retries, login_retries>>

\* request_code
AskCode ==
  /\ Steps[step] = "code"
  /\ IF client.api /\ ~client.compat THEN OpenDialog
     ELSE /\ asked' = "asked"
          /\ request_code_data' = TRUE /\ connected' = TRUE
          /\ UNCHANGED <<error, dialog>>
  /\ UNCHANGED <<password_retries, login_retries>>

\* The password in the settings is tried once.
AskPassword ==
  /\ Steps[step] = "password"
  /\ password_retries' = IF client.password THEN password_retries + 1 ELSE password_retries
  /\ IF client.password /\ password_retries < 1
     THEN asked' = "answered" /\ UNCHANGED <<error, connected, dialog, request_code_data>>
     ELSE OpenDialog
  /\ UNCHANGED login_retries

Ask ==
  /\ phase = "connecting" /\ key = "none" /\ step <= Len(Steps) /\ asked = "no"
  /\ AskPhone \/ AskName \/ AskCode \/ AskPassword
  /\ UNCHANGED <<world, phase, auth, step, chats, trouble>>

\* request_code_entered, request_password_entered, request_name_code_entered.  (A
\* name that is missing opens the dialog again.)
AnswerInDialog ==
  /\ dialog /\ dialog' = FALSE
  /\ asked' = "answered"
  /\ UNCHANGED <<world, session, auth, step, request_code_data, password_retries,
                 login_retries, chats, trouble>>

\* request_canceled_disconnect
CancelDialog ==
  /\ dialog /\ dialog' = FALSE
  /\ error' = TRUE
  /\ InTrouble
  /\ UNCHANGED <<world, phase, connected, auth, step, asked, request_code_data,
                 password_retries, login_retries, chats>>

\* Mutant: the question is not forgotten.
SendImKeepingData ==
  /\ request_code_data
  /\ asked' = "answered"
  /\ UNCHANGED <<world, session, auth, step, dialog, request_code_data, password_retries,
                 login_retries, chats, trouble>>

\* tgprpl_send_im while a code is expected.
SendIm ==
  /\ request_code_data /\ request_code_data' = FALSE
  /\ asked' = "answered"
  /\ UNCHANGED <<world, session, auth, step, dialog, password_retries, login_retries,
                 chats, trouble>>

\* The server takes the answer, or does not: then tgl asks once more.
Accepted ==
  /\ Up /\ asked = "answered" /\ asked' = "no"
  /\ step' = step + 1
  /\ UNCHANGED <<world, session, auth, dialog, request_code_data, password_retries,
                 login_retries, chats, trouble>>

Refused ==
  /\ Up /\ asked = "answered" /\ asked' = "no"
  /\ InTrouble
  /\ UNCHANGED <<world, session, auth, step, dialog, request_code_data, password_retries,
                 login_retries, chats>>

------------------------------------------------------------------------------
(* The session *)

\* update_on_logged_in
LoggedIn ==
  /\ phase = "connecting" /\ phase' = "in"
  /\ key = "good" \/ (key = "none" /\ step > Len(Steps))
  /\ key' = "good" /\ saved' = "good"
  /\ connected' = TRUE
  /\ UNCHANGED <<world, error, reset, questions, chats, trouble>>

\* Mutant: the user is told, and nothing is remembered.
FailedLoginForgotten ==
  /\ Up /\ key = "revoked"
  /\ error' = TRUE
  /\ UNCHANGED <<world, phase, connected, auth, questions, chats, trouble>>

\* update_on_failed_login, SESSION_REVOKED or AUTH_KEY_UNREGISTERED
FailedLogin ==
  /\ Up /\ key = "revoked"
  /\ error' = TRUE /\ reset' = TRUE
  /\ UNCHANGED <<world, phase, connected, saved, key, questions, chats, trouble>>

\* ... or any other error.
FailedOtherwise ==
  /\ Up /\ InTrouble
  /\ error' = TRUE
  /\ UNCHANGED <<world, phase, connected, auth, questions, chats>>

\* The user ends the session from another device.
Revoke ==
  /\ saved = "good" /\ saved' = "revoked"
  /\ key' = IF key = "good" THEN "revoked" ELSE key
  /\ InTrouble
  /\ UNCHANGED <<world, session, reset, questions, chats>>

------------------------------------------------------------------------------
(* Dialogues, joins, the room list *)

\* update_on_ready
Ready ==
  /\ phase = "in" /\ dialogues = "none" /\ dialogues' = "requested"
  /\ UNCHANGED <<world, session, auth, questions, pending_joins, joins, roomlist, trouble>>

\* What tgprpl_chat_join does once dialogues_ready is set: tgl is asked for the chat,
\* the user is asked to create it, or it is refused because its id is not known.
Fate(kind) == IF kind = "unknown" THEN "refused" ELSE "served"

Populated == IF roomlist = "progress" THEN "done" ELSE roomlist

\* Mutant: only the room list is served.
DialogListWithoutJoins ==
  /\ dialogues = "requested" /\ dialogues' = "ready"
  /\ roomlist' = Populated
  /\ UNCHANGED <<world, session, auth, questions, pending_joins, joins, trouble>>

\* on_get_dialog_list_done, tgp_chat_join_all_pending
DialogList ==
  /\ dialogues = "requested" /\ dialogues' = "ready"
  /\ roomlist' = Populated
  /\ joins' = [n \in DOMAIN joins |->
                 IF \E k \in DOMAIN pending_joins : pending_joins[k] = n
                 THEN [joins[n] EXCEPT !.fate = Fate(joins[n].kind)] ELSE joins[n]]
  /\ pending_joins' = <<>>
  /\ UNCHANGED <<world, session, auth, questions, trouble>>

DialogListFailed ==
  /\ dialogues = "requested" /\ dialogues' = "failed"
  /\ error' = TRUE
  /\ InTrouble
  /\ UNCHANGED <<world, phase, connected, auth, questions, pending_joins, joins, roomlist>>

\* tgprpl_chat_join: by the id of a chat, or by its name or an invite link.  Of the
\* latter nothing is kept while the dialogue list is not there.
Join(kind) ==
  /\ connected /\ Len(joins) < MaxJoins
  /\ LET fate == IF dialogues_ready THEN Fate(kind)
                 ELSE IF kind = "named" THEN "forgotten" ELSE "waiting"
     IN  /\ joins' = Append(joins, [kind |-> kind, fate |-> fate])
         /\ pending_joins' = IF fate = "waiting" THEN Append(pending_joins, Len(joins'))
                             ELSE pending_joins
  /\ UNCHANGED <<world, session, auth, questions, dialogues, roomlist, trouble>>

\* tgprpl_roomlist_get_list; spectrum2 calls it while the account is connecting.
GetRoomlist ==
  /\ Up
  /\ roomlist' = IF dialogues_ready THEN "done" ELSE "progress"
  /\ UNCHANGED <<world, session, auth, questions, dialogues, pending_joins, joins, trouble>>

\* tgprpl_roomlist_cancel
CancelRoomlist ==
  /\ roomlist # "none" /\ roomlist' = "none"
  /\ UNCHANGED <<world, session, auth, questions, dialogues, pending_joins, joins, trouble>>

------------------------------------------------------------------------------

JoinKinds == {"known", "unknown", "named"}

Init ==
  /\ client \in [api : BOOLEAN, compat : BOOLEAN, password : BOOLEAN]
  /\ number \in [registered : BOOLEAN, password : BOOLEAN]
  /\ phase = "down" /\ error = FALSE /\ connected = FALSE
  /\ saved = "none" /\ key = "none" /\ reset = FALSE
  /\ step = 1 /\ asked = "no" /\ dialog = FALSE /\ request_code_data = FALSE
  /\ password_retries = 0 /\ login_retries = 0
  /\ dialogues = "none" /\ pending_joins = <<>> /\ joins = <<>> /\ roomlist = "none"
  /\ trouble = 0

Next ==
  \/ SignOn \/ Disconnect \/ SignOff
  \/ Ask \/ AnswerInDialog \/ CancelDialog \/ SendIm \/ Accepted \/ Refused
  \/ LoggedIn \/ FailedLogin \/ FailedOtherwise \/ Revoke
  \/ Ready \/ DialogList \/ DialogListFailed
  \/ \E kind \in JoinKinds : Join(kind)
  \/ GetRoomlist \/ CancelRoomlist

Spec == Init /\ [][Next]_vars

\* The user signs on again and answers; tgl and the server go on; libpurple closes
\* an account with an error.
Fairness ==
  /\ WF_vars(SignOn) /\ WF_vars(Disconnect)
  /\ WF_vars(AnswerInDialog \/ SendIm)
  /\ WF_vars(Ask) /\ WF_vars(Accepted)
  /\ WF_vars(LoggedIn) /\ WF_vars(FailedLogin)
  /\ WF_vars(Ready) /\ WF_vars(DialogList)

FairSpec == Spec /\ Fairness

------------------------------------------------------------------------------
(* Properties *)

\* Every variable has its type; the counters count within one login.
TypeOK ==
  /\ client \in [api : BOOLEAN, compat : BOOLEAN, password : BOOLEAN]
  /\ number \in [registered : BOOLEAN, password : BOOLEAN]
  /\ phase \in {"down", "connecting", "in"}
  /\ error \in BOOLEAN /\ connected \in BOOLEAN
  /\ {saved, key} \subseteq {"none", "good", "revoked"} /\ reset \in BOOLEAN
  /\ step \in 1 .. Len(Steps) + 1 /\ asked \in {"no", "asked", "answered"}
  /\ dialog \in BOOLEAN /\ request_code_data \in BOOLEAN
  /\ password_retries \in 0 .. MaxTrouble + 1 /\ login_retries \in 0 .. MaxTrouble + 1
  /\ dialogues \in {"none", "requested", "failed", "ready"}
  /\ joins \in Seq([kind : JoinKinds,
                    fate : {"waiting", "served", "refused", "forgotten", "closed"}])
  /\ pending_joins \in Seq(DOMAIN joins)
  /\ roomlist \in {"none", "progress", "done"}
  /\ trouble \in 0 .. MaxTrouble

\* A question of tgl can be answered in exactly one place, unless the user was told
\* that the login is over; and in no place can a question be answered that tgl does
\* not wait for any more: the record with its callback is freed by then.
QuestionHeard ==
  /\ asked = "asked" /\ ~error => (dialog <=> ~request_code_data)
  /\ dialog \/ request_code_data => asked = "asked"
  /\ ~(dialog /\ request_code_data)

\* Once the dialogue list is there each chat that libpurple asked for by its id got
\* what a join gets now, or its account was closed before: also one asked for while
\* the list was being fetched, or in the code conversation that shows the account as
\* connected too early.  And the room list does not wait for it.  This is not so for
\* chats asked for by name or link before the list is there: they are forgotten
\* (tgp-chat.c:337-344), although the comment at 335 says that such chats are
\* remembered.
ServedWhenReady ==
  dialogues_ready =>
    /\ \A n \in DOMAIN joins : joins[n].kind # "named" =>
                               joins[n].fate \in {Fate(joins[n].kind), "closed"}
    /\ pending_joins = <<>> /\ roomlist # "progress"

\* The questions of this login can be answered with this client.
CanAnswer ==
  client.api \/ (number.registered /\ (number.password => client.password))

\* A user who signs on again after each error gets in, when errors end: a revoked
\* session, also one that is revoked anew or whose reset was interrupted, does not
\* fail the account for ever.
GetsIn == CanAnswer => <>[]dialogues_ready
=============================================================================

------------------------------ MODULE Transfers ------------------------------
(***************************************************************************)
(* File transfers (tgp-ft.c): who may free the data of a transfer.         *)
(*                                                                         *)
(* A load of tgl cannot be called off.  A transfer that is cancelled while *)
(* tgl loads therefore keeps its data, which the callback of the load      *)
(* still has, and the timer that shows the progress goes on.  The data is  *)
(* freed by the callback or, when the account is closed first, by          *)
(* tgprpl_xfer_free_all, just before tgl forgets its queries.              *)
(*                                                                         *)
(* The transfer itself (PurpleXfer) belongs to libpurple and to the        *)
(* front end that shows it; here it is only its status and the references  *)
(* this code holds.                                                        *)
(***************************************************************************)
EXTENDS Integers

CONSTANT Xfers     \* the transfers of one account

VARIABLES
  xfers,           \* what is known of each
  connected        \* whether the account has its connection_data

vars == <<xfers, connected>>

Statuses == {"none", "offered", "declined", "started", "done", "cancelled"}

Transfer ==
  [kind : {"send", "receive"},
   status : Statuses,
   data : {"none", "live"},   \* X->data; "corrupt" if it was freed twice
   loading : BOOLEAN,         \* data->loading
   timer : BOOLEAN,           \* whether data->timer has the number of the source
   source : BOOLEAN,          \* glib: the timeout of tgprpl_xfer_upload_progress
   query : BOOLEAN,           \* tgl: the load, with data as the callback's argument
   refs : 0 .. 1]             \* our references to the transfer

Nothing ==
  [kind |-> "send", status |-> "none", data |-> "none", loading |-> FALSE,
   timer |-> FALSE, source |-> FALSE, query |-> FALSE, refs |-> 0]

------------------------------------------------------------------------------
(* What the functions of the file do to one transfer *)

\* tgprpl_xfer_free_data
FreeData(t) ==
  [t EXCEPT !.data = IF @ = "live" THEN "none" ELSE "corrupt",
            !.loading = FALSE,
            !.timer = FALSE,
            !.source = @ /\ ~t.timer]

\* Mutant: what is cancelled is freed.
CanceledFrees(t) == FreeData(t)

\* tgprpl_xfer_canceled: the data of a load that runs is kept.
Canceled(t) == IF t.loading THEN t ELSE FreeData(t)

\* purple_xfer_cancel_local, purple_xfer_cancel_remote
Cancel(t) == Canceled([t EXCEPT !.status = "cancelled"])

\* tgprpl_xfer_recv_init, tgprpl_xfer_send_init, up to the call of tgl
Load(t) ==
  [t EXCEPT !.status = "started", !.refs = @ + 1, !.timer = TRUE, !.source = TRUE,
            !.loading = TRUE, !.query = TRUE]

\* The end of both callbacks.
Finished(t) == FreeData([t EXCEPT !.query = FALSE, !.loading = FALSE, !.refs = @ - 1])

\* Mutant: the load counts as over before a failed transfer is cancelled.
SendFinishedEarly(t, success) ==
  Finished(IF t.status = "cancelled" THEN t
           ELSE IF success THEN [t EXCEPT !.status = "done"]
           ELSE Cancel([t EXCEPT !.loading = FALSE]))

\* tgprpl_xfer_send_on_finished
SendFinished(t, success) ==
  Finished(IF t.status = "cancelled" THEN t
           ELSE IF success THEN [t EXCEPT !.status = "done"]
           ELSE Cancel(t))

\* tgprpl_xfer_recv_on_finished completes a cancelled transfer, too.
RecvFinished(t, success) ==
  Finished(IF success THEN [t EXCEPT !.status = "done"]
           ELSE IF t.status = "cancelled" THEN t
           ELSE Cancel(t))

\* Mutant: transfers are cancelled, and those that load are left alone.
ClosedCancels(t) == IF t.status \in {"offered", "started"} THEN Cancel(t) ELSE t

\* tgprpl_xfer_free_all for one transfer of the account; then tgl_free_all.
Closed(t) ==
  LET over == IF t.status \in {"offered", "started"} THEN Cancel(t) ELSE t
  IN  IF over.data = "live" /\ over.loading
      THEN [FreeData(over) EXCEPT !.refs = @ - 1, !.query = FALSE]
      ELSE over

------------------------------------------------------------------------------
(* Actions *)

Init ==
  /\ xfers = [x \in Xfers |-> Nothing]
  /\ connected = TRUE

Becomes(x, t) == xfers' = [xfers EXCEPT ![x] = t] /\ UNCHANGED connected

\* tgprpl_send_file, tgprpl_new_xfer for the user, tgprpl_recv_file for a message
New(x, kind) ==
  /\ connected /\ xfers[x].status = "none"
  /\ Becomes(x, [xfers[x] EXCEPT !.kind = kind, !.status = "offered", !.data = "live"])

\* The init functions.  The peer is looked up by its name, which may not be that of a
\* peer any more: then nothing is loaded and the transfer stays as it is.
Accept(x) ==
  /\ xfers[x].status = "offered"
  /\ Becomes(x, Load(xfers[x])) \/ Becomes(x, [xfers[x] EXCEPT !.status = "started"])

\* A document is not sent to a secret chat.
AcceptForSecretChat(x) ==
  /\ xfers[x].status = "offered" /\ xfers[x].kind = "send"
  /\ Becomes(x, Cancel([xfers[x] EXCEPT !.status = "started"]))

\* tgl has the file already and calls back at once.
AcceptKnownFile(x) ==
  /\ xfers[x].status = "offered" /\ xfers[x].kind = "receive"
  /\ Becomes(x, RecvFinished(Load(xfers[x]), TRUE))

\* The user cancels a transfer that runs, or one to send before it runs ...
UserCancel(x) ==
  /\ \/ xfers[x].status = "started"
     \/ xfers[x].status = "offered" /\ xfers[x].kind = "send"
  /\ Becomes(x, Cancel(xfers[x]))

\* ... or does not want a file, of which libpurple tells this code nothing: it has
\* set no request_denied function.
Decline(x) ==
  /\ xfers[x].status = "offered" /\ xfers[x].kind = "receive"
  /\ Becomes(x, [xfers[x] EXCEPT !.status = "declined"])

\* tgprpl_xfer_upload_progress returns FALSE: the counters of the connection, which
\* all transfers share, say that nothing is left.
ProgressEnds(x) ==
  /\ xfers[x].source
  /\ Becomes(x, [xfers[x] EXCEPT !.timer = FALSE, !.source = FALSE])

\* The answer of tgl.
Answer(x, success) ==
  /\ xfers[x].query
  /\ Becomes(x, IF xfers[x].kind = "send" THEN SendFinished(xfers[x], success)
                ELSE RecvFinished(xfers[x], success))

\* connection_data_free.  A declined transfer is gone from libpurple's list.
Close ==
  /\ connected /\ connected' = FALSE
  /\ xfers' = [x \in Xfers |-> IF xfers[x].status = "declined" THEN xfers[x]
                               ELSE Closed(xfers[x])]

SignOn == ~connected /\ connected' = TRUE /\ UNCHANGED xfers

OfTransfer(x) ==
  \/ \E kind \in {"send", "receive"} : New(x, kind)
  \/ Accept(x) \/ AcceptForSecretChat(x) \/ AcceptKnownFile(x)
  \/ UserCancel(x) \/ Decline(x) \/ ProgressEnds(x)
  \/ \E success \in BOOLEAN : Answer(x, success)

Next == (\E x \in Xfers : OfTransfer(x)) \/ Close \/ SignOn

Spec == Init /\ [][Next]_vars

------------------------------------------------------------------------------
(* Properties *)

\* Every variable has its type: no data is freed twice, and no reference given back
\* that was not taken.
TypeOK == xfers \in [Xfers -> Transfer] /\ connected \in BOOLEAN

\* Whatever still calls back finds what it uses: the answer of tgl the data it was
\* given and a reference to the transfer, the progress timer the data and the
\* connection behind it, whose end would have to know the timer.
CallbacksHaveData ==
  \A x \in Xfers :
    /\ xfers[x].query =>
         connected /\ xfers[x].data = "live" /\ xfers[x].loading /\ xfers[x].refs = 1
    /\ xfers[x].source => connected /\ xfers[x].data = "live" /\ xfers[x].timer

\* The data of a transfer that is over is gone, unless tgl still loads for it: at the
\* close of an account nothing is left that tgprpl_xfer_free_all would warn of, and
\* nothing of one connection is found in the next.  Only a declined offer keeps it.
DataReleased ==
  \A x \in Xfers : xfers[x].data = "live" =>
    \/ xfers[x].status = "declined"
    \/ connected /\ (xfers[x].status \in {"offered", "started"} \/ xfers[x].loading)
=============================================================================

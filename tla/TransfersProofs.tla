--------------------------- MODULE TransfersProofs ---------------------------
(***************************************************************************)
(* Proofs about Transfers, for any set of transfers.  No action relates    *)
(* two transfers, so the inductive invariant is one predicate on a         *)
(* transfer, and there is one lemma for each thing that can be done to it. *)
(***************************************************************************)
EXTENDS Transfers, TLAPS

\* What is true of a transfer while the account is up, or down.  A transfer loads
\* exactly while tgl has a query with its data; only then this code holds a reference
\* and the progress timer may run.  One that is offered or started has data to free.
Sound(t, up) ==
  /\ t \in Transfer
  /\ t.query <=> t.loading
  /\ t.refs = IF t.loading THEN 1 ELSE 0
  /\ t.source => t.timer /\ t.loading
  /\ t.loading => up /\ t.data = "live" /\ t.status \in {"started", "cancelled"}
  /\ t.status \in {"offered", "started"} => up /\ t.data = "live"
  /\ t.status = "none" => t.data = "none"
  /\ t.data = "live" => \/ t.status = "declined"
                        \/ up /\ (t.status \in {"offered", "started"} \/ t.loading)

Inv ==
  /\ connected \in BOOLEAN
  /\ xfers \in [Xfers -> Transfer]
  /\ \A x \in Xfers : Sound(xfers[x], connected)

------------------------------------------------------------------------------
(* One transfer *)

\* Data that is there is freed once, and its timer with it.
LEMMA FreeDataEffect ==
  ASSUME NEW t \in Transfer, t.data = "live", t.source => t.timer
  PROVE  /\ FreeData(t) \in Transfer
         /\ FreeData(t).data = "none" /\ ~FreeData(t).loading /\ ~FreeData(t).source
         /\ FreeData(t).status = t.status /\ FreeData(t).query = t.query
         /\ FreeData(t).refs = t.refs /\ FreeData(t).kind = t.kind
<1> QED
  BY DEF FreeData, Transfer

\* An offer or a load is cancelled; afterwards only the load has data.
LEMMA CancelSound ==
  ASSUME NEW t, Sound(t, TRUE), t.status \in {"offered", "started"}
  PROVE  /\ Sound(Cancel(t), TRUE)
         /\ Cancel(t).status = "cancelled"
         /\ Cancel(t).kind = t.kind /\ Cancel(t).loading = t.loading
<1> DEFINE c == [t EXCEPT !.status = "cancelled"]
<1>1. /\ c \in Transfer /\ c.status = "cancelled" /\ c.data = "live"
      /\ c.kind = t.kind /\ c.loading = t.loading /\ c.query = t.query
      /\ c.refs = t.refs /\ c.source = t.source /\ c.timer = t.timer
  BY DEF Sound, Transfer, Statuses
<1>2. Cancel(t) = IF c.loading THEN c ELSE FreeData(c)
  BY DEF Cancel, Canceled
<1> HIDE DEF c
<1>3. CASE c.loading
  BY <1>1, <1>2, <1>3 DEF Sound
<1>4. CASE ~c.loading
  <2>1. Cancel(t) = FreeData(c)
    BY <1>2, <1>4
  <2>2. c.source => c.timer
    BY <1>1 DEF Sound
  <2>3. c.query <=> c.loading
    BY <1>1 DEF Sound
  <2>4. c.refs = 0
    BY <1>1, <1>4 DEF Sound
  <2> DEFINE f == FreeData(c)
  <2>5. /\ f \in Transfer /\ f.data = "none" /\ ~f.loading /\ ~f.source
        /\ f.status = "cancelled" /\ ~f.query /\ f.refs = 0 /\ f.kind = t.kind
    BY <1>1, <1>4, <2>2, <2>3, <2>4, FreeDataEffect
  <2> HIDE DEF f
  <2>6. Sound(f, TRUE) /\ (f.loading <=> t.loading)
    BY <1>1, <1>4, <2>5 DEF Sound
  <2>7. f.loading = t.loading
    BY <1>1, <2>5, <2>6 DEF Sound, Transfer
  <2> QED
    BY <2>1, <2>5, <2>6, <2>7 DEF f
<1>5. c.loading \in BOOLEAN
  BY <1>1 DEF Transfer
<1> QED
  BY <1>3, <1>4, <1>5

LEMMA LoadSound ==
  ASSUME NEW t, Sound(t, TRUE), t.status = "offered"
  PROVE  /\ Sound(Load(t), TRUE) /\ Load(t).query
         /\ Load(t).kind = t.kind /\ Load(t).status = "started"
<1>1. t.loading \in BOOLEAN /\ ~t.loading /\ t.refs = 0 /\ t.data = "live"
  BY DEF Sound, Transfer
<1> DEFINE l == Load(t)
<1>2. /\ l \in Transfer /\ l.status = "started" /\ l.refs = 1 /\ l.timer /\ l.loading
      /\ l.query /\ l.data = "live" /\ l.kind = t.kind
  <2>1. t.refs + 1 = 1
    BY <1>1
  <2>2. l = [t EXCEPT !.status = "started", !.refs = 1, !.timer = TRUE, !.source = TRUE,
                      !.loading = TRUE, !.query = TRUE]
    BY <2>1, Zenon DEF Load
  <2>3. t \in Transfer
    BY DEF Sound
  <2> HIDE DEF l
  <2> QED
    <3> 1 \in 0 .. 1
      OBVIOUS
    <3>1. l \in Transfer
      BY <2>2, <2>3 DEF Transfer, Statuses
    <3>2. l.status = "started" /\ l.refs = 1 /\ l.timer = TRUE /\ l.loading = TRUE
      BY <2>2, <2>3 DEF Transfer
    <3>3. l.query = TRUE /\ l.data = t.data /\ l.kind = t.kind
      BY <2>2, <2>3 DEF Transfer
    <3> QED
      BY <1>1, <3>1, <3>2, <3>3
<1> HIDE DEF l
<1>3. Sound(l, TRUE)
  BY <1>2 DEF Sound
<1> QED
  BY <1>2, <1>3 DEF l

\* The end of a load: the reference is given back and the data freed.
LEMMA FinishedSound ==
  ASSUME NEW t, NEW s \in {"done", "cancelled"}, Sound(t, TRUE), t.query
  PROVE  Sound(Finished([t EXCEPT !.status = s]), TRUE)
<1> DEFINE d == [t EXCEPT !.status = s]
           e == [d EXCEPT !.query = FALSE, !.loading = FALSE, !.refs = @ - 1]
<1>1. t.loading /\ t.refs = 1 /\ t.data = "live" /\ (t.source => t.timer)
  BY DEF Sound, Transfer
<1>2. /\ e \in Transfer /\ e.status = s /\ e.data = "live" /\ ~e.query
      /\ e.refs = 0 /\ (e.source => e.timer)
  <2>1. t \in Transfer /\ d \in Transfer /\ d.status = s /\ d.data = "live" /\ d.refs = 1
        /\ (d.source => d.timer)
    BY <1>1 DEF Sound, Transfer, Statuses
  <2>2. e = [d EXCEPT !.query = FALSE, !.loading = FALSE, !.refs = 0]
    <3>1. d.refs - 1 = 0
      BY <2>1
    <3> QED
      BY <3>1, Zenon
  <2> HIDE DEF d, e
  <2> QED
    <3> 0 \in 0 .. 1
      OBVIOUS
    <3>1. e \in Transfer
      BY <2>1, <2>2 DEF Transfer
    <3>2. e.status = d.status /\ e.data = d.data /\ e.query = FALSE /\ e.refs = 0
      BY <2>1, <2>2 DEF Transfer
    <3>3. e.source = d.source /\ e.timer = d.timer
      BY <2>1, <2>2 DEF Transfer
    <3> QED
      BY <2>1, <3>1, <3>2, <3>3
<1>3. Finished(d) = FreeData(e)
  BY DEF Finished
<1> HIDE DEF d, e
<1>4. Sound(FreeData(e), TRUE)
  BY <1>2, FreeDataEffect DEF Sound
<1> QED
  BY <1>3, <1>4 DEF d

\* Both callbacks end a load with one of the two statuses.
LEMMA AnswerSound ==
  ASSUME NEW t, NEW success \in BOOLEAN, Sound(t, TRUE), t.query
  PROVE  Sound(SendFinished(t, success), TRUE) /\ Sound(RecvFinished(t, success), TRUE)
<1>1. t \in Transfer /\ t.loading /\ t.status \in {"started", "cancelled"}
  BY DEF Sound, Transfer
<1>2. /\ Cancel(t) = [t EXCEPT !.status = "cancelled"]
      /\ t.status = "cancelled" => t = [t EXCEPT !.status = "cancelled"]
  BY <1>1 DEF Cancel, Canceled, Transfer
<1>3. /\ Sound(Finished([t EXCEPT !.status = "done"]), TRUE)
      /\ Sound(Finished([t EXCEPT !.status = "cancelled"]), TRUE)
  BY FinishedSound
<1>4. \/ SendFinished(t, success) = Finished([t EXCEPT !.status = "done"])
      \/ SendFinished(t, success) = Finished([t EXCEPT !.status = "cancelled"])
  BY <1>1, <1>2 DEF SendFinished
<1>5. \/ RecvFinished(t, success) = Finished([t EXCEPT !.status = "done"])
      \/ RecvFinished(t, success) = Finished([t EXCEPT !.status = "cancelled"])
  BY <1>1, <1>2 DEF RecvFinished
<1> QED
  BY <1>3, <1>4, <1>5

\* The close of the account leaves no data but that of declined offers.
LEMMA ClosedSound ==
  ASSUME NEW t, Sound(t, TRUE), t.status # "declined"
  PROVE  Sound(Closed(t), FALSE)
<1> DEFINE over == IF t.status \in {"offered", "started"} THEN Cancel(t) ELSE t
<1>1. Sound(over, TRUE) /\ over.status \notin {"offered", "started", "declined"}
  BY CancelSound
<1>2. Closed(t) = IF over.data = "live" /\ over.loading
                  THEN [FreeData(over) EXCEPT !.refs = @ - 1, !.query = FALSE]
                  ELSE over
  BY DEF Closed
<1> HIDE DEF over
<1>3. over \in Transfer /\ over.loading \in BOOLEAN
  BY <1>1 DEF Sound, Transfer
<1>4. CASE over.data = "live" /\ over.loading
  <2> DEFINE f == FreeData(over)
  <2>1. over.refs = 1 /\ (over.source => over.timer) /\ over.status = "cancelled"
    BY <1>1, <1>4 DEF Sound
  <2>2. /\ f \in Transfer /\ f.data = "none" /\ ~f.loading /\ ~f.source
        /\ f.status = "cancelled" /\ f.refs = 1
    BY <1>3, <1>4, <2>1, FreeDataEffect
  <2>3. Closed(t) = [f EXCEPT !.refs = @ - 1, !.query = FALSE]
    BY <1>2, <1>4
  <2> DEFINE g == [f EXCEPT !.refs = @ - 1, !.query = FALSE]
  <2> HIDE DEF f
  <2>4. /\ g \in Transfer /\ g.data = "none" /\ ~g.loading /\ ~g.source /\ ~g.query
        /\ g.status = "cancelled" /\ g.refs = 0
    <3>1. f.refs - 1 = 0
      BY <2>2
    <3>2. g = [f EXCEPT !.refs = 0, !.query = FALSE]
      BY <3>1, Zenon
    <3> HIDE DEF g
    <3> 0 \in 0 .. 1
      OBVIOUS
    <3>3. g \in Transfer
      BY <2>2, <3>2 DEF Transfer
    <3>4. /\ g.data = f.data /\ g.loading = f.loading /\ g.source = f.source
          /\ g.query = FALSE /\ g.status = f.status /\ g.refs = 0
      BY <2>2, <3>2 DEF Transfer
    <3> QED
      BY <2>2, <3>3, <3>4
  <2> HIDE DEF g
  <2>5. Sound(g, FALSE)
    BY <2>4 DEF Sound
  <2> QED
    BY <2>3, <2>5 DEF g
<1>5. CASE ~(over.data = "live" /\ over.loading)
  <2>1. Closed(t) = over /\ ~over.loading /\ over.data # "live"
    BY <1>1, <1>2, <1>3, <1>5 DEF Sound
  <2> QED
    BY <1>1, <2>1 DEF Sound
<1> QED
  BY <1>4, <1>5

------------------------------------------------------------------------------
(* All transfers *)

LEMMA InvInit == Init => Inv
<1>1. Sound(Nothing, TRUE) /\ Nothing \in Transfer
  BY DEF Sound, Nothing, Transfer, Statuses
<1> QED
  BY <1>1 DEF Init, Inv

\* A step of one transfer keeps the others.
LEMMA OneTransfer ==
  ASSUME Inv, NEW x \in Xfers, NEW t, connected, Sound(t, TRUE), Becomes(x, t)
  PROVE  Inv'
<1>1. connected' = connected /\ xfers' = [xfers EXCEPT ![x] = t] /\ t \in Transfer
  BY DEF Becomes, Sound
<1>2. xfers' \in [Xfers -> Transfer]
  BY <1>1 DEF Inv
<1>3. \A y \in Xfers : xfers'[y] = IF y = x THEN t ELSE xfers[y]
  BY <1>1 DEF Inv
<1>4. connected = TRUE
  BY DEF Inv
<1>5. ASSUME NEW y \in Xfers PROVE Sound(xfers'[y], TRUE)
  <2>1. Sound(xfers[y], TRUE)
    BY <1>4 DEF Inv
  <2> QED
    BY <1>3, <2>1
<1> QED
  BY <1>1, <1>2, <1>4, <1>5 DEF Inv

LEMMA TransferStep ==
  ASSUME Inv, NEW x \in Xfers, OfTransfer(x)
  PROVE  Inv'
<1> DEFINE t == xfers[x]
<1>1. t \in Transfer /\ Sound(t, connected) /\ connected \in BOOLEAN
  BY DEF Inv
<1>2. connected
  <2>1. connected \/ t.status \in {"offered", "started"} \/ t.source \/ t.query
    BY DEF OfTransfer, New, Accept, AcceptForSecretChat, AcceptKnownFile, UserCancel,
           Decline, ProgressEnds, Answer
  <2> QED
    BY <1>1, <2>1 DEF Sound
<1>3. Sound(t, TRUE)
  BY <1>1, <1>2
<1> SUFFICES \E u : Sound(u, TRUE) /\ Becomes(x, u)
  BY <1>2, OneTransfer
<1>4. CASE \E kind \in {"send", "receive"} : New(x, kind)
  <2>1. PICK kind \in {"send", "receive"} : New(x, kind)
    BY <1>4
  <2> DEFINE u == [t EXCEPT !.kind = kind, !.status = "offered", !.data = "live"]
  <2>2. Becomes(x, u) /\ t.status = "none"
    BY <2>1 DEF New
  <2>3. Sound(u, TRUE)
    BY <1>3, <2>2 DEF Sound, Transfer, Statuses
  <2> QED
    BY <2>2, <2>3
<1>5. CASE Accept(x)
  <2> DEFINE u == [t EXCEPT !.status = "started"]
  <2>1. t.status = "offered" /\ (Becomes(x, Load(t)) \/ Becomes(x, u))
    BY <1>5 DEF Accept
  <2>2. Sound(u, TRUE)
    BY <1>3, <2>1 DEF Sound, Transfer, Statuses
  <2>3. Sound(Load(t), TRUE)
    BY <1>3, <2>1, LoadSound
  <2> QED
    BY <2>1, <2>2, <2>3
<1>6. CASE AcceptForSecretChat(x)
  <2> DEFINE u == [t EXCEPT !.status = "started"]
  <2>1. t.status = "offered" /\ Becomes(x, Cancel(u))
    BY <1>6 DEF AcceptForSecretChat
  <2>2. Sound(u, TRUE) /\ u.status = "started"
    BY <1>3, <2>1 DEF Sound, Transfer, Statuses
  <2> HIDE DEF u
  <2>3. Sound(Cancel(u), TRUE)
    BY <2>2, CancelSound
  <2> QED
    BY <2>1, <2>3
<1>7. CASE AcceptKnownFile(x)
  <2>1. t.status = "offered" /\ Becomes(x, RecvFinished(Load(t), TRUE))
    BY <1>7 DEF AcceptKnownFile
  <2>2. Sound(Load(t), TRUE) /\ Load(t).query
    BY <1>3, <2>1, LoadSound
  <2>3. Sound(RecvFinished(Load(t), TRUE), TRUE)
    BY <2>2, AnswerSound
  <2> QED
    BY <2>1, <2>3
<1>8. CASE UserCancel(x)
  <2>1. t.status \in {"offered", "started"} /\ Becomes(x, Cancel(t))
    BY <1>8 DEF UserCancel
  <2> QED
    BY <1>3, <2>1, CancelSound
<1>9. CASE Decline(x)
  <2> DEFINE u == [t EXCEPT !.status = "declined"]
  <2>1. t.status = "offered" /\ Becomes(x, u)
    BY <1>9 DEF Decline
  <2>2. Sound(u, TRUE)
    BY <1>3, <2>1 DEF Sound, Transfer, Statuses
  <2> QED
    BY <2>1, <2>2
<1>10. CASE ProgressEnds(x)
  <2> DEFINE u == [t EXCEPT !.timer = FALSE, !.source = FALSE]
  <2>1. Becomes(x, u)
    BY <1>10 DEF ProgressEnds
  <2>2. Sound(u, TRUE)
    BY <1>3 DEF Sound, Transfer
  <2> QED
    BY <2>1, <2>2
<1>11. CASE \E success \in BOOLEAN : Answer(x, success)
  <2>1. PICK success \in BOOLEAN : Answer(x, success)
    BY <1>11
  <2>2. t.query /\ Becomes(x, IF t.kind = "send" THEN SendFinished(t, success)
                              ELSE RecvFinished(t, success))
    BY <2>1 DEF Answer
  <2>3. Sound(SendFinished(t, success), TRUE) /\ Sound(RecvFinished(t, success), TRUE)
    BY <1>3, <2>2, AnswerSound
  <2> QED
    BY <2>2, <2>3
<1> QED
  BY <1>4, <1>5, <1>6, <1>7, <1>8, <1>9, <1>10, <1>11 DEF OfTransfer

LEMMA InvStep ==
  ASSUME Inv, [Next]_vars
  PROVE  Inv'
<1>1. CASE \E x \in Xfers : OfTransfer(x)
  BY <1>1, TransferStep
<1>2. CASE Close
  <2> DEFINE t(x) == IF xfers[x].status = "declined" THEN xfers[x] ELSE Closed(xfers[x])
  <2>1. connected' = FALSE /\ xfers' = [x \in Xfers |-> t(x)] /\ connected = TRUE
    BY <1>2 DEF Close, Inv
  <2>2. ASSUME NEW x \in Xfers PROVE Sound(t(x), FALSE)
    <3>1. Sound(xfers[x], TRUE)
      BY <2>1 DEF Inv
    <3>2. CASE xfers[x].status = "declined"
      BY <3>1, <3>2 DEF Sound
    <3>3. CASE xfers[x].status # "declined"
      BY <3>1, <3>3, ClosedSound
    <3> QED
      BY <3>2, <3>3
  <2> HIDE DEF t
  <2>3. \A x \in Xfers : t(x) \in Transfer
    BY <2>2 DEF Sound
  <2> QED
    BY <2>1, <2>2, <2>3 DEF Inv
<1>3. CASE SignOn
  <2>1. connected' = TRUE /\ xfers' = xfers /\ connected = FALSE
    BY <1>3 DEF SignOn, Inv
  <2>2. ASSUME NEW x \in Xfers PROVE Sound(xfers[x], TRUE)
    <3>1. Sound(xfers[x], FALSE)
      BY <2>1 DEF Inv
    <3> QED
      BY <3>1 DEF Sound
  <2> QED
    BY <2>1, <2>2 DEF Inv
<1>4. CASE UNCHANGED vars
  BY <1>4 DEF vars, Inv
<1> QED
  BY <1>1, <1>2, <1>3, <1>4 DEF Next

------------------------------------------------------------------------------
(* The theorems *)

LEMMA Invariance == Spec => []Inv
<1> QED
  BY InvInit, InvStep, PTL DEF Spec

\* For any number of transfers: no data is freed twice, and every reference that is
\* taken is given back once (tgprpl_xfer_free_data and its callers).
THEOREM TypeCorrect == Spec => []TypeOK
<1>1. Inv => TypeOK
  BY DEF Inv, TypeOK
<1> QED
  BY <1>1, Invariance, PTL

\* For any number of transfers: the callback of a load and the progress timer find the
\* data and the connection they use, whatever is cancelled or closed before.
THEOREM CallbacksSafe == Spec => []CallbacksHaveData
<1>1. Inv => CallbacksHaveData
  BY DEF Inv, CallbacksHaveData, Sound
<1> QED
  BY <1>1, Invariance, PTL

\* For any number of transfers: the data of a transfer that is over, or whose account
\* was closed, is gone, unless the offer was declined (tgprpl_xfer_canceled,
\* tgprpl_xfer_free_all).
THEOREM DataIsReleased == Spec => []DataReleased
<1>1. Inv => DataReleased
  BY DEF Inv, DataReleased, Sound
<1> QED
  BY <1>1, Invariance, PTL
=============================================================================

----------------------------- MODULE Connection -----------------------------
(***************************************************************************)
(* One connection to a data center (struct connection of tgp-net.c): its   *)
(* attempts to connect, its sockets and its two timers.                    *)
(*                                                                         *)
(* Every handler is a callback of the glib main loop that runs to its end, *)
(* so each is one action, composed of operators that map the connection c  *)
(* to the connection after a function of tgp-net.c returned.  A glib event *)
(* source is known to the code by a number it keeps in ping_ev, fail_ev,   *)
(* read_ev or write_ev; ev says what the number stands for: no source, a   *)
(* live one, or one that is gone already.  Time is discrete; the main loop *)
(* fires a timer that is due before time goes on.                          *)
(***************************************************************************)
EXTENDS Integers, FiniteSets

CONSTANTS
  PingTimeout,      \* PING_TIMEOUT and CONNECT_TIMEOUT, in units of time
  ConnectTimeout,
  MaxOut            \* bound: bytes in the out buffers

ASSUME TimeAssumption ==
  /\ PingTimeout \in Nat \ {0} /\ ConnectTimeout \in Nat \ {0} /\ MaxOut \in Nat \ {0}

VARIABLES
  c,            \* the struct connection
  attempt,      \* prpl_data: the callback of the pending purple_proxy_connect
  idle,         \* time since last_receive_time was set, up to IdleBound
  slept,        \* whether the wall clock jumped ahead since then (suspend)
  peer,         \* whether the server still sends anything
  told,         \* what the user was told: nothing, or that the connection failed
  freed         \* whether tgln_free was called

vars == <<c, attempt, idle, slept, peer, told, freed>>

Timers == {"ping", "fail"}
Sources == Timers \cup {"read", "write"}
Ports == {443, 80, 25}
IdleBound == 8 * PingTimeout

------------------------------------------------------------------------------
(* Event sources *)

\* purple_timeout_add_seconds and purple_input_add: a source that the field k
\* referred to before is out of reach from now on.
Add(d, k) ==
  [d EXCEPT !.ev[k] = "live", !.orphans = IF d.ev[k] = "live" THEN @ \cup {k} ELSE @]

AddTimer(d, k, time) == [Add(d, k) EXCEPT !.due[k] = time]

\* purple_timeout_remove and purple_input_remove, and -1 for the field.  For a
\* number without a source glib only logs.
Remove(d, k) == [d EXCEPT !.ev[k] = "none"]

StartPingTimer(d) == AddTimer(d, "ping", PingTimeout)
StopPingTimer(d) == Remove(d, "ping")

\* Mutant: the timer is stopped and not started again.
ReceivedOnce(d) == StopPingTimer(d)

\* What try_read does for every successful recv.
Received(d) == StartPingTimer(StopPingTimer(d))

------------------------------------------------------------------------------
(* The out buffers, and the end of a connection *)

\* tgln_write_out: the first bytes add a source that waits for the socket.
WriteOut(d, n) ==
  LET watched == IF d.out_bytes = 0 THEN Add(d, "write") ELSE d
  IN  IF n = 0 THEN d ELSE [watched EXCEPT !.out_bytes = @ + n]

RotatePort(port) == CASE port = 443 -> 80 [] port = 80 -> 25 [] port = 25 -> 443

\* Mutant: the buffers are emptied, the source stays.
FailKeepingWrite(d) ==
  LET stopped == IF d.state = "ready" THEN StopPingTimer(d) ELSE d
  IN  [Remove(stopped, "read") EXCEPT !.state = "failed", !.out_bytes = 0,
                                      !.port = RotatePort(@)]

\* fail_connection: it leaves the socket open and, unless the state is ready, the
\* ping timer running.  prpl_data and the error are set by its callers here.
Fail(d) ==
  LET stopped == IF d.state = "ready" THEN StopPingTimer(d) ELSE d
  IN  [Remove(Remove(stopped, "write"), "read") EXCEPT
         !.state = "failed", !.out_bytes = 0, !.port = RotatePort(@)]

\* Mutant: the sources of the socket are left to the close of the socket.
FreedTimersOnly(d) == [Remove(Remove(d, "ping"), "fail") EXCEPT !.fd = FALSE]

\* tgln_free
Freed(d) ==
  [d EXCEPT !.ev = [k \in Sources |-> "none"], !.fd = FALSE]

\* The bytes that tgl may write, within the bound.
Writes(d) == 0 .. MaxOut - d.out_bytes

\* tglt_get_double_time () - c->last_receive_time > 6 * PING_TIMEOUT
TimedOut == slept \/ idle > 6 * PingTimeout

------------------------------------------------------------------------------
(* Connecting *)

\* tgln_create_connection: the callback depends on whether this is the main data
\* center at the time.
Init ==
  /\ \E port \in Ports :
       c = AddTimer([state |-> "connecting", fd |-> FALSE, port |-> port, out_bytes |-> 0,
                     ev |-> [k \in Sources |-> "none"], due |-> [k \in Timers |-> 0],
                     orphans |-> {}],
                    "fail", ConnectTimeout)
  /\ attempt \in {"main", "other"}
  /\ idle = 0 /\ slept = FALSE /\ peer = "up" /\ told = "nothing" /\ freed = FALSE

\* Mutant: nobody hears of the failure.
ConnectFailedSilently ==
  /\ attempt # "none"
  /\ attempt' = "none"
  /\ c' = Remove(c, "fail")
  /\ UNCHANGED <<told, idle, slept, peer, freed>>

\* Mutant: the fail timer outlives the attempt it watches.
ConnectFailedUnwatched ==
  /\ attempt # "none"
  /\ attempt' = "none"
  /\ told' = IF attempt = "main" THEN "error" ELSE told
  /\ UNCHANGED <<c, idle, slept, peer, freed>>

\* net_on_connected and net_on_connected_assert_success, fd = -1: the first only
\* logs, the second reports an error.  Neither leaves a timer that tries again.
ConnectFailed ==
  /\ attempt # "none"
  /\ attempt' = "none"
  /\ c' = Remove(c, "fail")
  /\ told' = IF attempt = "main" THEN "error" ELSE told
  /\ UNCHANGED <<idle, slept, peer, freed>>

\* The same, connected: the first byte announces the abridged protocol.
Connected ==
  /\ attempt # "none"
  /\ attempt' = "none"
  /\ c' = StartPingTimer(WriteOut(Add([Remove(c, "fail") EXCEPT !.fd = TRUE], "read"), 1))
  /\ idle' = 0 /\ slept' = FALSE
  /\ UNCHANGED <<peer, told, freed>>

\* fail_alarm: the timer is not repeated, and fail_ev keeps its number.
\* restart_connection cancels the attempt and makes a new one.
FailAlarm ==
  /\ c.ev["fail"] = "live" /\ c.due["fail"] = 0
  /\ c' = [c EXCEPT !.ev["fail"] = "stale"]
  /\ IF TimedOut
     THEN told' = "error" /\ UNCHANGED attempt
     ELSE attempt' \in {"main", "other"} /\ UNCHANGED told
  /\ UNCHANGED <<idle, slept, peer, freed>>

------------------------------------------------------------------------------
(* The socket and the ping timer *)

\* conn_try_read: bytes arrive, and tgl writes in answer to them.
Read ==
  /\ c.ev["read"] = "live" /\ peer = "up"
  /\ \E n \in Writes(c) : c' = WriteOut(Received(c), n)
  /\ idle' = 0 /\ slept' = FALSE
  /\ UNCHANGED <<attempt, peer, told, freed>>

\* conn_try_read: recv fails, at once or after bytes that filled a buffer.  (The
\* end of the stream is not an error: it leaves everything as it is.)
ReadFailed ==
  /\ c.ev["read"] = "live"
  /\ \/ c' = Fail(c) /\ UNCHANGED <<idle, slept>>
     \/ /\ peer = "up"
        /\ c' = Fail(Received(c)) /\ idle' = 0 /\ slept' = FALSE
  /\ attempt' = "none" /\ told' = "error"
  /\ UNCHANGED <<peer, freed>>

\* A connection whose socket is writable for the first time is ready, and tgl
\* writes what it has to say.
MadeReady(d) ==
  IF d.state = "connecting"
  THEN {WriteOut([d EXCEPT !.state = "ready"], n) : n \in Writes(d)}
  ELSE {d}

\* conn_try_write: send takes some of the bytes, or fails.
Write ==
  /\ c.ev["write"] = "live"
  /\ \E d \in MadeReady(c) :
       \/ /\ \E sent \in 0 .. d.out_bytes :
               LET rest == [d EXCEPT !.out_bytes = @ - sent]
               IN  c' = IF rest.out_bytes = 0 THEN Remove(rest, "write") ELSE rest
          /\ UNCHANGED <<attempt, told>>
       \/ /\ c' = Remove(Fail(d), "write")
          /\ attempt' = "none" /\ told' = "error"
  /\ UNCHANGED <<idle, slept, peer, freed>>

\* Mutant: pings go on, and the connection with them.
PingAlarmPatient ==
  /\ c.ev["ping"] = "live" /\ c.due["ping"] = 0
  /\ \E n \in Writes(c) \cap {0, 1} :
       c' = WriteOut([c EXCEPT !.due["ping"] = PingTimeout], IF c.state = "ready" THEN n ELSE 0)
  /\ UNCHANGED <<attempt, told, idle, slept, peer, freed>>

\* ping_alarm: give up, send a ping, or wait for another PING_TIMEOUT.  When it
\* gives up, the state is failed before fail_connection looks at it, and the
\* timer ends because the alarm says so: ping_ev keeps its number.
PingAlarm ==
  /\ c.ev["ping"] = "live" /\ c.due["ping"] = 0
  /\ IF TimedOut
     THEN /\ c' = [Fail([c EXCEPT !.state = "failed"]) EXCEPT !.ev["ping"] = "stale"]
          /\ attempt' = "none" /\ told' = "error"
     ELSE /\ \E n \in IF idle > 3 * PingTimeout /\ c.state = "ready" THEN Writes(c) \cap {0, 1}
                      ELSE {0} :
               c' = WriteOut([c EXCEPT !.due["ping"] = PingTimeout], n)
          /\ UNCHANGED <<attempt, told>>
  /\ UNCHANGED <<idle, slept, peer, freed>>

------------------------------------------------------------------------------
(* The rest of the program, and the world *)

\* tgl sends a query, also on a connection that has just failed.
TglWrite ==
  /\ ~freed /\ c.state # "connecting"
  /\ \E n \in Writes(c) \ {0} : c' = WriteOut(c, n)
  /\ UNCHANGED <<attempt, idle, slept, peer, told, freed>>

\* tgprpl_close: libpurple has cancelled the pending attempt by then.
Close ==
  /\ ~freed
  /\ freed' = TRUE
  /\ attempt' = "none"
  /\ c' = Freed(c)
  /\ UNCHANGED <<idle, slept, peer, told>>

Tick ==
  LET running == {k \in Timers : c.ev[k] = "live"}
  IN  /\ ~freed
      /\ \A k \in running : c.due[k] > 0
      /\ c' = [c EXCEPT !.due = [k \in Timers |-> IF k \in running THEN @[k] - 1 ELSE @[k]]]
      /\ idle' = IF idle < IdleBound THEN idle + 1 ELSE idle
      /\ UNCHANGED <<attempt, slept, peer, told, freed>>

\* The machine was suspended: wall clock time passed, the timers did not notice.
Suspend ==
  /\ ~freed /\ slept' = TRUE
  /\ UNCHANGED <<c, attempt, idle, peer, told, freed>>

\* The server, or the network on the way to it, falls silent.
FallSilent ==
  /\ peer' = "silent"
  /\ UNCHANGED <<c, attempt, idle, slept, told, freed>>

Next ==
  \/ ConnectFailed \/ Connected \/ FailAlarm
  \/ Read \/ ReadFailed \/ Write \/ PingAlarm
  \/ TglWrite \/ Close
  \/ Tick \/ Suspend \/ FallSilent

Spec == Init /\ [][Next]_vars

\* purple_proxy_connect calls back in the end; a socket with room is reported
\* writable; time passes and timers fire.
Fairness ==
  /\ WF_vars(ConnectFailed \/ Connected)
  /\ WF_vars(Write)
  /\ WF_vars(FailAlarm) /\ WF_vars(PingAlarm)
  /\ WF_vars(Tick)

FairSpec == Spec /\ Fairness

------------------------------------------------------------------------------
(* Properties *)

Connections ==
  [state : {"connecting", "ready", "failed"}, fd : BOOLEAN, port : Ports,
   out_bytes : 0 .. MaxOut, ev : [Sources -> {"none", "live", "stale"}],
   due : [Timers -> Nat], orphans : SUBSET Sources]

\* Every variable has its type.
TypeOK ==
  /\ c \in Connections
  /\ attempt \in {"none", "main", "other"}
  /\ idle \in 0 .. IdleBound
  /\ slept \in BOOLEAN
  /\ peer \in {"up", "silent"}
  /\ told \in {"nothing", "error"}
  /\ freed \in BOOLEAN

\* tgp-net.c:120, assert (c->write_ev == -1): bytes wait in the buffers exactly
\* while a source waits for the socket.  With a source too few they are never
\* sent; with one too many the process ends.
WriteWatched == ~freed => (c.out_bytes > 0 <=> c.ev["write"] # "none")

\* Nothing calls back with a connection that was freed: whatever the handlers
\* did before, tgln_free knows the number of every source that is alive.
NoCallbackAfterFree ==
  c.orphans = {} /\ (freed => attempt = "none" /\ \A k \in Sources : c.ev[k] # "live")

\* restart_connection cancels prpl_data, which libpurple frees once the attempt is
\* over: while the fail timer runs, the attempt is pending.
RestartSafe == c.ev["fail"] = "live" => attempt # "none" /\ ~c.fd

\* A server that falls silent is given up, at the latest one PING_TIMEOUT after
\* the six that it has: no state, and no order of reads and alarms, loses the
\* ping timer of an established connection.
SilenceBounded == c.fd /\ c.state # "failed" => idle <= 7 * PingTimeout

\* An attempt to connect to the main data center ends in an established connection
\* or in an error that the user is told of, or another data center is the main one
\* when it is repeated.  Of other data centers this is not so: a connection to one that
\* is refused is given up, with a line in the debug log (tgp-net.c:253-257).
ReadyOrTold ==
  attempt = "main" ~> c.state = "ready" \/ told = "error" \/ freed \/ attempt = "other"

\* An established connection to a server that says nothing more ends in an error.
SilenceReported == c.fd /\ peer = "silent" ~> told = "error" \/ freed
=============================================================================

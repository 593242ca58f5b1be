-------------------------- MODULE ConnectionProofs --------------------------
(***************************************************************************)
(* Proofs about Connection: its event sources stay in step with its state, *)
(* for every length of the timeouts and every size of the buffers.  The    *)
(* handlers are composed of operators on the connection: a lemma says what *)
(* each operator does to the fields, and a step follows from the lemmas of *)
(* the operators it is made of.                                            *)
(***************************************************************************)
EXTENDS Connection, TLAPS

\* Before the socket exists none of its sources does.
Unconnected(d) ==
  d.state = "connecting" /\ \A k \in Sources \ {"fail"} : d.ev[k] = "none"

\* The inductive invariant.  That no source is orphaned depends on how far the
\* connection is: a timer or a source is only added where none is alive.
Inv ==
  /\ TypeOK
  /\ c.orphans = {}
  /\ WriteWatched
  /\ RestartSafe
  /\ attempt # "none" => ~c.fd
  /\ ~c.fd /\ ~freed => Unconnected(c)
  /\ freed => attempt = "none" /\ \A k \in Sources : c.ev[k] = "none"

------------------------------------------------------------------------------
(* What the operators do *)

LEMMA AddEffect ==
  ASSUME NEW d \in Connections, NEW k \in Sources, d.ev[k] # "live"
  PROVE  LET e == Add(d, k)
         IN  /\ e \in Connections
             /\ e.state = d.state /\ e.fd = d.fd /\ e.port = d.port /\ e.due = d.due
             /\ e.out_bytes = d.out_bytes /\ e.orphans = d.orphans
             /\ e.ev[k] = "live" /\ \A j \in Sources \ {k} : e.ev[j] = d.ev[j]
<1> DEFINE e == Add(d, k)
<1>1. e = [d EXCEPT !.ev = [d.ev EXCEPT ![k] = "live"]]
  BY DEF Add, Connections
<1>2. [d.ev EXCEPT ![k] = "live"] \in [Sources -> {"none", "live", "stale"}]
  BY DEF Connections
<1>3. /\ e.state = d.state /\ e.fd = d.fd /\ e.port = d.port /\ e.due = d.due
      /\ e.out_bytes = d.out_bytes /\ e.orphans = d.orphans
      /\ e.ev = [d.ev EXCEPT ![k] = "live"]
  BY <1>1 DEF Connections
<1>4. e \in Connections
  BY <1>1, <1>2 DEF Connections
<1>5. e.ev[k] = "live" /\ \A j \in Sources \ {k} : e.ev[j] = d.ev[j]
  BY <1>3 DEF Connections
<1> QED
  BY <1>3, <1>4, <1>5

LEMMA RemoveEffect ==
  ASSUME NEW d \in Connections, NEW k \in Sources
  PROVE  LET e == Remove(d, k)
         IN  /\ e \in Connections
             /\ e.state = d.state /\ e.fd = d.fd /\ e.port = d.port /\ e.due = d.due
             /\ e.out_bytes = d.out_bytes /\ e.orphans = d.orphans
             /\ e.ev[k] = "none" /\ \A j \in Sources \ {k} : e.ev[j] = d.ev[j]
<1> DEFINE e == Remove(d, k)
<1>1. e = [d EXCEPT !.ev = [d.ev EXCEPT ![k] = "none"]]
  BY DEF Remove, Connections
<1>2. [d.ev EXCEPT ![k] = "none"] \in [Sources -> {"none", "live", "stale"}]
  BY DEF Connections
<1>3. /\ e.state = d.state /\ e.fd = d.fd /\ e.port = d.port /\ e.due = d.due
      /\ e.out_bytes = d.out_bytes /\ e.orphans = d.orphans
      /\ e.ev = [d.ev EXCEPT ![k] = "none"]
  BY <1>1 DEF Connections
<1>4. e \in Connections
  BY <1>1, <1>2 DEF Connections
<1>5. e.ev[k] = "none" /\ \A j \in Sources \ {k} : e.ev[j] = d.ev[j]
  BY <1>3 DEF Connections
<1> QED
  BY <1>3, <1>4, <1>5

LEMMA AddTimerEffect ==
  ASSUME NEW d \in Connections, NEW k \in Timers, d.ev[k] # "live", NEW time \in Nat
  PROVE  LET e == AddTimer(d, k, time)
         IN  /\ e \in Connections
             /\ e.state = d.state /\ e.fd = d.fd /\ e.port = d.port
             /\ e.out_bytes = d.out_bytes /\ e.orphans = d.orphans /\ e.due[k] = time
             /\ e.ev[k] = "live" /\ \A j \in Sources \ {k} : e.ev[j] = d.ev[j]
<1> DEFINE added == Add(d, k)
           e == AddTimer(d, k, time)
<1>1. /\ added \in Connections
      /\ added.state = d.state /\ added.fd = d.fd /\ added.port = d.port
      /\ added.out_bytes = d.out_bytes /\ added.orphans = d.orphans
      /\ added.ev[k] = "live" /\ \A j \in Sources \ {k} : added.ev[j] = d.ev[j]
  BY AddEffect DEF Sources
<1>2. e = [added EXCEPT !.due = [added.due EXCEPT ![k] = time]]
  BY <1>1 DEF AddTimer, Connections
<1> HIDE DEF added
<1>3. /\ e.state = added.state /\ e.fd = added.fd /\ e.port = added.port
      /\ e.out_bytes = added.out_bytes /\ e.orphans = added.orphans /\ e.ev = added.ev
      /\ e.due[k] = time
  BY <1>1, <1>2 DEF Connections
<1>4. [added.due EXCEPT ![k] = time] \in [Timers -> Nat]
  BY <1>1 DEF Connections
<1>5. e \in Connections
  BY <1>1, <1>2, <1>4 DEF Connections
<1> QED
  BY <1>1, <1>3, <1>5

\* The fields that WriteOut leaves alone, and what it does to the others.
LEMMA WriteOutEffect ==
  ASSUME NEW d \in Connections, NEW n \in Writes(d), d.out_bytes > 0 <=> d.ev["write"] # "none"
  PROVE  LET e == WriteOut(d, n)
         IN  /\ e \in Connections
             /\ e.out_bytes > 0 <=> e.ev["write"] # "none"
             /\ e.out_bytes = d.out_bytes + n
             /\ e.state = d.state /\ e.fd = d.fd /\ e.orphans = d.orphans /\ e.due = d.due
             /\ \A k \in Sources \ {"write"} : e.ev[k] = d.ev[k]
<1> DEFINE watched == IF d.out_bytes = 0 THEN Add(d, "write") ELSE d
<1>1. n \in Nat /\ d.out_bytes \in Nat /\ d.out_bytes + n \in 0 .. MaxOut
  BY TimeAssumption DEF Writes, Connections
<1>2. CASE n = 0
  BY <1>1, <1>2 DEF WriteOut
<1>3. CASE n # 0
  <2>1. /\ watched \in Connections /\ watched.ev["write"] # "none"
        /\ watched.out_bytes = d.out_bytes
        /\ watched.state = d.state /\ watched.fd = d.fd /\ watched.orphans = d.orphans
        /\ watched.due = d.due
        /\ \A k \in Sources \ {"write"} : watched.ev[k] = d.ev[k]
    <3>1. CASE d.out_bytes = 0
      <4>1. d.ev["write"] # "live" /\ "write" \in Sources
        BY <3>1 DEF Sources
      <4> QED
        BY <3>1, <4>1, AddEffect
    <3>2. CASE d.out_bytes # 0
      BY <1>1, <3>2
    <3> QED
      BY <3>1, <3>2
  <2>2. WriteOut(d, n) = [watched EXCEPT !.out_bytes = d.out_bytes + n]
    BY <1>3, <2>1 DEF WriteOut
  <2> HIDE DEF watched
  <2>3. WriteOut(d, n) \in Connections
    BY <1>1, <2>1, <2>2 DEF Connections
  <2> QED
    BY <1>1, <1>3, <2>1, <2>2, <2>3 DEF Connections
<1> QED
  BY <1>2, <1>3

\* fail_connection closes what waits for the socket; the ping timer may go on.
LEMMA FailEffect ==
  ASSUME NEW d \in Connections
  PROVE  LET e == Fail(d)
         IN  /\ e \in Connections
             /\ e.state = "failed" /\ e.out_bytes = 0
             /\ e.fd = d.fd /\ e.orphans = d.orphans
             /\ e.ev["write"] = "none" /\ e.ev["read"] = "none" /\ e.ev["fail"] = d.ev["fail"]
             /\ e.ev["ping"] \in {d.ev["ping"], "none"}
<1> DEFINE stopped == IF d.state = "ready" THEN StopPingTimer(d) ELSE d
           unwatched == Remove(stopped, "write")
           closed == Remove(unwatched, "read")
<1> USE DEF Sources, Timers
<1>1. /\ stopped \in Connections /\ stopped.fd = d.fd /\ stopped.orphans = d.orphans
      /\ stopped.port = d.port /\ stopped.due = d.due
      /\ stopped.ev["fail"] = d.ev["fail"] /\ stopped.ev["ping"] \in {d.ev["ping"], "none"}
  BY RemoveEffect DEF StopPingTimer, Connections
<1> HIDE DEF stopped
<1>2. /\ unwatched \in Connections /\ unwatched.fd = d.fd /\ unwatched.orphans = d.orphans
      /\ unwatched.port = d.port /\ unwatched.ev["write"] = "none"
      /\ unwatched.ev["fail"] = d.ev["fail"] /\ unwatched.ev["ping"] \in {d.ev["ping"], "none"}
  BY <1>1, RemoveEffect DEF Connections
<1> HIDE DEF unwatched
<1>3. /\ closed \in Connections /\ closed.fd = d.fd /\ closed.orphans = d.orphans
      /\ closed.port = d.port /\ closed.ev["write"] = "none" /\ closed.ev["read"] = "none"
      /\ closed.ev["fail"] = d.ev["fail"] /\ closed.ev["ping"] \in {d.ev["ping"], "none"}
  BY <1>2, RemoveEffect DEF Connections
<1>4. Fail(d) = [closed EXCEPT !.state = "failed", !.out_bytes = 0, !.port = RotatePort(d.port)]
  BY <1>3 DEF Fail, closed, unwatched, stopped
<1>5. RotatePort(d.port) \in Ports
  BY DEF RotatePort, Ports, Connections
<1>6. 0 \in 0 .. MaxOut
  BY TimeAssumption
<1> HIDE DEF closed
<1> QED
  BY <1>3, <1>4, <1>5, <1>6 DEF Connections

\* try_read restarts the ping timer: none is left behind.
LEMMA ReceivedEffect ==
  ASSUME NEW d \in Connections
  PROVE  LET e == Received(d)
         IN  /\ e \in Connections
             /\ e.state = d.state /\ e.fd = d.fd /\ e.orphans = d.orphans
             /\ e.out_bytes = d.out_bytes
             /\ e.ev["ping"] = "live" /\ e.due["ping"] = PingTimeout
             /\ \A k \in Sources \ {"ping"} : e.ev[k] = d.ev[k]
<1> DEFINE stopped == Remove(d, "ping")
<1> USE DEF Sources, Timers
<1>1. /\ stopped \in Connections /\ stopped.ev["ping"] = "none"
      /\ stopped.state = d.state /\ stopped.fd = d.fd /\ stopped.orphans = d.orphans
      /\ stopped.out_bytes = d.out_bytes
      /\ \A k \in Sources \ {"ping"} : stopped.ev[k] = d.ev[k]
  BY RemoveEffect
<1>2. Received(d) = AddTimer(stopped, "ping", PingTimeout) /\ PingTimeout \in Nat
  BY TimeAssumption DEF Received, StartPingTimer, StopPingTimer
<1> HIDE DEF stopped
<1> QED
  BY <1>1, <1>2, AddTimerEffect

------------------------------------------------------------------------------
(* The steps *)

LEMMA IdleBoundType == IdleBound \in Nat /\ 0 \in 0 .. IdleBound
BY TimeAssumption DEF IdleBound

LEMMA InitInv ==
  ASSUME Init
  PROVE  Inv
<1> USE DEF Sources, Timers
<1>1. PICK port \in Ports :
        c = AddTimer([state |-> "connecting", fd |-> FALSE, port |-> port, out_bytes |-> 0,
                      ev |-> [k \in Sources |-> "none"], due |-> [k \in Timers |-> 0],
                      orphans |-> {}],
                     "fail", ConnectTimeout)
  BY DEF Init
<1> DEFINE d == [state |-> "connecting", fd |-> FALSE, port |-> port, out_bytes |-> 0,
                 ev |-> [k \in Sources |-> "none"], due |-> [k \in Timers |-> 0],
                 orphans |-> {}]
<1>2. /\ d \in Connections /\ d.state = "connecting" /\ d.fd = FALSE /\ d.out_bytes = 0
      /\ d.orphans = {} /\ \A k \in Sources : d.ev[k] = "none"
  BY TimeAssumption DEF Connections
<1>3. c = AddTimer(d, "fail", ConnectTimeout) /\ ConnectTimeout \in Nat
  BY <1>1, TimeAssumption
<1> HIDE DEF d
<1>4. /\ c \in Connections /\ c.state = "connecting" /\ c.fd = FALSE /\ c.out_bytes = 0
      /\ c.orphans = {} /\ \A k \in Sources \ {"fail"} : c.ev[k] = "none"
  BY <1>2, <1>3, AddTimerEffect
<1>5. TypeOK
  BY <1>4, IdleBoundType DEF Init, TypeOK
<1>6. attempt # "none" /\ freed = FALSE
  BY DEF Init
<1>7. WriteWatched /\ RestartSafe /\ Unconnected(c)
  BY <1>4, <1>6 DEF WriteWatched, RestartSafe, Unconnected
<1> QED
  BY <1>4, <1>5, <1>6, <1>7 DEF Inv

LEMMA ConnectFailedInv ==
  ASSUME Inv, ConnectFailed
  PROVE  Inv'
<1> USE DEF Sources, Timers
<1>1. c \in Connections /\ c' = Remove(c, "fail")
  BY DEF Inv, TypeOK, ConnectFailed
<1>2. /\ c' \in Connections
      /\ c'.state = c.state /\ c'.fd = c.fd /\ c'.out_bytes = c.out_bytes
      /\ c'.orphans = c.orphans /\ c'.ev["fail"] = "none"
      /\ \A k \in Sources \ {"fail"} : c'.ev[k] = c.ev[k]
  BY <1>1, RemoveEffect
<1>3. TypeOK'
  BY <1>2 DEF Inv, TypeOK, ConnectFailed
<1> QED
  BY <1>2, <1>3 DEF Inv, ConnectFailed, WriteWatched, RestartSafe, Unconnected

LEMMA ConnectedInv ==
  ASSUME Inv, Connected
  PROVE  Inv'
<1> USE DEF Sources, Timers
<1> DEFINE unwatched == Remove(c, "fail")
           opened == [unwatched EXCEPT !.fd = TRUE]
           reading == Add(opened, "read")
           announced == WriteOut(reading, 1)
<1>1. c \in Connections /\ ~c.fd /\ ~freed /\ Unconnected(c) /\ c.out_bytes = 0
  BY DEF Inv, TypeOK, Connected, WriteWatched, Unconnected, Connections
<1>2. /\ unwatched \in Connections /\ unwatched.orphans = {} /\ unwatched.out_bytes = 0
      /\ \A k \in Sources : unwatched.ev[k] = "none"
  BY <1>1, RemoveEffect DEF Unconnected, Inv
<1> HIDE DEF unwatched
<1>3. /\ opened \in Connections /\ opened.fd = TRUE
      /\ opened.orphans = {} /\ opened.out_bytes = 0
      /\ \A k \in Sources : opened.ev[k] = "none"
  BY <1>2 DEF Connections
<1> HIDE DEF opened
<1>4. /\ reading \in Connections /\ reading.fd = TRUE /\ reading.orphans = {}
      /\ reading.out_bytes = 0 /\ \A k \in Sources \ {"read"} : reading.ev[k] = "none"
  BY <1>3, AddEffect
<1> HIDE DEF reading
<1>5. /\ announced \in Connections
      /\ announced.out_bytes > 0 <=> announced.ev["write"] # "none"
      /\ announced.fd = TRUE /\ announced.orphans = {}
      /\ announced.ev["ping"] = "none" /\ announced.ev["fail"] = "none"
  <2>1. 1 \in Writes(reading)
    BY <1>4, TimeAssumption DEF Writes
  <2>2. reading.out_bytes > 0 <=> reading.ev["write"] # "none"
    BY <1>4
  <2> QED
    BY <1>4, <2>1, <2>2, WriteOutEffect
<1> HIDE DEF announced
<1>6. c' = AddTimer(announced, "ping", PingTimeout) /\ PingTimeout \in Nat
  BY TimeAssumption DEF Connected, StartPingTimer, announced, reading, opened, unwatched
<1>7. /\ c' \in Connections
      /\ c'.out_bytes > 0 <=> c'.ev["write"] # "none"
      /\ c'.fd = TRUE /\ c'.orphans = {} /\ c'.ev["fail"] = "none"
  BY <1>5, <1>6, AddTimerEffect
<1>8. TypeOK'
  BY <1>7, IdleBoundType DEF Connected, TypeOK, Inv
<1>9. attempt' = "none" /\ freed' = freed
  BY DEF Connected
<1> QED
  BY <1>1, <1>7, <1>8, <1>9 DEF Inv, WriteWatched, RestartSafe

LEMMA FailAlarmInv ==
  ASSUME Inv, FailAlarm
  PROVE  Inv'
<1> USE DEF Sources, Timers
<1>1. /\ c \in Connections /\ attempt # "none" /\ ~c.fd /\ ~freed
  BY DEF Inv, TypeOK, FailAlarm, RestartSafe
<1>2. c' = [c EXCEPT !.ev = [c.ev EXCEPT !["fail"] = "stale"]]
  BY DEF FailAlarm
<1>3. [c.ev EXCEPT !["fail"] = "stale"] \in [Sources -> {"none", "live", "stale"}]
  BY <1>1 DEF Connections
<1>4. c' \in Connections
  BY <1>1, <1>2, <1>3 DEF Connections
<1>5. /\ c'.state = c.state /\ c'.fd = c.fd /\ c'.out_bytes = c.out_bytes
      /\ c'.orphans = c.orphans /\ c'.ev["fail"] = "stale"
      /\ \A k \in Sources \ {"fail"} : c'.ev[k] = c.ev[k]
  BY <1>1, <1>2 DEF Connections
<1>6. TypeOK'
  BY <1>4 DEF Inv, TypeOK, FailAlarm
<1> QED
  BY <1>1, <1>5, <1>6 DEF Inv, FailAlarm, WriteWatched, RestartSafe, Unconnected

\* What the invariant says of a connection whose socket is open.
LEMMA OpenSocket ==
  ASSUME Inv, \/ c.ev["read"] = "live" \/ c.ev["write"] = "live" \/ c.ev["ping"] = "live"
  PROVE  /\ c.fd /\ ~freed /\ attempt = "none" /\ c \in Connections
         /\ c.ev["fail"] # "live"
         /\ c.out_bytes > 0 <=> c.ev["write"] # "none"
<1> USE DEF Sources, Timers
<1>1. ~freed
  BY DEF Inv
<1>2. c.fd
  BY <1>1 DEF Inv, Unconnected
<1> QED
  BY <1>1, <1>2 DEF Inv, TypeOK, WriteWatched, RestartSafe

\* What is left to show for a step on an open socket.
LEMMA OpenStep ==
  ASSUME Inv, c.fd, ~freed, UNCHANGED freed, c' \in Connections, c'.fd = c.fd,
         c'.orphans = {}, attempt' = "none",
         c'.ev["fail"] # "live", c'.out_bytes > 0 <=> c'.ev["write"] # "none",
         idle' \in {0, idle}, slept' \in BOOLEAN, peer' \in {"up", "silent"},
         told' \in {"nothing", "error"}
  PROVE  Inv'
<1>1. idle' \in 0 .. IdleBound
  BY IdleBoundType DEF Inv, TypeOK
<1>2. TypeOK'
  BY <1>1 DEF Inv, TypeOK
<1> QED
  BY <1>2 DEF Inv, WriteWatched, RestartSafe

LEMMA ReadInv ==
  ASSUME Inv, Read
  PROVE  Inv'
<1> USE DEF Sources, Timers
<1>1. PICK n \in Writes(c) : c' = WriteOut(Received(c), n)
  BY DEF Read
<1>2. /\ c.fd /\ ~freed /\ attempt = "none" /\ c \in Connections /\ c.ev["fail"] # "live"
      /\ c.out_bytes > 0 <=> c.ev["write"] # "none"
  BY OpenSocket DEF Read
<1> DEFINE d == Received(c)
<1>3. /\ d \in Connections /\ d.fd = c.fd /\ d.orphans = {} /\ d.out_bytes = c.out_bytes
      /\ d.ev["fail"] # "live" /\ d.ev["write"] = c.ev["write"]
  BY <1>2, ReceivedEffect DEF Inv
<1>4. n \in Writes(d)
  BY <1>3 DEF Writes
<1> HIDE DEF d
<1>5. /\ c' \in Connections /\ c'.fd = c.fd /\ c'.orphans = {} /\ c'.ev["fail"] # "live"
      /\ c'.out_bytes > 0 <=> c'.ev["write"] # "none"
  <2>1. c' = WriteOut(d, n)
    BY <1>1 DEF d
  <2>2. d.out_bytes > 0 <=> d.ev["write"] # "none"
    BY <1>2, <1>3
  <2> QED
    BY <1>3, <1>4, <2>1, <2>2, WriteOutEffect
<1> QED
  BY <1>2, <1>5, OpenStep DEF Read, Inv, TypeOK

LEMMA ReadFailedInv ==
  ASSUME Inv, ReadFailed
  PROVE  Inv'
<1> USE DEF Sources, Timers
<1>1. /\ c.fd /\ ~freed /\ attempt = "none" /\ c \in Connections /\ c.ev["fail"] # "live"
  BY OpenSocket DEF ReadFailed
<1>2. ASSUME NEW d \in Connections, d.fd = c.fd, d.orphans = {}, d.ev["fail"] # "live",
             c' = Fail(d)
      PROVE  /\ c' \in Connections /\ c'.fd = c.fd /\ c'.orphans = {} /\ c'.ev["fail"] # "live"
             /\ c'.out_bytes > 0 <=> c'.ev["write"] # "none"
  BY <1>2, FailEffect
<1>3. /\ c' \in Connections /\ c'.fd = c.fd /\ c'.orphans = {} /\ c'.ev["fail"] # "live"
      /\ c'.out_bytes > 0 <=> c'.ev["write"] # "none"
  <2>1. CASE c' = Fail(c)
    BY <1>1, <1>2, <2>1 DEF Inv
  <2>2. CASE c' = Fail(Received(c))
    BY <1>1, <1>2, <2>2, ReceivedEffect DEF Inv
  <2> QED
    BY <2>1, <2>2 DEF ReadFailed
<1>4. /\ idle' \in {0, idle} /\ slept' \in BOOLEAN /\ attempt' = "none"
      /\ told' = "error" /\ peer' = peer /\ freed' = freed
  BY DEF ReadFailed, Inv, TypeOK
<1> QED
  BY <1>1, <1>3, <1>4, OpenStep DEF Inv, TypeOK

LEMMA WriteInv ==
  ASSUME Inv, Write
  PROVE  Inv'
<1> USE DEF Sources, Timers
<1>1. /\ c.fd /\ ~freed /\ attempt = "none" /\ c \in Connections /\ c.ev["fail"] # "live"
      /\ c.ev["write"] = "live"
      /\ c.out_bytes > 0 <=> c.ev["write"] # "none"
  BY OpenSocket DEF Write
<1>2. PICK d \in MadeReady(c) :
        \/ /\ \E sent \in 0 .. d.out_bytes :
                LET rest == [d EXCEPT !.out_bytes = @ - sent]
                IN  c' = IF rest.out_bytes = 0 THEN Remove(rest, "write") ELSE rest
           /\ UNCHANGED <<attempt, told>>
        \/ /\ c' = Remove(Fail(d), "write")
           /\ attempt' = "none" /\ told' = "error"
  BY DEF Write
<1>3. /\ d \in Connections /\ d.fd = c.fd /\ d.orphans = {} /\ d.ev["fail"] # "live"
      /\ d.ev["write"] # "none"
  <2>1. CASE d = c
    BY <1>1, <2>1 DEF Inv
  <2>2. ASSUME NEW n \in Writes(c), d = WriteOut([c EXCEPT !.state = "ready"], n)
        PROVE  /\ d \in Connections /\ d.fd = c.fd /\ d.orphans = {} /\ d.ev["fail"] # "live"
               /\ d.ev["write"] # "none"
    <3> DEFINE r == [c EXCEPT !.state = "ready"]
    <3>1. /\ r \in Connections /\ r.fd = c.fd /\ r.orphans = {} /\ r.ev = c.ev
          /\ r.out_bytes = c.out_bytes
      BY <1>1 DEF Connections, Inv
    <3>2. n \in Writes(r)
      BY <2>2, <3>1 DEF Writes
    <3> HIDE DEF r
    <3>3. /\ d \in Connections /\ d.fd = c.fd /\ d.orphans = {} /\ d.ev["fail"] # "live"
          /\ d.out_bytes > 0 <=> d.ev["write"] # "none"
          /\ d.out_bytes = c.out_bytes + n
      <4>1. d = WriteOut(r, n)
        BY <2>2 DEF r
      <4>2. r.out_bytes > 0 <=> r.ev["write"] # "none"
        BY <1>1, <3>1
      <4>3. /\ d \in Connections /\ d.fd = r.fd /\ d.orphans = r.orphans
            /\ d.ev["fail"] = r.ev["fail"]
            /\ d.out_bytes > 0 <=> d.ev["write"] # "none"
            /\ d.out_bytes = r.out_bytes + n
        BY <3>1, <3>2, <4>1, <4>2, WriteOutEffect
      <4> QED
        BY <1>1, <3>1, <4>3
    <3>4. d.out_bytes > 0
      BY <1>1, <2>2, <3>3 DEF Writes, Connections
    <3> QED
      BY <3>3, <3>4
  <2> QED
    BY <1>1, <2>1, <2>2 DEF MadeReady
<1>4. ASSUME NEW sent \in 0 .. d.out_bytes,
             c' = LET rest == [d EXCEPT !.out_bytes = @ - sent]
                  IN  IF rest.out_bytes = 0 THEN Remove(rest, "write") ELSE rest
      PROVE  /\ c' \in Connections /\ c'.fd = c.fd /\ c'.orphans = {} /\ c'.ev["fail"] # "live"
             /\ c'.out_bytes > 0 <=> c'.ev["write"] # "none"
  <2> DEFINE rest == [d EXCEPT !.out_bytes = @ - sent]
  <2>1. d.out_bytes - sent \in 0 .. MaxOut
    BY <1>3, TimeAssumption DEF Connections
  <2>2. /\ rest \in Connections /\ rest.fd = c.fd /\ rest.orphans = {} /\ rest.ev = d.ev
        /\ rest.out_bytes \in Nat
    BY <1>3, <2>1 DEF Connections
  <2>3. c' = IF rest.out_bytes = 0 THEN Remove(rest, "write") ELSE rest
    BY <1>4
  <2> HIDE DEF rest
  <2> QED
    BY <1>3, <2>2, <2>3, RemoveEffect
<1>5. ASSUME c' = Remove(Fail(d), "write")
      PROVE  /\ c' \in Connections /\ c'.fd = c.fd /\ c'.orphans = {} /\ c'.ev["fail"] # "live"
             /\ c'.out_bytes > 0 <=> c'.ev["write"] # "none"
  BY <1>3, <1>5, FailEffect, RemoveEffect
<1>6. /\ idle' = idle /\ slept' = slept /\ attempt' = "none" /\ told' \in {told, "error"}
      /\ peer' = peer /\ freed' = freed
  BY <1>1, <1>2 DEF Write
<1>7. /\ c' \in Connections /\ c'.fd = c.fd /\ c'.orphans = {} /\ c'.ev["fail"] # "live"
      /\ c'.out_bytes > 0 <=> c'.ev["write"] # "none"
  BY <1>2, <1>4, <1>5
<1> QED
  BY <1>1, <1>6, <1>7, OpenStep DEF Inv, TypeOK

LEMMA PingAlarmInv ==
  ASSUME Inv, PingAlarm
  PROVE  Inv'
<1> USE DEF Sources, Timers
<1>1. /\ c.fd /\ ~freed /\ attempt = "none" /\ c \in Connections /\ c.ev["fail"] # "live"
      /\ c.out_bytes > 0 <=> c.ev["write"] # "none"
  BY OpenSocket DEF PingAlarm
<1>2. ASSUME c' = [Fail([c EXCEPT !.state = "failed"]) EXCEPT !.ev["ping"] = "stale"]
      PROVE  /\ c' \in Connections /\ c'.fd = c.fd /\ c'.orphans = {} /\ c'.ev["fail"] # "live"
             /\ c'.out_bytes > 0 <=> c'.ev["write"] # "none"
  <2> DEFINE d == [c EXCEPT !.state = "failed"]
             e == Fail(d)
  <2>1. /\ d \in Connections /\ d.fd = c.fd /\ d.orphans = {} /\ d.ev["fail"] # "live"
    BY <1>1 DEF Connections, Inv
  <2> HIDE DEF d
  <2>2. /\ e \in Connections /\ e.fd = c.fd /\ e.orphans = {} /\ e.ev["fail"] # "live"
        /\ e.out_bytes = 0 /\ e.ev["write"] = "none"
    BY <2>1, FailEffect
  <2>3. c' = [e EXCEPT !.ev = [e.ev EXCEPT !["ping"] = "stale"]]
    BY <1>2 DEF d
  <2> HIDE DEF e
  <2>4. [e.ev EXCEPT !["ping"] = "stale"] \in [Sources -> {"none", "live", "stale"}]
    BY <2>2 DEF Connections
  <2>5. c' \in Connections
    BY <2>2, <2>3, <2>4 DEF Connections
  <2>6. /\ c'.fd = e.fd /\ c'.orphans = e.orphans /\ c'.out_bytes = e.out_bytes
        /\ c'.ev = [e.ev EXCEPT !["ping"] = "stale"]
    BY <2>2, <2>3 DEF Connections
  <2> QED
    BY <2>2, <2>5, <2>6 DEF Connections
<1>3. ASSUME NEW n \in Writes(c), c' = WriteOut([c EXCEPT !.due["ping"] = PingTimeout], n)
      PROVE  /\ c' \in Connections /\ c'.fd = c.fd /\ c'.orphans = {} /\ c'.ev["fail"] # "live"
             /\ c'.out_bytes > 0 <=> c'.ev["write"] # "none"
  <2> DEFINE d == [c EXCEPT !.due = [c.due EXCEPT !["ping"] = PingTimeout]]
  <2>1. [c.due EXCEPT !["ping"] = PingTimeout] \in [Timers -> Nat]
    BY <1>1, TimeAssumption DEF Connections
  <2>2. /\ d \in Connections /\ d.fd = c.fd /\ d.orphans = {} /\ d.ev = c.ev
        /\ d.out_bytes = c.out_bytes
    BY <1>1, <2>1 DEF Connections, Inv
  <2>3. c' = WriteOut(d, n)
    BY <1>3
  <2> HIDE DEF d
  <2>4. n \in Writes(d) /\ d.ev["fail"] # "live"
    BY <1>1, <2>2 DEF Writes
  <2>5. d.out_bytes > 0 <=> d.ev["write"] # "none"
    BY <1>1, <2>2
  <2>6. /\ c' \in Connections /\ c'.fd = d.fd /\ c'.orphans = d.orphans
        /\ c'.ev["fail"] = d.ev["fail"]
        /\ c'.out_bytes > 0 <=> c'.ev["write"] # "none"
    BY <2>2, <2>3, <2>4, <2>5, WriteOutEffect
  <2> QED
    BY <2>2, <2>4, <2>6
<1>4. 0 \in Writes(c)
  BY <1>1, TimeAssumption DEF Writes, Connections
<1>5. /\ c' \in Connections /\ c'.fd = c.fd /\ c'.orphans = {} /\ c'.ev["fail"] # "live"
      /\ c'.out_bytes > 0 <=> c'.ev["write"] # "none"
  BY <1>2, <1>3, <1>4 DEF PingAlarm
<1>6. /\ idle' = idle /\ slept' = slept /\ attempt' = "none" /\ told' \in {told, "error"}
      /\ peer' = peer /\ freed' = freed
  BY <1>1 DEF PingAlarm
<1> QED
  BY <1>1, <1>5, <1>6, OpenStep DEF Inv, TypeOK

LEMMA TglWriteInv ==
  ASSUME Inv, TglWrite
  PROVE  Inv'
<1> USE DEF Sources, Timers
<1>1. /\ c.fd /\ ~freed /\ attempt = "none" /\ c \in Connections /\ c.ev["fail"] # "live"
      /\ c.out_bytes > 0 <=> c.ev["write"] # "none"
  BY DEF TglWrite, Inv, Unconnected, TypeOK, WriteWatched, RestartSafe
<1>2. PICK n \in Writes(c) : c' = WriteOut(c, n)
  BY DEF TglWrite
<1>3. /\ c' \in Connections /\ c'.fd = c.fd /\ c'.orphans = {} /\ c'.ev["fail"] # "live"
      /\ c'.out_bytes > 0 <=> c'.ev["write"] # "none"
  <2>1. /\ c' \in Connections /\ c'.fd = c.fd /\ c'.orphans = c.orphans
        /\ c'.ev["fail"] = c.ev["fail"]
        /\ c'.out_bytes > 0 <=> c'.ev["write"] # "none"
    BY <1>1, <1>2, WriteOutEffect
  <2> QED
    BY <1>1, <2>1 DEF Inv
<1>4. UNCHANGED <<attempt, idle, slept, peer, told, freed>>
  BY DEF TglWrite
<1> QED
  BY <1>1, <1>3, <1>4, OpenStep DEF Inv, TypeOK

LEMMA CloseInv ==
  ASSUME Inv, Close
  PROVE  Inv'
<1>1. c \in Connections
  BY DEF Inv, TypeOK
<1>2. c' = [c EXCEPT !.ev = [k \in Sources |-> "none"], !.fd = FALSE]
  BY DEF Close, Freed
<1>3. /\ c' \in Connections /\ c'.orphans = c.orphans /\ c'.fd = FALSE
      /\ \A k \in Sources : c'.ev[k] = "none"
  BY <1>1, <1>2 DEF Connections
<1>4. freed' = TRUE /\ attempt' = "none"
  BY DEF Close
<1>5. TypeOK'
  BY <1>3, <1>4 DEF Close, Inv, TypeOK
<1> QED
  BY <1>3, <1>4, <1>5 DEF Inv, WriteWatched, RestartSafe, Sources, Timers

\* The steps of the world leave all but the time and the peer alone.
LEMMA WorldInv ==
  ASSUME Inv, \/ Tick \/ Suspend \/ FallSilent \/ UNCHANGED vars
  PROVE  Inv'
<1> USE DEF Sources, Timers
<1>1. CASE Tick
  <2> DEFINE due == [k \in Timers |-> IF c.ev[k] = "live" THEN c.due[k] - 1 ELSE c.due[k]]
  <2>1. c \in Connections /\ ~freed
    BY <1>1 DEF Inv, TypeOK, Tick
  <2>2. due \in [Timers -> Nat]
    <3>1. \A k \in Timers : c.due[k] \in Nat /\ (c.ev[k] = "live" => c.due[k] > 0)
      BY <1>1, <2>1 DEF Tick, Connections
    <3> QED
      BY <3>1
  <2>3. c' = [c EXCEPT !.due = due]
    BY <1>1 DEF Tick
  <2> HIDE DEF due
  <2>4. /\ c' \in Connections /\ c'.state = c.state /\ c'.fd = c.fd /\ c'.orphans = c.orphans
        /\ c'.ev = c.ev /\ c'.out_bytes = c.out_bytes
    BY <2>1, <2>2, <2>3 DEF Connections
  <2>5. idle' \in 0 .. IdleBound
    BY <1>1, IdleBoundType DEF Tick, Inv, TypeOK
  <2>6. UNCHANGED <<attempt, slept, peer, told, freed>>
    BY <1>1 DEF Tick
  <2> QED
    BY <2>4, <2>5, <2>6 DEF Inv, TypeOK, WriteWatched, RestartSafe, Unconnected
<1>2. CASE Suspend
  BY <1>2 DEF Suspend, Inv, TypeOK, WriteWatched, RestartSafe, Unconnected
<1>3. CASE FallSilent
  BY <1>3 DEF FallSilent, Inv, TypeOK, WriteWatched, RestartSafe, Unconnected
<1>4. CASE UNCHANGED vars
  BY <1>4 DEF vars, Inv, TypeOK, WriteWatched, RestartSafe, Unconnected
<1> QED
  BY <1>1, <1>2, <1>3, <1>4

LEMMA Invariance == Spec => []Inv
<1>1. Init => Inv
  BY InitInv
<1>2. Inv /\ [Next]_vars => Inv'
  BY ConnectFailedInv, ConnectedInv, FailAlarmInv, ReadInv, ReadFailedInv, WriteInv,
     PingAlarmInv, TglWriteInv, CloseInv, WorldInv DEF Next
<1> QED
  BY <1>1, <1>2, PTL DEF Spec

------------------------------------------------------------------------------
(* Silence *)

\* While a connection is established its ping timer runs, and what is left of it
\* does not lead beyond the seventh PING_TIMEOUT of silence.
Pinging == c.fd /\ c.state # "failed" =>
             c.ev["ping"] = "live" /\ idle + c.due["ping"] <= 7 * PingTimeout

\* The timers are numbers.
LEMMA Numbers ==
  ASSUME Inv
  PROVE  idle \in Nat /\ c.due["ping"] \in Nat /\ PingTimeout \in Nat
BY IdleBoundType, TimeAssumption DEF Inv, TypeOK, Connections, Timers

\* A step that leaves the ping timer and the clock alone, or ends the connection.
LEMMA PingingKept ==
  ASSUME Pinging,
         \/ ~c'.fd \/ c'.state = "failed"
         \/ /\ c'.fd = c.fd /\ c.state # "failed"
            /\ c'.ev["ping"] = c.ev["ping"] /\ c'.due["ping"] = c.due["ping"] /\ idle' = idle
  PROVE  Pinging'
BY DEF Pinging

LEMMA ReadPinging ==
  ASSUME Inv, Pinging, Read
  PROVE  Pinging'
<1> USE DEF Sources, Timers
<1> DEFINE d == Received(c)
<1>1. PICK n \in Writes(c) : c' = WriteOut(d, n)
  BY DEF Read
<1>2. c \in Connections /\ (c.out_bytes > 0 <=> c.ev["write"] # "none")
  BY OpenSocket DEF Read
<1>3. /\ d \in Connections /\ d.out_bytes = c.out_bytes /\ d.ev["write"] = c.ev["write"]
      /\ d.ev["ping"] = "live" /\ d.due["ping"] = PingTimeout
  BY <1>2, ReceivedEffect
<1> HIDE DEF d
<1>4. n \in Writes(d) /\ (d.out_bytes > 0 <=> d.ev["write"] # "none")
  BY <1>2, <1>3 DEF Writes
<1>5. c'.ev["ping"] = "live" /\ c'.due["ping"] = PingTimeout
  BY <1>1, <1>3, <1>4, WriteOutEffect
<1>6. idle' = 0 /\ PingTimeout \in Nat
  BY TimeAssumption DEF Read
<1> QED
  BY <1>5, <1>6 DEF Pinging

LEMMA ConnectedPinging ==
  ASSUME Inv, Connected
  PROVE  Pinging'
<1> USE DEF Sources, Timers
<1> DEFINE unwatched == Remove(c, "fail")
           opened == [unwatched EXCEPT !.fd = TRUE]
           reading == Add(opened, "read")
           announced == WriteOut(reading, 1)
<1>1. c \in Connections /\ Unconnected(c) /\ c.out_bytes = 0
  BY DEF Inv, TypeOK, Connected, WriteWatched, Unconnected, Connections
<1>2. /\ unwatched \in Connections /\ unwatched.out_bytes = 0
      /\ \A k \in Sources : unwatched.ev[k] = "none"
  BY <1>1, RemoveEffect DEF Unconnected
<1> HIDE DEF unwatched
<1>3. /\ opened \in Connections /\ opened.out_bytes = 0
      /\ \A k \in Sources : opened.ev[k] = "none"
  BY <1>2 DEF Connections
<1> HIDE DEF opened
<1>4. /\ reading \in Connections
      /\ reading.out_bytes = 0 /\ \A k \in Sources \ {"read"} : reading.ev[k] = "none"
  BY <1>3, AddEffect
<1> HIDE DEF reading
<1>5. announced \in Connections /\ announced.ev["ping"] = "none"
  <2>1. 1 \in Writes(reading)
    BY <1>4, TimeAssumption DEF Writes
  <2>2. reading.out_bytes > 0 <=> reading.ev["write"] # "none"
    BY <1>4
  <2> QED
    BY <1>4, <2>1, <2>2, WriteOutEffect
<1> HIDE DEF announced
<1>6. c' = AddTimer(announced, "ping", PingTimeout) /\ PingTimeout \in Nat
  BY TimeAssumption DEF Connected, StartPingTimer, announced, reading, opened, unwatched
<1>7. c'.ev["ping"] = "live" /\ c'.due["ping"] = PingTimeout
  BY <1>5, <1>6, AddTimerEffect
<1>8. idle' = 0
  BY DEF Connected
<1> QED
  BY <1>6, <1>7, <1>8 DEF Pinging

\* The branch in which send takes what it can: a source less at most.
LEMMA WritePinging ==
  ASSUME Inv, Pinging, Write
  PROVE  Pinging'
<1> USE DEF Sources, Timers
<1>1. /\ c \in Connections /\ c.ev["write"] = "live"
      /\ c.out_bytes > 0 <=> c.ev["write"] # "none"
  BY OpenSocket DEF Write
<1>2. PICK d \in MadeReady(c) :
        \/ \E sent \in 0 .. d.out_bytes :
              LET rest == [d EXCEPT !.out_bytes = @ - sent]
              IN  c' = IF rest.out_bytes = 0 THEN Remove(rest, "write") ELSE rest
        \/ c' = Remove(Fail(d), "write")
  BY DEF Write
<1>3. /\ d \in Connections /\ d.fd = c.fd /\ d.ev["ping"] = c.ev["ping"]
      /\ d.due["ping"] = c.due["ping"]
      /\ c.state = "failed" => d.state = "failed"
  <2>1. CASE c.state = "connecting"
    <3> DEFINE r == [c EXCEPT !.state = "ready"]
    <3>1. PICK n \in Writes(c) : d = WriteOut(r, n)
      BY <1>2, <2>1 DEF MadeReady
    <3>2. /\ r \in Connections /\ r.fd = c.fd /\ r.ev = c.ev /\ r.due = c.due
          /\ r.out_bytes = c.out_bytes
      BY <1>1 DEF Connections
    <3> HIDE DEF r
    <3>3. n \in Writes(r) /\ (r.out_bytes > 0 <=> r.ev["write"] # "none")
      BY <1>1, <3>2 DEF Writes
    <3> QED
      BY <2>1, <3>1, <3>2, <3>3, WriteOutEffect
  <2>2. CASE c.state # "connecting"
    BY <1>1, <1>2, <2>2 DEF MadeReady
  <2> QED
    BY <2>1, <2>2
<1>4. CASE c' = Remove(Fail(d), "write")
  <2>1. Fail(d) \in Connections /\ Fail(d).state = "failed"
    BY <1>3, FailEffect
  <2>2. c'.state = "failed"
    BY <1>4, <2>1, RemoveEffect
  <2> QED
    BY <2>2, PingingKept
<1>5. ASSUME NEW sent \in 0 .. d.out_bytes,
             c' = LET rest == [d EXCEPT !.out_bytes = @ - sent]
                  IN  IF rest.out_bytes = 0 THEN Remove(rest, "write") ELSE rest
      PROVE  Pinging'
  <2> DEFINE rest == [d EXCEPT !.out_bytes = @ - sent]
  <2>1. d.out_bytes - sent \in 0 .. MaxOut
    BY <1>3, TimeAssumption DEF Connections
  <2>2. /\ rest \in Connections /\ rest.fd = d.fd /\ rest.ev = d.ev /\ rest.due = d.due
        /\ rest.state = d.state
    BY <1>3, <2>1 DEF Connections
  <2>3. c' = IF rest.out_bytes = 0 THEN Remove(rest, "write") ELSE rest
    BY <1>5
  <2> HIDE DEF rest
  <2>4. /\ c'.fd = d.fd /\ c'.ev["ping"] = d.ev["ping"] /\ c'.due = d.due
        /\ c'.state = d.state
    BY <2>2, <2>3, RemoveEffect
  <2>5. idle' = idle
    BY DEF Write
  <2> QED
    BY <1>3, <2>4, <2>5, PingingKept
<1> QED
  BY <1>2, <1>4, <1>5

LEMMA PingAlarmPinging ==
  ASSUME Inv, Pinging, PingAlarm
  PROVE  Pinging'
<1> USE DEF Sources, Timers
<1>1. c \in Connections /\ c.fd /\ (c.out_bytes > 0 <=> c.ev["write"] # "none")
  BY OpenSocket DEF PingAlarm
<1>2. CASE TimedOut
  <2> DEFINE d == [c EXCEPT !.state = "failed"]
             e == Fail(d)
  <2>1. d \in Connections
    BY <1>1 DEF Connections
  <2> HIDE DEF d
  <2>2. e \in Connections /\ e.state = "failed"
    BY <2>1, FailEffect
  <2>3. c' = [e EXCEPT !.ev["ping"] = "stale"]
    BY <1>2 DEF PingAlarm, d
  <2> HIDE DEF e
  <2>4. c'.state = "failed"
    BY <2>2, <2>3 DEF Connections
  <2> QED
    BY <2>4, PingingKept
<1>3. CASE ~TimedOut
  <2> DEFINE d == [c EXCEPT !.due = [c.due EXCEPT !["ping"] = PingTimeout]]
  <2>1. /\ PingTimeout \in Nat /\ idle \in Nat /\ idle <= 6 * PingTimeout /\ idle' = idle
    BY <1>3, Numbers DEF TimedOut, PingAlarm
  <2>2. PICK n \in Writes(c) : c' = WriteOut(d, n)
    <3>1. 0 \in Writes(c)
      BY <1>1, TimeAssumption DEF Writes, Connections
    <3> QED
      BY <1>3, <3>1 DEF PingAlarm
  <2>3. [c.due EXCEPT !["ping"] = PingTimeout] \in [Timers -> Nat]
    BY <1>1, <2>1 DEF Connections
  <2>4. /\ d \in Connections /\ d.ev = c.ev /\ d.out_bytes = c.out_bytes
        /\ d.due["ping"] = PingTimeout
    BY <1>1, <2>3 DEF Connections
  <2> HIDE DEF d
  <2>5. n \in Writes(d) /\ (d.out_bytes > 0 <=> d.ev["write"] # "none")
    BY <1>1, <2>4 DEF Writes
  <2>6. c'.ev["ping"] = "live" /\ c'.due["ping"] = PingTimeout
    <3>1. c'.due = d.due /\ c'.ev["ping"] = d.ev["ping"]
      BY <2>2, <2>4, <2>5, WriteOutEffect
    <3> QED
      BY <2>4, <3>1 DEF PingAlarm
  <2> QED
    BY <2>1, <2>6 DEF Pinging
<1> QED
  BY <1>2, <1>3

\* Time: what passes is what the timer has less.
LEMMA TickPinging ==
  ASSUME Inv, Pinging, Tick
  PROVE  Pinging'
<1> DEFINE due == [k \in Timers |-> IF c.ev[k] = "live" THEN c.due[k] - 1 ELSE c.due[k]]
<1>1. c \in Connections
  BY DEF Inv, TypeOK
<1>2. c' = [c EXCEPT !.due = due] /\ idle' \in {idle, idle + 1}
  BY DEF Tick
<1>3. c.ev["ping"] = "live" => due["ping"] = c.due["ping"] - 1
  BY DEF Timers
<1> HIDE DEF due
<1>4. /\ c'.state = c.state /\ c'.fd = c.fd /\ c'.ev = c.ev
      /\ c'.due = due
  BY <1>1, <1>2 DEF Connections
<1> QED
  BY <1>2, <1>3, <1>4, Numbers DEF Pinging

\* The other steps.
LEMMA OtherPinging ==
  ASSUME Inv, Pinging,
         \/ ConnectFailed \/ FailAlarm \/ ReadFailed \/ TglWrite \/ Close
         \/ Suspend \/ FallSilent \/ UNCHANGED vars
  PROVE  Pinging'
<1> USE DEF Sources, Timers
<1>0. c \in Connections
  BY DEF Inv, TypeOK
<1>1. CASE ConnectFailed
  <2>1. ~c.fd /\ c' = Remove(c, "fail")
    BY <1>1 DEF Inv, ConnectFailed
  <2> QED
    BY <1>0, <2>1, RemoveEffect, PingingKept
<1>2. CASE FailAlarm
  <2>1. ~c.fd /\ c' = [c EXCEPT !.ev["fail"] = "stale"]
    BY <1>2 DEF Inv, RestartSafe, FailAlarm
  <2>2. ~c'.fd
    BY <1>0, <2>1 DEF Connections
  <2> QED
    BY <2>2, PingingKept
<1>3. CASE ReadFailed
  <2>1. PICK d \in {c, Received(c)} : c' = Fail(d)
    BY <1>3 DEF ReadFailed
  <2>2. d \in Connections
    BY <1>0, ReceivedEffect
  <2>3. c'.state = "failed"
    BY <2>1, <2>2, FailEffect
  <2> QED
    BY <2>3, PingingKept
<1>4. CASE TglWrite
  <2>1. PICK n \in Writes(c) : c' = WriteOut(c, n)
    BY <1>4 DEF TglWrite
  <2>2. c.out_bytes > 0 <=> c.ev["write"] # "none"
    BY <1>4 DEF Inv, WriteWatched, TglWrite
  <2>3. c'.fd = c.fd /\ c'.state = c.state /\ c'.due = c.due /\ c'.ev["ping"] = c.ev["ping"]
    BY <1>0, <2>1, <2>2, WriteOutEffect
  <2>4. idle' = idle
    BY <1>4 DEF TglWrite
  <2> QED
    BY <2>3, <2>4 DEF Pinging
<1>5. CASE Close
  BY <1>0, <1>5, PingingKept DEF Close, Freed, Connections
<1>6. CASE Suspend \/ FallSilent \/ UNCHANGED vars
  BY <1>6 DEF Suspend, FallSilent, vars, Pinging
<1> QED
  BY <1>1, <1>2, <1>3, <1>4, <1>5, <1>6

LEMMA InitPinging ==
  ASSUME Init
  PROVE  Pinging
<1> DEFINE d(port) == [state |-> "connecting", fd |-> FALSE, port |-> port, out_bytes |-> 0,
                       ev |-> [k \in Sources |-> "none"], due |-> [k \in Timers |-> 0],
                       orphans |-> {}]
<1>1. PICK port \in Ports : c = AddTimer(d(port), "fail", ConnectTimeout)
  BY DEF Init
<1>2. d(port) \in Connections /\ d(port).fd = FALSE /\ \A k \in Sources : d(port).ev[k] = "none"
  BY TimeAssumption DEF Connections, Sources, Timers
<1> HIDE DEF d
<1>3. "fail" \in Timers /\ d(port).ev["fail"] # "live" /\ ConnectTimeout \in Nat
  BY <1>2, TimeAssumption DEF Sources, Timers
<1>4. c.fd = FALSE
  BY <1>1, <1>2, <1>3, AddTimerEffect
<1> QED
  BY <1>4 DEF Pinging

LEMMA StaysPinging == Spec => []Pinging
<1>1. Init => Pinging
  BY InitPinging
<1>2. Inv /\ Pinging /\ [Next]_vars => Pinging'
  BY ConnectedPinging, ReadPinging, WritePinging, PingAlarmPinging, TickPinging, OtherPinging
     DEF Next
<1> QED
  BY <1>1, <1>2, Invariance, PTL DEF Spec

------------------------------------------------------------------------------
(* The results *)

\* Every reachable state is well typed.
THEOREM TypeCorrect == Spec => []TypeOK
<1>1. Inv => TypeOK
  BY DEF Inv
<1> QED
  BY <1>1, Invariance, PTL

\* A silent server is given up within seven times PING_TIMEOUT, whatever is read,
\* written and waited for before.
THEOREM SilenceIsBounded == Spec => []SilenceBounded
<1>1. Inv /\ Pinging => SilenceBounded
  BY Numbers DEF Pinging, SilenceBounded
<1> QED
  BY <1>1, Invariance, StaysPinging, PTL

\* The assertion of tgln_write_out holds, and what it writes is waited for:
\* bytes are buffered exactly while a source waits for room in the socket.
THEOREM BuffersWatched == Spec => []WriteWatched
<1>1. Inv => WriteWatched
  BY DEF Inv
<1> QED
  BY <1>1, Invariance, PTL

\* tgln_free leaves nothing behind that would call back with the connection.
THEOREM FreeIsFinal == Spec => []NoCallbackAfterFree
<1>1. Inv => NoCallbackAfterFree
  BY DEF Inv, NoCallbackAfterFree
<1> QED
  BY <1>1, Invariance, PTL

\* restart_connection cancels an attempt that is pending, never one whose data
\* libpurple has freed.
THEOREM RestartsPending == Spec => []RestartSafe
<1>1. Inv => RestartSafe
  BY DEF Inv
<1> QED
  BY <1>1, Invariance, PTL
=============================================================================

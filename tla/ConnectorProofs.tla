-------------------------- MODULE ConnectorProofs ---------------------------
(***************************************************************************)
(* Proofs about TcpClient and its Connector, for every number of sockets   *)
(* and timers: the types whatever the application does, and, when it stops *)
(* the client in the ways the code is made for, that there is one attempt  *)
(* at a time and that no assert fails, with two exceptions named in        *)
(* NoFault.                                                                *)
(***************************************************************************)
EXTENDS Connector, FiniteSetTheorems, TLAPS

Entries == {"startInLoop", "stopInLoop", "connected", "connectFailed"} \X (0 .. MaxSockets)

-----------------------------------------------------------------------------
(* Types.                                                                  *)

\* The smaller of two numbers.
LEMMA MinOfTwo ==
    ASSUME NEW a \in Nat, NEW b \in Nat
    PROVE  Min({a, b}) = IF a <= b THEN a ELSE b
<1>1. \E x \in {a, b} : \A y \in {a, b} : x <= y
  OBVIOUS
<1>2. Min({a, b}) \in {a, b} /\ \A y \in {a, b} : Min({a, b}) <= y
  BY <1>1 DEF Min
<1> QED  BY <1>2

\* The doubling of the delay stays among the delays of Connector.h.
LEMMA NextDelay ==
    ASSUME NEW d \in Delays
    PROVE  Min({d * 2, kMaxRetryDelayMs}) \in Delays
<1>1. d \in Nat /\ d * 2 \in Nat /\ kMaxRetryDelayMs = 30000
  BY DEF Delays, kMaxRetryDelayMs
<1>2. Min({d * 2, kMaxRetryDelayMs}) = IF d * 2 <= 30000 THEN d * 2 ELSE 30000
  BY <1>1, MinOfTwo
<1> QED  BY <1>2 DEF Delays

\* TypeOK with what a setting is.
Typed == TypeOK /\ setting \in Settings /\ server \in setting.servers

\* The sockets that are alive are sockets.
LEMMA AliveType == Typed => Alive \subseteq Sockets
<1> SUFFICES ASSUME Typed, NEW s \in Alive PROVE s \in Sockets
  OBVIOUS
<1>1. queue \in Seq(Entries)
  BY DEF Typed, TypeOK, Entries
<1>2. \A i \in 1 .. Len(queue) : queue[i][2] \in 0 .. MaxSockets
  BY <1>1 DEF Entries
<1>3. s \in 0 .. MaxSockets /\ s /= 0
  BY <1>2, ConnectorAssumption DEF Alive, Typed, TypeOK, Sockets
<1> QED  BY <1>3, ConnectorAssumption DEF Sockets

\* The queue with one more entry, and without its head.
LEMMA QueueTypes ==
    ASSUME NEW q \in Seq(Entries)
    PROVE  /\ \A e \in Entries : Append(q, e) \in Seq(Entries)
           /\ q /= <<>> => Tail(q) \in Seq(Entries) /\ Head(q) \in Entries
OBVIOUS

\* The types of what startInLoop sets.
LEMMA StartTypes ==
    ASSUME Typed, NEW st, NEW c, NEW q \in Seq(Entries), startInLoop(st, c, q),
           st \in {"kDisconnected", "kConnecting", "kConnected"}
    PROVE  /\ current' \in 0 .. MaxSockets /\ waiting' \subseteq Sockets /\ closed' \subseteq Sockets
           /\ state_' \in {"kDisconnected", "kConnecting", "kConnected"}
           /\ queue' \in Seq(Entries)
           /\ fault' \in {"none"} \cup Faults
<1>1. /\ current \in 0 .. MaxSockets /\ waiting \subseteq Sockets /\ closed \subseteq Sockets
      /\ fault \in {"none"} \cup Faults
      /\ \A s \in Sockets : s \in 0 .. MaxSockets
  BY ConnectorAssumption DEF Typed, TypeOK, Sockets
<1>2. /\ queue' = q /\ state_' \in {st, "kConnecting"} /\ fault' \in {fault, "startAssert"}
      /\ \/ UNCHANGED sockets
         \/ \E s \in Sockets : current' = s /\ waiting' = waiting \cup {s} /\ closed' = closed \ {s}
  BY DEF startInLoop
<1> QED  BY <1>1, <1>2 DEF sockets, Faults

\* The types of what retry sets.
LEMMA RetryTypes ==
    ASSUME Typed, NEW q \in Seq(Entries), retry(q)
    PROVE  /\ current' \in 0 .. MaxSockets /\ waiting' \subseteq Sockets /\ closed' \subseteq Sockets
           /\ state_' = "kDisconnected"
           /\ queue' \in Seq(Entries)
           /\ retryDelayMs_' \in Delays
           /\ timers' \subseteq Timers /\ reConnectTimer_' \in 0 .. MaxTimers
           /\ deadTimer' = deadTimer /\ timerToKill' = timerToKill
<1>1. state_' = "kDisconnected" /\ current' = current /\ current \in 0 .. MaxSockets
  BY DEF retry, Typed, TypeOK
<1>a. deadTimer' = deadTimer /\ timerToKill' = timerToKill
  BY DEF retry, armTimer, clock, handling
<1>2. waiting \subseteq Sockets /\ closed \subseteq Sockets /\ timers \subseteq Timers
      /\ reConnectTimer_ \in 0 .. MaxTimers /\ retryDelayMs_ \in Delays
  BY DEF Typed, TypeOK
<1>3. CASE current \in Alive
  <2>1. close(current, q) /\ (armTimer \/ UNCHANGED <<retryDelayMs_, clock>>)
    BY <1>3 DEF retry
  <2>2. current \in Sockets
    BY <1>3, AliveType
  <2>3. <<"connectFailed", current>> \in Entries
    BY <1>1 DEF Entries
  <2>4. queue' \in Seq(Entries)
    BY <2>1, <2>3, QueueTypes DEF close
  <2>5. waiting' \subseteq Sockets /\ closed' \subseteq Sockets
    BY <1>2, <2>1, <2>2 DEF close
  <2>6. retryDelayMs_' \in Delays /\ timers' \subseteq Timers /\ reConnectTimer_' \in 0 .. MaxTimers
    <3>1. CASE armTimer
      BY <1>2, <3>1, NextDelay, ConnectorAssumption DEF armTimer, Timers
    <3>2. CASE UNCHANGED <<retryDelayMs_, clock>>
      BY <1>2, <3>2 DEF clock
    <3> QED  BY <2>1, <3>1, <3>2
  <2> QED  BY <1>1, <1>a, <2>4, <2>5, <2>6
<1>4. CASE current \notin Alive
  BY <1>1, <1>a, <1>2, <1>4 DEF retry, clock
<1> QED  BY <1>3, <1>4

\* Steps of the loop that start, retry or stop.
LEMMA AttemptTyped ==
    ASSUME Typed, startInLoopTask \/ restart \/ handleConnectFailed \/ stopInLoop
    PROVE  Typed'
<1> USE DEF Entries
<1>1. /\ queue \in Seq(Entries) /\ setting' = setting /\ server' = server /\ app' = app /\ call' = call
      /\ connection_' = connection_ /\ clientConnect_' = clientConnect_
  BY DEF Typed, TypeOK, startInLoopTask, restart, handleConnectFailed, stopInLoop,
         Takes, Step, outside, client
<1>2. queue /= <<>> => Tail(queue) \in Seq(Entries)
  BY <1>1, QueueTypes
<1>a. ASSUME NEW q \in Seq(Entries), retry(q), UNCHANGED <<connect_, at, fault>> PROVE Typed'
  <2>1. /\ current' \in 0 .. MaxSockets /\ waiting' \subseteq Sockets /\ closed' \subseteq Sockets
        /\ state_' = "kDisconnected" /\ queue' \in Seq(Entries) /\ retryDelayMs_' \in Delays
        /\ timers' \subseteq Timers /\ reConnectTimer_' \in 0 .. MaxTimers
        /\ deadTimer' = deadTimer /\ timerToKill' = timerToKill
    BY <1>a, RetryTypes
  <2> QED  BY <1>1, <1>a, <2>1 DEF Typed, TypeOK
<1>3. CASE startInLoopTask
  <2>1. /\ startInLoop(state_, connect_, Tail(queue)) /\ Tail(queue) \in Seq(Entries)
        /\ UNCHANGED <<connect_, retryDelayMs_, timers, deadTimer, timerToKill, reConnectTimer_, at>>
    BY <1>2, <1>3 DEF startInLoopTask, Takes, clock, handling
  <2> QED  BY <1>1, <2>1, StartTypes DEF Typed, TypeOK
<1>5. CASE restart
  <2>1. /\ startInLoop("kDisconnected", TRUE, queue) /\ at' = "idle" /\ connect_' = TRUE
        /\ retryDelayMs_' = kInitRetryDelayMs
        /\ UNCHANGED <<timers, deadTimer, timerToKill, reConnectTimer_>>
    BY <1>5 DEF restart, clock, handling
  <2>2. retryDelayMs_' \in Delays
    BY <2>1 DEF kInitRetryDelayMs, Delays
  <2> QED  BY <1>1, <2>1, <2>2, StartTypes DEF Typed, TypeOK
<1>6. CASE handleConnectFailed
  <2>1. retry(Tail(queue)) /\ Tail(queue) \in Seq(Entries) /\ UNCHANGED <<connect_, at, fault>>
    BY <1>2, <1>6 DEF handleConnectFailed, Takes
  <2> QED  BY <1>1, <1>a, <2>1
<1>7. CASE stopInLoop
  <2>1. Tail(queue) \in Seq(Entries) /\ UNCHANGED <<connect_, at, fault>>
    BY <1>2, <1>7 DEF stopInLoop, Takes
  <2>2. CASE retry(Tail(queue))
    BY <1>a, <2>1, <2>2
  <2>3. CASE queue' = Tail(queue) /\ UNCHANGED <<state_, retryDelayMs_, sockets, clock>>
    BY <1>1, <2>1, <2>3 DEF Typed, TypeOK, sockets, clock, handling
  <2> QED  BY <1>7, <2>2, <2>3 DEF stopInLoop
<1> QED  BY <1>3, <1>5, <1>6, <1>7

\* The handler of the retry timer.
LEMMA TimerTyped ==
    ASSUME Typed, handleTimerLock \/ handleTimerFind \/ handleTimerEnd \/ handleTimerAborted
    PROVE  Typed'
<1> USE DEF Entries
<1>1. queue \in Seq(Entries) /\ setting' = setting
  BY DEF Typed, TypeOK, handleTimerLock, handleTimerFind, handleTimerEnd, handleTimerAborted, Step
<1>2. CASE handleTimerLock
  <2>1. deadTimer' \in 0 .. MaxTimers
    BY <1>2, ConnectorAssumption DEF handleTimerLock, Typed, TypeOK, Timers
  <2> QED
    BY <1>1, <1>2, <2>1 DEF handleTimerLock, Typed, TypeOK, connector, sockets, client, outside
<1>3. ASSUME NEW f \in TimerFaults, Fail(f) PROVE Typed'
  BY <1>1, <1>3 DEF Fail, Typed, TypeOK, Faults, connector, sockets, clock, handling, client, outside
<1>4. CASE handleTimerFind
  <2>1. CASE startInLoop(state_, connect_, queue) /\ at' = "timerCallback"
             /\ UNCHANGED <<connect_, retryDelayMs_, clock, client, outside>>
    BY <1>1, <2>1, StartTypes DEF Typed, TypeOK, clock, handling, client, outside
  <2> QED  BY <1>3, <1>4, <2>1 DEF handleTimerFind, TimerFaults
<1>5. CASE handleTimerEnd
  <2>1. CASE /\ timers' = timers \ {deadTimer} /\ deadTimer' = 0 /\ at' = "idle"
             /\ UNCHANGED <<connector, sockets, timerToKill, reConnectTimer_, queue, client, outside,
                            fault>>
    BY <1>1, <2>1, ConnectorAssumption DEF Typed, TypeOK, connector, sockets, client, outside
  <2> QED  BY <1>3, <1>5, <2>1 DEF handleTimerEnd, TimerFaults
<1>6. CASE handleTimerAborted
  BY <1>3, <1>6 DEF handleTimerAborted, TimerFaults
<1> QED  BY <1>2, <1>4, <1>5, <1>6

\* A connect completes, and a connection comes and goes.
LEMMA ConnectionTyped ==
    ASSUME Typed,
           connectCompletes \/ handleConnected \/ EndUpCallback \/ connectionLost \/ removeConnection
             \/ serverChanges
    PROVE  Typed'
<1> USE DEF Entries
<1>1. queue \in Seq(Entries) /\ setting' = setting
  BY DEF Typed, TypeOK, connectCompletes, handleConnected, EndUpCallback, connectionLost,
         removeConnection, serverChanges, Takes, Step
<1>2. CASE connectCompletes
  <2>1. PICK s \in waiting :
           /\ waiting' = waiting \ {s}
           /\ queue' = Append(queue, <<IF server = "up" THEN "connected" ELSE "connectFailed", s>>)
    BY <1>2 DEF connectCompletes
  <2>2. s \in 0 .. MaxSockets
    BY ConnectorAssumption DEF Typed, TypeOK, Sockets
  <2>3. queue' \in Seq(Entries)
    BY <1>1, <2>1, <2>2, QueueTypes
  <2> QED
    BY <1>1, <1>2, <2>1, <2>3
       DEF connectCompletes, Typed, TypeOK, connector, clock, handling, client, outside
<1>3. CASE handleConnected
  <2>1. Head(queue) \in Entries /\ Tail(queue) \in Seq(Entries)
    BY <1>1, <1>3, QueueTypes DEF handleConnected, Takes
  <2>2. Head(queue)[2] \in 0 .. MaxSockets
    BY <2>1
  <2>3. ASSUME NEW f \in Faults, Fail(f) PROVE Typed'
    BY <1>1, <2>3 DEF Fail, Typed, TypeOK, connector, sockets, clock, handling, client, outside
  <2>4. CASE /\ state_' = "kConnected" /\ connection_' = Head(queue)[2] /\ at' = "upCallback"
             /\ queue' = Tail(queue)
             /\ UNCHANGED <<connect_, retryDelayMs_, sockets, clock, clientConnect_, outside, fault>>
    BY <1>1, <2>1, <2>2, <2>4 DEF Typed, TypeOK, sockets, clock, handling, outside
  <2> QED  BY <1>3, <2>3, <2>4 DEF handleConnected, Faults
<1>4. CASE EndUpCallback
  BY <1>1, <1>4 DEF EndUpCallback, Typed, TypeOK, connector, sockets, clock, handling, client, outside
<1>5. CASE connectionLost
  BY <1>1, <1>5 DEF connectionLost, Typed, TypeOK, connector, sockets, clock, handling, client
<1>6. CASE removeConnection
  BY <1>1, <1>6, ConnectorAssumption
     DEF removeConnection, Typed, TypeOK, connector, sockets, clock, handling, outside
<1>7. CASE serverChanges
  <2>1. server' \in setting.servers /\ server' \in {"up", "down"}
    BY <1>7, ConnectorAssumption DEF serverChanges, Typed
  <2> QED
    BY <1>1, <1>7, <2>1 DEF serverChanges, Typed, TypeOK, connector, sockets, clock, handling, client
<1> QED  BY <1>2, <1>3, <1>4, <1>5, <1>6, <1>7

\* The application's calls.
LEMMA CallTyped ==
    ASSUME Typed, connect \/ disconnect \/ stop \/ threadStopClient \/ threadStop
    PROVE  Typed'
<1> USE DEF Entries
<1>1. queue \in Seq(Entries) /\ setting' = setting
  BY DEF Typed, TypeOK, connect, disconnect, stop, threadStopClient, threadStop, threadStopConnector,
         threadStopPost, threadCancelLock, threadCancelErase, threadCancelEnd, MayCall, Step
<1>2. <<"startInLoop", 0>> \in Entries /\ <<"stopInLoop", 0>> \in Entries
  BY ConnectorAssumption
<1>3. /\ Append(queue, <<"startInLoop", 0>>) \in Seq(Entries)
      /\ Append(queue, <<"stopInLoop", 0>>) \in Seq(Entries)
  BY <1>1, <1>2, QueueTypes
<1>4. CASE connect
  <2>1. /\ UNCHANGED <<retryDelayMs_, timers, deadTimer, timerToKill, reConnectTimer_, at, connection_,
                       server, call>>
        /\ connect_' = TRUE /\ clientConnect_' = TRUE /\ app' = "started"
    BY <1>4 DEF connect, clock, handling
  <2>2. CASE startInLoop(state_, TRUE, queue)
    <3>1. state_ \in {"kDisconnected", "kConnecting", "kConnected"}
      BY DEF Typed, TypeOK
    <3>2. /\ current' \in 0 .. MaxSockets /\ waiting' \subseteq Sockets /\ closed' \subseteq Sockets
          /\ state_' \in {"kDisconnected", "kConnecting", "kConnected"}
          /\ queue' \in Seq(Entries) /\ fault' \in {"none"} \cup Faults
      BY <1>1, <2>2, <3>1, StartTypes
    <3> QED  BY <1>1, <2>1, <3>2 DEF Typed, TypeOK
  <2>3. CASE /\ queue' = Append(queue, <<"startInLoop", 0>>)
             /\ UNCHANGED <<state_, sockets, fault>>
    BY <1>1, <1>3, <2>1, <2>3 DEF Typed, TypeOK, sockets
  <2> QED  BY <1>4, <2>2, <2>3 DEF connect
<1>5. CASE disconnect
  <2>1. /\ clientConnect_' \in BOOLEAN
        /\ UNCHANGED <<connect_, state_, retryDelayMs_, current, waiting, closed, timers, deadTimer,
                       timerToKill, reConnectTimer_, queue, at, connection_, server, app, call, fault>>
    <3>1. UNCHANGED <<connector, sockets, clock, queue, at, connection_, outside, fault>>
          /\ clientConnect_' = FALSE
      BY <1>5 DEF disconnect
    <3> QED  BY <3>1 DEF connector, sockets, clock, handling, outside
  <2> QED  BY <1>1, <2>1 DEF Typed, TypeOK
<1>6. CASE stop
  BY <1>1, <1>3, <1>6 DEF stop, cancelTimer, Typed, TypeOK, sockets, handling
<1>7. CASE threadStopClient
  BY <1>1, <1>7 DEF threadStopClient, Typed, TypeOK, connector, sockets, clock, handling
<1>8. CASE threadStopConnector
  BY <1>1, <1>8 DEF threadStopConnector, Typed, TypeOK, sockets, clock, handling, client
<1>9. CASE threadStopPost
  BY <1>1, <1>3, <1>9 DEF threadStopPost, Typed, TypeOK, connector, sockets, clock, handling, client
<1>10. CASE threadCancelLock \/ threadCancelErase \/ threadCancelEnd
  <2>1. /\ timerToKill' \in {0, reConnectTimer_, timerToKill} /\ timers' \subseteq timers
        /\ call' \in {"cancelling", "cancelled", "none"} /\ app' \in {app, "stopped"}
        /\ UNCHANGED <<connector, sockets, deadTimer, reConnectTimer_, queue, at, client, server, fault>>
    BY <1>10 DEF threadCancelLock, threadCancelErase, threadCancelEnd
  <2>2. timerToKill' \in 0 .. MaxTimers
    BY <2>1, ConnectorAssumption DEF Typed, TypeOK
  <2> QED  BY <1>1, <2>1, <2>2 DEF Typed, TypeOK, connector, sockets, client
<1> QED  BY <1>4, <1>5, <1>6, <1>7, <1>8, <1>9, <1>10 DEF threadStop

\* The types of the initial state.
LEMMA InitTyped == Init => Typed
<1> SUFFICES ASSUME Init PROVE Typed
  OBVIOUS
<1>1. <<>> \in Seq(Entries)
  OBVIOUS
<1>2. server \in setting.servers /\ server \in {"up", "down"} /\ setting \in Settings
  BY ConnectorAssumption DEF Init
<1>3. retryDelayMs_ \in Delays
  BY DEF Init, Delays, kInitRetryDelayMs
<1>4. 0 \in 0 .. MaxSockets /\ 0 \in 0 .. MaxTimers
  BY ConnectorAssumption
<1> QED  BY <1>1, <1>2, <1>3, <1>4 DEF Init, Typed, TypeOK, Entries

\* The types hold for ever.
LEMMA TypesHold == Spec => []Typed
<1>1. Init => Typed
  BY InitTyped
<1>2. Typed /\ [Next]_vars => Typed'
  <2> SUFFICES ASSUME Typed, [Next]_vars PROVE Typed'
    OBVIOUS
  <2>1. CASE UNCHANGED vars
    BY <2>1 DEF vars, Typed, TypeOK
  <2> QED  BY <2>1, AttemptTyped, TimerTyped, ConnectionTyped, CallTyped DEF Next, loopStep
<1> QED  BY <1>1, <1>2, PTL DEF Spec

\* The types of Connector and TcpClient, the retry delays among them, hold for
\* every application and every server.
THEOREM ConnectorTyped == Spec => []TypeOK
<1>1. Typed => TypeOK
  BY DEF Typed
<1> QED  BY <1>1, TypesHold, PTL

-----------------------------------------------------------------------------
(* One attempt at a time.                                                  *)

\* stop() in another thread races with the loop's decision to reconnect, which
\* only a client that has been connected takes.
StopsInLoop(s) == <<"thread", "stop">> \in s.uses => "up" \notin s.servers

\* stop() while a connect has succeeded and its handler is queued closes the
\* socket under the handler, so one that may connect stops in a callback.
StopsInCallback(s) == <<"loop", "stop">> \in s.uses => "up" \notin s.servers

StopsInThread == <<"thread", "stop">> \in setting.uses

\* Where a thread is in stop() once it has posted stopInLoop.
Posted == {"stopPosted", "cancelling", "cancelled"}

\* The queue q holds nothing that is part of an attempt; it holds just h.
NoHandler(q) == \A i \in 1 .. Len(q) : q[i][1] = "stopInLoop"

OnlyHandler(q, h) ==
    \E i \in 1 .. Len(q) : q[i] = h /\ \A j \in 1 .. Len(q) : q[j][1] /= "stopInLoop" => j = i

\* The functor posted by stop() is in q.
HasStop(q) == \E i \in 1 .. Len(q) : q[i][1] = "stopInLoop"

HandlerEntries == {<<"startInLoop", 0>>} \cup ({"connected", "connectFailed"} \X Sockets)

\* The timer that handleTimer runs for is the only one there may be; it is gone
\* only if a thread has cancelled it.
OwnTimer == timers \subseteq {deadTimer} /\ (timers = {} => StopsInThread)

\* No timer is left but the one whose callback has just run.
NoTimer ==
    \/ at = "idle" /\ timers = {}
    \/ at = "timerCallback" /\ OwnTimer

\* The client is in one of six phases.
Idle == waiting = {} /\ NoHandler(queue) /\ connection_ = 0 /\ NoTimer

Attempting ==
    /\ NoHandler(queue) /\ connection_ = 0 /\ NoTimer
    /\ \E s \in Sockets : waiting = {s} /\ s \notin closed

\* A timer is set, or has expired and handleTimer has it locked.
Delayed ==
    /\ waiting = {} /\ NoHandler(queue) /\ connection_ = 0
    /\ state_ = "kDisconnected"
    /\ \/ at = "idle" /\ \E t \in Timers : timers = {t}
       \/ at = "timerLocked" /\ OwnTimer

\* A handler is queued: the attempt is about to begin or has just ended.
Pending(h) ==
    /\ waiting = {} /\ OnlyHandler(queue, h) /\ connection_ = 0 /\ NoTimer
    /\ h[1] = "startInLoop" => state_ = "kDisconnected"
    /\ h[1] = "connected" => /\ "up" \in setting.servers
                             /\ StopsInCallback(setting) => h[2] \notin closed

Connected ==
    /\ waiting = {} /\ timers = {} /\ NoHandler(queue) /\ connection_ /= 0
    /\ at \in {"idle", "upCallback", "downCallback"}

Restarting ==
    /\ waiting = {} /\ timers = {} /\ NoHandler(queue) /\ connection_ = 0 /\ at = "restart"

Phase ==
    Idle \/ Attempting \/ Delayed \/ (\E h \in HandlerEntries : Pending(h)) \/ Connected \/ Restarting

\* What stop() leaves behind, and in what order the thread's stop goes.
Stopping ==
    /\ app = "initial" => Idle /\ state_ = "kDisconnected" /\ call = "none"
    /\ call /= "none" => StopsInThread /\ "up" \notin setting.servers
    /\ app = "stopped" \/ call /= "none" => ~clientConnect_
    /\ app = "stopped" \/ call = "stopConnector" \/ call \in Posted => ~connect_
    /\ app = "stopped" => at /= "restart"
    /\ HasStop(queue) => app = "stopped" \/ call \in Posted
    /\ "up" \notin setting.servers => connection_ = 0 /\ at /= "restart"
    /\ StopsInCallback(setting) /\ "up" \in setting.servers /\ app = "stopped" => Idle \/ Connected

IInv ==
    /\ Typed /\ StopsInLoop(setting)
    /\ Phase /\ Stopping
    /\ NoFault \/ (fault = "exception" /\ ~StopsInCallback(setting))

\* The queue with one more entry at its end.
LEMMA AppendEntry ==
    ASSUME NEW q \in Seq(Entries), NEW e \in Entries
    PROVE  /\ e[1] = "stopInLoop" => /\ NoHandler(q) => NoHandler(Append(q, e))
                                     /\ \A h : OnlyHandler(q, h) => OnlyHandler(Append(q, e), h)
           /\ e[1] /= "stopInLoop" => /\ NoHandler(q) => OnlyHandler(Append(q, e), e)
                                      /\ HasStop(Append(q, e)) => HasStop(q)
<1> DEFINE a == Append(q, e)
<1>1. /\ Len(a) = Len(q) + 1 /\ Len(q) \in Nat /\ a[Len(q) + 1] = e
      /\ \A i \in 1 .. Len(q) : a[i] = q[i]
  OBVIOUS
<1> HIDE DEF a
<1>2. ASSUME e[1] = "stopInLoop", NoHandler(q) PROVE NoHandler(a)
  BY <1>1, <1>2 DEF NoHandler
<1>3. ASSUME e[1] = "stopInLoop", NEW h, OnlyHandler(q, h) PROVE OnlyHandler(a, h)
  <2>1. PICK k \in 1 .. Len(q) :
           q[k] = h /\ \A j \in 1 .. Len(q) : q[j][1] /= "stopInLoop" => j = k
    BY <1>3 DEF OnlyHandler
  <2>2. k \in 1 .. Len(a) /\ a[k] = h
    BY <1>1, <2>1
  <2>3. \A j \in 1 .. Len(a) : a[j][1] /= "stopInLoop" => j = k
    BY <1>1, <1>3, <2>1
  <2> QED  BY <2>2, <2>3 DEF OnlyHandler
<1>4. ASSUME e[1] /= "stopInLoop", NoHandler(q) PROVE OnlyHandler(a, e)
  <2>1. Len(q) + 1 \in 1 .. Len(a)
    BY <1>1
  <2>2. \A j \in 1 .. Len(a) : a[j][1] /= "stopInLoop" => j = Len(q) + 1
    BY <1>1, <1>4 DEF NoHandler
  <2> QED  BY <1>1, <2>1, <2>2 DEF OnlyHandler
<1>5. ASSUME e[1] /= "stopInLoop", HasStop(a) PROVE HasStop(q)
  BY <1>1, <1>5 DEF HasStop
<1> QED  BY <1>2, <1>3, <1>4, <1>5 DEF a

\* The queue without its head.
LEMMA TakeEntry ==
    ASSUME NEW q \in Seq(Entries), q /= <<>>
    PROVE  /\ NoHandler(q) => NoHandler(Tail(q)) /\ Head(q)[1] = "stopInLoop"
           /\ \A h : OnlyHandler(q, h) =>
                        IF Head(q)[1] = "stopInLoop"
                        THEN h[1] /= "stopInLoop" => OnlyHandler(Tail(q), h)
                        ELSE Head(q) = h /\ NoHandler(Tail(q))
           /\ HasStop(Tail(q)) => HasStop(q)
           /\ Head(q)[1] = "stopInLoop" => HasStop(q)
<1> DEFINE a == Tail(q)
<1>1. /\ Head(q) = q[1] /\ Len(q) \in Nat /\ Len(q) >= 1 /\ Len(a) = Len(q) - 1
      /\ \A i \in 1 .. Len(a) : a[i] = q[i + 1]
  OBVIOUS
<1> HIDE DEF a
<1>2. \A i \in 1 .. Len(a) : i + 1 \in 1 .. Len(q)
  BY <1>1
<1>3. NoHandler(q) => NoHandler(a) /\ Head(q)[1] = "stopInLoop"
  BY <1>1, <1>2 DEF NoHandler
<1>4. ASSUME NEW h, OnlyHandler(q, h)
      PROVE  IF Head(q)[1] = "stopInLoop" THEN h[1] /= "stopInLoop" => OnlyHandler(a, h)
             ELSE Head(q) = h /\ NoHandler(a)
  <2>1. PICK k \in 1 .. Len(q) :
           q[k] = h /\ \A j \in 1 .. Len(q) : q[j][1] /= "stopInLoop" => j = k
    BY <1>4 DEF OnlyHandler
  <2>2. \A i \in 1 .. Len(a) : a[i][1] /= "stopInLoop" => i + 1 = k
    BY <1>1, <1>2, <2>1
  <2>3. CASE Head(q)[1] = "stopInLoop" /\ h[1] /= "stopInLoop"
    <3>1. k - 1 \in 1 .. Len(a) /\ (k - 1) + 1 = k
      BY <1>1, <2>1, <2>3
    <3>2. a[k - 1] = h
      BY <1>1, <2>1, <3>1
    <3>3. \A j \in 1 .. Len(a) : a[j][1] /= "stopInLoop" => j = k - 1
      BY <1>1, <2>2, <3>1
    <3> QED  BY <2>3, <3>1, <3>2, <3>3 DEF OnlyHandler
  <2>4. CASE Head(q)[1] /= "stopInLoop"
    <3>1. k = 1
      BY <1>1, <2>1, <2>4
    <3> QED  BY <1>1, <2>1, <2>2, <2>4, <3>1 DEF NoHandler
  <2> QED  BY <2>3, <2>4
<1>5. HasStop(a) => HasStop(q)
  BY <1>1, <1>2 DEF HasStop
<1>6. Head(q)[1] = "stopInLoop" => HasStop(q)
  BY <1>1 DEF HasStop
<1> QED  BY <1>3, <1>4, <1>5, <1>6 DEF a

\* A queue with a handler is not one without.
LEMMA HandlerShows ==
    ASSUME NEW h \in HandlerEntries, NEW q, OnlyHandler(q, h)
    PROVE  ~NoHandler(q) /\ h[1] /= "stopInLoop"
BY DEF HandlerEntries, OnlyHandler, NoHandler

LEMMA InitOK ==
    ASSUME \A s \in Settings : StopsInLoop(s)
    PROVE  Init => IInv
<1> SUFFICES ASSUME Init PROVE IInv
  OBVIOUS
<1>1. Typed
  BY InitTyped
<1>2. NoHandler(<<>>) /\ ~HasStop(<<>>)
  BY DEF NoHandler, HasStop
<1>3. Idle /\ state_ = "kDisconnected"
  BY <1>2 DEF Init, Idle, NoTimer
<1>4. Stopping
  BY <1>2, <1>3 DEF Init, Stopping, Posted
<1> QED  BY <1>1, <1>3, <1>4 DEF Init, IInv, Phase, NoFault

\* With nothing else going on, startInLoop begins an attempt or does nothing.
LEMMA StartPhase ==
    ASSUME Typed, NEW c, NEW q, NoHandler(q), waiting = {}, startInLoop("kDisconnected", c, q),
           connection_' = 0, NoTimer'
    PROVE  (Idle' \/ Attempting') /\ fault' = fault /\ queue' = q
<1>1. fault' = fault /\ queue' = q
  BY DEF startInLoop
<1>2. CASE \E s \in Sockets : waiting' = waiting \cup {s} /\ closed' = closed \ {s}
  BY <1>1, <1>2 DEF Attempting
<1>3. CASE UNCHANGED sockets
  BY <1>1, <1>3 DEF Idle, sockets
<1> QED  BY <1>2, <1>3 DEF startInLoop

\* With nothing else going on, retry arms a timer if connect_ says so.
LEMMA RetryPhase ==
    ASSUME Typed, NEW q, NoHandler(q), waiting = {}, timers = {}, retry(q),
           connection_' = 0, at' = "idle"
    PROVE  (Idle' \/ Delayed') /\ queue' = q
<1>1. state_' = "kDisconnected" /\ queue' = q /\ waiting' = {}
  BY DEF retry, close
<1>2. timers' = {} \/ \E t \in Timers : timers' = {t}
  BY DEF retry, armTimer, clock
<1> QED  BY <1>1, <1>2 DEF Idle, Delayed, NoTimer

\* The phase in which the loop finds a handler at the head of its queue.
LEMMA HeadIsPending ==
    ASSUME IInv, queue /= <<>>, Head(queue)[1] /= "stopInLoop"
    PROVE  /\ Head(queue) \in HandlerEntries /\ Pending(Head(queue)) /\ NoHandler(Tail(queue))
           /\ ~Idle /\ ~Connected
           /\ Tail(queue) \in Seq(Entries) /\ (HasStop(Tail(queue)) => HasStop(queue))
<1>1. queue \in Seq(Entries)
  BY DEF IInv, Typed, TypeOK, Entries
<1>2. ~NoHandler(queue)
  BY <1>1, TakeEntry
<1>3. PICK h \in HandlerEntries : Pending(h)
  BY <1>2 DEF IInv, Phase, Idle, Attempting, Delayed, Connected, Restarting
<1>4. Head(queue) = h /\ NoHandler(Tail(queue))
  BY <1>1, <1>3, TakeEntry DEF Pending
<1>5. Tail(queue) \in Seq(Entries) /\ (HasStop(Tail(queue)) => HasStop(queue))
  BY <1>1, TakeEntry, QueueTypes
<1> QED  BY <1>2, <1>3, <1>4, <1>5 DEF Idle, Connected

\* The functor of start().
LEMMA StartTaskStep ==
    ASSUME IInv, startInLoopTask
    PROVE  IInv'
<1>1. /\ queue /= <<>> /\ Head(queue)[1] = "startInLoop" /\ at = "idle"
      /\ startInLoop(state_, connect_, Tail(queue))
      /\ UNCHANGED <<connect_, timers, at, clientConnect_, connection_, app, call, setting>>
  BY DEF startInLoopTask, Takes, Step, clock, client, outside
<1>2. /\ Pending(Head(queue)) /\ NoHandler(Tail(queue)) /\ ~Idle /\ ~Connected
      /\ (HasStop(Tail(queue)) => HasStop(queue))
  BY <1>1, HeadIsPending
<1>3. /\ waiting = {} /\ connection_ = 0 /\ state_ = "kDisconnected" /\ NoTimer'
  BY <1>1, <1>2 DEF Pending, NoTimer
<1>4. (Idle' \/ Attempting') /\ fault' = fault /\ queue' = Tail(queue)
  BY <1>1, <1>2, <1>3, StartPhase DEF IInv
<1>5. Typed'
  BY AttemptTyped DEF IInv
<1>6. Stopping'
  BY <1>1, <1>2, <1>3, <1>4 DEF IInv, Stopping, StopsInThread
<1> QED  BY <1>1, <1>4, <1>5, <1>6 DEF IInv, Phase, NoFault

\* A step that fails in handleTimer, which only a thread's cancel can cause.
LEMMA TimerFails ==
    ASSUME IInv, NEW f \in TimerFaults, Fail(f), StopsInThread, UNCHANGED setting, Typed'
    PROVE  IInv'
<1>1. /\ fault' = f
      /\ UNCHANGED <<connect_, state_, waiting, closed, timers, deadTimer, queue, at, clientConnect_,
                     connection_, app, call, setting>>
  BY DEF Fail, connector, sockets, clock, handling, client, outside
<1>2. Phase' /\ Stopping'
  BY <1>1 DEF IInv, Phase, Stopping, Idle, Attempting, Delayed, Pending, Connected, Restarting,
              NoTimer, OwnTimer, StopsInThread
<1>3. NoFault'
  BY <1>1 DEF NoFault, StopsInThread
<1> QED  BY <1>1, <1>2, <1>3 DEF IInv

\* The retry timer expires, and is found in the map unless a thread has
\* cancelled it.
LEMMA TimerStep ==
    ASSUME IInv, handleTimerLock \/ handleTimerFind \/ handleTimerEnd \/ handleTimerAborted
    PROVE  IInv'
<1>1. Typed' /\ setting' = setting
  BY TimerTyped DEF IInv, handleTimerLock, handleTimerFind, handleTimerEnd, handleTimerAborted, Step
<1>2. call /= "none" => StopsInThread
  BY DEF IInv, Stopping
<1>3. CASE handleTimerLock
  <2>1. /\ at = "idle" /\ at' = "timerLocked" /\ deadTimer' \in timers
        /\ UNCHANGED <<connect_, state_, waiting, closed, timers, queue, clientConnect_, connection_,
                       app, call, fault>>
    BY <1>3 DEF handleTimerLock, connector, sockets, client, outside
  <2>2. Delayed /\ ~Idle /\ ~Connected
    BY <2>1 DEF IInv, Phase, Idle, Attempting, Delayed, Pending, Connected, Restarting, NoTimer
  <2>3. Delayed'
    BY <2>1, <2>2 DEF Delayed, OwnTimer
  <2>4. Stopping'
    BY <1>1, <2>1, <2>2 DEF IInv, Stopping, StopsInThread
  <2> QED  BY <1>1, <2>1, <2>3, <2>4 DEF IInv, Phase, NoFault
<1>4. CASE handleTimerFind
  <2>1. at = "timerLocked"
    BY <1>4 DEF handleTimerFind
  <2>2. Delayed /\ ~Idle /\ ~Connected
    BY <2>1 DEF IInv, Phase, Idle, Attempting, Delayed, Pending, Connected, Restarting, NoTimer
  <2>3. deadTimer \notin timers => StopsInThread
    BY <2>1, <2>2 DEF Delayed, OwnTimer
  <2>4. CASE \E f \in TimerFaults : Fail(f)
    <3>1. StopsInThread
      <4>1. deadTimer \notin timers \/ Cancelling \/ at' = "timerCallback"
        BY <1>4 DEF handleTimerFind
      <4>2. at' = at
        BY <2>4 DEF Fail
      <4> QED  BY <1>2, <2>1, <2>3, <4>1, <4>2 DEF Cancelling
    <3> QED  BY <1>1, <2>4, <3>1, TimerFails
  <2>5. CASE /\ deadTimer \in timers /\ startInLoop(state_, connect_, queue) /\ at' = "timerCallback"
             /\ UNCHANGED <<connect_, retryDelayMs_, clock, client, outside>>
    <3>1. UNCHANGED <<connect_, timers, deadTimer, clientConnect_, connection_, app, call, setting>>
      BY <1>1, <2>5 DEF clock, handling, client, outside
    <3>2. NoTimer'
      BY <2>1, <2>2, <2>5, <3>1 DEF Delayed, NoTimer, OwnTimer
    <3>3. (Idle' \/ Attempting') /\ fault' = fault /\ queue' = queue
      BY <2>2, <2>5, <3>1, <3>2, StartPhase DEF IInv, Delayed
    <3>4. Stopping'
      BY <2>2, <2>5, <3>1, <3>3 DEF IInv, Stopping, Delayed, StopsInThread
    <3> QED  BY <1>1, <3>1, <3>3, <3>4 DEF IInv, Phase, NoFault
  <2> QED  BY <1>4, <2>4, <2>5 DEF handleTimerFind, TimerFaults
<1>5. CASE handleTimerEnd
  <2>1. at = "timerCallback" /\ ~Delayed /\ ~Connected /\ ~Restarting
    BY <1>5 DEF handleTimerEnd, Delayed, Connected, Restarting
  <2>2. OwnTimer
    BY <2>1 DEF IInv, Phase, Idle, Attempting, Pending, NoTimer
  <2>3. CASE \E f \in TimerFaults : Fail(f)
    <3>1. StopsInThread
      <4>1. deadTimer \notin timers \/ Cancelling \/ at' = "idle"
        BY <1>5 DEF handleTimerEnd
      <4>2. at' = at
        BY <2>3 DEF Fail
      <4> QED  BY <1>2, <2>1, <2>2, <4>1, <4>2 DEF Cancelling, OwnTimer
    <3> QED  BY <1>1, <2>3, <3>1, TimerFails
  <2>4. CASE /\ timers' = timers \ {deadTimer} /\ deadTimer' = 0 /\ at' = "idle"
             /\ UNCHANGED <<connector, sockets, timerToKill, reConnectTimer_, queue, client, outside,
                            fault>>
    <3>1. UNCHANGED <<connect_, state_, waiting, closed, queue, clientConnect_, connection_, app, call,
                      setting, fault>>
      BY <1>1, <2>4 DEF connector, sockets, client, outside
    <3>2. NoTimer'
      BY <2>2, <2>4 DEF NoTimer, OwnTimer
    <3>3. (Idle => Idle') /\ (Attempting => Attempting')
          /\ \A h \in HandlerEntries : Pending(h) => Pending(h)'
      BY <3>1, <3>2 DEF Idle, Attempting, Pending
    <3>4. Phase'
      BY <2>1, <3>3 DEF IInv, Phase
    <3>5. Stopping'
      BY <2>1, <2>4, <3>1, <3>3 DEF IInv, Stopping, StopsInThread
    <3> QED  BY <1>1, <3>1, <3>4, <3>5 DEF IInv, NoFault
  <2> QED  BY <1>5, <2>3, <2>4 DEF handleTimerEnd, TimerFaults
<1>6. CASE handleTimerAborted
  BY <1>1, <1>2, <1>6, TimerFails DEF handleTimerAborted, TimerFaults
<1> QED  BY <1>3, <1>4, <1>5, <1>6

\* Connector::restart, which sets connect_ again: nobody has stopped the client.
LEMMA RestartStep ==
    ASSUME IInv, restart
    PROVE  IInv'
<1>1. /\ at = "restart" /\ at' = "idle" /\ connect_' = TRUE /\ startInLoop("kDisconnected", TRUE, queue)
      /\ UNCHANGED <<timers, clientConnect_, connection_, app, call, setting>>
  BY DEF restart, Step, clock, client, outside
<1>2. Restarting /\ ~Idle
  BY <1>1 DEF IInv, Phase, Idle, Attempting, Delayed, Pending, Connected, NoTimer
<1>3. (Idle' \/ Attempting') /\ fault' = fault /\ queue' = queue
  <2>1. NoTimer'
    BY <1>1, <1>2 DEF Restarting, NoTimer
  <2> QED  BY <1>1, <1>2, <2>1, StartPhase DEF IInv, Restarting
<1>4. app /= "stopped" /\ call = "none" /\ app /= "initial"
  BY <1>1, <1>2 DEF IInv, Stopping
<1>5. Typed'
  BY AttemptTyped DEF IInv
<1>6. Stopping'
  <2>1. ~HasStop(queue) /\ "up" \in setting.servers
    BY <1>1, <1>4 DEF IInv, Stopping, Posted
  <2> QED  BY <1>1, <1>3, <1>4, <2>1 DEF Stopping, Posted
<1> QED  BY <1>1, <1>3, <1>5, <1>6 DEF IInv, Phase, NoFault

\* handleConnect with an error.
LEMMA ConnectFailedStep ==
    ASSUME IInv, handleConnectFailed
    PROVE  IInv'
<1>1. /\ queue /= <<>> /\ Head(queue)[1] = "connectFailed" /\ at = "idle" /\ retry(Tail(queue))
      /\ UNCHANGED <<connect_, at, clientConnect_, connection_, app, call, setting, fault>>
  BY DEF handleConnectFailed, Takes, Step, client, outside
<1>2. /\ Pending(Head(queue)) /\ NoHandler(Tail(queue)) /\ ~Idle /\ ~Connected
      /\ (HasStop(Tail(queue)) => HasStop(queue))
  BY <1>1, HeadIsPending
<1>3. waiting = {} /\ timers = {} /\ connection_ = 0
  BY <1>1, <1>2 DEF Pending, NoTimer
<1>4. (Idle' \/ Delayed') /\ queue' = Tail(queue)
  BY <1>1, <1>2, <1>3, RetryPhase DEF IInv
<1>5. Typed'
  BY AttemptTyped DEF IInv
<1>6. Stopping'
  BY <1>1, <1>2, <1>3, <1>4 DEF IInv, Stopping, StopsInThread
<1> QED  BY <1>1, <1>4, <1>5, <1>6 DEF IInv, Phase, NoFault

\* stopInLoop: connect_ is FALSE by now, so that retry arms no timer, and a
\* connect under way is aborted.
LEMMA StopTaskStep ==
    ASSUME IInv, stopInLoop
    PROVE  IInv'
<1> DEFINE q == Tail(queue)
<1>1. /\ queue /= <<>> /\ Head(queue)[1] = "stopInLoop" /\ at = "idle"
      /\ \/ retry(q)
         \/ queue' = q /\ UNCHANGED <<state_, retryDelayMs_, sockets, clock>>
      /\ UNCHANGED <<connect_, at, clientConnect_, connection_, app, call, setting, fault>>
  BY DEF stopInLoop, Takes, Step, client, outside
<1>2. queue \in Seq(Entries) /\ q \in Seq(Entries)
  BY <1>1, QueueTypes DEF IInv, Typed, TypeOK, Entries
<1>3. /\ HasStop(queue) /\ (NoHandler(queue) => NoHandler(q))
      /\ \A h : OnlyHandler(queue, h) /\ h[1] /= "stopInLoop" => OnlyHandler(q, h)
  BY <1>1, <1>2, TakeEntry
<1>4. (app = "stopped" \/ call /= "none") /\ ~connect_
  BY <1>3 DEF IInv, Stopping, Posted
<1>5. Typed'
  BY AttemptTyped DEF IInv
<1> HIDE DEF q
<1>6. /\ timers' = timers /\ state_' \in {state_, "kDisconnected"}
      /\ \/ queue' = q /\ waiting' = waiting /\ closed' \subseteq closed \cup {current}
            /\ (waiting /= {} => \A s \in waiting : s \in closed' => s \in closed)
         \/ /\ current \in waiting /\ waiting' = waiting \ {current}
            /\ queue' = Append(q, <<"connectFailed", current>>)
  BY <1>1, <1>4 DEF retry, close, sockets, clock
<1>7. (Idle => Idle') /\ (Connected => Connected') /\ (Delayed => Delayed')
  BY <1>1, <1>3, <1>6 DEF Idle, Connected, Delayed, NoTimer
<1>8. ASSUME Attempting PROVE Phase'
  <2>1. PICK s \in Sockets : waiting = {s} /\ s \notin closed
    BY <1>8 DEF Attempting
  <2>2. NoHandler(q) /\ connection_ = 0 /\ NoTimer'
    BY <1>1, <1>3, <1>6, <1>8 DEF Attempting, NoTimer
  <2>3. CASE queue' = q /\ waiting' = waiting /\ s \notin closed'
    BY <1>1, <1>6, <2>1, <2>2, <2>3 DEF Attempting, Phase
  <2>4. CASE /\ waiting' = {}
             /\ queue' = Append(q, <<"connectFailed", s>>)
    <3> DEFINE h == <<"connectFailed", s>>
    <3>1. h \in HandlerEntries /\ h \in Entries /\ h[1] = "connectFailed"
      BY ConnectorAssumption DEF HandlerEntries, Entries, Sockets
    <3> HIDE DEF h
    <3>2. OnlyHandler(queue', h)
      BY <1>2, <2>2, <2>4, <3>1, AppendEntry DEF h
    <3>3. Pending(h)'
      BY <1>1, <1>6, <2>2, <2>4, <3>1, <3>2 DEF Pending
    <3> QED  BY <3>1, <3>3 DEF Phase
  <2> QED  BY <1>6, <2>1, <2>3, <2>4
<1>9. ASSUME NEW h \in HandlerEntries, Pending(h) PROVE Pending(h)'
  <2>1. h[1] /= "stopInLoop" /\ ~NoHandler(queue)
    BY <1>9, HandlerShows DEF Pending
  <2>2. OnlyHandler(q, h) /\ waiting = {} /\ connection_ = 0 /\ NoTimer'
    BY <1>1, <1>3, <1>6, <1>9, <2>1 DEF Pending, NoTimer
  <2>3. queue' = q /\ waiting' = {}
    BY <1>6, <2>2
  <2>4. h[1] = "connected" => ~StopsInCallback(setting)
    BY <1>4, <1>9, <2>1 DEF IInv, Stopping, Pending, Idle, Connected
  <2> QED  BY <1>1, <1>6, <1>9, <2>2, <2>3, <2>4 DEF Pending
<1>10. Phase'
  BY <1>1, <1>7, <1>8, <1>9 DEF IInv, Phase, Restarting
<1>11. Stopping'
  BY <1>1, <1>3, <1>4, <1>7 DEF IInv, Stopping, StopsInThread
<1> QED  BY <1>1, <1>5, <1>10, <1>11 DEF IInv, NoFault

\* handleConnect with success: there is a connection now, and its socket has not
\* been closed unless somebody has called stop() outside a callback.
LEMMA ConnectedStep ==
    ASSUME IInv, handleConnected
    PROVE  IInv'
<1> DEFINE h == Head(queue)
<1>1. /\ queue /= <<>> /\ h[1] = "connected" /\ at = "idle" /\ setting' = setting
  BY DEF handleConnected, Takes, Step
<1>2. /\ h \in HandlerEntries /\ Pending(h) /\ NoHandler(Tail(queue)) /\ ~Idle /\ ~Connected
      /\ (HasStop(Tail(queue)) => HasStop(queue))
  BY <1>1, HeadIsPending
<1>3. Typed'
  BY ConnectionTyped DEF IInv
<1>4. CASE (h[2] \in closed /\ Fail("exception")) \/ (setting.resets /\ Fail("peerReset"))
  <2>1. /\ \/ fault' = "exception" /\ h[2] \in closed
           \/ fault' = "peerReset" /\ setting.resets
        /\ UNCHANGED <<connect_, state_, waiting, closed, timers, deadTimer, queue, at, clientConnect_,
                       connection_, app, call>>
    BY <1>4 DEF handleConnected, Fail, connector, sockets, clock, handling, client, outside
  <2>2. h[2] \in closed => ~StopsInCallback(setting)
    BY <1>1, <1>2 DEF Pending
  <2>3. Phase' /\ Stopping'
    BY <1>1, <2>1 DEF IInv, Phase, Stopping, Idle, Attempting, Delayed, Pending, Connected, Restarting,
                      NoTimer, OwnTimer, StopsInThread
  <2> QED  BY <1>1, <1>3, <2>1, <2>2, <2>3 DEF IInv, NoFault
<1>5. CASE /\ connection_' = h[2] /\ at' = "upCallback" /\ queue' = Tail(queue)
           /\ UNCHANGED <<connect_, sockets, clock, clientConnect_, outside, fault>>
  <2>1. /\ connection_' = h[2] /\ at' = "upCallback" /\ queue' = Tail(queue)
        /\ UNCHANGED <<connect_, waiting, closed, timers, clientConnect_, app, call, fault>>
    BY <1>5 DEF sockets, clock, outside
  <2>2. h[2] \in Sockets /\ h[2] /= 0
    BY <1>1, <1>2 DEF HandlerEntries, Sockets
  <2>3. Connected'
    BY <1>1, <1>2, <2>1, <2>2 DEF Connected, Pending, NoTimer
  <2>4. Stopping'
    BY <1>1, <1>2, <2>1, <2>3 DEF IInv, Stopping, Pending, StopsInThread
  <2> QED  BY <1>1, <1>3, <2>1, <2>3, <2>4 DEF IInv, Phase, NoFault
<1> QED  BY <1>4, <1>5 DEF handleConnected

\* A connect completes.
LEMMA CompletesStep ==
    ASSUME IInv, connectCompletes
    PROVE  IInv'
<1>1. PICK s \in waiting :
         /\ waiting' = waiting \ {s}
         /\ queue' = Append(queue, <<IF server = "up" THEN "connected" ELSE "connectFailed", s>>)
  BY DEF connectCompletes
<1>2. UNCHANGED <<connect_, state_, closed, timers, deadTimer, at, clientConnect_, connection_, app,
                  call, fault, setting>>
  BY DEF connectCompletes, Step, connector, clock, handling, client, outside
<1>a. PICK what \in {"connected", "connectFailed"} :
         what = IF server = "up" THEN "connected" ELSE "connectFailed"
  OBVIOUS
<1> DEFINE h == <<what, s>>
<1>3. Attempting
  BY <1>1 DEF IInv, Phase, Idle, Delayed, Pending, Connected, Restarting
<1>4. waiting = {s} /\ s \notin closed /\ s \in Sockets /\ ~Idle /\ ~Connected
  BY <1>1, <1>3 DEF Attempting, Idle, Connected
<1>5. /\ h \in HandlerEntries /\ h \in Entries /\ h[1] \in {"connected", "connectFailed"} /\ h[2] = s
      /\ (h[1] = "connected" => server = "up")
  BY <1>4, <1>a, ConnectorAssumption DEF HandlerEntries, Entries, Sockets
<1>6. queue' = Append(queue, h) /\ queue \in Seq(Entries) /\ NoHandler(queue)
  BY <1>1, <1>3, <1>a DEF Attempting, IInv, Typed, TypeOK, Entries
<1> HIDE DEF h
<1>7. OnlyHandler(queue', h) /\ (HasStop(queue') => HasStop(queue))
  BY <1>5, <1>6, AppendEntry
<1>8. Pending(h)'
  <2>1. waiting' = {} /\ connection_' = 0 /\ NoTimer'
    BY <1>1, <1>2, <1>3, <1>4 DEF Attempting, NoTimer, OwnTimer, StopsInThread
  <2>2. h[1] = "connected" => "up" \in setting'.servers /\ h[2] \notin closed'
    BY <1>2, <1>4, <1>5 DEF IInv, Typed
  <2> QED  BY <1>5, <1>7, <2>1, <2>2 DEF Pending
<1>9. Typed'
  BY ConnectionTyped DEF IInv
<1>10. Stopping'
  BY <1>2, <1>4, <1>7 DEF IInv, Stopping, StopsInThread
<1>11. Phase'
  BY <1>5, <1>8 DEF Phase
<1> QED  BY <1>2, <1>9, <1>10, <1>11 DEF IInv, NoFault

\* The connection comes up, is lost and is removed.
LEMMA ConnectionStep ==
    ASSUME IInv, EndUpCallback \/ connectionLost \/ removeConnection \/ serverChanges
    PROVE  IInv'
<1>1. Typed'
  BY ConnectionTyped DEF IInv
<1>2. CASE EndUpCallback
  <2>1. /\ at = "upCallback" /\ at' = "idle"
        /\ UNCHANGED <<connect_, state_, waiting, closed, timers, queue, clientConnect_, connection_,
                       app, call, fault, setting>>
    BY <1>2 DEF EndUpCallback, Step, connector, sockets, clock, client, outside
  <2>2. Connected /\ ~Idle
    BY <2>1 DEF IInv, Phase, Idle, Attempting, Delayed, Pending, Restarting, NoTimer
  <2>3. Connected'
    BY <2>1, <2>2 DEF Connected
  <2>4. Stopping'
    BY <2>1, <2>2, <2>3 DEF IInv, Stopping, StopsInThread
  <2> QED  BY <1>1, <2>1, <2>3, <2>4 DEF IInv, Phase, NoFault
<1>3. CASE connectionLost
  <2>1. /\ connection_ /= 0 /\ at = "idle" /\ at' = "downCallback"
        /\ app' \in {app, "down"} /\ (app' /= app => app = "started")
        /\ UNCHANGED <<connect_, state_, waiting, closed, timers, queue, clientConnect_, connection_,
                       call, fault, setting>>
    BY <1>3 DEF connectionLost, Step, connector, sockets, clock, client
  <2>2. Connected /\ ~Idle
    BY <2>1 DEF IInv, Phase, Idle, Attempting, Delayed, Pending, Restarting, NoTimer
  <2>3. Connected'
    BY <2>1, <2>2 DEF Connected
  <2>4. Stopping'
    BY <2>1, <2>2, <2>3 DEF IInv, Stopping, StopsInThread
  <2> QED  BY <1>1, <2>1, <2>3, <2>4 DEF IInv, Phase, NoFault
<1>4. CASE removeConnection
  <2>1. /\ at = "downCallback" /\ connection_' = 0 /\ at' \in {"restart", "idle"}
        /\ (at' = "restart" => clientConnect_)
        /\ UNCHANGED <<connect_, state_, waiting, closed, timers, queue, clientConnect_, app, call,
                       fault, setting>>
    BY <1>4 DEF removeConnection, Step, connector, sockets, clock, outside
  <2>2. Connected /\ ~Idle
    BY <2>1 DEF IInv, Phase, Idle, Attempting, Delayed, Pending, Restarting, NoTimer
  <2>3. (at' = "restart" => Restarting') /\ (at' = "idle" => Idle')
    BY <2>1, <2>2 DEF Connected, Restarting, Idle, NoTimer
  <2>4. Stopping'
    BY <2>1, <2>2, <2>3 DEF IInv, Stopping, Connected, StopsInThread
  <2> QED  BY <1>1, <2>1, <2>3, <2>4 DEF IInv, Phase, NoFault
<1>5. CASE serverChanges
  <2>1. UNCHANGED <<connect_, state_, waiting, closed, timers, deadTimer, queue, at, clientConnect_,
                    connection_, app, call, fault, setting>>
    BY <1>5 DEF serverChanges, Step, connector, sockets, clock, handling, client
  <2>2. Phase' /\ Stopping'
    BY <2>1 DEF IInv, Phase, Stopping, Idle, Attempting, Delayed, Pending, Connected, Restarting,
                NoTimer, OwnTimer, StopsInThread
  <2> QED  BY <1>1, <2>1, <2>2 DEF IInv, NoFault
<1> QED  BY <1>2, <1>3, <1>4, <1>5

\* TcpClient::connect, before which nothing goes on.
LEMMA ConnectStep ==
    ASSUME IInv, connect
    PROVE  IInv'
<1>1. /\ app = "initial" /\ app' = "started" /\ connect_' = TRUE /\ clientConnect_' = TRUE
      /\ UNCHANGED <<timers, deadTimer, at, connection_, call, setting>>
  BY DEF connect, MayCall, Step, clock, handling
<1>2. Idle /\ state_ = "kDisconnected" /\ call = "none" /\ ~HasStop(queue)
  BY <1>1 DEF IInv, Stopping, Posted
<1>a. NoTimer'
  BY <1>1, <1>2 DEF Idle, NoTimer, OwnTimer, StopsInThread
<1>3. queue \in Seq(Entries)
  BY DEF IInv, Typed, TypeOK, Entries
<1>4. Typed'
  BY CallTyped DEF IInv
<1>5. CASE startInLoop(state_, TRUE, queue)
  <2>1. (Idle' \/ Attempting') /\ fault' = fault /\ queue' = queue
    BY <1>1, <1>a, <1>2, <1>5, StartPhase DEF IInv, Idle
  <2>2. Stopping'
    BY <1>1, <1>2, <2>1 DEF IInv, Stopping, Idle, NoTimer, StopsInThread, Posted
  <2> QED  BY <1>1, <1>4, <2>1, <2>2 DEF IInv, Phase, NoFault
<1>6. CASE /\ queue' = Append(queue, <<"startInLoop", 0>>)
           /\ UNCHANGED <<state_, sockets, fault>>
  <2> DEFINE h == <<"startInLoop", 0>>
  <2>1. h \in HandlerEntries /\ h \in Entries /\ h[1] = "startInLoop"
    BY ConnectorAssumption DEF HandlerEntries, Entries
  <2> HIDE DEF h
  <2>2. OnlyHandler(queue', h) /\ (HasStop(queue') => HasStop(queue))
    BY <1>2, <1>3, <1>6, <2>1, AppendEntry DEF Idle, h
  <2>3. Pending(h)'
    BY <1>1, <1>a, <1>2, <1>6, <2>1, <2>2 DEF Pending, Idle, sockets
  <2>4. Stopping'
    BY <1>1, <1>2, <1>6, <2>2 DEF IInv, Stopping, Idle, NoTimer, StopsInThread, Posted
  <2> QED  BY <1>1, <1>4, <1>6, <2>1, <2>3, <2>4 DEF IInv, Phase, NoFault
<1> QED  BY <1>5, <1>6 DEF connect

\* What stop() does to the attempt at once: a timer may go, a functor comes.
LEMMA CancelPhase ==
    ASSUME IInv, queue' \in {queue, Append(queue, <<"stopInLoop", 0>>)}, timers' \subseteq timers,
           at \in {"timerLocked", "timerCallback"} => StopsInThread,
           UNCHANGED <<state_, waiting, closed, deadTimer, at, connection_, setting>>
    PROVE  Phase' /\ (Idle => Idle') /\ (Connected => Connected')
<1>1. queue \in Seq(Entries) /\ <<"stopInLoop", 0>> \in Entries
  BY ConnectorAssumption DEF IInv, Typed, TypeOK, Entries
<1>2. /\ NoHandler(queue) => NoHandler(queue')
      /\ \A h : OnlyHandler(queue, h) => OnlyHandler(queue', h)
  BY <1>1, AppendEntry
<1>3. NoTimer => NoTimer'
  BY DEF NoTimer, OwnTimer, StopsInThread
<1>4. (Idle => Idle') /\ (Attempting => Attempting') /\ (Connected => Connected')
      /\ (Restarting => Restarting')
  BY <1>2, <1>3 DEF Idle, Attempting, Connected, Restarting
<1>5. Delayed => Idle' \/ Delayed'
  BY <1>2 DEF Idle, Delayed, NoTimer, OwnTimer, StopsInThread
<1>6. \A h \in HandlerEntries : Pending(h) => Pending(h)'
  BY <1>2, <1>3 DEF Pending
<1> QED  BY <1>4, <1>5, <1>6 DEF IInv, Phase

\* TcpClient::disconnect, and TcpClient::stop in the loop's thread.
LEMMA CallStep ==
    ASSUME IInv, disconnect \/ stop
    PROVE  IInv'
<1>1. Typed'
  BY CallTyped DEF IInv
<1>2. CASE disconnect
  <2>1. /\ clientConnect_' = FALSE
        /\ UNCHANGED <<connect_, state_, waiting, closed, timers, deadTimer, queue, at, connection_,
                       app, call, fault, setting>>
    BY <1>2 DEF disconnect, MayCall, Step, connector, sockets, clock, handling, outside
  <2>2. Phase' /\ Stopping'
    BY <2>1 DEF IInv, Phase, Stopping, Idle, Attempting, Delayed, Pending, Connected, Restarting,
                NoTimer, OwnTimer, StopsInThread
  <2> QED  BY <1>1, <2>1, <2>2 DEF IInv, NoFault
<1>3. CASE stop
  <2>1. PICK site \in Sites \ {"thread"} : MayCall(site, "stop")
    BY <1>3 DEF stop
  <2>2. /\ clientConnect_' = FALSE /\ connect_' = FALSE /\ app' = "stopped" /\ call = "none"
        /\ queue' = Append(queue, <<"stopInLoop", 0>>) /\ timers' = timers \ {reConnectTimer_}
        /\ UNCHANGED <<state_, waiting, closed, deadTimer, at, connection_, call, fault, setting>>
    BY <1>3 DEF stop, cancelTimer, handling, MayCall, Step, sockets
  <2>3. /\ at \in {"idle", "upCallback", "downCallback"} /\ site = Site
        /\ <<site, "stop">> \in setting.uses
    BY <2>1 DEF MayCall
  <2>a. /\ at \in {"timerLocked", "timerCallback"} => StopsInThread
        /\ timers' \subseteq timers
        /\ queue' \in {queue, Append(queue, <<"stopInLoop", 0>>)}
    BY <2>2, <2>3
  <2>4. Phase' /\ (Connected => Connected')
    BY <2>2, <2>a, CancelPhase
  <2>5. StopsInCallback(setting) /\ "up" \in setting.servers => Connected
    <3> SUFFICES ASSUME StopsInCallback(setting), "up" \in setting.servers PROVE Connected
      OBVIOUS
    <3>1. at \in {"upCallback", "downCallback"}
      BY <2>3 DEF StopsInCallback, Site
    <3> QED  BY <3>1 DEF IInv, Phase, Idle, Attempting, Delayed, Pending, Restarting, NoTimer
  <2>6. Stopping'
    BY <2>2, <2>3, <2>4, <2>5 DEF IInv, Stopping, StopsInThread
  <2> QED  BY <1>1, <2>2, <2>4, <2>6 DEF IInv, NoFault
<1> QED  BY <1>2, <1>3

\* TcpClient::stop in another thread, step by step.
LEMMA ThreadStep ==
    ASSUME IInv, threadStopClient \/ threadStop
    PROVE  IInv'
<1>1. Typed'
  BY CallTyped DEF IInv
<1>2. CASE threadStopClient
  <2>1. /\ clientConnect_' = FALSE /\ call' = "stopClient" /\ app \in {"started", "down"}
        /\ call = "none" /\ StopsInThread
        /\ UNCHANGED <<connect_, state_, waiting, closed, timers, deadTimer, queue, at, connection_,
                       app, fault, setting>>
    BY <1>2 DEF threadStopClient, MayCall, Step, connector, sockets, clock, handling, StopsInThread
  <2>2. "up" \notin setting.servers
    BY <2>1 DEF IInv, StopsInLoop, StopsInThread
  <2>3. Phase'
    BY <2>1, CancelPhase
  <2>4. Stopping'
    BY <2>1, <2>2 DEF IInv, Stopping, StopsInThread, Posted
  <2> QED  BY <1>1, <2>1, <2>3, <2>4 DEF IInv, NoFault
<1>3. CASE threadStop
  <2>1. /\ call /= "none" /\ app' \in {app, "stopped"}
        /\ timers' \in {timers, timers \ {timerToKill}}
        /\ queue' \in {queue, Append(queue, <<"stopInLoop", 0>>)}
        /\ connect_' \in {connect_, FALSE}
        /\ UNCHANGED <<state_, waiting, closed, deadTimer, at, clientConnect_, connection_, fault,
                       setting>>
    BY <1>3 DEF threadStop, threadStopConnector, threadStopPost, threadCancelLock, threadCancelErase,
                threadCancelEnd, Step, connector, sockets, clock, handling, client
  <2>2. /\ call = "stopClient" => call' = "stopConnector" /\ ~connect_'
        /\ call = "stopConnector" \/ call \in Posted => call' \in Posted \/ app' = "stopped"
        /\ queue' = queue \/ call' \in Posted
        /\ app' = app \/ (app' = "stopped" /\ call \in Posted)
    BY <1>3 DEF threadStop, threadStopConnector, threadStopPost, threadCancelLock, threadCancelErase,
                threadCancelEnd, Posted
  <2>3. call \in {"stopClient", "stopConnector"} \cup Posted /\ connect_ \in BOOLEAN
    BY <2>1 DEF IInv, Typed, TypeOK, Posted
  <2>4. StopsInThread /\ "up" \notin setting.servers /\ ~clientConnect_ /\ at /= "restart"
        /\ app /= "initial" /\ connection_ = 0
    BY <2>1 DEF IInv, Stopping
  <2>a. at \in {"timerLocked", "timerCallback"} => StopsInThread
    BY <2>4
  <2>5. Phase'
    <3>1. timers' \subseteq timers
      BY <2>1
    <3> QED  BY <2>1, <2>a, <3>1, CancelPhase
  <2>6. ~connect_'
    BY <2>1, <2>2, <2>3 DEF IInv, Stopping
  <2>7. HasStop(queue') => app' = "stopped" \/ call' \in Posted
    BY <2>1, <2>2, <2>3 DEF IInv, Stopping, Posted
  <2>8. Stopping'
    BY <2>1, <2>2, <2>4, <2>6, <2>7 DEF Stopping, StopsInThread
  <2> QED  BY <1>1, <2>1, <2>5, <2>8 DEF IInv, NoFault
<1> QED  BY <1>2, <1>3

\* Every step keeps the invariant.
LEMMA NextOK == IInv /\ [Next]_vars => IInv'
<1> SUFFICES ASSUME IInv, [Next]_vars PROVE IInv'
  OBVIOUS
<1>1. CASE UNCHANGED vars
  BY <1>1 DEF vars, IInv, Typed, TypeOK, Phase, Stopping, Idle, Attempting, Delayed, Pending,
              Connected, Restarting, NoTimer, OwnTimer, StopsInThread, NoFault
<1> QED
  BY <1>1, StartTaskStep, StopTaskStep, ConnectedStep, ConnectFailedStep, ConnectionStep, RestartStep,
     TimerStep, CompletesStep, ConnectStep, CallStep, ThreadStep DEF Next, loopStep

\* The invariant holds for ever.
LEMMA Invariance ==
    ASSUME \A s \in Settings : StopsInLoop(s)
    PROVE  Spec => []IInv
BY InitOK, NextOK, PTL DEF Spec

\* The phases exclude each other.
LEMMA PhaseCounts ==
    ASSUME Phase
    PROVE  OneAttempt
<1> DEFINE w == Cardinality(waiting)
           t == Cardinality(Armed)
           h == Cardinality(Handlers)
           c == IF connection_ /= 0 THEN 1 ELSE 0
           r == IF at = "restart" THEN 1 ELSE 0
<1>1. Cardinality({}) = 0 /\ \A x : Cardinality({x}) = 1
  BY FS_EmptySet, FS_Singleton
<1>2. NoHandler(queue) => h = 0
  <2>1. NoHandler(queue) => Handlers = {}
    BY DEF NoHandler, Handlers
  <2> QED  BY <1>1, <2>1
<1>3. ASSUME NEW e \in HandlerEntries, OnlyHandler(queue, e) PROVE h = 1
  <2>1. PICK k \in 1 .. Len(queue) :
           queue[k] = e /\ \A j \in 1 .. Len(queue) : queue[j][1] /= "stopInLoop" => j = k
    BY <1>3 DEF OnlyHandler
  <2>2. queue[k][1] /= "stopInLoop"
    BY <1>3, <2>1, HandlerShows
  <2>3. Handlers = {k}
    BY <2>1, <2>2 DEF Handlers
  <2> QED  BY <1>1, <2>3
<1> HIDE DEF w, t, h
<1>4. waiting = {} => w = 0
  BY <1>1 DEF w
<1>5. Armed = {} => t = 0
  BY <1>1 DEF t
<1>a. NoTimer \/ (timers = {} /\ at /= "timerCallback") => Armed = {}
  BY DEF NoTimer, OwnTimer, Armed
<1>6. w + t + h + c + r <= 1
  <2>1. CASE Idle \/ Connected \/ Restarting
    BY <1>a, <1>2, <1>4, <1>5, <2>1 DEF Idle, Connected, Restarting, NoTimer
  <2>2. CASE Attempting
    <3>1. w = 1
      BY <1>1, <2>2 DEF Attempting, w
    <3> QED  BY <1>a, <1>2, <1>5, <2>2, <3>1 DEF Attempting, NoTimer
  <2>3. CASE Delayed
    <3>1. t = 0 \/ t = 1
      <4>1. Armed = {} \/ \E x : Armed = {x}
        BY <2>3 DEF Delayed, OwnTimer, Armed
      <4> QED  BY <1>1, <4>1 DEF t
    <3> QED  BY <1>2, <1>4, <2>3, <3>1 DEF Delayed
  <2>4. CASE \E e \in HandlerEntries : Pending(e)
    <3>1. h = 1
      BY <1>3, <2>4 DEF Pending
    <3> QED  BY <1>a, <1>4, <1>5, <2>4, <3>1 DEF Pending, NoTimer
  <2> QED  BY <2>1, <2>2, <2>3, <2>4 DEF Phase
<1> QED  BY <1>6 DEF OneAttempt, w, t, h

\* A connect under way, a start or a completion that is queued, a retry timer, a
\* reconnection just decided and the connection exclude each other, if stop() is
\* not called in another thread while the client may be connected.
THEOREM OneAttemptAtATime ==
    ASSUME \A s \in Settings : StopsInLoop(s)
    PROVE  Spec => []OneAttempt
<1>1. IInv => OneAttempt
  BY PhaseCounts DEF IInv
<1> QED  BY <1>1, Invariance, PTL

\* The assert in startInLoop holds, handleTimer finds its timer and newConnection
\* does not throw, if stop() is called only in a callback while a connect may
\* succeed; but newConnection throws on a connection its peer has reset, and a
\* stop() in another thread may cancel the timer under handleTimer.
THEOREM ConnectorNeverFails ==
    ASSUME \A s \in Settings : StopsInLoop(s) /\ StopsInCallback(s)
    PROVE  Spec => []NoFault
<1>1. IInv => NoFault
  BY DEF IInv, Typed
<1>2. Spec => []IInv
  BY Invariance
<1> QED  BY <1>1, <1>2, PTL
=============================================================================

----------------------------- MODULE Connector ------------------------------
(***************************************************************************)
(* A TcpClient (net/TcpClient.cpp) and its Connector (net/Connector.cpp):  *)
(* connecting, retrying with a growing delay, reconnecting when the        *)
(* connection is lost, and being stopped.                                  *)
(*                                                                         *)
(* The loop takes functors and completion handlers from one queue; timers  *)
(* and connects complete on their own.  The application calls the client   *)
(* from the loop, from inside a connection callback, or from a thread, and *)
(* there stop() interleaves access by access with the loop's               *)
(* removeConnection and with the handler of the retry timer, whose         *)
(* TimerQueue (base/TimerQueue.cpp) is modelled as far as the client uses  *)
(* it.  The life of the TcpConnection itself is ConnectionLifecycle's;     *)
(* here it comes and goes.                                                 *)
(***************************************************************************)
EXTENDS Naturals, Sequences, FiniteSets, FiniteSetsExt

CONSTANTS Settings,   \* the ways in which the client is used
          MaxSockets, \* bound on the sockets that exist together
          MaxTimers,  \* bound on the timers that exist together
          MaxQueue    \* bound on the queue when a call posts a functor

Sites == {"loop", "callback", "thread"}

Calls == {"connect", "disconnect", "stop"}

\* uses: the calls the application makes, and from where.  servers: the states
\* the server goes through.  resets: it may reset a connection at once.
ASSUME ConnectorAssumption ==
    /\ Settings \subseteq [retry_ : BOOLEAN, uses : SUBSET (Sites \X Calls),
                           servers : SUBSET {"up", "down"} \ {{}}, resets : BOOLEAN]
    /\ MaxSockets \in Nat /\ MaxTimers \in Nat /\ MaxQueue \in Nat

kInitRetryDelayMs == 500
kMaxRetryDelayMs == 30 * 1000

Sockets == 1 .. MaxSockets
Timers == 1 .. MaxTimers

VARIABLES
    connect_,        \* Connector::connect_
    state_,          \* Connector::state_
    retryDelayMs_,   \* Connector::retryDelayMs_
    current,         \* the socket of Connector::socketWeakPtr_, or 0
    waiting,         \* sockets whose async_connect is under way
    closed,          \* sockets on which close() has been called
    timers,          \* timers in the loop's TimerQueue
    deadTimer,       \* the timer handleTimer has locked, or 0
    timerToKill,     \* the timer cancel() has locked in another thread, or 0
    reConnectTimer_, \* Connector::reConnectTimer_, or 0
    queue,           \* what the loop runs next: <<functor or handler, socket>>
    at,              \* "idle", in a callback, in handleTimer, or before restart()
    clientConnect_,  \* TcpClient::connect_
    connection_,     \* the socket of TcpClient::connection_, or 0
    server,          \* whether the server accepts
    app,             \* "initial", "started", "down" or "stopped"
    call,            \* where the application's thread is in stop()
    fault,           \* what has ended the process, or "none"
    setting          \* the setting (TcpClient::retry_ in it), which never changes

connector == <<connect_, state_, retryDelayMs_>>
sockets == <<current, waiting, closed>>
handling == <<deadTimer, timerToKill>>
clock == <<timers, handling, reConnectTimer_>>
client == <<clientConnect_, connection_>>
outside == <<server, app, call>>
vars == <<connect_, state_, retryDelayMs_, current, waiting, closed, timers, deadTimer,
          timerToKill, reConnectTimer_, queue, at, clientConnect_, connection_, server, app,
          call, fault, setting>>

Init ==
    /\ connect_ = FALSE /\ state_ = "kDisconnected" /\ retryDelayMs_ = kInitRetryDelayMs
    /\ current = 0 /\ waiting = {} /\ closed = {}
    /\ timers = {} /\ deadTimer = 0 /\ timerToKill = 0 /\ reConnectTimer_ = 0
    /\ queue = <<>> /\ at = "idle"
    /\ clientConnect_ = TRUE /\ connection_ = 0
    /\ setting \in Settings /\ server \in setting.servers /\ app = "initial" /\ call = "none"
    /\ fault = "none"

\* The process lives and takes a step.
Step == fault = "none" /\ UNCHANGED setting

Fail(f) == fault' = f /\ UNCHANGED <<connector, sockets, clock, queue, at, client, outside>>

\* The loop runs the head of its queue.
Takes(task) == Step /\ at = "idle" /\ queue /= <<>> /\ Head(queue)[1] = task

\* Sockets that a pending or queued handler, or the connection, keeps alive.
Alive ==
    (waiting \cup {queue[i][2] : i \in 1 .. Len(queue)} \cup {connection_}) \ {0}

-----------------------------------------------------------------------------
(* Connector, in the loop.                                                 *)

\* startInLoop, entered in state st with connect_ = c and the queue at q.
startInLoop(st, c, q) ==
    \/ /\ st = "kDisconnected" /\ c
       /\ \E s \in Sockets \ Alive :
             /\ current' = s
             /\ waiting' = waiting \cup {s}
             /\ closed' = closed \ {s}
       /\ state_' = "kConnecting"
       /\ queue' = q
       /\ UNCHANGED fault
    \/ /\ st = "kDisconnected" /\ ~c
       /\ state_' = st
       /\ queue' = q
       /\ UNCHANGED <<sockets, fault>>
    \/ /\ st /= "kDisconnected"
       /\ fault' = "startAssert"
       /\ state_' = st
       /\ queue' = q
       /\ UNCHANGED sockets

\* The functor posted by start().
startInLoopTask ==
    /\ Takes("startInLoop")
    /\ startInLoop(state_, connect_, Tail(queue))
    /\ UNCHANGED <<connect_, retryDelayMs_, clock, at, client, outside>>

\* Another thread is inside cancel(), with mutex_, which handleTimer does not
\* take.
Cancelling == call = "cancelling" /\ timerToKill /= 0

\* The retry timer expires: handleTimer locks its weak_ptr...
handleTimerLock ==
    /\ Step /\ at = "idle"
    /\ \E t \in timers : deadTimer' = t
    /\ at' = "timerLocked"
    /\ UNCHANGED <<connector, sockets, timers, timerToKill, reConnectTimer_, queue, client,
                   outside, fault>>

\* ... finds it in the map (which is its assert), and runs startInLoop...
handleTimerFind ==
    /\ Step /\ at = "timerLocked"
    /\ \/ deadTimer \notin timers /\ Fail("findAssert")
       \/ Cancelling /\ Fail("race")
       \/ /\ deadTimer \in timers
          /\ startInLoop(state_, connect_, queue)
          /\ at' = "timerCallback"
          /\ UNCHANGED <<connect_, retryDelayMs_, clock, client, outside>>

\* ... and erases it at the iterator it has found.
handleTimerEnd ==
    /\ Step /\ at = "timerCallback"
    /\ \/ deadTimer \notin timers /\ Fail("invalidIterator")
       \/ Cancelling /\ Fail("race")
       \/ /\ deadTimer \in timers
          /\ timers' = timers \ {deadTimer}
          /\ deadTimer' = 0
          /\ at' = "idle"
          /\ UNCHANGED <<connector, sockets, timerToKill, reConnectTimer_, queue, client, outside,
                         fault>>

\* The handler of a timer that cancel() has erased, and still holds in another
\* thread: it can be locked, and find does not find it.
handleTimerAborted ==
    /\ Step /\ at = "idle" /\ call = "cancelled" /\ timerToKill /= 0
    /\ Fail("findAssert")

\* socketPtr->close() on s: a connect under way is aborted.
close(s, q) ==
    /\ closed' = closed \cup {s}
    /\ waiting' = waiting \ {s}
    /\ queue' = IF s \in waiting THEN Append(q, <<"connectFailed", s>>) ELSE q

\* The delay is doubled without a limit.
armTimerUncapped ==
    /\ \E t \in Timers \ (timers \cup {timerToKill}) :
          timers' = timers \cup {t} /\ reConnectTimer_' = t
    /\ UNCHANGED handling
    /\ retryDelayMs_' = retryDelayMs_ * 2

\* runAfter(retryDelayMs_, startInLoop), and the next delay.
armTimer ==
    /\ \E t \in Timers \ (timers \cup {timerToKill}) :
          timers' = timers \cup {t} /\ reConnectTimer_' = t
    /\ UNCHANGED handling
    /\ retryDelayMs_' = Min({retryDelayMs_ * 2, kMaxRetryDelayMs})

\* retry that does not look at connect_.
retryAnyway(q) ==
    /\ state_' = "kDisconnected"
    /\ IF current \in Alive
       THEN /\ close(current, q)
            /\ armTimer
       ELSE /\ queue' = q
            /\ UNCHANGED <<waiting, closed, retryDelayMs_, clock>>
    /\ UNCHANGED current

\* retry without the setState(kDisconnected) before it.
retryStillConnecting(q) ==
    /\ IF current \in Alive
       THEN /\ close(current, q)
            /\ IF connect_ THEN armTimer ELSE UNCHANGED <<retryDelayMs_, clock>>
       ELSE /\ queue' = q
            /\ UNCHANGED <<waiting, closed, retryDelayMs_, clock>>
    /\ UNCHANGED <<current, state_>>

\* setState(kDisconnected) and retry, with the queue at q.
retry(q) ==
    /\ state_' = "kDisconnected"
    /\ IF current \in Alive
       THEN /\ close(current, q)
            /\ IF connect_ THEN armTimer ELSE UNCHANGED <<retryDelayMs_, clock>>
       ELSE /\ queue' = q
            /\ UNCHANGED <<waiting, closed, retryDelayMs_, clock>>
    /\ UNCHANGED current

\* handleConnect with success: TcpClient::newConnection on the socket, whose
\* remote_endpoint() throws when the socket has been closed meanwhile, or the
\* peer has reset the connection.
handleConnected ==
    /\ Takes("connected")
    /\ LET s == Head(queue)[2] IN
       \/ s \in closed /\ Fail("exception")
       \/ s \notin closed /\ setting.resets /\ Fail("peerReset")
       \/ /\ s \notin closed
          /\ state_' = "kConnected"
          /\ connection_' = s
          /\ at' = "upCallback"
          /\ queue' = Tail(queue)
          /\ UNCHANGED <<connect_, retryDelayMs_, sockets, clock, clientConnect_, outside, fault>>

\* handleConnect with an error.
handleConnectFailed ==
    /\ Takes("connectFailed")
    /\ retry(Tail(queue))
    /\ UNCHANGED <<connect_, at, client, outside, fault>>

stopInLoop ==
    /\ Takes("stopInLoop")
    /\ IF state_ = "kConnecting"
       THEN retry(Tail(queue))
       ELSE queue' = Tail(queue) /\ UNCHANGED <<state_, retryDelayMs_, sockets, clock>>
    /\ UNCHANGED <<connect_, at, client, outside, fault>>

\* async_connect completes: its handler is queued.
connectCompletes ==
    /\ Step
    /\ \E s \in waiting :
          /\ waiting' = waiting \ {s}
          /\ queue' = Append(queue, <<IF server = "up" THEN "connected" ELSE "connectFailed", s>>)
    /\ UNCHANGED <<connector, current, closed, clock, at, client, outside, fault>>

-----------------------------------------------------------------------------
(* TcpClient, in the loop.                                                 *)

\* connectEstablished has called connectionCallback_ with UP.
EndUpCallback ==
    /\ Step /\ at = "upCallback"
    /\ at' = "idle"
    /\ UNCHANGED <<connector, sockets, clock, queue, client, outside, fault>>

\* The connection is lost: handleClose calls connectionCallback_ with DOWN.
connectionLost ==
    /\ Step /\ at = "idle" /\ connection_ /= 0
    /\ at' = "downCallback"
    /\ app' = IF app = "started" /\ ~setting.retry_ THEN "down" ELSE app
    /\ UNCHANGED <<connector, sockets, clock, queue, client, server, call, fault>>

\* removeConnection, up to the decision to reconnect.
removeConnection ==
    /\ Step /\ at = "downCallback"
    /\ connection_' = 0
    /\ at' = IF setting.retry_ /\ clientConnect_ THEN "restart" ELSE "idle"
    /\ UNCHANGED <<connector, sockets, clock, queue, clientConnect_, outside, fault>>

\* restart that waits for the application to start the connector again.
restartDisconnected ==
    /\ Step /\ at = "restart"
    /\ at' = "idle"
    /\ state_' = "kDisconnected"
    /\ retryDelayMs_' = kInitRetryDelayMs
    /\ UNCHANGED <<connect_, sockets, clock, queue, client, outside, fault>>

\* Connector::restart.
restart ==
    /\ Step /\ at = "restart"
    /\ at' = "idle"
    /\ connect_' = TRUE
    /\ retryDelayMs_' = kInitRetryDelayMs
    /\ startInLoop("kDisconnected", TRUE, queue)
    /\ UNCHANGED <<clock, client, outside>>

-----------------------------------------------------------------------------
(* The application.                                                        *)

Site == IF at \in {"upCallback", "downCallback"} THEN "callback" ELSE "loop"

MayCall(site, c) ==
    /\ Step /\ call = "none" /\ Len(queue) < MaxQueue
    /\ <<site, c>> \in setting.uses
    /\ site = "thread" \/ (site = Site /\ at \in {"idle", "upCallback", "downCallback"})

\* TcpClient::connect and Connector::start: inline in the loop, else posted.
\* The application calls it once.
connect ==
    /\ app = "initial"
    /\ \E site \in Sites :
          /\ MayCall(site, "connect")
          /\ IF site = "thread"
             THEN /\ queue' = Append(queue, <<"startInLoop", 0>>)
                  /\ UNCHANGED <<state_, sockets, fault>>
             ELSE startInLoop(state_, TRUE, queue)
    /\ clientConnect_' = TRUE
    /\ connect_' = TRUE
    /\ app' = "started"
    /\ UNCHANGED <<retryDelayMs_, clock, at, connection_, server, call>>

\* TcpClient::disconnect; the shutdown of the connection is in
\* ConnectionLifecycle, its consequence here is connectionLost.
disconnect ==
    /\ \E site \in Sites : MayCall(site, "disconnect")
    /\ clientConnect_' = FALSE
    /\ UNCHANGED <<connector, sockets, clock, queue, at, connection_, outside, fault>>

\* loop_->cancel(reConnectTimer_) in the loop's thread, for a timer that may be
\* gone.
cancelTimer == timers' = timers \ {reConnectTimer_} /\ UNCHANGED <<handling, reConnectTimer_>>

\* TcpClient::stop and Connector::stop in the loop's thread.
stop ==
    /\ \E site \in Sites \ {"thread"} : MayCall(site, "stop")
    /\ app \in {"started", "down"}
    /\ clientConnect_' = FALSE
    /\ connect_' = FALSE
    /\ queue' = Append(queue, <<"stopInLoop", 0>>)
    /\ cancelTimer
    /\ app' = "stopped"
    /\ UNCHANGED <<state_, retryDelayMs_, sockets, at, connection_, server, call, fault>>

\* The same in another thread: TcpClient's connect_ first...
threadStopClient ==
    /\ MayCall("thread", "stop") /\ app \in {"started", "down"}
    /\ clientConnect_' = FALSE
    /\ call' = "stopClient"
    /\ UNCHANGED <<connector, sockets, clock, queue, at, connection_, server, app, fault>>

\* stop that leaves the Connector's connect_ set.
threadStopConnectorSkipped ==
    /\ Step /\ call = "stopClient"
    /\ call' = "stopConnector"
    /\ UNCHANGED <<connector, sockets, clock, queue, at, client, server, app, fault>>

\* ... then the Connector's...
threadStopConnector ==
    /\ Step /\ call = "stopClient"
    /\ connect_' = FALSE
    /\ call' = "stopConnector"
    /\ UNCHANGED <<state_, retryDelayMs_, sockets, clock, queue, at, client, server, app, fault>>

\* ... then the functor...
threadStopPost ==
    /\ Step /\ call = "stopConnector"
    /\ queue' = Append(queue, <<"stopInLoop", 0>>)
    /\ call' = "stopPosted"
    /\ UNCHANGED <<connector, sockets, clock, at, client, server, app, fault>>

\* ... then cancel(reConnectTimer_): the weak_ptr is locked, if the map or
\* handleTimer still holds the timer...
threadCancelLock ==
    /\ Step /\ call = "stopPosted"
    /\ timerToKill' = IF reConnectTimer_ \in timers \cup {deadTimer} THEN reConnectTimer_ ELSE 0
    /\ call' = "cancelling"
    /\ UNCHANGED <<connector, sockets, timers, deadTimer, reConnectTimer_, queue, at, client,
                   server, app, fault>>

\* ... its wait is aborted, if its handler is not running already, and it is
\* erased...
threadCancelErase ==
    /\ Step /\ call = "cancelling"
    /\ timers' = timers \ {timerToKill}
    /\ timerToKill' = IF timerToKill \in timers \ {deadTimer} THEN timerToKill ELSE 0
    /\ call' = "cancelled"
    /\ UNCHANGED <<connector, sockets, deadTimer, reConnectTimer_, queue, at, client, server, app,
                   fault>>

\* ... and let go.
threadCancelEnd ==
    /\ Step /\ call = "cancelled"
    /\ timerToKill' = 0
    /\ call' = "none"
    /\ app' = "stopped"
    /\ UNCHANGED <<connector, sockets, timers, deadTimer, reConnectTimer_, queue, at, client,
                   server, fault>>

\* The server starts or stops accepting.
serverChanges ==
    /\ Step
    /\ server' \in setting.servers \ {server}
    /\ UNCHANGED <<connector, sockets, clock, queue, at, client, app, call, fault>>

loopStep ==
    \/ startInLoopTask \/ stopInLoop \/ handleConnected \/ handleConnectFailed
    \/ handleTimerFind \/ handleTimerEnd
    \/ EndUpCallback \/ removeConnection \/ restart

threadStop ==
    \/ threadStopConnector \/ threadStopPost
    \/ threadCancelLock \/ threadCancelErase \/ threadCancelEnd

Next ==
    \/ loopStep
    \/ handleTimerLock \/ handleTimerAborted
    \/ connectCompletes
    \/ connectionLost
    \/ connect \/ disconnect \/ stop
    \/ threadStopClient \/ threadStop
    \/ serverChanges

\* The loop runs what is queued, timers expire, connects complete one way or
\* the other (the kernel gives up on a silent server), a thread inside stop()
\* goes on, and the application calls connect() once.
Fairness ==
    /\ WF_vars(loopStep)
    /\ SF_vars(handleTimerLock)
    /\ WF_vars(connectCompletes)
    /\ WF_vars(threadStop)
    /\ WF_vars(connect)

Spec == Init /\ [][Next]_vars /\ Fairness

-----------------------------------------------------------------------------

Delays == {500, 1000, 2000, 4000, 8000, 16000, 30000}

\* What may end the process.
TimerFaults == {"findAssert", "race", "invalidIterator"}
Faults == {"startAssert", "exception", "peerReset"} \cup TimerFaults

\* The types of the variables; the delays are those of the doubling, capped.
TypeOK ==
    /\ connect_ \in BOOLEAN /\ clientConnect_ \in BOOLEAN
    /\ state_ \in {"kDisconnected", "kConnecting", "kConnected"}
    /\ retryDelayMs_ \in Delays
    /\ current \in 0 .. MaxSockets /\ connection_ \in 0 .. MaxSockets
    /\ waiting \subseteq Sockets /\ closed \subseteq Sockets
    /\ timers \subseteq Timers /\ reConnectTimer_ \in 0 .. MaxTimers
    /\ deadTimer \in 0 .. MaxTimers /\ timerToKill \in 0 .. MaxTimers
    /\ queue \in Seq({"startInLoop", "stopInLoop", "connected", "connectFailed"}
                     \X (0 .. MaxSockets))
    /\ at \in {"idle", "timerLocked", "timerCallback", "upCallback", "downCallback", "restart"}
    /\ server \in {"up", "down"}
    /\ app \in {"initial", "started", "down", "stopped"}
    /\ call \in {"none", "stopClient", "stopConnector", "stopPosted", "cancelling", "cancelled"}
    /\ fault \in {"none"} \cup Faults

\* Neither the assert in startInLoop fails, nor does newConnection throw on a
\* socket that has been closed, nor does handleTimer miss its timer.  There are
\* two exceptions: a peer that resets the connection before newConnection asks
\* for its endpoint (TcpClient.cpp:115, TcpConnection.cpp:39), and a stop() in
\* another thread, which cancels under handleTimer (TimerQueue.cpp:32).
NoFault ==
    \/ fault = "none"
    \/ fault = "peerReset" /\ setting.resets
    \/ fault \in TimerFaults /\ <<"thread", "stop">> \in setting.uses

Handlers == {i \in 1 .. Len(queue) : queue[i][1] /= "stopInLoop"}

\* The timers whose callback is still to run.
Armed == IF at = "timerCallback" THEN timers \ {deadTimer} ELSE timers

\* The client is never after two connections at once: an attempt under way, an
\* attempt about to begin (queued or on a timer), one just decided, and the
\* connection itself exclude each other, through any failure and reconnection.
OneAttempt ==
    /\ Cardinality(waiting) + Cardinality(Armed) + Cardinality(Handlers)
          + (IF connection_ /= 0 THEN 1 ELSE 0) + (IF at = "restart" THEN 1 ELSE 0) <= 1

\* A client that retries gets its connection once the server stays up, however
\* often it was refused or cut off before, unless a peer that resets ends the
\* process.
Reconnects ==
    <>[](server = "up") =>
        [](app = "started" => <>(connection_ /= 0 \/ ~clientConnect_ \/ fault = "peerReset"))

\* Nothing the Connector has begun is left, and nothing is to begin.
Quiet ==
    /\ waiting = {} /\ timers = {} /\ Handlers = {}
    /\ at \notin {"timerLocked", "timerCallback", "restart"}

\* After stop(), from any thread, the Connector of a process that lives comes to
\* rest, and stays there until start() is called.
StopStops == (app = "stopped") ~> (app /= "stopped" \/ fault /= "none" \/ []Quiet)

\* stop() can be called in any thread (Connector.h:30): newConnection does not
\* meet a socket that stop() has closed, and throw.
StopNeverThrows == fault /= "exception"
=============================================================================

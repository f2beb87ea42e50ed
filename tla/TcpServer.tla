------------------------------ MODULE TcpServer -----------------------------
(***************************************************************************)
(* A TcpServer (net/TcpServer.cpp) with its Acceptor, its                  *)
(* EventLoopThreadPool and the EventLoopThreads in it: starting, accepting *)
(* connections and giving them to the loops in turn, forgetting the ones   *)
(* that close, and being destroyed, which quits and joins the threads.     *)
(*                                                                         *)
(* Loop 0 is the server's own loop, whose thread starts and destroys the   *)
(* server; loops 1, 2, ... are the pool's.  A functor or handler is one    *)
(* step of the thread of its loop.  Of a connection only what concerns the *)
(* server is here; its own life is ConnectionLifecycle's.                  *)
(***************************************************************************)
EXTENDS Naturals, SequencesExt

CONSTANTS Settings,   \* the servers and what happens to them
          MaxThreads, \* bound on numThreads_
          MaxConns    \* bound on the clients that connect

Events == {"acceptFails", "resetEarly", "resets", "shutsDown", "endsIdle", "endsBusy"}

\* threads: setThreadNum.  events: peers reset before their connection is made
\* or later, the application shuts connections down, and the server is destroyed
\* when it has no connections ("endsIdle") or at any time ("endsBusy").
ASSUME ServerAssumption ==
    /\ Settings \subseteq [threads : 0 .. MaxThreads, events : SUBSET Events]
    /\ MaxThreads \in Nat /\ MaxConns \in Nat

Conns == 1 .. MaxConns
Pool == 1 .. MaxThreads

VARIABLES
    main,        \* the base thread: "new", "startLoop", "waiting" (on cv_), "loop",
                 \* "quitting" or "joining" (in ~EventLoopThread), or "ended"
    thread,      \* each EventLoopThread: "none", "created", "ready" (loop_ is set),
                 \* "running" or "ended"
    stopped,     \* loops on which quit() has been called
    loops_,      \* how many loops EventLoopThreadPool::loops_ holds
    joined,      \* how many threads the destructor has joined
    tasks,       \* the queue of each loop: <<functor or handler, its argument>>
    next_,       \* EventLoopThreadPool::next_
    newSockBindedLoop_,
    accepting,   \* the loops of the sockets of outstanding async_accepts
    connections_, nextConnId_,
    loopOf,      \* TcpConnection::loop_
    sockOf,      \* the loop of the connection's socket
    state_,      \* TcpConnection::state_
    reading,     \* connections with an outstanding read or a queued readHandler
    down,        \* connections whose application has been told DOWN
    backlog,     \* clients waiting to be accepted
    arrived,     \* clients so far
    closed,      \* connections whose peer has closed or reset
    reset,       \* those whose peer has reset
    deaf,        \* an accept has failed
    fault,       \* what has ended the process, or "none"
    setting      \* the setting, which never changes

threads == <<thread, stopped, loops_, joined>>
acceptor == <<next_, newSockBindedLoop_, accepting>>
conns == <<loopOf, sockOf, state_, reading, down>>
server == <<connections_, nextConnId_, conns>>
clients == <<backlog, arrived, closed, reset>>
vars == <<main, threads, tasks, acceptor, server, clients, deaf, fault, setting>>

Init ==
    /\ main = "new" /\ thread = [i \in Pool |-> "none"] /\ stopped = {} /\ joined = 0
    /\ tasks = [l \in 0 .. MaxThreads |-> <<>>]
    /\ loops_ = 0 /\ next_ = 0 /\ newSockBindedLoop_ = 0 /\ accepting = <<>>
    /\ connections_ = {} /\ nextConnId_ = 1 /\ reading = {} /\ down = {}
    /\ loopOf = [c \in Conns |-> 0] /\ sockOf = [c \in Conns |-> 0]
    /\ state_ = [c \in Conns |-> "kConnecting"]
    /\ backlog = 0 /\ arrived = 0 /\ closed = {} /\ reset = {} /\ deaf = FALSE
    /\ fault = "none" /\ setting \in Settings

Step == fault = "none" /\ UNCHANGED setting

Fail(f) == fault' = f /\ UNCHANGED <<main, threads, tasks, acceptor, server, clients, deaf>>

Post(queues, l, task) == [queues EXCEPT ![l] = Append(@, task)]

\* The thread of loop l is in run() and takes a task.
Running(l) == l \notin stopped /\ (IF l = 0 THEN main = "loop" ELSE thread[l] = "running")

Takes(l, task) == Step /\ Running(l) /\ tasks[l] /= <<>> /\ Head(tasks[l])[1] = task

arg(l) == Head(tasks[l])[2]

\* The queues when loop l has taken its head.
taken(l) == [tasks EXCEPT ![l] = Tail(@)]

\* Functors that hold a TcpConnectionPtr; readHandler holds the raw `this`.
OwningTasks == {"connectEstablished", "removeConnectionInLoop", "connectDestroyed"}

\* Somebody holds a shared_ptr to c.
Referenced(c) ==
    \/ c \in connections_
    \/ \E l \in 0 .. MaxThreads : \E i \in 1 .. Len(tasks[l]) :
           tasks[l][i][1] \in OwningTasks /\ tasks[l][i][2] = c

Made == 1 .. nextConnId_ - 1

Gone(c) == c \in Made /\ ~Referenced(c)

-----------------------------------------------------------------------------
(* Accepting.                                                              *)

\* getNextLoop that wraps around one loop too late.
getNextLoopLate(n) ==
    /\ newSockBindedLoop_' = IF n = 0 THEN 0 ELSE next_ + 1
    /\ next_' = IF next_ + 1 > n THEN 0 ELSE next_ + 1

\* getNextLoop that wraps around one loop too early.
getNextLoopEarly(n) ==
    /\ newSockBindedLoop_' = IF n = 0 THEN 0 ELSE next_ + 1
    /\ next_' = IF next_ + 2 >= n THEN 0 ELSE next_ + 1

\* getNextLoop of a pool of n loops: the loops in turn, or the server's own.
getNextLoop(n) ==
    /\ newSockBindedLoop_' = IF n = 0 THEN 0 ELSE next_ + 1
    /\ next_' = IF next_ + 1 >= n THEN 0 ELSE next_ + 1

\* Acceptor::listenInLoop, with a socket of the loop that is next.
listenInLoop(n) ==
    /\ getNextLoop(n)
    /\ accepting' = Append(accepting, newSockBindedLoop_')

ClientConnects ==
    /\ Step /\ arrived < MaxConns
    /\ arrived' = arrived + 1
    /\ backlog' = backlog + 1
    /\ UNCHANGED <<main, threads, tasks, acceptor, server, closed, reset, deaf, fault>>

\* async_accept completes.
Accepted ==
    /\ Step /\ accepting /= <<>> /\ backlog > 0
    /\ backlog' = backlog - 1
    /\ accepting' = Tail(accepting)
    /\ tasks' = Post(tasks, 0, <<"acceptHandler", Head(accepting)>>)
    /\ UNCHANGED <<main, threads, next_, newSockBindedLoop_, server, arrived, closed, reset, deaf,
                   fault>>

\* async_accept fails (no descriptor is left, say).
AcceptFails ==
    /\ Step /\ accepting /= <<>> /\ "acceptFails" \in setting.events
    /\ accepting' = Tail(accepting)
    /\ tasks' = Post(tasks, 0, <<"acceptError", 0>>)
    /\ UNCHANGED <<main, threads, next_, newSockBindedLoop_, server, clients, deaf, fault>>

\* TcpServer::newConnection with a socket of loop sock, for loop l: on the
\* server's own loop connectEstablished runs inline.
newConnection(sock, l) ==
    LET c == nextConnId_ IN
    /\ c \in Conns
    /\ nextConnId_' = c + 1
    /\ connections_' = connections_ \cup {c}
    /\ loopOf' = [loopOf EXCEPT ![c] = l]
    /\ sockOf' = [sockOf EXCEPT ![c] = sock]
    /\ \/ /\ l = 0
          /\ state_' = [state_ EXCEPT ![c] = "kConnected"]
          /\ reading' = reading \cup {c}
          /\ tasks' = taken(0)
       \/ /\ l /= 0
          /\ tasks' = Post(taken(0), l, <<"connectEstablished", c>>)
          /\ UNCHANGED <<state_, reading>>
    /\ UNCHANGED <<main, threads, down, clients, deaf, fault>>

\* acceptHandler that listens before it hands the connection over.
acceptHandlerListenFirst ==
    /\ Takes(0, "acceptHandler")
    /\ listenInLoop(loops_)
    /\ newConnection(arg(0), newSockBindedLoop_')

\* acceptHandler that does not listen again.
acceptHandlerOnce ==
    /\ Takes(0, "acceptHandler")
    /\ newConnection(arg(0), newSockBindedLoop_)
    /\ UNCHANGED acceptor

\* Acceptor::acceptHandler.
acceptHandler ==
    /\ Takes(0, "acceptHandler")
    /\ newConnection(arg(0), newSockBindedLoop_)
    /\ listenInLoop(loops_)

\* acceptHandler when the peer has reset the connection meanwhile: the
\* constructor of TcpConnection asks for the remote endpoint, and throws.
acceptHandlerThrows ==
    /\ Takes(0, "acceptHandler") /\ "resetEarly" \in setting.events
    /\ Fail("exception")

\* acceptHandler with an error: it only logs.
acceptHandlerError ==
    /\ Takes(0, "acceptError")
    /\ tasks' = taken(0)
    /\ deaf' = TRUE
    /\ UNCHANGED <<main, threads, acceptor, server, clients, fault>>

-----------------------------------------------------------------------------
(* Starting: EventLoopThreadPool::start and EventLoopThread.               *)

\* With n loops in the pool the next thread is created, or the server listens.
proceed(n) ==
    \/ /\ n < setting.threads
       /\ thread' = [thread EXCEPT ![n + 1] = "created"]
       /\ main' = "startLoop"
       /\ UNCHANGED acceptor
    \/ /\ n = setting.threads
       /\ listenInLoop(n)
       /\ main' = "loop"
       /\ UNCHANGED thread

start ==
    /\ Step /\ main = "new"
    /\ proceed(0)
    /\ UNCHANGED <<stopped, loops_, joined, tasks, server, clients, deaf, fault>>

\* startLoop, under mutex_: it waits on cv_ if there is no loop yet.
startLoopWait ==
    /\ Step /\ main = "startLoop" /\ thread[loops_ + 1] = "created"
    /\ main' = "waiting"
    /\ UNCHANGED <<threads, tasks, acceptor, server, clients, deaf, fault>>

startLoop ==
    /\ Step /\ main = "startLoop" /\ thread[loops_ + 1] /= "created"
    /\ loops_' = loops_ + 1
    /\ proceed(loops_ + 1)
    /\ UNCHANGED <<stopped, joined, tasks, server, clients, deaf, fault>>

\* threadFunc that forgets to notify.
threadFuncSilent(i) ==
    /\ Step /\ thread[i] = "created"
    /\ thread' = [thread EXCEPT ![i] = "ready"]
    /\ UNCHANGED <<main, stopped, loops_, joined, tasks, acceptor, server, clients, deaf, fault>>

\* threadFunc, under mutex_: it makes the loop and wakes who waits for it.
threadFunc(i) ==
    /\ Step /\ thread[i] = "created"
    /\ thread' = [thread EXCEPT ![i] = "ready"]
    /\ main' = IF main = "waiting" THEN "startLoop" ELSE main
    /\ UNCHANGED <<stopped, loops_, joined, tasks, acceptor, server, clients, deaf, fault>>

\* EventLoop::loop, and run() returning once the loop has been told to quit
\* (at once if that was before).
threadRuns(i) ==
    /\ Step
    /\ \/ thread[i] = "ready" /\ thread' = [thread EXCEPT ![i] = "running"]
       \/ thread[i] = "running" /\ i \in stopped /\ thread' = [thread EXCEPT ![i] = "ended"]
    /\ UNCHANGED <<main, stopped, loops_, joined, tasks, acceptor, server, clients, deaf, fault>>

-----------------------------------------------------------------------------
(* The connections, on the loops they were given to.                       *)

connectEstablished(l) ==
    /\ Takes(l, "connectEstablished")
    /\ state_' = [state_ EXCEPT ![arg(l)] = "kConnected"]
    /\ reading' = reading \cup {arg(l)}
    /\ tasks' = taken(l)
    /\ UNCHANGED <<main, threads, acceptor, connections_, nextConnId_, loopOf, sockOf, down,
                   clients, deaf, fault>>

\* The peer closes, and the read in the loop of the socket completes.
PeerCloses(c) ==
    /\ Step /\ c \in reading \ closed /\ ~Gone(c)
    /\ closed' = closed \cup {c}
    /\ tasks' = Post(tasks, sockOf[c], <<"readHandler", c>>)
    /\ UNCHANGED <<main, threads, acceptor, server, backlog, arrived, reset, deaf, fault>>

\* The peer resets, and the read completes with an error.
PeerResets(c) ==
    /\ Step /\ "resets" \in setting.events /\ c \in reading \ closed /\ ~Gone(c)
    /\ closed' = closed \cup {c}
    /\ reset' = reset \cup {c}
    /\ tasks' = Post(tasks, sockOf[c], <<"readHandler", c>>)
    /\ UNCHANGED <<main, threads, acceptor, server, backlog, arrived, deaf, fault>>

\* TcpConnection::shutdown, called in a callback in the connection's loop, where
\* shutdownInLoop runs inline: it throws if the peer has reset.
shutdown(c) ==
    /\ Step /\ "shutsDown" \in setting.events /\ state_[c] = "kConnected" /\ Running(loopOf[c])
    /\ state_' = [state_ EXCEPT ![c] = "kDisconnecting"]
    /\ fault' = IF c \in reset THEN "exception" ELSE fault
    /\ UNCHANGED <<main, threads, tasks, acceptor, connections_, nextConnId_, loopOf, sockOf,
                   reading, down, clients, deaf>>

\* What readHandler meets in loop l: a dead object, or an assert of handleClose.
readHandlerFault(l, c) ==
    IF Gone(c) THEN "useAfterFree"
    ELSE IF l /= loopOf[c] THEN "assertInLoopThread"
    ELSE IF state_[c] \notin {"kConnected", "kDisconnecting"} THEN "handleCloseAssert"
    ELSE "none"

\* removeConnection that only erases the connections of the server's own loop.
removeConnectionInlineOnly(l, c) ==
    IF l = 0 THEN tasks' = taken(0) /\ connections_' = connections_ \ {c}
             ELSE tasks' = taken(l) /\ UNCHANGED connections_

\* TcpServer::removeConnection in loop l: the erasure is inline on the server's
\* own loop (and connectDestroyed has nothing left to do), else posted to it.
removeConnection(l, c) ==
    IF l = 0 THEN tasks' = taken(0) /\ connections_' = connections_ \ {c}
             ELSE /\ tasks' = Post(taken(l), 0, <<"removeConnectionInLoop", c>>)
                  /\ UNCHANGED connections_

\* handleClose without the connection callback.
handleCloseSilent(l, c) ==
    /\ state_' = [state_ EXCEPT ![c] = "kDisconnected"]
    /\ removeConnection(l, c)
    /\ UNCHANGED down

\* handleClose in loop l.
handleClose(l, c) ==
    /\ state_' = [state_ EXCEPT ![c] = "kDisconnected"]
    /\ down' = down \cup {c}
    /\ removeConnection(l, c)

\* readHandler at the end of the stream, or with an error, and then it reads
\* reading_ (FALSE by then) of a connection that handleClose may have released.
readHandler(l) ==
    /\ Takes(l, "readHandler")
    /\ IF readHandlerFault(l, arg(l)) /= "none" THEN Fail(readHandlerFault(l, arg(l)))
       ELSE /\ handleClose(l, arg(l))
            /\ reading' = reading \ {arg(l)}
            /\ UNCHANGED <<main, threads, acceptor, nextConnId_, loopOf, sockOf, clients, deaf>>
            /\ fault' = IF \E c \in reset \cap {arg(l)} : Gone(c)' THEN "useAfterFree" ELSE fault

\* A connection is gone that was still reading: its read is aborted, and
\* readHandler runs on memory that has been freed.
ReadAborted(c) ==
    /\ Step /\ Gone(c) /\ c \in reading /\ Running(sockOf[c])
    /\ Fail("useAfterFree")

removeConnectionInLoop ==
    /\ Takes(0, "removeConnectionInLoop")
    /\ LET c == arg(0) IN
       IF c \notin connections_ THEN Fail("removeAssert")
       ELSE /\ connections_' = connections_ \ {c}
            /\ tasks' = Post(taken(0), loopOf[c], <<"connectDestroyed", c>>)
            /\ UNCHANGED <<main, threads, acceptor, nextConnId_, conns, clients, deaf, fault>>

\* ~TcpConnection asserts that a connection nobody holds any longer is
\* kDisconnected.
dtor ==
    fault' = IF \E c \in Conns : Gone(c)' /\ ~Gone(c) /\ state_'[c] /= "kDisconnected"
             THEN "dtorAssert" ELSE fault

\* connectDestroyed of the connections cs: the ones still kConnected go DOWN, but
\* not the ones that are kDisconnecting.
destroyed(cs) ==
    LET up == {c \in cs : state_[c] = "kConnected"} IN
    /\ state_' = [c \in Conns |-> IF c \in up THEN "kDisconnected" ELSE state_[c]]
    /\ down' = down \cup up

connectDestroyed(l) ==
    /\ Takes(l, "connectDestroyed")
    /\ tasks' = taken(l)
    /\ destroyed({arg(l)})
    /\ UNCHANGED <<main, threads, acceptor, connections_, nextConnId_, loopOf, sockOf, reading,
                   clients, deaf>>
    /\ dtor

-----------------------------------------------------------------------------
(* The end of the server, on its own loop.                                 *)

\* ~TcpServer: connectDestroyed runs inline or is posted, in the order of the
\* map, the own loop is told to quit, and the members are destroyed.
ServerEnds ==
    /\ Step /\ main = "loop" /\ setting.events \cap {"endsIdle", "endsBusy"} /= {}
    /\ "endsBusy" \in setting.events \/ \A c \in Made : Gone(c)
    /\ destroyed({c \in connections_ : loopOf[c] = 0})
    /\ tasks' = [l \in 0 .. MaxThreads |->
                    IF l = 0 THEN tasks[0]
                    ELSE tasks[l] \o SetToSeq({<<"connectDestroyed", c>> :
                                                  c \in {d \in connections_ : loopOf[d] = l}})]
    /\ connections_' = {}
    /\ stopped' = stopped \cup {0}
    /\ accepting' = <<>>
    /\ main' = "quitting"
    /\ UNCHANGED <<thread, loops_, joined, next_, newSockBindedLoop_, nextConnId_, loopOf, sockOf,
                   reading, clients, deaf>>
    /\ dtor

\* ~EventLoopThread of the next thread: quit(), then join().
quitThread ==
    /\ Step /\ main = "quitting" /\ joined < loops_
    /\ stopped' = stopped \cup {joined + 1}
    /\ main' = "joining"
    /\ UNCHANGED <<thread, loops_, joined, tasks, acceptor, server, clients, deaf, fault>>

joinThread ==
    /\ Step /\ main = "joining" /\ thread[joined + 1] = "ended"
    /\ joined' = joined + 1
    /\ main' = "quitting"
    /\ UNCHANGED <<thread, stopped, loops_, tasks, acceptor, server, clients, deaf, fault>>

\* The pool is gone, and the loop the server ran in returns.
Ended ==
    /\ Step /\ main = "quitting" /\ joined = loops_
    /\ main' = "ended"
    /\ UNCHANGED <<threads, tasks, acceptor, server, clients, deaf, fault>>

-----------------------------------------------------------------------------

runTask(l) == connectEstablished(l) \/ readHandler(l) \/ connectDestroyed(l)

baseTask == acceptHandler \/ acceptHandlerThrows \/ acceptHandlerError \/ removeConnectionInLoop

starting == start \/ startLoopWait \/ startLoop

ending == quitThread \/ joinThread \/ Ended

Next ==
    \/ starting \/ baseTask \/ ServerEnds \/ ending
    \/ \E i \in Pool : threadFunc(i) \/ threadRuns(i)
    \/ \E l \in 0 .. MaxThreads : runTask(l)
    \/ \E c \in Conns : PeerCloses(c) \/ PeerResets(c) \/ shutdown(c) \/ ReadAborted(c)
    \/ ClientConnects \/ Accepted \/ AcceptFails

\* Threads run, the loops run what is queued, and a waiting client is accepted
\* if an accept is outstanding.  Clients need not come, close or reset, accepts
\* need not fail, and neither shutdown nor the end of the server need come.
Fairness ==
    /\ WF_vars(starting) /\ WF_vars(ending) /\ WF_vars(baseTask) /\ WF_vars(Accepted)
    /\ \A i \in Pool : WF_vars(threadFunc(i) \/ threadRuns(i))
    /\ \A l \in 0 .. MaxThreads : WF_vars(runTask(l))

Spec == Init /\ [][Next]_vars /\ Fairness

-----------------------------------------------------------------------------

\* The types of the variables; next_ is an index into the pool's loops.
TypeOK ==
    /\ main \in {"new", "startLoop", "waiting", "loop", "quitting", "joining", "ended"}
    /\ thread \in [Pool -> {"none", "created", "ready", "running", "ended"}]
    /\ stopped \subseteq 0 .. MaxThreads
    /\ loops_ \in 0 .. MaxThreads /\ joined \in 0 .. loops_
    /\ next_ \in 0 .. MaxThreads /\ (next_ = 0 \/ next_ < loops_)
    /\ newSockBindedLoop_ \in 0 .. loops_
    /\ connections_ \subseteq Conns /\ nextConnId_ \in 1 .. MaxConns + 1
    /\ loopOf \in [Conns -> 0 .. MaxThreads] /\ sockOf \in [Conns -> 0 .. MaxThreads]
    /\ state_ \in [Conns -> {"kConnecting", "kConnected", "kDisconnecting", "kDisconnected"}]
    /\ reading \subseteq Conns /\ down \subseteq Conns
    /\ closed \subseteq Conns /\ reset \subseteq closed
    /\ backlog \in 0 .. MaxConns /\ arrived \in 0 .. MaxConns
    /\ deaf \in BOOLEAN

\* No assert fails, no exception leaves the loop and nothing touches a dead
\* connection, through accepts, closes, shutdowns and resets, unless a peer
\* resets before its connection is made (TcpConnection.cpp:39), resets one of the
\* server's own loop (:103) or one that is shut down (:234), or the server is
\* destroyed while it has connections and a pool, or one that is shut down (:59).
NoFault ==
    \/ fault = "none"
    \/ "resetEarly" \in setting.events
    \/ "resets" \in setting.events /\ (setting.threads = 0 \/ "shutsDown" \in setting.events)
    \/ "endsBusy" \in setting.events /\ (setting.threads > 0 \/ "shutsDown" \in setting.events)

\* The places of the queued acceptHandlers.
handlers(q) == {i \in 1 .. Len(q) : q[i][1] = "acceptHandler"}

\* At most one accept is under way, and l is the loop of its socket.
OneAccept(q, under, l) ==
    /\ under \in {<<>>, <<l>>}
    /\ handlers(q) /= {} => under = <<>>
    /\ \A i, j \in handlers(q) : i = j
    /\ \A i \in handlers(q) : q[i][2] = l

\* A connection runs in the loop its socket belongs to, though Acceptor passes
\* the one by a member and the other with the handler: newSockBindedLoop_ is the
\* loop of the socket that is being accepted.
LoopsAgree ==
    /\ \A c \in Made : loopOf[c] = sockOf[c]
    /\ OneAccept(tasks[0], accepting, newSockBindedLoop_)

\* "New connections are assigned on a round-robin basis" (TcpServer.h:58): each
\* to the loop after its predecessor's, whatever closes in between.
RoundRobin ==
    \A c \in Made : loopOf[c] = IF loops_ = 0 THEN 0
                               ELSE IF c = 1 \/ loopOf[c - 1] = loops_ THEN 1
                               ELSE loopOf[c - 1] + 1

Ending == main \in {"quitting", "joining", "ended"}

\* The server is destroyed after the connection was shut down and before its peer
\* closed: connectDestroyed passes over it (TcpConnection.cpp:192).
EndedShutDown(c) == Ending /\ state_[c] = "kDisconnecting"

\* The destructor's assert (TcpConnection.cpp:59): a connection that is gone is
\* kDisconnected, and its application was told, be it closed by its peer or by
\* the end of the server, unless it EndedShutDown.
ToldDown ==
    \A c \in Made :
        Gone(c) => (state_[c] = "kDisconnected" /\ c \in down) \/ EndedShutDown(c)

\* Every client that waits is accepted, unless an accept has failed: the error
\* path of acceptHandler does not listen again.
KeepsAccepting == backlog > 0 ~> (backlog = 0 \/ deaf \/ Ending \/ fault /= "none")

\* A connection whose peer closes leaves the server's map, and its memory is
\* released.
Forgets == \A c \in Conns : c \in closed ~> (Gone(c) \/ Ending \/ fault /= "none")

\* start() and the destructor come back: no wakeup is lost, and every thread that
\* is joined ends, even one that had not reached run() when it was told to quit.
NeverHangs ==
    /\ main \in {"startLoop", "waiting"} ~> main = "loop"
    /\ Ending ~> (main = "ended" \/ fault /= "none")
=============================================================================

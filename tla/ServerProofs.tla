---------------------------- MODULE ServerProofs ----------------------------
(***************************************************************************)
(* Proofs about TcpServer, for every number of threads and of connections: *)
(* connections are given to the loops of the pool in turn, each runs in    *)
(* the loop that its socket belongs to, the types hold, no connection is   *)
(* released before its application has been told DOWN but one that is shut *)
(* down when the server ends, and nothing fails outside the situations     *)
(* that NoFault names.                                                     *)
(***************************************************************************)
EXTENDS TcpServer, FiniteSetTheorems, TLAPS

\* The loop that follows l in a pool of n.
after(l, n) == IF n = 0 THEN 0 ELSE IF l = n THEN 1 ELSE l + 1

\* The pool's index is behind the loop of the socket that is being accepted, and
\* that loop is the one behind the last connection's (RoundRobin's next instance).
Turn ==
    /\ loops_ \in Nat /\ next_ \in Nat /\ newSockBindedLoop_ \in Nat
    /\ nextConnId_ \in Nat \ {0} /\ nextConnId_ <= MaxConns + 1
    /\ DOMAIN loopOf = Conns
    /\ setting \in Settings
    /\ main \in {"new", "startLoop", "waiting"} => nextConnId_ = 1 /\ next_ = 0
    /\ main = "new" => loops_ = 0
    /\ main = "loop" =>
          /\ newSockBindedLoop_ <= loops_
          /\ loops_ > 0 => newSockBindedLoop_ > 0
          /\ next_ = IF newSockBindedLoop_ = loops_ THEN 0 ELSE newSockBindedLoop_
          /\ newSockBindedLoop_ = IF nextConnId_ = 1 THEN after(loops_, loops_)
                                  ELSE after(loopOf[nextConnId_ - 1], loops_)
    /\ RoundRobin

\* A step that does not listen, accept or go back to the loop.
LEMMA TurnStutters ==
    ASSUME Turn, UNCHANGED <<loops_, acceptor, nextConnId_, loopOf, setting>>,
           main' = main \/ main' \in {"quitting", "joining", "ended"}
    PROVE  Turn'
BY DEF Turn, RoundRobin, Made, after, acceptor

\* getNextLoop with its index behind l, or with both at their start.
LEMMA NextLoop ==
    ASSUME NEW n \in Nat, NEW l \in Nat, l <= n, n > 0 => l > 0,
           next_ = (IF l = n THEN 0 ELSE l), getNextLoop(n)
    PROVE  /\ newSockBindedLoop_' = after(l, n)
           /\ newSockBindedLoop_' \in Nat /\ newSockBindedLoop_' <= n
           /\ n > 0 => newSockBindedLoop_' > 0
           /\ next_' = IF newSockBindedLoop_' = n THEN 0 ELSE newSockBindedLoop_'
BY DEF getNextLoop, after

\* EventLoopThreadPool::start comes to its end with the first loop next.
LEMMA StartTurns ==
    ASSUME Turn, NEW n \in Nat, loops_' = n, proceed(n), main \in {"new", "startLoop"},
           UNCHANGED <<nextConnId_, loopOf, setting>>
    PROVE  Turn'
<1>1. nextConnId_ = 1 /\ next_ = 0
  BY DEF Turn
<1>2. RoundRobin'
  BY <1>1 DEF RoundRobin, Made
<1>3. CASE main' = "startLoop" /\ UNCHANGED acceptor
  BY <1>1, <1>2, <1>3 DEF Turn, acceptor
<1>4. CASE main' = "loop" /\ listenInLoop(n)
  <2>1. getNextLoop(n)
    BY <1>4 DEF listenInLoop
  <2>2. /\ newSockBindedLoop_' = after(n, n)
        /\ newSockBindedLoop_' \in Nat /\ newSockBindedLoop_' <= n
        /\ n > 0 => newSockBindedLoop_' > 0
        /\ next_' = IF newSockBindedLoop_' = n THEN 0 ELSE newSockBindedLoop_'
    BY <1>1, <2>1, NextLoop
  <2> QED  BY <1>1, <1>2, <1>4, <2>2 DEF Turn
<1> QED  BY <1>3, <1>4 DEF proceed

\* acceptHandler gives the connection to the loop that newSockBindedLoop_ names,
\* the one after the last connection's, and then moves on to the next.
LEMMA AcceptTurns ==
    ASSUME Turn, acceptHandler
    PROVE  Turn'
<1> DEFINE c == nextConnId_
           l == newSockBindedLoop_
<1>1. main = "loop" /\ UNCHANGED <<main, loops_, setting>>
  BY DEF acceptHandler, Takes, Running, Step, newConnection, threads
<1>2. /\ c \in Conns /\ c \in Nat \ {0} /\ c <= MaxConns /\ nextConnId_' = c + 1
      /\ loopOf' = [loopOf EXCEPT ![c] = l]
  BY DEF acceptHandler, newConnection, Turn, Conns
<1>3. DOMAIN loopOf' = Conns /\ loopOf'[c] = l
      /\ \A d \in 1 .. c - 1 : loopOf'[d] = loopOf[d]
  BY <1>2 DEF Turn
<1>4. /\ newSockBindedLoop_' = after(l, loops_)
      /\ newSockBindedLoop_' \in Nat /\ newSockBindedLoop_' <= loops_
      /\ loops_ > 0 => newSockBindedLoop_' > 0
      /\ next_' = IF newSockBindedLoop_' = loops_ THEN 0 ELSE newSockBindedLoop_'
  BY <1>1, NextLoop DEF acceptHandler, listenInLoop, Turn
<1>5. RoundRobin'
  <2> SUFFICES ASSUME NEW d \in 1 .. c
               PROVE  loopOf'[d] = IF loops_ = 0 THEN 0
                                   ELSE IF d = 1 \/ loopOf'[d - 1] = loops_ THEN 1
                                   ELSE loopOf'[d - 1] + 1
    BY <1>1, <1>2 DEF RoundRobin, Made
  <2>1. CASE d < c
    BY <2>1, <1>2, <1>3 DEF Turn, RoundRobin, Made
  <2>2. CASE d = c
    BY <2>2, <1>1, <1>2, <1>3 DEF Turn, after
  <2> QED  BY <1>2, <2>1, <2>2
<1>6. MaxConns \in Nat
  BY ServerAssumption
<1> QED
  BY <1>1, <1>2, <1>3, <1>4, <1>5, <1>6 DEF Turn

\* start() and startLoop in the base thread, threadFunc in a new one.
LEMMA StartingTurns ==
    ASSUME Turn, starting \/ (\E i \in Pool : threadFunc(i) \/ threadRuns(i))
    PROVE  Turn'
<1> USE DEF Step
<1>1. CASE start
  BY <1>1, StartTurns DEF start, server, conns, Turn
<1>2. CASE startLoopWait
  BY <1>2 DEF startLoopWait, threads, acceptor, server, conns, Turn, RoundRobin, Made, after
<1>3. CASE startLoop
  <2>1. loops_ + 1 \in Nat
    BY DEF Turn
  <2> QED  BY <1>3, <2>1, StartTurns DEF startLoop, server, conns
<1>4. ASSUME NEW i \in Pool, threadFunc(i) PROVE Turn'
  BY <1>4 DEF threadFunc, acceptor, server, conns, Turn, RoundRobin, Made, after
<1>5. ASSUME NEW i \in Pool, threadRuns(i) PROVE Turn'
  BY <1>5, TurnStutters DEF threadRuns, server, conns
<1> QED  BY <1>1, <1>2, <1>3, <1>4, <1>5 DEF starting

\* A failed step changes nothing.
LEMMA FailTurns ==
    ASSUME Turn, NEW f, Fail(f), UNCHANGED setting
    PROVE  Turn'
BY TurnStutters DEF Fail, threads, server, conns

\* The connections, the clients and the end of the server.
LEMMA RestTurns ==
    ASSUME Turn,
           \/ acceptHandlerThrows \/ acceptHandlerError \/ removeConnectionInLoop
           \/ ServerEnds \/ ending
           \/ \E l \in 0 .. MaxThreads : runTask(l)
           \/ \E c \in Conns : PeerCloses(c) \/ PeerResets(c) \/ shutdown(c) \/ ReadAborted(c)
           \/ ClientConnects \/ Accepted \/ AcceptFails
    PROVE  Turn'
<1> USE DEF Step, Takes
<1>1. CASE acceptHandlerThrows
  BY <1>1, FailTurns DEF acceptHandlerThrows
<1>2. CASE acceptHandlerError \/ ClientConnects
  BY <1>2, TurnStutters DEF acceptHandlerError, ClientConnects, threads, server, conns
<1>3. CASE removeConnectionInLoop
  BY <1>3, FailTurns, TurnStutters DEF removeConnectionInLoop, threads, conns
<1>4. CASE ServerEnds \/ Accepted \/ AcceptFails
  BY <1>4 DEF ServerEnds, Accepted, AcceptFails, threads, server, conns, Turn, RoundRobin, Made, after
<1>5. CASE ending
  <2>1. UNCHANGED <<loops_, acceptor, nextConnId_, loopOf, setting>>
        /\ main' \in {"quitting", "joining", "ended"}
    BY <1>5 DEF ending, quitThread, joinThread, Ended, threads, server, conns
  <2> QED  BY <2>1, TurnStutters
<1>6. ASSUME NEW l \in 0 .. MaxThreads, runTask(l) PROVE Turn'
  <2>1. CASE connectEstablished(l) \/ connectDestroyed(l)
    BY <2>1, TurnStutters DEF connectEstablished, connectDestroyed, threads
  <2>2. CASE readHandler(l)
    BY <2>2, FailTurns, TurnStutters DEF readHandler, threads
  <2> QED  BY <1>6, <2>1, <2>2 DEF runTask
<1>7. ASSUME NEW c \in Conns, PeerCloses(c) \/ PeerResets(c) \/ shutdown(c) \/ ReadAborted(c) PROVE Turn'
  BY <1>7, FailTurns, TurnStutters DEF PeerCloses, PeerResets, shutdown, ReadAborted, threads, server, conns
<1> QED  BY <1>1, <1>2, <1>3, <1>4, <1>5, <1>6, <1>7

\* The turn is kept for ever.
LEMMA TurnHolds == Spec => []Turn
<1>1. Init => Turn
  BY ServerAssumption DEF Init, Turn, RoundRobin, Made
<1>2. Turn /\ [Next]_vars => Turn'
  <2> SUFFICES ASSUME Turn, [Next]_vars PROVE Turn'
    OBVIOUS
  <2>1. CASE UNCHANGED vars
    BY <2>1, TurnStutters DEF vars, threads, server, conns
  <2>2. CASE Next
    BY <2>2, AcceptTurns, StartingTurns, RestTurns DEF Next, baseTask
  <2> QED  BY <2>1, <2>2
<1> QED
  BY <1>1, <1>2, PTL DEF Spec

\* Connections are given to the loops of the pool in turn, for any number of
\* threads, through failed accepts, closes and the end of the server.
THEOREM InTurn == Spec => []RoundRobin
<1>1. Turn => RoundRobin
  BY DEF Turn
<1> QED  BY <1>1, TurnHolds, PTL

-----------------------------------------------------------------------------
(* One accept at a time.                                                   *)

IsQueue(q) == \E S : q \in Seq(S)

\* A queue of the server's loop that agrees with the accept under way.
Agrees(q, under, l) == IsQueue(q) /\ OneAccept(q, under, l)

\* Posting anything else changes nothing for the accepts.
LEMMA AppendAgrees ==
    ASSUME NEW q, NEW under, NEW l, NEW t, Agrees(q, under, l), t[1] /= "acceptHandler"
    PROVE  Agrees(Append(q, t), under, l) /\ handlers(Append(q, t)) = handlers(q)
<1>1. PICK S : q \in Seq(S)
  BY DEF Agrees, IsQueue
<1>2. Append(q, t) \in Seq(S \cup {t})
  BY <1>1
<1>3. Len(Append(q, t)) = Len(q) + 1 /\ Len(q) \in Nat
      /\ \A i \in 1 .. Len(q) : Append(q, t)[i] = q[i]
      /\ Append(q, t)[Len(q) + 1] = t
  BY <1>1
<1>4. handlers(Append(q, t)) = handlers(q)
  BY <1>3 DEF handlers
<1>5. \A i \in handlers(q) : Append(q, t)[i] = q[i]
  BY <1>3 DEF handlers
<1> QED  BY <1>2, <1>4, <1>5 DEF Agrees, IsQueue, OneAccept

\* The queue without its head.
LEMMA TailShifts ==
    ASSUME NEW q, IsQueue(q), q /= <<>>
    PROVE  /\ IsQueue(Tail(q))
           /\ Head(q) = q[1] /\ 1 \in 1 .. Len(q)
           /\ \A i \in handlers(Tail(q)) :
                 i \in Nat \ {0} /\ i + 1 \in handlers(q) /\ Tail(q)[i] = q[i + 1]
<1>1. PICK S : q \in Seq(S)
  BY DEF IsQueue
<1>2. Tail(q) \in Seq(S) /\ Len(Tail(q)) = Len(q) - 1 /\ Len(q) \in Nat \ {0} /\ Head(q) = q[1]
      /\ \A i \in 1 .. Len(q) - 1 : Tail(q)[i] = q[i + 1]
  BY <1>1
<1> QED  BY <1>2 DEF IsQueue, handlers

\* Running anything takes no accept away but its own.
LEMMA TailAgrees ==
    ASSUME NEW q, NEW under, NEW l, Agrees(q, under, l), q /= <<>>
    PROVE  Agrees(Tail(q), under, l)
<1>1. \A i, j \in handlers(Tail(q)) : i = j
  BY TailShifts DEF Agrees, OneAccept
<1>2. ASSUME NEW i \in handlers(Tail(q)) PROVE Tail(q)[i][2] = l
  <2>1. i + 1 \in handlers(q) /\ Tail(q)[i] = q[i + 1]
    BY TailShifts DEF Agrees
  <2>2. q[i + 1][2] = l
    BY <2>1 DEF Agrees, OneAccept
  <2> QED  BY <2>1, <2>2
<1>3. handlers(Tail(q)) /= {} => under = <<>>
  BY TailShifts DEF Agrees, OneAccept
<1> QED  BY <1>1, <1>2, <1>3, TailShifts DEF Agrees, OneAccept

\* When acceptHandler runs, no other accept is under way: it may listen again.
LEMMA HandlerAgrees ==
    ASSUME NEW q, NEW under, NEW l, Agrees(q, under, l), q /= <<>>, Head(q)[1] = "acceptHandler"
    PROVE  /\ under = <<>> /\ Head(q)[2] = l
           /\ IsQueue(Tail(q)) /\ handlers(Tail(q)) = {}
<1>1. 1 \in handlers(q) /\ Head(q) = q[1]
  BY TailShifts DEF Agrees, handlers
<1>2. \A i \in handlers(q) : i = 1
  BY <1>1 DEF Agrees, OneAccept
<1>3. handlers(Tail(q)) = {}
  BY <1>2, TailShifts DEF Agrees
<1> QED  BY <1>1, <1>3, TailShifts DEF Agrees, OneAccept

\* The accept completes: its handler takes its place.
LEMMA AcceptedAgrees ==
    ASSUME NEW q, NEW l, Agrees(q, <<l>>, l)
    PROVE  Agrees(Append(q, <<"acceptHandler", l>>), <<>>, l)
<1> DEFINE t == <<"acceptHandler", l>>
<1>1. PICK S : q \in Seq(S)
  BY DEF Agrees, IsQueue
<1>2. Append(q, t) \in Seq(S \cup {t})
  BY <1>1
<1>3. Len(Append(q, t)) = Len(q) + 1 /\ Len(q) \in Nat
      /\ \A i \in 1 .. Len(q) : Append(q, t)[i] = q[i]
      /\ Append(q, t)[Len(q) + 1] = t
  BY <1>1
<1>4. handlers(q) = {}
  BY DEF Agrees, OneAccept
<1>5. handlers(Append(q, t)) \subseteq {Len(q) + 1}
  BY <1>3, <1>4 DEF handlers
<1> QED  BY <1>2, <1>3, <1>5 DEF Agrees, IsQueue, OneAccept

\* A turn of the server's loop that is not about accepts: nothing, a post, a
\* task taken, or both.
Quiet(q, r) ==
    \/ r = q
    \/ \E t : t[1] /= "acceptHandler" /\ r = Append(q, t)
    \/ q /= <<>> /\ r = Tail(q)
    \/ q /= <<>> /\ \E t : t[1] /= "acceptHandler" /\ r = Append(Tail(q), t)

LEMMA QuietKeeps ==
    ASSUME NEW q, NEW r, NEW under, NEW l, Agrees(q, under, l), Quiet(q, r)
    PROVE  Agrees(r, under, l) /\ (handlers(q) = {} => handlers(r) = {})
<1>1. CASE r = q
  BY <1>1
<1>2. ASSUME NEW t, t[1] /= "acceptHandler", r = Append(q, t)
      PROVE  Agrees(r, under, l) /\ (handlers(q) = {} => handlers(r) = {})
  BY <1>2, AppendAgrees
<1>3. ASSUME q /= <<>>
      PROVE  Agrees(Tail(q), under, l) /\ (handlers(q) = {} => handlers(Tail(q)) = {})
  BY <1>3, TailAgrees, TailShifts DEF Agrees
<1>4. ASSUME q /= <<>>, NEW t, t[1] /= "acceptHandler", r = Append(Tail(q), t)
      PROVE  Agrees(r, under, l) /\ (handlers(q) = {} => handlers(r) = {})
  BY <1>3, <1>4, AppendAgrees
<1> QED  BY <1>1, <1>2, <1>3, <1>4 DEF Quiet

Starting == main \in {"new", "startLoop", "waiting"}

\* The accept under way is for a socket of newSockBindedLoop_, there is none
\* before the server has started, and the connections made so far agree.
Agree ==
    /\ 0 \in DOMAIN tasks
    /\ Agrees(tasks[0], accepting, newSockBindedLoop_)
    /\ Starting => accepting = <<>> /\ handlers(tasks[0]) = {}
    /\ nextConnId_ \in Nat \ {0} /\ DOMAIN loopOf = Conns /\ DOMAIN sockOf = Conns
    /\ \A c \in Made : loopOf[c] = sockOf[c]

\* A step that neither accepts nor listens.
LEMMA AgreeStutters ==
    ASSUME Agree, UNCHANGED <<acceptor, nextConnId_, loopOf, sockOf>>,
           0 \in DOMAIN tasks', Quiet(tasks[0], tasks'[0]), Starting' => Starting
    PROVE  Agree'
<1>1. /\ Agrees(tasks'[0], accepting, newSockBindedLoop_)
      /\ handlers(tasks[0]) = {} => handlers(tasks'[0]) = {}
  BY QuietKeeps DEF Agree
<1> QED  BY <1>1 DEF Agree, Made, acceptor

\* What the queue of the server's loop is after a post to l, after loop l has
\* taken a task, and after both.
LEMMA QueueSteps ==
    ASSUME Agree
    PROVE  /\ \A l, t : t[1] /= "acceptHandler" =>
                 0 \in DOMAIN Post(tasks, l, t) /\ Quiet(tasks[0], Post(tasks, l, t)[0])
           /\ \A l : tasks[l] /= <<>> =>
                 0 \in DOMAIN taken(l) /\ Quiet(tasks[0], taken(l)[0])
           /\ \A k, l, t : tasks[k] /= <<>> /\ t[1] /= "acceptHandler" =>
                 0 \in DOMAIN Post(taken(k), l, t) /\ Quiet(tasks[0], Post(taken(k), l, t)[0])
<1>1. ASSUME NEW l, NEW t, t[1] /= "acceptHandler"
      PROVE  0 \in DOMAIN Post(tasks, l, t) /\ Quiet(tasks[0], Post(tasks, l, t)[0])
  BY <1>1 DEF Agree, Post, Quiet
<1>2. ASSUME NEW l, tasks[l] /= <<>>
      PROVE  0 \in DOMAIN taken(l) /\ Quiet(tasks[0], taken(l)[0])
  BY <1>2 DEF Agree, taken, Quiet
<1>3. ASSUME NEW k, NEW l, NEW t, tasks[k] /= <<>>, t[1] /= "acceptHandler"
      PROVE  0 \in DOMAIN Post(taken(k), l, t) /\ Quiet(tasks[0], Post(taken(k), l, t)[0])
  <2>1. 0 \in DOMAIN taken(k) /\ taken(k)[0] = IF k = 0 THEN Tail(tasks[0]) ELSE tasks[0]
    BY DEF Agree, taken
  <2>2. 0 \in DOMAIN Post(taken(k), l, t)
        /\ Post(taken(k), l, t)[0] = IF l = 0 THEN Append(taken(k)[0], t) ELSE taken(k)[0]
    BY <2>1 DEF Post
  <2> QED  BY <1>3, <2>1, <2>2 DEF Quiet
<1> QED  BY <1>1, <1>2, <1>3

\* The first accept of a server, or the next when none is under way.
LEMMA ListenAgrees ==
    ASSUME NEW q, NEW n, IsQueue(q), handlers(q) = {}, accepting = <<>>, listenInLoop(n)
    PROVE  Agrees(q, accepting', newSockBindedLoop_')
<1>1. Append(<<>>, newSockBindedLoop_') = <<newSockBindedLoop_'>>
  OBVIOUS
<1> QED  BY <1>1 DEF listenInLoop, Agrees, OneAccept

LEMMA AcceptAgrees ==
    ASSUME Agree, acceptHandler
    PROVE  Agree'
<1> DEFINE c == nextConnId_
           l == newSockBindedLoop_
           q == tasks[0]
<1>1. q /= <<>> /\ Head(q)[1] = "acceptHandler" /\ newConnection(Head(q)[2], l)
      /\ listenInLoop(loops_) /\ main = "loop" /\ main' = main
  BY DEF acceptHandler, Takes, Running, arg, newConnection
<1>2. accepting = <<>> /\ Head(q)[2] = l /\ IsQueue(Tail(q)) /\ handlers(Tail(q)) = {}
  BY <1>1, HandlerAgrees DEF Agree
<1>3. 0 \in DOMAIN tasks' /\ tasks'[0] = Tail(q)
  BY <1>1 DEF newConnection, taken, Post, Agree
<1>4. Agrees(tasks'[0], accepting', newSockBindedLoop_')
  BY <1>1, <1>2, <1>3, ListenAgrees
<1>5. /\ c \in Conns /\ c \in Nat \ {0} /\ nextConnId_' = c + 1
      /\ loopOf' = [loopOf EXCEPT ![c] = l] /\ sockOf' = [sockOf EXCEPT ![c] = l]
  BY <1>1, <1>2 DEF newConnection, Agree
<1>6. ASSUME NEW d \in Made' PROVE loopOf'[d] = sockOf'[d]
  <2>1. d \in 1 .. c
    BY <1>5, <1>6 DEF Made
  <2>2. CASE d = c
    BY <2>2, <1>5 DEF Agree
  <2>3. CASE d /= c
    <3>1. d \in Made
      BY <2>1, <2>3, <1>5 DEF Made
    <3>2. loopOf[d] = sockOf[d]
      BY <3>1 DEF Agree
    <3>3. loopOf'[d] = loopOf[d] /\ sockOf'[d] = sockOf[d]
      BY <2>1, <2>3, <1>5 DEF Agree
    <3> QED  BY <3>2, <3>3
  <2> QED  BY <2>2, <2>3
<1>7. DOMAIN loopOf' = Conns /\ DOMAIN sockOf' = Conns /\ nextConnId_' \in Nat \ {0}
  BY <1>5 DEF Agree
<1> QED  BY <1>1, <1>3, <1>4, <1>6, <1>7 DEF Agree, Starting

\* start() and startLoop in the base thread, threadFunc in a new one.
LEMMA StartingAgrees ==
    ASSUME Agree, starting \/ (\E i \in Pool : threadFunc(i) \/ threadRuns(i))
    PROVE  Agree'
<1>1. /\ UNCHANGED <<tasks, nextConnId_, loopOf, sockOf>>
      /\ \/ UNCHANGED acceptor /\ (Starting' => Starting)
         \/ Starting /\ main' = "loop" /\ \E n : listenInLoop(n)
  <2>1. CASE start
    BY <2>1 DEF start, proceed, server, conns, Starting
  <2>2. CASE startLoopWait
    BY <2>2 DEF startLoopWait, server, conns, Starting
  <2>3. CASE startLoop
    BY <2>3 DEF startLoop, proceed, server, conns, Starting
  <2>4. ASSUME NEW i \in Pool, threadFunc(i) \/ threadRuns(i)
        PROVE  UNCHANGED <<tasks, nextConnId_, loopOf, sockOf, acceptor>> /\ (Starting' => Starting)
    BY <2>4 DEF threadFunc, threadRuns, server, conns, Starting
  <2> QED  BY <2>1, <2>2, <2>3, <2>4 DEF starting
<1>2. CASE UNCHANGED acceptor /\ (Starting' => Starting)
  BY <1>1, <1>2, AgreeStutters DEF Quiet, Agree
<1>3. ASSUME Starting, main' = "loop", NEW n, listenInLoop(n) PROVE Agree'
  <2>1. Agrees(tasks[0], accepting', newSockBindedLoop_')
    BY <1>3, ListenAgrees DEF Agree, Agrees
  <2> QED  BY <1>1, <1>3, <2>1 DEF Agree, Made, Starting
<1> QED  BY <1>1, <1>2, <1>3

\* async_accept completes, or fails.
LEMMA CompletionAgrees ==
    ASSUME Agree, Accepted \/ AcceptFails
    PROVE  Agree'
<1> DEFINE l == newSockBindedLoop_
           q == tasks[0]
<1>1. /\ accepting /= <<>> /\ accepting' = Tail(accepting)
      /\ UNCHANGED <<main, next_, newSockBindedLoop_, nextConnId_, loopOf, sockOf>>
      /\ \/ tasks' = Post(tasks, 0, <<"acceptHandler", Head(accepting)>>)
         \/ tasks' = Post(tasks, 0, <<"acceptError", 0>>)
  BY DEF Accepted, AcceptFails, server, conns
<1>2. accepting = <<l>> /\ ~Starting
  BY <1>1 DEF Agree, Agrees, OneAccept
<1>3. Head(accepting) = l /\ accepting' = <<>>
  BY <1>1, <1>2
<1>4. Agrees(q, <<l>>, l) /\ Agrees(q, <<>>, l)
  BY <1>2 DEF Agree, Agrees, OneAccept
<1>5. 0 \in DOMAIN tasks' /\ Agrees(tasks'[0], accepting', l)
  <2>1. CASE tasks' = Post(tasks, 0, <<"acceptHandler", Head(accepting)>>)
    <3>1. 0 \in DOMAIN tasks' /\ tasks'[0] = Append(q, <<"acceptHandler", l>>)
      BY <2>1, <1>3 DEF Post, Agree
    <3> QED  BY <3>1, <1>3, <1>4, AcceptedAgrees
  <2>2. CASE tasks' = Post(tasks, 0, <<"acceptError", 0>>)
    <3>1. 0 \in DOMAIN tasks' /\ tasks'[0] = Append(q, <<"acceptError", 0>>)
      BY <2>2 DEF Post, Agree
    <3>2. <<"acceptError", 0>>[1] /= "acceptHandler"
      OBVIOUS
    <3> QED  BY <3>1, <3>2, <1>3, <1>4, AppendAgrees
  <2> QED  BY <1>1, <2>1, <2>2
<1> QED  BY <1>1, <1>2, <1>5 DEF Agree, Made, Starting

\* A failed step changes nothing.
LEMMA FailAgrees ==
    ASSUME Agree, NEW f, Fail(f)
    PROVE  Agree'
BY AgreeStutters DEF Fail, server, conns, Quiet, Agree, Starting

\* The other tasks of the loops.
LEMMA TasksAgree ==
    ASSUME Agree,
           \/ acceptHandlerThrows \/ acceptHandlerError \/ removeConnectionInLoop
           \/ \E l \in 0 .. MaxThreads : runTask(l)
    PROVE  Agree'
<1>1. CASE acceptHandlerThrows
  BY <1>1, FailAgrees DEF acceptHandlerThrows
<1>2. CASE acceptHandlerError
  BY <1>2, QueueSteps, AgreeStutters DEF acceptHandlerError, Takes, server, conns, Starting
<1>3. CASE removeConnectionInLoop
  <2>1. CASE \E f : Fail(f)
    BY <2>1, FailAgrees
  <2>2. CASE /\ UNCHANGED <<main, acceptor, nextConnId_, loopOf, sockOf>>
             /\ tasks[0] /= <<>>
             /\ \E k : tasks' = Post(taken(0), k, <<"connectDestroyed", arg(0)>>)
    <3>1. <<"connectDestroyed", arg(0)>>[1] /= "acceptHandler"
      OBVIOUS
    <3> QED  BY <2>2, <3>1, QueueSteps, AgreeStutters DEF Starting
  <2> QED  BY <1>3, <2>1, <2>2 DEF removeConnectionInLoop, Takes, conns
<1>4. ASSUME NEW l \in 0 .. MaxThreads, runTask(l) PROVE Agree'
  <2>1. CASE connectEstablished(l) \/ connectDestroyed(l)
    BY <2>1, QueueSteps, AgreeStutters DEF connectEstablished, connectDestroyed, Takes, Starting
  <2>2. CASE readHandler(l)
    <3>1. CASE \E f : Fail(f)
      BY <3>1, FailAgrees
    <3>2. CASE /\ UNCHANGED <<main, acceptor, nextConnId_, loopOf, sockOf>>
               /\ tasks[l] /= <<>>
               /\ \/ tasks' = taken(l)
                  \/ tasks' = Post(taken(l), 0, <<"removeConnectionInLoop", arg(l)>>)
      <4>1. <<"removeConnectionInLoop", arg(l)>>[1] /= "acceptHandler"
        OBVIOUS
      <4> QED  BY <3>2, <4>1, QueueSteps, AgreeStutters DEF Starting
    <3> QED  BY <2>2, <3>1, <3>2 DEF readHandler, handleClose, removeConnection, Takes
  <2> QED  BY <1>4, <2>1, <2>2 DEF runTask
<1> QED  BY <1>1, <1>2, <1>3, <1>4

\* The clients, and the end of the server.
LEMMA RestAgrees ==
    ASSUME Agree,
           \/ ServerEnds \/ ending \/ ClientConnects
           \/ \E c \in Conns : PeerCloses(c) \/ PeerResets(c) \/ shutdown(c) \/ ReadAborted(c)
    PROVE  Agree'
<1>1. CASE ServerEnds
  <2>1. /\ 0 \in DOMAIN tasks' /\ tasks'[0] = tasks[0] /\ accepting' = <<>> /\ ~Starting'
        /\ UNCHANGED <<newSockBindedLoop_, nextConnId_, loopOf, sockOf>>
    BY <1>1, ServerAssumption DEF ServerEnds, Starting
  <2>2. Agrees(tasks'[0], accepting', newSockBindedLoop_')
    BY <2>1 DEF Agree, Agrees, OneAccept
  <2> QED  BY <2>1, <2>2 DEF Agree, Made
<1>2. CASE ending \/ ClientConnects \/ \E c \in Conns : shutdown(c)
  <2>1. UNCHANGED <<tasks, acceptor, nextConnId_, loopOf, sockOf>> /\ (Starting' => Starting)
    BY <1>2 DEF ending, quitThread, joinThread, Ended, ClientConnects, shutdown, server, conns, Starting
  <2> QED  BY <2>1, AgreeStutters DEF Quiet, Agree
<1>3. ASSUME NEW c \in Conns, PeerCloses(c) \/ PeerResets(c) PROVE Agree'
  <2>1. <<"readHandler", c>>[1] /= "acceptHandler"
    OBVIOUS
  <2> QED  BY <1>3, <2>1, QueueSteps, AgreeStutters DEF PeerCloses, PeerResets, server, conns, Starting
<1>4. ASSUME NEW c \in Conns, ReadAborted(c) PROVE Agree'
  BY <1>4, FailAgrees DEF ReadAborted
<1> QED  BY <1>1, <1>2, <1>3, <1>4

\* A connection runs in the loop of its socket, for any number of threads and of
\* connections: at most one accept is ever under way, and newSockBindedLoop_
\* names its loop until the connection has been made.
THEOREM LoopsAlwaysAgree == Spec => []LoopsAgree
<1>1. Init => Agree
  <2> SUFFICES ASSUME Init PROVE Agree
    OBVIOUS
  <2>1. 0 \in DOMAIN tasks /\ tasks[0] = <<>>
    BY ServerAssumption DEF Init
  <2>2. <<>> \in Seq({}) /\ Len(<<>>) = 0
    OBVIOUS
  <2>3. IsQueue(tasks[0]) /\ handlers(tasks[0]) = {}
    BY <2>1, <2>2 DEF IsQueue, handlers
  <2> QED  BY <2>1, <2>3 DEF Init, Agree, Agrees, OneAccept, Made
<1>2. Agree /\ [Next]_vars => Agree'
  <2> SUFFICES ASSUME Agree, [Next]_vars PROVE Agree'
    OBVIOUS
  <2>1. CASE UNCHANGED vars
    BY <2>1, AgreeStutters DEF vars, server, conns, Quiet, Agree, Starting
  <2>2. CASE Next
    BY <2>2, AcceptAgrees, StartingAgrees, CompletionAgrees, TasksAgree, RestAgrees DEF Next, baseTask
  <2> QED  BY <2>1, <2>2
<1>3. Agree => LoopsAgree
  BY DEF Agree, Agrees, LoopsAgree
<1> QED
  BY <1>1, <1>2, <1>3, PTL DEF Spec

-----------------------------------------------------------------------------
(* Types.                                                                  *)

Loops == 0 .. MaxThreads

\* The tasks that are about a connection, and all tasks.
ConnTasks == {"connectEstablished", "removeConnectionInLoop", "connectDestroyed", "readHandler"}

Task == ({"acceptHandler", "acceptError"} \X Loops) \cup (ConnTasks \X Conns)

\* The threads and the pool.  The pool has no thread beyond setThreadNum's, the
\* destructor joins only threads that there are, and index and loop that
\* getNextLoop leaves are loops of the pool.
Control ==
    /\ main \in {"new", "startLoop", "waiting", "loop", "quitting", "joining", "ended"}
    /\ thread \in [Pool -> {"none", "created", "ready", "running", "ended"}]
    /\ stopped \subseteq Loops
    /\ loops_ \in Nat /\ loops_ <= setting.threads
    /\ joined \in Nat /\ joined <= loops_
    /\ next_ \in Nat /\ (next_ = 0 \/ next_ < loops_)
    /\ newSockBindedLoop_ \in Nat /\ newSockBindedLoop_ <= loops_
    /\ setting \in Settings
    /\ main = "new" => loops_ = 0
    /\ main \in {"startLoop", "waiting"} => loops_ < setting.threads
    /\ main = "joining" => joined < loops_
    /\ main \in {"startLoop", "waiting", "new"} \/ loops_ = setting.threads
    /\ main \in {"quitting", "joining", "ended"} <=> 0 \in stopped
    /\ \A i \in Pool : i > setting.threads => thread[i] = "none"

\* The connections, the clients and the queues.
Stored ==
    /\ connections_ \subseteq Conns /\ nextConnId_ \in 1 .. MaxConns + 1
    /\ loopOf \in [Conns -> Loops] /\ sockOf \in [Conns -> Loops]
    /\ state_ \in [Conns -> {"kConnecting", "kConnected", "kDisconnecting", "kDisconnected"}]
    /\ reading \subseteq Conns /\ down \subseteq Conns
    /\ closed \subseteq Conns /\ reset \subseteq closed
    /\ backlog \in Nat /\ arrived \in 0 .. MaxConns /\ backlog <= arrived
    /\ deaf \in BOOLEAN
    /\ tasks \in [Loops -> Seq(Task)]
    /\ accepting \in Seq(Loops)

\* What is known of the setting.
LEMMA SettingFacts ==
    ASSUME setting \in Settings
    PROVE  setting.threads \in Nat /\ setting.threads <= MaxThreads /\ MaxThreads \in Nat /\ 0 \in Loops
BY ServerAssumption DEF Loops

LEMMA ControlStutters ==
    ASSUME Control, UNCHANGED <<main, threads, next_, newSockBindedLoop_, setting>>
    PROVE  Control'
BY DEF Control, threads

\* getNextLoop.
LEMMA NextLoopTypes ==
    ASSUME NEW n \in Nat, next_ \in Nat, next_ = 0 \/ next_ < n, getNextLoop(n)
    PROVE  /\ next_' \in Nat /\ (next_' = 0 \/ next_' < n)
           /\ newSockBindedLoop_' \in Nat /\ newSockBindedLoop_' <= n
BY DEF getNextLoop

\* start() and startLoop, with n loops in the pool.
LEMMA ProceedControl ==
    ASSUME Control, NEW n \in Nat, loops_ <= n, n <= setting.threads, loops_' = n, proceed(n),
           main \in {"new", "startLoop"}, UNCHANGED <<stopped, joined, setting>>
    PROVE  Control'
<1>0. setting.threads \in Nat /\ setting.threads <= MaxThreads /\ MaxThreads \in Nat
  BY SettingFacts DEF Control
<1>1. CASE n < setting.threads
  <2>1. thread' = [thread EXCEPT ![n + 1] = "created"] /\ main' = "startLoop" /\ UNCHANGED acceptor
    BY <1>0, <1>1 DEF proceed
  <2>2. n + 1 \in Pool /\ n + 1 <= setting.threads
    BY <1>0, <1>1 DEF Pool
  <2>3. thread' \in [Pool -> {"none", "created", "ready", "running", "ended"}]
        /\ \A i \in Pool : i > setting.threads => thread'[i] = "none"
    BY <1>0, <2>1, <2>2 DEF Control
  <2> QED  BY <1>0, <1>1, <2>1, <2>3 DEF Control, acceptor
<1>2. CASE n = setting.threads
  <2>1. listenInLoop(n) /\ main' = "loop" /\ thread' = thread
    BY <1>0, <1>2 DEF proceed
  <2>2. next_' \in Nat /\ (next_' = 0 \/ next_' < n)
        /\ newSockBindedLoop_' \in Nat /\ newSockBindedLoop_' <= n
    BY <2>1, NextLoopTypes DEF Control, listenInLoop
  <2> QED  BY <1>0, <1>2, <2>1, <2>2 DEF Control
<1> QED  BY <1>0, <1>1, <1>2

LEMMA ControlStep ==
    ASSUME Control, Next
    PROVE  Control'
<1> USE DEF Step, Takes
<1>0. setting.threads \in Nat /\ setting.threads <= MaxThreads /\ MaxThreads \in Nat /\ 0 \in Loops
  BY SettingFacts DEF Control
<1>1. CASE start
  BY <1>1, <1>0, ProceedControl DEF start, Control
<1>2. CASE startLoopWait
  <2>1. main = "startLoop" /\ main' = "waiting" /\ UNCHANGED <<threads, acceptor, setting>>
    BY <1>2 DEF startLoopWait
  <2> QED  BY <2>1 DEF Control, threads, acceptor
<1>3. CASE startLoop
  <2>1. loops_ + 1 \in Nat /\ loops_ <= loops_ + 1 /\ loops_ + 1 <= setting.threads
    BY <1>0, <1>3 DEF startLoop, Control
  <2> QED  BY <1>3, <2>1, ProceedControl DEF startLoop
<1>4. CASE acceptHandler
  <2>1. listenInLoop(loops_) /\ UNCHANGED <<main, threads, setting>>
    BY <1>4 DEF acceptHandler, newConnection
  <2>2. next_' \in Nat /\ (next_' = 0 \/ next_' < loops_)
        /\ newSockBindedLoop_' \in Nat /\ newSockBindedLoop_' <= loops_
    BY <2>1, NextLoopTypes DEF Control, listenInLoop
  <2> QED  BY <2>1, <2>2 DEF Control, threads
<1>5. CASE ServerEnds
  <2>1. /\ main = "loop" /\ main' = "quitting" /\ stopped' = stopped \cup {0}
        /\ UNCHANGED <<thread, loops_, joined, next_, newSockBindedLoop_, setting>>
    BY <1>5 DEF ServerEnds
  <2> QED  BY <1>0, <2>1 DEF Control
<1>6. CASE quitThread
  <2>1. /\ main = "quitting" /\ main' = "joining" /\ stopped' = stopped \cup {joined + 1} /\ joined < loops_
        /\ UNCHANGED <<thread, loops_, joined, next_, newSockBindedLoop_, setting>>
    BY <1>6 DEF quitThread, acceptor
  <2>2. joined + 1 \in Loops
    BY <1>0, <2>1 DEF Control, Loops
  <2> QED  BY <2>1, <2>2 DEF Control
<1>7. CASE joinThread
  <2>1. /\ main = "joining" /\ main' = "quitting" /\ joined' = joined + 1
        /\ UNCHANGED <<thread, stopped, loops_, next_, newSockBindedLoop_, setting>>
    BY <1>7 DEF joinThread, acceptor
  <2> QED  BY <2>1 DEF Control
<1>8. CASE Ended
  <2>1. main = "quitting" /\ main' = "ended" /\ UNCHANGED <<threads, acceptor, setting>>
    BY <1>8 DEF Ended
  <2> QED  BY <2>1 DEF Control, threads, acceptor
<1>9. ASSUME NEW i \in Pool, threadFunc(i) \/ threadRuns(i) PROVE Control'
  <2>1. /\ thread[i] /= "none" /\ \E s \in {"ready", "running", "ended"} : thread' = [thread EXCEPT ![i] = s]
        /\ main' = main \/ (main = "waiting" /\ main' = "startLoop")
        /\ UNCHANGED <<stopped, loops_, joined, next_, newSockBindedLoop_, setting>>
    BY <1>9 DEF threadFunc, threadRuns, acceptor
  <2>2. thread' \in [Pool -> {"none", "created", "ready", "running", "ended"}]
        /\ \A j \in Pool : thread[j] = "none" => thread'[j] = "none"
    BY <2>1 DEF Control
  <2> QED  BY <2>1, <2>2 DEF Control
<1>10. ASSUME NEW f, Fail(f), UNCHANGED setting PROVE Control'
  BY <1>10, ControlStutters DEF Fail, acceptor
<1>11. CASE acceptHandlerThrows \/ acceptHandlerError \/ removeConnectionInLoop
  BY <1>10, <1>11, ControlStutters DEF acceptHandlerThrows, acceptHandlerError, removeConnectionInLoop, acceptor
<1>12. ASSUME NEW l \in 0 .. MaxThreads, runTask(l) PROVE Control'
  BY <1>10, <1>12, ControlStutters DEF runTask, connectEstablished, readHandler, connectDestroyed, acceptor
<1>13. ASSUME NEW c \in Conns, PeerCloses(c) \/ PeerResets(c) \/ shutdown(c) \/ ReadAborted(c) PROVE Control'
  BY <1>10, <1>13, ControlStutters DEF PeerCloses, PeerResets, shutdown, ReadAborted, acceptor
<1>14. CASE ClientConnects \/ Accepted \/ AcceptFails
  BY <1>14, ControlStutters DEF ClientConnects, Accepted, AcceptFails, acceptor
<1> QED
  BY <1>1, <1>2, <1>3, <1>4, <1>5, <1>6, <1>7, <1>8, <1>9, <1>11, <1>12, <1>13, <1>14
     DEF Next, starting, baseTask, ending

\* A task posted to loop l.
LEMMA PostTypes ==
    ASSUME NEW Q \in [Loops -> Seq(Task)], NEW l \in Loops, NEW t \in Task
    PROVE  /\ Post(Q, l, t) \in [Loops -> Seq(Task)]
           /\ \A k \in Loops : Post(Q, l, t)[k] = IF k = l THEN Append(Q[l], t) ELSE Q[k]
<1>1. Append(Q[l], t) \in Seq(Task)
  OBVIOUS
<1> QED  BY <1>1 DEF Post

\* A task taken by loop l.
LEMMA TakenTypes ==
    ASSUME tasks \in [Loops -> Seq(Task)], NEW l \in Loops, tasks[l] /= <<>>
    PROVE  /\ taken(l) \in [Loops -> Seq(Task)]
           /\ \A k \in Loops : taken(l)[k] = IF k = l THEN Tail(tasks[l]) ELSE tasks[k]
           /\ Head(tasks[l]) \in Task
           /\ Head(tasks[l])[1] \in ConnTasks => arg(l) \in Conns
           /\ Head(tasks[l])[1] = "acceptHandler" => arg(l) \in Loops
           /\ Head(tasks[l]) = <<Head(tasks[l])[1], arg(l)>>
<1>1. tasks[l] \in Seq(Task)
  OBVIOUS
<1>2. Tail(tasks[l]) \in Seq(Task) /\ Head(tasks[l]) \in Task
  BY <1>1
<1>3. /\ Head(tasks[l])[1] \in ConnTasks => Head(tasks[l])[2] \in Conns
      /\ Head(tasks[l])[1] = "acceptHandler" => Head(tasks[l])[2] \in Loops
      /\ Head(tasks[l]) = <<Head(tasks[l])[1], Head(tasks[l])[2]>>
  BY <1>2 DEF Task, ConnTasks
<1> QED  BY <1>2, <1>3 DEF taken, arg

\* The connections of the server's destructor that a loop is to destroy.
Posted(l) == {<<"connectDestroyed", c>> : c \in {d \in connections_ : loopOf[d] = l}}

\* What the destructor posts to a loop: connectDestroyed of its connections,
\* each of them once.
LEMMA PostedTypes ==
    ASSUME NEW l, connections_ \subseteq Conns
    PROVE  /\ SetToSeq(Posted(l)) \in Seq(Task)
           /\ \A i \in 1 .. Len(SetToSeq(Posted(l))) : SetToSeq(Posted(l))[i] \in Posted(l)
           /\ \A t \in Posted(l) : \E i \in 1 .. Len(SetToSeq(Posted(l))) : SetToSeq(Posted(l))[i] = t
<1> DEFINE P == Posted(l)
           D == {d \in connections_ : loopOf[d] = l}
           g == [c \in D |-> <<"connectDestroyed", c>>]
           s == SetToSeq(P)
<1>1. IsFiniteSet(D)
  <2>1. IsFiniteSet(Conns)
    <3>1. 1 \in Int /\ MaxConns \in Int
      BY ServerAssumption
    <3> QED  BY <3>1, FS_Interval DEF Conns
  <2>2. D \in SUBSET Conns
    OBVIOUS
  <2> QED  BY <2>1, <2>2, FS_Subset
<1>2. IsFiniteSet(P)
  <2>1. g \in Surjection(D, P)
    BY DEF Surjection, Posted
  <2> QED  BY <1>1, <2>1, FS_Surjection
<1>3. Cardinality(P) \in Nat /\ ExistsBijection(1 .. Cardinality(P), P)
  BY <1>2, FS_CardinalityType
<1> HIDE DEF P
<1>4. \E f \in [1 .. Cardinality(P) -> P] : IsInjective(f)
  BY <1>3 DEF ExistsBijection, Bijection, Injection
<1>5. s \in [1 .. Cardinality(P) -> P] /\ IsInjective(s)
  BY <1>4 DEF SetToSeq
<1> HIDE DEF s
<1>6. s \in Injection(1 .. Cardinality(P), P)
  BY <1>5 DEF Injection
<1>7. Cardinality(1 .. Cardinality(P)) = Cardinality(P)
  <2>1. 1 \in Int /\ Cardinality(P) \in Int
    BY <1>3
  <2> QED  BY <1>3, <2>1, FS_Interval
<1>8. s \in Surjection(1 .. Cardinality(P), P)
  BY <1>2, <1>6, <1>7, FS_Injection
<1>9. s \in Seq(P) /\ Len(s) = Cardinality(P)
  BY <1>3, <1>5
<1>10. P \subseteq Task
  BY DEF P, Posted, Task, ConnTasks
<1>11. s \in Seq(Task) /\ \A i \in 1 .. Len(s) : s[i] \in P
  BY <1>9, <1>10
<1>12. \A t \in P : \E i \in 1 .. Len(s) : s[i] = t
  BY <1>8, <1>9 DEF Surjection
<1> QED  BY <1>11, <1>12 DEF s, P

LEMMA StoredStutters ==
    ASSUME Stored, UNCHANGED <<tasks, accepting, server, clients, deaf>>
    PROVE  Stored'
BY DEF Stored, server, conns, clients

\* acceptHandler.
LEMMA AcceptStored ==
    ASSUME Control, Stored, acceptHandler
    PROVE  Stored'
<1> DEFINE c == nextConnId_
           l == newSockBindedLoop_
           a == arg(0)
<1>1. /\ tasks[0] /= <<>> /\ Head(tasks[0])[1] = "acceptHandler" /\ newConnection(a, l) /\ listenInLoop(loops_)
  BY DEF acceptHandler, Takes
<1>2. MaxThreads \in Nat /\ loops_ \in Loops /\ l \in Loops /\ 0 \in Loops /\ loops_ \in Nat
  BY SettingFacts DEF Control, Loops
<1>3. a \in Loops /\ taken(0) \in [Loops -> Seq(Task)]
  BY <1>1, <1>2, TakenTypes DEF Stored
<1>4. c \in Conns /\ nextConnId_' = c + 1 /\ connections_' = connections_ \cup {c}
      /\ loopOf' = [loopOf EXCEPT ![c] = l] /\ sockOf' = [sockOf EXCEPT ![c] = a]
      /\ UNCHANGED <<down, clients, deaf>>
  BY <1>1 DEF newConnection
<1>5. /\ state_' \in [Conns -> {"kConnecting", "kConnected", "kDisconnecting", "kDisconnected"}] /\ reading' \subseteq Conns
  <2>1. state_' \in {state_, [state_ EXCEPT ![c] = "kConnected"]} /\ reading' \in {reading, reading \cup {c}}
    BY <1>1 DEF newConnection
  <2> QED  BY <1>4, <2>1 DEF Stored
<1>6. tasks' \in [Loops -> Seq(Task)]
  <2>1. <<"connectEstablished", c>> \in Task
    BY <1>4 DEF Task, ConnTasks
  <2>2. Post(taken(0), l, <<"connectEstablished", c>>) \in [Loops -> Seq(Task)]
    BY <1>2, <1>3, <2>1, PostTypes
  <2>3. tasks' \in {taken(0), Post(taken(0), l, <<"connectEstablished", c>>)}
    BY <1>1 DEF newConnection
  <2> QED  BY <1>3, <2>2, <2>3
<1>7. accepting' \in Seq(Loops)
  <2>1. newSockBindedLoop_' \in Loops
    <3>1. newSockBindedLoop_' \in Nat /\ newSockBindedLoop_' <= loops_
      BY <1>1, <1>2, NextLoopTypes DEF listenInLoop, Control
    <3> QED  BY <1>2, <3>1 DEF Loops
  <2> QED  BY <1>1, <2>1 DEF listenInLoop, Stored
<1>8. nextConnId_' \in 1 .. MaxConns + 1
  BY <1>4, ServerAssumption DEF Conns
<1>9. loopOf' \in [Conns -> Loops] /\ sockOf' \in [Conns -> Loops] /\ connections_' \subseteq Conns
  BY <1>2, <1>3, <1>4 DEF Stored
<1> QED  BY <1>4, <1>5, <1>6, <1>7, <1>8, <1>9 DEF Stored, clients

\* The connections that go down.
LEMMA DestroyedTypes ==
    ASSUME Stored, NEW cs \in SUBSET Conns, destroyed(cs)
    PROVE  /\ state_' \in [Conns -> {"kConnecting", "kConnected", "kDisconnecting", "kDisconnected"}] /\ down' \subseteq Conns
           /\ \A c \in Conns :
                 IF c \in cs /\ state_[c] = "kConnected" THEN state_'[c] = "kDisconnected" /\ c \in down'
                 ELSE state_'[c] = state_[c]
           /\ down \subseteq down'
BY DEF destroyed, Stored

\* The tasks of the loops.
LEMMA TaskStored ==
    ASSUME Stored, NEW l \in Loops, runTask(l)
    PROVE  Stored'
<1> DEFINE c == arg(l)
<1>1. tasks[l] /= <<>> /\ Head(tasks[l])[1] \in ConnTasks
  BY DEF runTask, connectEstablished, readHandler, connectDestroyed, Takes, ConnTasks
<1>2. c \in Conns /\ taken(l) \in [Loops -> Seq(Task)]
  BY <1>1, TakenTypes DEF Stored
<1>3. 0 \in Loops
  BY ServerAssumption DEF Loops
<1>4. CASE connectEstablished(l)
  <2>1. /\ state_' = [state_ EXCEPT ![c] = "kConnected"] /\ reading' = reading \cup {c} /\ tasks' = taken(l)
        /\ UNCHANGED <<acceptor, connections_, nextConnId_, loopOf, sockOf, down, clients, deaf>>
    BY <1>4 DEF connectEstablished
  <2> QED  BY <1>2, <2>1 DEF Stored, acceptor, clients
<1>5. CASE readHandler(l)
  <2>1. CASE \E f : Fail(f)
    BY <2>1, StoredStutters DEF Fail, acceptor
  <2>2. CASE ~\E f : Fail(f)
    <3>1. /\ handleClose(l, c) /\ reading' = reading \ {c}
          /\ UNCHANGED <<acceptor, nextConnId_, loopOf, sockOf, clients, deaf>>
      BY <1>5, <2>2 DEF readHandler
    <3>2. /\ state_' = [state_ EXCEPT ![c] = "kDisconnected"] /\ down' = down \cup {c} /\ removeConnection(l, c)
      BY <3>1 DEF handleClose
    <3>3. connections_' \subseteq connections_
      BY <3>2 DEF removeConnection
    <3>4. tasks' \in [Loops -> Seq(Task)]
      <4>1. <<"removeConnectionInLoop", c>> \in Task
        BY <1>2 DEF Task, ConnTasks
      <4>2. Post(taken(l), 0, <<"removeConnectionInLoop", c>>) \in [Loops -> Seq(Task)]
        BY <1>2, <1>3, <4>1, PostTypes
      <4>3. tasks' \in {taken(l), Post(taken(l), 0, <<"removeConnectionInLoop", c>>)}
        BY <3>2 DEF removeConnection
      <4> QED  BY <1>2, <4>2, <4>3
    <3> QED  BY <1>2, <3>1, <3>2, <3>3, <3>4 DEF Stored, acceptor, clients
  <2> QED  BY <2>1, <2>2
<1>6. CASE connectDestroyed(l)
  <2>1. /\ tasks' = taken(l) /\ destroyed({c})
        /\ UNCHANGED <<acceptor, connections_, nextConnId_, loopOf, sockOf, reading, clients, deaf>>
    BY <1>6 DEF connectDestroyed
  <2>2. state_' \in [Conns -> {"kConnecting", "kConnected", "kDisconnecting", "kDisconnected"}] /\ down' \subseteq Conns
    BY <1>2, <2>1, DestroyedTypes
  <2> QED  BY <1>2, <2>1, <2>2 DEF Stored, acceptor, clients
<1> QED  BY <1>4, <1>5, <1>6 DEF runTask

\* The server's own tasks, but for acceptHandler.
LEMMA BaseStored ==
    ASSUME Stored, acceptHandlerThrows \/ acceptHandlerError \/ removeConnectionInLoop
    PROVE  Stored'
<1>1. tasks[0] /= <<>> /\ 0 \in Loops
  BY ServerAssumption DEF acceptHandlerThrows, acceptHandlerError, removeConnectionInLoop, Takes, Loops
<1>2. taken(0) \in [Loops -> Seq(Task)]
  BY <1>1, TakenTypes DEF Stored
<1>3. CASE \E f : Fail(f)
  BY <1>3, StoredStutters DEF Fail, acceptor
<1>4. CASE acceptHandlerError
  BY <1>2, <1>4 DEF acceptHandlerError, acceptor, server, conns, clients, Stored
<1>5. CASE removeConnectionInLoop /\ ~\E f : Fail(f)
  <2> DEFINE c == arg(0)
  <2>1. c \in Conns
    BY <1>1, <1>5, TakenTypes DEF removeConnectionInLoop, Takes, ConnTasks, Stored
  <2>2. /\ connections_' = connections_ \ {c} /\ tasks' = Post(taken(0), loopOf[c], <<"connectDestroyed", c>>)
        /\ UNCHANGED <<acceptor, nextConnId_, conns, clients, deaf>>
    BY <1>5 DEF removeConnectionInLoop
  <2>3. <<"connectDestroyed", c>> \in Task /\ loopOf[c] \in Loops
    BY <2>1 DEF Task, ConnTasks, Stored
  <2>4. tasks' \in [Loops -> Seq(Task)]
    BY <1>2, <2>2, <2>3, PostTypes
  <2> QED  BY <2>2, <2>4 DEF Stored, acceptor, conns, clients
<1> QED  BY <1>3, <1>4, <1>5 DEF acceptHandlerThrows

\* ~TcpServer.
LEMMA EndStored ==
    ASSUME Stored, ServerEnds
    PROVE  /\ Stored'
           /\ \A l \in Loops : tasks'[l] = IF l = 0 THEN tasks[0] ELSE tasks[l] \o SetToSeq(Posted(l))
<1>1. /\ destroyed({c \in connections_ : loopOf[c] = 0}) /\ connections_' = {} /\ accepting' = <<>>
      /\ tasks' = [l \in Loops |-> IF l = 0 THEN tasks[0] ELSE tasks[l] \o SetToSeq(Posted(l))]
      /\ UNCHANGED <<nextConnId_, loopOf, sockOf, reading, clients, deaf>>
  BY DEF ServerEnds, Posted, Loops
<1>2. \A l \in Loops : tasks'[l] = IF l = 0 THEN tasks[0] ELSE tasks[l] \o SetToSeq(Posted(l))
  BY <1>1
<1>3. tasks' \in [Loops -> Seq(Task)]
  <2>1. ASSUME NEW l \in Loops
        PROVE  (IF l = 0 THEN tasks[0] ELSE tasks[l] \o SetToSeq(Posted(l))) \in Seq(Task)
    <3>1. tasks[l] \in Seq(Task) /\ SetToSeq(Posted(l)) \in Seq(Task)
      BY PostedTypes DEF Stored
    <3> HIDE DEF Posted
    <3>2. tasks[l] \o SetToSeq(Posted(l)) \in Seq(Task)
      BY <3>1
    <3> QED  BY <3>1, <3>2
  <2> QED  BY <1>1, <2>1
<1>4. {c \in connections_ : loopOf[c] = 0} \in SUBSET Conns
  BY DEF Stored
<1>5. state_' \in [Conns -> {"kConnecting", "kConnected", "kDisconnecting", "kDisconnected"}] /\ down' \subseteq Conns
  BY <1>1, <1>4, DestroyedTypes
<1>6. accepting' \in Seq(Loops)
  BY <1>1
<1> QED  BY <1>1, <1>2, <1>3, <1>5, <1>6 DEF Stored, clients

\* The clients, the starting threads and the ending ones.
LEMMA RestStored ==
    ASSUME Control, Stored,
           \/ starting \/ ending
           \/ \E i \in Pool : threadFunc(i) \/ threadRuns(i)
           \/ \E c \in Conns : PeerCloses(c) \/ PeerResets(c) \/ shutdown(c) \/ ReadAborted(c)
           \/ ClientConnects \/ Accepted \/ AcceptFails
    PROVE  Stored'
<1>0. MaxThreads \in Nat /\ 0 \in Loops /\ setting.threads \in Nat /\ setting.threads <= MaxThreads
  BY SettingFacts DEF Control
<1>1. ASSUME NEW n \in Nat, n <= setting.threads, next_ = 0 \/ next_ < n, listenInLoop(n),
             UNCHANGED <<tasks, server, clients, deaf>>
      PROVE  Stored'
  <2>1. newSockBindedLoop_' \in Loops
    <3>1. newSockBindedLoop_' \in Nat /\ newSockBindedLoop_' <= n
      BY <1>1, NextLoopTypes DEF listenInLoop, Control
    <3> QED  BY <1>0, <1>1, <3>1 DEF Loops
  <2>2. accepting' \in Seq(Loops)
    BY <1>1, <2>1 DEF listenInLoop, Stored
  <2> QED  BY <1>1, <2>2 DEF Stored, server, conns, clients
<1>2. CASE start
  <2>1. loops_ = 0 /\ (next_ = 0 \/ next_ < loops_) /\ proceed(0) /\ UNCHANGED <<tasks, server, clients, deaf>>
    BY <1>2 DEF start, Control
  <2>2. CASE UNCHANGED acceptor
    BY <2>1, <2>2, StoredStutters DEF acceptor
  <2>3. CASE listenInLoop(0)
    BY <1>0, <1>1, <2>1, <2>3
  <2> QED  BY <2>1, <2>2, <2>3 DEF proceed
<1>3. CASE startLoop
  <2>1. proceed(loops_ + 1) /\ UNCHANGED <<tasks, server, clients, deaf>>
    BY <1>3 DEF startLoop
  <2>2. loops_ + 1 \in Nat /\ loops_ + 1 <= setting.threads /\ (next_ = 0 \/ next_ < loops_ + 1)
    BY <1>0, <1>3 DEF startLoop, Control
  <2>3. CASE UNCHANGED acceptor
    BY <2>1, <2>3, StoredStutters DEF acceptor
  <2>4. CASE listenInLoop(loops_ + 1)
    BY <1>1, <2>1, <2>2, <2>4
  <2> QED  BY <2>1, <2>3, <2>4 DEF proceed
<1>4. CASE startLoopWait \/ ending
  BY <1>4, StoredStutters DEF startLoopWait, ending, quitThread, joinThread, Ended, acceptor
<1>5. ASSUME NEW i \in Pool, threadFunc(i) \/ threadRuns(i) PROVE Stored'
  BY <1>5, StoredStutters DEF threadFunc, threadRuns, acceptor
<1>a. ASSUME NEW c \in Conns, shutdown(c) PROVE Stored'
  <2>1. /\ state_' = [state_ EXCEPT ![c] = "kDisconnecting"]
        /\ UNCHANGED <<tasks, acceptor, connections_, nextConnId_, loopOf, sockOf, reading, down, clients, deaf>>
    BY <1>a DEF shutdown
  <2> QED  BY <2>1 DEF Stored, acceptor, clients
<1>6. ASSUME NEW c \in Conns, PeerCloses(c) \/ PeerResets(c) PROVE Stored'
  <2>1. /\ closed' = closed \cup {c} /\ reset' \in {reset, reset \cup {c}}
        /\ tasks' = Post(tasks, sockOf[c], <<"readHandler", c>>)
        /\ UNCHANGED <<acceptor, server, backlog, arrived, deaf>>
    BY <1>6 DEF PeerCloses, PeerResets
  <2>2. <<"readHandler", c>> \in Task /\ sockOf[c] \in Loops
    BY DEF Task, ConnTasks, Stored
  <2>3. tasks' \in [Loops -> Seq(Task)]
    BY <2>1, <2>2, PostTypes DEF Stored
  <2> QED  BY <2>1, <2>3 DEF Stored, acceptor, server, conns
<1>7. ASSUME NEW c \in Conns, ReadAborted(c) PROVE Stored'
  BY <1>7, StoredStutters DEF ReadAborted, Fail, acceptor
<1>8. CASE ClientConnects
  <2>1. /\ arrived < MaxConns /\ arrived' = arrived + 1 /\ backlog' = backlog + 1
        /\ UNCHANGED <<tasks, acceptor, server, closed, reset, deaf>>
    BY <1>8 DEF ClientConnects
  <2>2. backlog' \in Nat /\ arrived' \in 0 .. MaxConns /\ backlog' <= arrived'
    BY <2>1, ServerAssumption DEF Stored
  <2> QED  BY <2>1, <2>2 DEF Stored, acceptor, server, conns
<1>9. CASE Accepted \/ AcceptFails
  <2>1. /\ accepting /= <<>> /\ accepting' = Tail(accepting)
        /\ \E t \in {<<"acceptHandler", Head(accepting)>>, <<"acceptError", 0>>} : tasks' = Post(tasks, 0, t)
        /\ backlog' = backlog \/ (backlog > 0 /\ backlog' = backlog - 1)
        /\ UNCHANGED <<server, arrived, closed, reset, deaf>>
    BY <1>9 DEF Accepted, AcceptFails, clients
  <2>2. Head(accepting) \in Loops /\ accepting' \in Seq(Loops)
    BY <2>1 DEF Stored
  <2>3. <<"acceptHandler", Head(accepting)>> \in Task /\ <<"acceptError", 0>> \in Task
    BY <1>0, <2>2 DEF Task
  <2>4. tasks' \in [Loops -> Seq(Task)]
    <3>1. PICK t \in Task : tasks' = Post(tasks, 0, t)
      BY <2>1, <2>3
    <3>2. tasks \in [Loops -> Seq(Task)]
      BY DEF Stored
    <3> QED  BY <1>0, <3>1, <3>2, PostTypes
  <2>5. backlog' \in Nat /\ backlog' <= arrived
    BY <2>1, ServerAssumption DEF Stored
  <2> QED  BY <2>1, <2>2, <2>4, <2>5 DEF Stored, server, conns
<1> QED
  BY <1>2, <1>3, <1>4, <1>5, <1>a, <1>6, <1>7, <1>8, <1>9 DEF starting

LEMMA ServerTypes == Spec => [](Control /\ Stored)
<1>1. Init => Control /\ Stored
  <2> SUFFICES ASSUME Init PROVE Control /\ Stored
    OBVIOUS
  <2>1. setting \in Settings /\ setting.threads \in Nat /\ setting.threads <= MaxThreads /\ 0 \in Loops
    BY SettingFacts DEF Init
  <2>2. Control
    BY <2>1 DEF Init, Control, Loops
  <2>3. tasks \in [Loops -> Seq(Task)] /\ accepting \in Seq(Loops)
    BY DEF Init, Loops
  <2>4. Stored
    <3>1. MaxConns \in Nat /\ 1 \in 1 .. MaxConns + 1 /\ 0 \in 0 .. MaxConns
      BY ServerAssumption
    <3>2. loopOf \in [Conns -> Loops] /\ sockOf \in [Conns -> Loops]
          /\ state_ \in [Conns -> {"kConnecting", "kConnected", "kDisconnecting", "kDisconnected"}]
      BY <2>1 DEF Init
    <3>3. /\ connections_ = {} /\ nextConnId_ = 1 /\ reading = {} /\ down = {} /\ closed = {} /\ reset = {}
          /\ backlog = 0 /\ arrived = 0 /\ deaf = FALSE
      BY DEF Init
    <3>4. backlog \in Nat /\ arrived \in 0 .. MaxConns /\ backlog <= arrived /\ nextConnId_ \in 1 .. MaxConns + 1
      BY <3>1, <3>3
    <3>5. /\ connections_ \subseteq Conns /\ reading \subseteq Conns /\ down \subseteq Conns
          /\ closed \subseteq Conns /\ reset \subseteq closed
      BY <3>3
    <3>6. deaf \in BOOLEAN
      BY <3>3
    <3> QED  BY <2>3, <3>2, <3>4, <3>5, <3>6 DEF Stored
  <2> QED  BY <2>2, <2>4
<1>2. Control /\ Stored /\ [Next]_vars => Control' /\ Stored'
  <2> SUFFICES ASSUME Control, Stored, [Next]_vars PROVE Control' /\ Stored'
    OBVIOUS
  <2>1. CASE UNCHANGED vars
    BY <2>1, ControlStutters, StoredStutters DEF vars, acceptor
  <2>2. CASE Next
    <3>1. Control'
      BY <2>2, ControlStep
    <3>2. Stored'
      BY <2>2, AcceptStored, TaskStored, BaseStored, EndStored, RestStored DEF Next, baseTask, Loops
    <3> QED  BY <3>1, <3>2
  <2> QED  BY <2>1, <2>2
<1> QED
  BY <1>1, <1>2, PTL DEF Spec

\* Every variable keeps its type: in particular next_ is an index into the loops
\* there are, through any failed accept and any end of the server, and the
\* destructor joins no thread that was not started.
THEOREM ServerTyped == Spec => []TypeOK
<1>1. Control /\ Stored => TypeOK
  <2> SUFFICES ASSUME Control, Stored PROVE TypeOK
    OBVIOUS
  <2>1. setting.threads \in Nat /\ setting.threads <= MaxThreads /\ MaxThreads \in Nat /\ MaxConns \in Nat
    BY SettingFacts, ServerAssumption DEF Control
  <2>2. /\ loops_ \in 0 .. MaxThreads /\ joined \in 0 .. loops_ /\ next_ \in 0 .. MaxThreads
        /\ newSockBindedLoop_ \in 0 .. loops_
    BY <2>1 DEF Control
  <2>3. backlog \in 0 .. MaxConns /\ arrived \in 0 .. MaxConns
    BY <2>1 DEF Stored
  <2> QED  BY <2>2, <2>3 DEF Control, Stored, TypeOK, Loops
<1> QED
  BY <1>1, ServerTypes, PTL

-----------------------------------------------------------------------------
(* Told before released.                                                   *)

\* Task t is queued in q, queued at most once, and queued behind a task s.
In(q, t) == \E i \in 1 .. Len(q) : q[i] = t
Once(q, t) == \A i, j \in 1 .. Len(q) : q[i] = t /\ q[j] = t => i = j
Before(q, s, t) == \E i, j \in 1 .. Len(q) : i < j /\ q[i] = s /\ q[j] = t

\* A queue that grows at its end.
LEMMA Grows ==
    ASSUME NEW q \in Seq(Task), NEW p \in Seq(Task)
    PROVE  /\ \A t : In(q \o p, t) <=> In(q, t) \/ In(p, t)
           /\ \A t : ~In(p, t) /\ Once(q, t) => Once(q \o p, t)
           /\ \A s, t : Before(q, s, t) => Before(q \o p, s, t)
           /\ \A s, t : In(q, s) /\ In(p, t) => Before(q \o p, s, t)
<1> DEFINE r == q \o p
<1>1. /\ Len(q) \in Nat /\ Len(p) \in Nat /\ Len(r) = Len(q) + Len(p)
      /\ \A i \in 1 .. Len(q) : r[i] = q[i]
      /\ \A i \in 1 .. Len(p) : r[Len(q) + i] = p[i]
      /\ \A i \in 1 .. Len(r) : i \in 1 .. Len(q) \/ (i - Len(q) \in 1 .. Len(p) /\ r[i] = p[i - Len(q)])
  OBVIOUS
<1> HIDE DEF r
<1>2. \A i \in 1 .. Len(q) : i \in 1 .. Len(r)
  BY <1>1
<1>3. \A i \in 1 .. Len(p) : Len(q) + i \in 1 .. Len(r)
  BY <1>1
<1>4. ASSUME NEW t PROVE In(r, t) <=> In(q, t) \/ In(p, t)
  <2>1. ASSUME In(q, t) \/ In(p, t) PROVE In(r, t)
    BY <2>1, <1>1, <1>2, <1>3 DEF In
  <2>2. ASSUME NEW i \in 1 .. Len(r), r[i] = t PROVE In(q, t) \/ In(p, t)
    BY <2>2, <1>1 DEF In
  <2> QED  BY <2>1, <2>2 DEF In
<1>5. ASSUME NEW t, ~In(p, t), Once(q, t) PROVE Once(r, t)
  <2>1. \A i \in 1 .. Len(r) : r[i] = t => i \in 1 .. Len(q) /\ q[i] = t
    BY <1>1, <1>5 DEF In
  <2> QED  BY <1>5, <2>1 DEF Once
<1>6. ASSUME NEW s, NEW t, Before(q, s, t) PROVE Before(r, s, t)
  BY <1>1, <1>2, <1>6 DEF Before
<1>7. ASSUME NEW s, NEW t, In(q, s), In(p, t) PROVE Before(r, s, t)
  <2>1. PICK i \in 1 .. Len(q) : q[i] = s
    BY <1>7 DEF In
  <2>2. PICK j \in 1 .. Len(p) : p[j] = t
    BY <1>7 DEF In
  <2>3. i \in 1 .. Len(r) /\ Len(q) + j \in 1 .. Len(r) /\ i < Len(q) + j /\ r[i] = s /\ r[Len(q) + j] = t
    BY <1>1, <1>2, <1>3, <2>1, <2>2
  <2> QED  BY <2>3 DEF Before
<1> QED  BY <1>4, <1>5, <1>6, <1>7 DEF r

\* One task is posted.
LEMMA Posts ==
    ASSUME NEW q \in Seq(Task), NEW x \in Task
    PROVE  /\ \A t : In(Append(q, x), t) <=> In(q, t) \/ t = x
           /\ \A t : t /= x /\ Once(q, t) => Once(Append(q, x), t)
           /\ \A s, t : Before(q, s, t) => Before(Append(q, x), s, t)
           /\ \A s : In(q, s) => Before(Append(q, x), s, x)
<1> DEFINE p == <<x>>
           r == Append(q, x)
<1>1. p \in Seq(Task) /\ r = q \o p
  OBVIOUS
<1>2. Len(p) = 1 /\ p[1] = x
  OBVIOUS
<1> HIDE DEF p, r
<1>3. \A t : In(p, t) <=> t = x
  BY <1>2 DEF In
<1>4. /\ \A t : In(r, t) <=> In(q, t) \/ In(p, t)
      /\ \A t : ~In(p, t) /\ Once(q, t) => Once(r, t)
      /\ \A s, t : Before(q, s, t) => Before(r, s, t)
      /\ \A s, t : In(q, s) /\ In(p, t) => Before(r, s, t)
  BY <1>1, Grows, Zenon
<1>5. /\ \A t : In(r, t) <=> In(q, t) \/ t = x
      /\ \A t : t /= x /\ Once(q, t) => Once(r, t)
      /\ \A s, t : Before(q, s, t) => Before(r, s, t)
      /\ \A s : In(q, s) => Before(r, s, x)
  BY <1>3, <1>4, Zenon
<1> QED  BY <1>5 DEF r

\* The head is taken.
LEMMA Shrinks ==
    ASSUME NEW q \in Seq(Task), q /= <<>>
    PROVE  /\ \A t : In(q, t) <=> t = Head(q) \/ In(Tail(q), t)
           /\ \A t : Once(q, t) => Once(Tail(q), t)
           /\ Once(q, Head(q)) => ~In(Tail(q), Head(q))
           /\ \A s, t : Before(q, s, t) => In(Tail(q), t)
           /\ \A s, t : Before(q, s, t) /\ s /= Head(q) => Before(Tail(q), s, t)
<1> DEFINE r == Tail(q)
           h == Head(q)
<1>1. /\ Len(q) \in Nat \ {0} /\ Len(r) = Len(q) - 1 /\ q[1] = h
      /\ \A i \in 1 .. Len(r) : r[i] = q[i + 1]
  OBVIOUS
<1> HIDE DEF r, h
<1>2. \A i \in 1 .. Len(r) : i + 1 \in 1 .. Len(q)
  BY <1>1
<1>3. \A i \in 1 .. Len(q) : i = 1 \/ (i - 1 \in 1 .. Len(r) /\ r[i - 1] = q[i])
  BY <1>1
<1>4. ASSUME NEW t PROVE In(q, t) <=> t = h \/ In(r, t)
  <2>1. ASSUME NEW i \in 1 .. Len(q), q[i] = t PROVE t = h \/ In(r, t)
    BY <2>1, <1>1, <1>3 DEF In
  <2>2. ASSUME t = h PROVE In(q, t)
    BY <2>2, <1>1 DEF In
  <2>3. ASSUME NEW i \in 1 .. Len(r), r[i] = t PROVE In(q, t)
    BY <2>3, <1>1, <1>2 DEF In
  <2> QED  BY <2>1, <2>2, <2>3 DEF In
<1>5. ASSUME NEW t, Once(q, t) PROVE Once(r, t)
  <2> SUFFICES ASSUME NEW i \in 1 .. Len(r), NEW j \in 1 .. Len(r), r[i] = t, r[j] = t PROVE i = j
    BY DEF Once
  <2>1. i + 1 = j + 1
    BY <1>1, <1>2, <1>5 DEF Once
  <2> QED  BY <2>1
<1>6. ASSUME Once(q, h), In(r, h) PROVE FALSE
  <2>1. PICK i \in 1 .. Len(r) : r[i] = h
    BY <1>6 DEF In
  <2>2. i + 1 \in 1 .. Len(q) /\ q[i + 1] = h /\ 1 \in 1 .. Len(q) /\ i + 1 /= 1
    BY <1>1, <1>2, <2>1
  <2> QED  BY <1>1, <1>6, <2>2 DEF Once
<1>7. ASSUME NEW s, NEW t, Before(q, s, t) PROVE In(r, t) /\ (s /= h => Before(r, s, t))
  <2>1. PICK i \in 1 .. Len(q), j \in 1 .. Len(q) : i < j /\ q[i] = s /\ q[j] = t
    BY <1>7 DEF Before
  <2>2. j - 1 \in 1 .. Len(r) /\ r[j - 1] = t
    BY <1>3, <2>1
  <2>3. s /= h => i - 1 \in 1 .. Len(r) /\ r[i - 1] = s /\ i - 1 < j - 1
    BY <1>1, <1>3, <2>1
  <2> QED  BY <2>2, <2>3 DEF In, Before
<1> QED  BY <1>4, <1>5, <1>6, <1>7 DEF r, h

Established(c) == <<"connectEstablished", c>>
Destroyed(c) == <<"connectDestroyed", c>>
Removal(c) == <<"removeConnectionInLoop", c>>

\* How a connection is held until its application has been told.  Before
\* connectEstablished has run, that functor is queued in the connection's loop,
\* which is not the server's own; until it is disconnected, the map holds the
\* connection, or the server has ended, and a connectDestroyed, behind
\* connectEstablished, is to come unless the connection is shut down.
Told(c) ==
    /\ c \notin Made => c \notin connections_ /\ state_[c] = "kConnecting"
    /\ \A l \in Loops : In(tasks[l], Established(c)) =>
          /\ c \in Made /\ state_[c] = "kConnecting"
          /\ l = loopOf[c] /\ l /= 0 /\ Once(tasks[l], Established(c))
    /\ c \in Made /\ state_[c] = "kConnecting" =>
          /\ In(tasks[loopOf[c]], Established(c))
          /\ c \in connections_ \/ Before(tasks[loopOf[c]], Established(c), Destroyed(c))
    /\ state_[c] = "kConnected" => c \in connections_ \/ In(tasks[loopOf[c]], Destroyed(c))
    /\ c \in Made /\ state_[c] /= "kDisconnected" => c \in connections_ \/ Ending
    /\ \A l \in Loops : In(tasks[l], Removal(c)) => state_[c] = "kDisconnected"
    /\ state_[c] = "kDisconnected" => c \in down

\* The queues R hold of connection c what the queues Q do, perhaps more
\* connectDestroyed and fewer removals.
Keeps(Q, R, c) ==
    \A l \in Loops :
        /\ In(R[l], Established(c)) <=> In(Q[l], Established(c))
        /\ Once(Q[l], Established(c)) => Once(R[l], Established(c))
        /\ Before(Q[l], Established(c), Destroyed(c)) => Before(R[l], Established(c), Destroyed(c))
        /\ In(Q[l], Destroyed(c)) => In(R[l], Destroyed(c))
        /\ In(R[l], Removal(c)) => In(Q[l], Removal(c))

LEMMA PostKeeps ==
    ASSUME NEW Q \in [Loops -> Seq(Task)], NEW l \in Loops, NEW t \in Task, NEW c, t /= Established(c), t /= Removal(c)
    PROVE  Keeps(Q, Post(Q, l, t), c)
<1> SUFFICES ASSUME NEW k \in Loops
             PROVE  /\ In(Post(Q, l, t)[k], Established(c)) <=> In(Q[k], Established(c))
                    /\ Once(Q[k], Established(c)) => Once(Post(Q, l, t)[k], Established(c))
                    /\ Before(Q[k], Established(c), Destroyed(c))
                          => Before(Post(Q, l, t)[k], Established(c), Destroyed(c))
                    /\ In(Q[k], Destroyed(c)) => In(Post(Q, l, t)[k], Destroyed(c))
                    /\ In(Post(Q, l, t)[k], Removal(c)) => In(Q[k], Removal(c))
  BY DEF Keeps
<1>1. CASE k /= l
  <2>1. Post(Q, l, t)[k] = Q[k]
    BY <1>1, PostTypes
  <2> QED  BY <2>1
<1>2. CASE k = l
  <2>1. Post(Q, l, t)[k] = Append(Q[l], t) /\ Q[l] \in Seq(Task)
    BY <1>2, PostTypes
  <2> HIDE DEF Established, Destroyed, Removal
  <2> QED  BY <1>2, <2>1, Posts
<1> QED  BY <1>1, <1>2

LEMMA TakenKeeps ==
    ASSUME Stored, NEW l \in Loops, tasks[l] /= <<>>, NEW c,
           Head(tasks[l]) /= Established(c), Head(tasks[l]) /= Destroyed(c)
    PROVE  Keeps(tasks, taken(l), c)
<1> SUFFICES ASSUME NEW k \in Loops
             PROVE  /\ In(taken(l)[k], Established(c)) <=> In(tasks[k], Established(c))
                    /\ Once(tasks[k], Established(c)) => Once(taken(l)[k], Established(c))
                    /\ Before(tasks[k], Established(c), Destroyed(c))
                          => Before(taken(l)[k], Established(c), Destroyed(c))
                    /\ In(tasks[k], Destroyed(c)) => In(taken(l)[k], Destroyed(c))
                    /\ In(taken(l)[k], Removal(c)) => In(tasks[k], Removal(c))
  BY DEF Keeps
<1>1. taken(l)[k] = (IF k = l THEN Tail(tasks[l]) ELSE tasks[k]) /\ tasks[l] \in Seq(Task)
  BY TakenTypes DEF Stored
<1> HIDE DEF Established, Destroyed, Removal
<1>2. CASE k /= l
  <2>1. taken(l)[k] = tasks[k]
    BY <1>1, <1>2
  <2> QED  BY <2>1
<1>3. CASE k = l
  <2>1. taken(l)[k] = Tail(tasks[k]) /\ tasks[k] \in Seq(Task) /\ tasks[k] /= <<>>
        /\ Head(tasks[k]) /= Established(c) /\ Head(tasks[k]) /= Destroyed(c)
    BY <1>1, <1>3
  <2> QED  BY <2>1, Shrinks
<1> QED  BY <1>2, <1>3

LEMMA KeepsTwice ==
    ASSUME NEW Q, NEW R, NEW S, NEW c, Keeps(Q, R, c), Keeps(R, S, c)
    PROVE  Keeps(Q, S, c)
BY DEF Keeps

\* A step that does not concern the connection.
LEMMA ToldStays ==
    ASSUME Stored, NEW c \in Conns, Told(c), Keeps(tasks, tasks', c),
           state_'[c] = state_[c], loopOf'[c] = loopOf[c],
           c \in Made' <=> c \in Made, c \in connections_' <=> c \in connections_,
           c \in down => c \in down', Ending => Ending'
    PROVE  Told(c)'
<1> HIDE DEF Established, Destroyed, Removal
<1>1. loopOf[c] \in Loops
  BY DEF Stored
<1>2. c \notin Made' => c \notin connections_' /\ state_'[c] = "kConnecting"
  BY DEF Told
<1>3. ASSUME NEW l \in Loops, In(tasks'[l], Established(c))
      PROVE  /\ c \in Made' /\ state_'[c] = "kConnecting"
             /\ l = loopOf'[c] /\ l /= 0 /\ Once(tasks'[l], Established(c))
  BY <1>3 DEF Told, Keeps
<1>4. c \in Made' /\ state_'[c] = "kConnecting" =>
          /\ In(tasks'[loopOf'[c]], Established(c))
          /\ c \in connections_' \/ Before(tasks'[loopOf'[c]], Established(c), Destroyed(c))
  BY <1>1 DEF Told, Keeps
<1>5. state_'[c] = "kConnected" => c \in connections_' \/ In(tasks'[loopOf'[c]], Destroyed(c))
  BY <1>1 DEF Told, Keeps
<1>6. state_'[c] = "kDisconnected" => c \in down'
  BY DEF Told
<1>7. c \in Made' /\ state_'[c] /= "kDisconnected" => c \in connections_' \/ Ending'
  BY DEF Told
<1>8. \A l \in Loops : In(tasks'[l], Removal(c)) => state_'[c] = "kDisconnected"
  BY DEF Told, Keeps
<1> QED  BY <1>2, <1>3, <1>4, <1>5, <1>6, <1>7, <1>8 DEF Told

\* A step that leaves the connections alone and posts nothing.
LEMMA ToldStutters ==
    ASSUME Stored, NEW c \in Conns, Told(c), UNCHANGED <<tasks, server>>, Ending => Ending'
    PROVE  Told(c)'
<1>1. Keeps(tasks, tasks', c)
  BY DEF Keeps, server
<1> QED  BY <1>1, ToldStays DEF server, conns, Made

\* acceptHandler: the new connection enters the map, and its connectEstablished
\* runs inline or is queued.
LEMMA AcceptTold ==
    ASSUME Control, Stored, acceptHandler, \A d \in Conns : Told(d), NEW c \in Conns
    PROVE  Told(c)'
<1> DEFINE n == nextConnId_
           l == newSockBindedLoop_
<1>1. /\ tasks[0] /= <<>> /\ Head(tasks[0])[1] = "acceptHandler" /\ newConnection(arg(0), l)
  BY DEF acceptHandler, Takes
<1>2. 0 \in Loops /\ l \in Loops
  BY SettingFacts DEF Control, Loops
<1>3. /\ n \in Conns /\ nextConnId_' = n + 1 /\ connections_' = connections_ \cup {n}
      /\ loopOf' = [loopOf EXCEPT ![n] = l] /\ down' = down /\ main' = main
      /\ \/ l = 0 /\ state_' = [state_ EXCEPT ![n] = "kConnected"] /\ tasks' = taken(0)
         \/ l /= 0 /\ state_' = state_ /\ tasks' = Post(taken(0), l, Established(n))
  BY <1>1 DEF newConnection, Established
<1>4. Head(tasks[0]) /= Established(c) /\ Head(tasks[0]) /= Destroyed(c)
  BY <1>1 DEF Established, Destroyed
<1>5. Keeps(tasks, taken(0), c) /\ taken(0) \in [Loops -> Seq(Task)]
  BY <1>1, <1>2, <1>4, TakenKeeps, TakenTypes DEF Stored
<1>6. Established(n) \in Task
  BY <1>3 DEF Established, Task, ConnTasks
<1>7. n \in Nat /\ n \notin Made /\ n \in Made' /\ \A d : d /= n => (d \in Made' <=> d \in Made)
  BY <1>3 DEF Made, Conns
<1>8. CASE c /= n
  <2>1. Established(n) /= Established(c) /\ Established(n) /= Removal(c)
    BY <1>8 DEF Established, Removal
  <2>2. Keeps(tasks, tasks', c)
    BY <1>2, <1>3, <1>5, <1>6, <2>1, PostKeeps, KeepsTwice
  <2>3. state_'[c] = state_[c] /\ loopOf'[c] = loopOf[c]
    BY <1>3, <1>8 DEF Stored
  <2> QED  BY <1>3, <1>7, <1>8, <2>2, <2>3, ToldStays DEF Ending
<1>9. CASE c = n
  <2>1. Told(n) /\ state_[n] = "kConnecting"
        /\ \A k \in Loops : ~In(tasks[k], Established(n)) /\ ~In(tasks[k], Removal(n))
    BY <1>3, <1>7 DEF Told
  <2>2. \A k \in Loops : ~In(taken(0)[k], Established(n)) /\ ~In(taken(0)[k], Removal(n))
    BY <1>5, <1>9, <2>1 DEF Keeps
  <2>3. loopOf'[n] = l /\ n \in connections_' /\ n \in Made'
    BY <1>3, <1>7 DEF Stored
  <2>4. CASE l = 0
    <3>1. state_'[n] = "kConnected" /\ tasks' = taken(0)
      BY <1>3, <2>4 DEF Stored
    <3> QED  BY <1>9, <2>2, <2>3, <3>1 DEF Told
  <2>5. CASE l /= 0
    <3>1. state_'[n] = "kConnecting" /\ tasks' = Post(taken(0), l, Established(n))
      BY <1>3, <2>1, <2>5
    <3>2. \A k \in Loops : tasks'[k] = IF k = l THEN Append(taken(0)[l], Established(n)) ELSE taken(0)[k]
      BY <1>2, <1>5, <1>6, <3>1, PostTypes
    <3> DEFINE q == taken(0)[l]
    <3>3. q \in Seq(Task)
      BY <1>2, <1>5
    <3>4. Len(q) \in Nat /\ Len(Append(q, Established(n))) = Len(q) + 1
          /\ \A i \in 1 .. Len(q) : Append(q, Established(n))[i] = q[i]
      BY <3>3
    <3>5. Once(Append(q, Established(n)), Established(n))
      BY <1>2, <2>2, <3>4 DEF Once, In
    <3>6. In(Append(q, Established(n)), Established(n)) /\ ~In(Append(q, Established(n)), Removal(n))
      <4>1. Removal(n) /= Established(n)
        BY DEF Removal, Established
      <4>2. ~In(q, Removal(n))
        BY <1>2, <2>2
      <4> QED  BY <1>6, <3>3, <4>1, <4>2, Posts
    <3> HIDE DEF Established, Destroyed, Removal, q
    <3>7. In(tasks'[l], Established(n)) /\ Once(tasks'[l], Established(n))
          /\ \A k \in Loops : (In(tasks'[k], Established(n)) => k = l) /\ ~In(tasks'[k], Removal(n))
      BY <1>2, <2>2, <3>2, <3>5, <3>6 DEF q
    <3> QED  BY <1>9, <2>3, <2>5, <3>1, <3>7 DEF Told
  <2> QED  BY <2>4, <2>5
<1> QED  BY <1>8, <1>9

\* connectEstablished, once the functor is taken.
LEMMA EstablishedTold ==
    ASSUME Stored, NEW l \in Loops, connectEstablished(l), NEW c \in Conns, Told(c)
    PROVE  Told(c)'
<1> DEFINE d == arg(l)
<1>1. /\ tasks[l] /= <<>> /\ Head(tasks[l])[1] = "connectEstablished" /\ tasks' = taken(l)
      /\ state_' = [state_ EXCEPT ![d] = "kConnected"]
      /\ UNCHANGED <<main, connections_, nextConnId_, loopOf, down>>
  BY DEF connectEstablished, Takes
<1>2. Head(tasks[l]) = Established(d) /\ tasks[l] \in Seq(Task) /\ d \in Conns
      /\ \A k \in Loops : taken(l)[k] = IF k = l THEN Tail(tasks[l]) ELSE tasks[k]
  BY <1>1, TakenTypes DEF Stored, Established, ConnTasks
<1>3. CASE c /= d
  <2>1. Established(c) /= Established(d) /\ Destroyed(c) /= Established(d)
    BY <1>3 DEF Established, Destroyed
  <2>2. Keeps(tasks, tasks', c)
    BY <1>1, <1>2, <2>1, TakenKeeps
  <2>3. state_'[c] = state_[c]
    BY <1>1, <1>3 DEF Stored
  <2> QED  BY <1>1, <2>2, <2>3, ToldStays DEF Made, Ending
<1>4. CASE c = d
  <2> HIDE DEF Established, Destroyed, Removal, d
  <2>1. In(tasks[l], Established(c))
    BY <1>1, <1>2, <1>4, Shrinks
  <2>2. /\ c \in Made /\ state_[c] = "kConnecting" /\ l = loopOf[c] /\ Once(tasks[l], Established(c))
        /\ c \in connections_ \/ Before(tasks[l], Established(c), Destroyed(c))
        /\ \A k \in Loops : (k /= l => ~In(tasks[k], Established(c))) /\ ~In(tasks[k], Removal(c))
        /\ c \in connections_ \/ Ending
    BY <2>1 DEF Told
  <2>3. ~In(Tail(tasks[l]), Established(c))
        /\ (Before(tasks[l], Established(c), Destroyed(c)) => In(Tail(tasks[l]), Destroyed(c)))
        /\ ~In(Tail(tasks[l]), Removal(c))
    BY <1>1, <1>2, <1>4, <2>2, Shrinks
  <2>4. tasks'[l] = Tail(tasks[l]) /\ \A k \in Loops : k /= l => tasks'[k] = tasks[k]
    BY <1>1, <1>2
  <2>5. /\ \A k \in Loops : ~In(tasks'[k], Established(c)) /\ ~In(tasks'[k], Removal(c))
        /\ c \in connections_' \/ In(tasks'[loopOf'[c]], Destroyed(c))
        /\ c \in connections_' \/ Ending'
    BY <1>1, <2>2, <2>3, <2>4 DEF Ending
  <2>6. state_'[c] = "kConnected" /\ c \in Made'
    BY <1>1, <1>4, <2>2 DEF Stored, Made
  <2> QED  BY <2>5, <2>6 DEF Told
<1> QED  BY <1>3, <1>4

\* connectDestroyed tells the application of a connection that is still up and
\* leaves alone one that is shut down.
LEMMA DestroyedTold ==
    ASSUME Stored, NEW l \in Loops, connectDestroyed(l), NEW c \in Conns, Told(c)
    PROVE  Told(c)'
<1> DEFINE d == arg(l)
<1>1. /\ tasks[l] /= <<>> /\ Head(tasks[l])[1] = "connectDestroyed" /\ tasks' = taken(l) /\ destroyed({d})
      /\ UNCHANGED <<main, connections_, nextConnId_, loopOf>>
  BY DEF connectDestroyed, Takes
<1>2. Head(tasks[l]) = Destroyed(d) /\ tasks[l] \in Seq(Task) /\ d \in Conns
      /\ \A k \in Loops : taken(l)[k] = IF k = l THEN Tail(tasks[l]) ELSE tasks[k]
  BY <1>1, TakenTypes DEF Stored, Destroyed, ConnTasks
<1>3. /\ IF c = d /\ state_[c] = "kConnected" THEN state_'[c] = "kDisconnected" /\ c \in down'
         ELSE state_'[c] = state_[c]
      /\ down \subseteq down'
  BY <1>1, <1>2, DestroyedTypes
<1>4. Established(c) /= Destroyed(d) /\ (c /= d => Destroyed(c) /= Destroyed(d))
  BY DEF Established, Destroyed
<1> HIDE DEF Established, Destroyed, Removal, d
<1>5. CASE c /= d
  <2>1. Keeps(tasks, tasks', c)
    BY <1>1, <1>2, <1>4, <1>5, TakenKeeps
  <2> QED  BY <1>1, <1>3, <1>5, <2>1, ToldStays DEF Made, Ending
<1>6. CASE c = d
  <2>1. ASSUME NEW k \in Loops
        PROVE  /\ In(tasks'[k], Established(c)) <=> In(tasks[k], Established(c))
               /\ Once(tasks[k], Established(c)) => Once(tasks'[k], Established(c))
               /\ Before(tasks[k], Established(c), Destroyed(c)) => Before(tasks'[k], Established(c), Destroyed(c))
               /\ In(tasks'[k], Removal(c)) => In(tasks[k], Removal(c))
    <3>1. CASE k = l
      <4>1. tasks'[k] = Tail(tasks[l])
        BY <1>1, <1>2, <3>1
      <4> QED  BY <1>1, <1>2, <1>4, <3>1, <4>1, Shrinks
    <3>2. CASE k /= l
      <4>1. tasks'[k] = tasks[k]
        BY <1>1, <1>2, <3>2
      <4> QED  BY <4>1
    <3> QED  BY <3>1, <3>2
  <2>2. loopOf[c] \in Loops /\ state_[c] \in {"kConnecting", "kConnected", "kDisconnecting", "kDisconnected"}
    BY DEF Stored
  <2>3. CASE state_[c] = "kConnecting"
    <3>1. state_'[c] = "kConnecting"
      BY <1>3, <2>3
    <3> QED  BY <1>1, <2>1, <2>2, <2>3, <3>1 DEF Told, Made, Ending
  <2>4. CASE state_[c] /= "kConnecting"
    <3>1. /\ state_'[c] \in {"kDisconnecting", "kDisconnected"} /\ c \in Made
          /\ state_[c] = "kDisconnected" => state_'[c] = "kDisconnected"
          /\ state_'[c] = "kDisconnected" => c \in down'
          /\ state_'[c] = "kDisconnecting" => c \in connections_ \/ Ending
      BY <1>3, <1>6, <2>2, <2>4 DEF Told
    <3>2. \A k \in Loops : ~In(tasks'[k], Established(c))
                           /\ (In(tasks'[k], Removal(c)) => state_[c] = "kDisconnected")
      BY <2>1, <2>4 DEF Told
    <3> QED  BY <1>1, <3>1, <3>2 DEF Told, Made, Ending
  <2> QED  BY <2>3, <2>4
<1> QED  BY <1>5, <1>6

\* readHandler at the end of the stream or with an error: handleClose tells the
\* application, and only then asks for the removal.
LEMMA ReadTold ==
    ASSUME Stored, NEW l \in Loops, readHandler(l), NEW c \in Conns, Told(c)
    PROVE  Told(c)'
<1> DEFINE d == arg(l)
           t == Removal(d)
<1>1. tasks[l] /= <<>> /\ Head(tasks[l])[1] = "readHandler"
  BY DEF readHandler, Takes
<1>2. Head(tasks[l]) = <<"readHandler", d>> /\ d \in Conns /\ taken(l) \in [Loops -> Seq(Task)]
  BY <1>1, TakenTypes DEF Stored, ConnTasks
<1>3. CASE \E f : Fail(f)
  BY <1>3, ToldStutters DEF Fail, Ending
<1>4. CASE ~\E f : Fail(f)
  <2>1. /\ readHandlerFault(l, d) = "none" /\ handleClose(l, d)
        /\ UNCHANGED <<main, nextConnId_, loopOf>>
    BY <1>4 DEF readHandler
  <2>2. state_[d] \in {"kConnected", "kDisconnecting"}
    BY <2>1 DEF readHandlerFault
  <2>3. /\ state_' = [state_ EXCEPT ![d] = "kDisconnected"] /\ down' = down \cup {d}
        /\ connections_' \in {connections_, connections_ \ {d}}
        /\ tasks' = taken(l) \/ tasks' = Post(taken(l), 0, t)
    BY <2>1 DEF handleClose, removeConnection, Removal
  <2>4. t \in Task /\ t /= Established(c) /\ (c /= d => t /= Removal(c)) /\ 0 \in Loops
    BY <1>2, ServerAssumption DEF Task, ConnTasks, Established, Removal, Loops
  <2>5. Head(tasks[l]) /= Established(c) /\ Head(tasks[l]) /= Destroyed(c)
    BY <1>2 DEF Established, Destroyed
  <2> HIDE DEF t
  <2>6. Keeps(tasks, taken(l), c)
    BY <1>1, <2>5, TakenKeeps
  <2>7. CASE c /= d
    <3>1. state_'[c] = state_[c] /\ (c \in connections_' <=> c \in connections_) /\ (c \in down => c \in down')
      BY <2>3, <2>7 DEF Stored
    <3>2. Keeps(tasks, tasks', c)
      BY <1>2, <2>3, <2>4, <2>6, <2>7, PostKeeps, KeepsTwice
    <3> QED  BY <2>1, <3>1, <3>2, ToldStays DEF Made, Ending
  <2>8. CASE c = d
    <3>1. state_'[c] = "kDisconnected" /\ c \in down' /\ c \in Made
      BY <2>2, <2>3, <2>8 DEF Stored, Told
    <3>2. \A k \in Loops : ~In(taken(l)[k], Established(c))
      BY <2>2, <2>6, <2>8 DEF Told, Keeps
    <3>3. ASSUME NEW k \in Loops PROVE ~In(tasks'[k], Established(c))
      <4>1. CASE tasks' = taken(l)
        BY <3>2, <4>1
      <4>2. CASE tasks' = Post(taken(l), 0, t)
        <5>1. tasks'[k] = (IF k = 0 THEN Append(taken(l)[0], t) ELSE taken(l)[k]) /\ taken(l)[0] \in Seq(Task)
          BY <1>2, <2>4, <4>2, PostTypes
        <5> HIDE DEF Established
        <5>2. In(Append(taken(l)[0], t), Established(c)) <=> In(taken(l)[0], Established(c))
          BY <2>4, <5>1, Posts
        <5> QED  BY <2>4, <3>2, <5>1, <5>2
      <4> QED  BY <2>3, <4>1, <4>2
    <3> QED  BY <2>1, <3>1, <3>3 DEF Told, Made
  <2> QED  BY <2>7, <2>8
<1> QED  BY <1>3, <1>4

\* removeConnectionInLoop: the connection is down already.
LEMMA RemoveTold ==
    ASSUME Stored, removeConnectionInLoop, NEW c \in Conns, Told(c)
    PROVE  Told(c)'
<1> DEFINE d == arg(0)
<1>1. tasks[0] /= <<>> /\ Head(tasks[0])[1] = "removeConnectionInLoop" /\ 0 \in Loops
  BY ServerAssumption DEF removeConnectionInLoop, Takes, Loops
<1>2. Head(tasks[0]) = Removal(d) /\ d \in Conns /\ taken(0) \in [Loops -> Seq(Task)]
  BY <1>1, TakenTypes DEF Stored, ConnTasks, Removal
<1>3. CASE \E f : Fail(f)
  BY <1>3, ToldStutters DEF Fail, Ending
<1>4. CASE ~\E f : Fail(f)
  <2>1. /\ d \in connections_ /\ connections_' = connections_ \ {d}
        /\ tasks' = Post(taken(0), loopOf[d], Destroyed(d))
        /\ UNCHANGED <<main, nextConnId_, loopOf, state_, down>>
    BY <1>4 DEF removeConnectionInLoop, conns, Destroyed
  <2>2. /\ Destroyed(d) \in Task /\ Destroyed(d) /= Established(c) /\ Destroyed(d) /= Removal(c)
        /\ loopOf[d] \in Loops
    BY <1>2 DEF Task, ConnTasks, Established, Destroyed, Removal, Stored
  <2>3. Head(tasks[0]) /= Established(c) /\ Head(tasks[0]) /= Destroyed(c)
    BY <1>2 DEF Established, Destroyed, Removal
  <2> HIDE DEF Established, Destroyed, Removal, d
  <2>4. Keeps(tasks, taken(0), c)
    BY <1>1, <2>3, TakenKeeps
  <2>5. Keeps(tasks, tasks', c)
    BY <1>2, <2>1, <2>2, <2>4, PostKeeps, KeepsTwice
  <2>6. CASE c /= d
    BY <2>1, <2>5, <2>6, ToldStays DEF Made, Ending
  <2>7. CASE c = d
    <3>1. In(tasks[0], Removal(c)) /\ tasks[0] \in Seq(Task)
      <4>1. tasks[0] \in Seq(Task)
        BY <1>1 DEF Stored
      <4> QED  BY <1>1, <1>2, <2>7, <4>1, Shrinks
    <3>2. state_[c] = "kDisconnected" /\ c \in down /\ c \in Made
      BY <1>1, <2>1, <2>7, <3>1 DEF Told
    <3>3. \A k \in Loops : ~In(tasks'[k], Established(c))
      BY <2>5, <3>2 DEF Told, Keeps
    <3> QED  BY <2>1, <3>2, <3>3 DEF Told, Made
  <2> QED  BY <2>6, <2>7
<1> QED  BY <1>3, <1>4

\* ~TcpServer: the connections of its own loop are up, shut down or down already,
\* and connectDestroyed tells inline the ones that are up; the others have theirs
\* queued.
LEMMA EndTold ==
    ASSUME Stored, ServerEnds, NEW c \in Conns, Told(c)
    PROVE  Told(c)'
<1>1. /\ destroyed({d \in connections_ : loopOf[d] = 0}) /\ connections_' = {}
      /\ UNCHANGED <<nextConnId_, loopOf>> /\ Ending'
  BY DEF ServerEnds, Ending
<1>2. {d \in connections_ : loopOf[d] = 0} \in SUBSET Conns
  BY DEF Stored
<1>3. /\ IF c \in connections_ /\ loopOf[c] = 0 /\ state_[c] = "kConnected"
         THEN state_'[c] = "kDisconnected" /\ c \in down'
         ELSE state_'[c] = state_[c]
      /\ c \in down => c \in down'
  BY <1>1, <1>2, DestroyedTypes
<1>4. /\ \A l \in Loops : tasks'[l] = IF l = 0 THEN tasks[0] ELSE tasks[l] \o SetToSeq(Posted(l))
      /\ \A l \in Loops : tasks[l] \in Seq(Task) /\ SetToSeq(Posted(l)) \in Seq(Task)
  BY EndStored, PostedTypes DEF Stored
<1>5. \A l \in Loops : ~In(SetToSeq(Posted(l)), Established(c)) /\ ~In(SetToSeq(Posted(l)), Removal(c))
  <2>1. \A l \in Loops : Established(c) \notin Posted(l) /\ Removal(c) \notin Posted(l)
    BY DEF Posted, Established, Removal
  <2>2. ASSUME NEW l \in Loops
        PROVE  \A i \in 1 .. Len(SetToSeq(Posted(l))) : SetToSeq(Posted(l))[i] \in Posted(l)
    BY PostedTypes DEF Stored
  <2> HIDE DEF Established, Removal, Posted
  <2> QED  BY <2>1, <2>2 DEF In
<1>6. c \in connections_ => In(SetToSeq(Posted(loopOf[c])), Destroyed(c))
  <2>1. c \in connections_ => Destroyed(c) \in Posted(loopOf[c])
    BY DEF Posted, Destroyed
  <2> QED  BY <2>1, PostedTypes DEF In, Stored
<1>7. loopOf[c] \in Loops /\ state_[c] \in {"kConnecting", "kConnected", "kDisconnecting", "kDisconnected"}
  BY DEF Stored
<1> HIDE DEF Established, Destroyed, Removal, Posted
<1>8. Keeps(tasks, tasks', c)
  <2> SUFFICES ASSUME NEW l \in Loops
               PROVE  /\ In(tasks'[l], Established(c)) <=> In(tasks[l], Established(c))
                      /\ Once(tasks[l], Established(c)) => Once(tasks'[l], Established(c))
                      /\ Before(tasks[l], Established(c), Destroyed(c))
                            => Before(tasks'[l], Established(c), Destroyed(c))
                      /\ In(tasks[l], Destroyed(c)) => In(tasks'[l], Destroyed(c))
                      /\ In(tasks'[l], Removal(c)) => In(tasks[l], Removal(c))
    BY DEF Keeps
  <2>1. CASE l = 0
    BY <1>4, <2>1
  <2>2. CASE l /= 0
    <3>1. tasks'[l] = tasks[l] \o SetToSeq(Posted(l))
      BY <1>4, <2>2
    <3> QED  BY <1>4, <1>5, <3>1, Grows
  <2> QED  BY <2>1, <2>2
<1>9. CASE c \notin connections_
  BY <1>1, <1>3, <1>8, <1>9, ToldStays DEF Made
<1>10. CASE c \in connections_ /\ loopOf[c] = 0
  <2>1. c \in Made /\ state_[c] /= "kConnecting"
    BY <1>7, <1>10 DEF Told
  <2>2. /\ state_'[c] \in {"kDisconnecting", "kDisconnected"}
        /\ state_[c] = "kDisconnected" => state_'[c] = "kDisconnected"
        /\ state_'[c] = "kDisconnected" => c \in down'
    BY <1>3, <1>7, <1>10, <2>1 DEF Told
  <2>3. \A k \in Loops : ~In(tasks'[k], Established(c))
                         /\ (In(tasks'[k], Removal(c)) => state_[c] = "kDisconnected")
    BY <1>8, <2>1 DEF Told, Keeps
  <2> QED  BY <1>1, <2>1, <2>2, <2>3 DEF Told, Made
<1>11. CASE c \in connections_ /\ loopOf[c] /= 0
  <2> DEFINE l == loopOf[c]
  <2>1. /\ In(tasks'[l], Destroyed(c))
        /\ In(tasks[l], Established(c)) => Before(tasks'[l], Established(c), Destroyed(c))
    <3>1. tasks'[l] = tasks[l] \o SetToSeq(Posted(l))
      BY <1>4, <1>7, <1>11
    <3> QED  BY <1>4, <1>6, <1>7, <1>11, <3>1, Grows
  <2>2. c \in Made /\ state_'[c] = state_[c]
    BY <1>3, <1>11 DEF Told
  <2>3. \A k \in Loops : In(tasks'[k], Established(c)) =>
            In(tasks[k], Established(c)) /\ (Once(tasks[k], Established(c)) => Once(tasks'[k], Established(c)))
    BY <1>8 DEF Keeps
  <2>4. In(tasks[l], Established(c)) => In(tasks'[l], Established(c))
    BY <1>7, <1>8 DEF Keeps
  <2>5. \A k \in Loops : In(tasks'[k], Removal(c)) => state_[c] = "kDisconnected"
    BY <1>8 DEF Told, Keeps
  <2> QED  BY <1>1, <1>3, <2>1, <2>2, <2>3, <2>4, <2>5 DEF Told, Made
<1> QED  BY <1>9, <1>10, <1>11

\* The clients, the accepts, the threads and shutdown.
LEMMA RestTold ==
    ASSUME Control, Stored, NEW c \in Conns, Told(c),
           \/ starting \/ ending \/ acceptHandlerThrows \/ acceptHandlerError
           \/ \E i \in Pool : threadFunc(i) \/ threadRuns(i)
           \/ \E d \in Conns : PeerCloses(d) \/ PeerResets(d) \/ shutdown(d) \/ ReadAborted(d)
           \/ ClientConnects \/ Accepted \/ AcceptFails
    PROVE  Told(c)'
<1>0. 0 \in Loops
  BY ServerAssumption DEF Loops
<1>1. ASSUME NEW l \in Loops, NEW t \in Task, t /= Established(c), t /= Removal(c),
             tasks' = Post(tasks, l, t), UNCHANGED <<server, main>>
      PROVE  Told(c)'
  <2>1. Keeps(tasks, tasks', c)
    BY <1>1, PostKeeps DEF Stored
  <2> QED  BY <1>1, <2>1, ToldStays DEF server, conns, Made, Ending
<1>2. CASE starting \/ ending \/ ClientConnects \/ \E i \in Pool : threadFunc(i) \/ threadRuns(i)
  <2>1. UNCHANGED <<tasks, server>> /\ (Ending => Ending')
    BY <1>2 DEF starting, start, startLoopWait, startLoop, ending, quitThread, joinThread, Ended,
                ClientConnects, threadFunc, threadRuns, Ending
  <2> QED  BY <2>1, ToldStutters
<1>3. CASE acceptHandlerThrows \/ \E d \in Conns : ReadAborted(d)
  BY <1>3, ToldStutters DEF acceptHandlerThrows, ReadAborted, Fail, Ending
<1>4. CASE acceptHandlerError
  <2>1. tasks[0] /= <<>> /\ Head(tasks[0])[1] = "acceptError" /\ tasks' = taken(0) /\ UNCHANGED <<server, main>>
    BY <1>4 DEF acceptHandlerError, Takes
  <2>2. Head(tasks[0]) /= Established(c) /\ Head(tasks[0]) /= Destroyed(c)
    BY <2>1 DEF Established, Destroyed
  <2>3. Keeps(tasks, tasks', c)
    BY <1>0, <2>1, <2>2, TakenKeeps
  <2> QED  BY <2>1, <2>3, ToldStays DEF server, conns, Made, Ending
<1>5. ASSUME NEW d \in Conns, PeerCloses(d) \/ PeerResets(d) PROVE Told(c)'
  <2>1. <<"readHandler", d>> \in Task /\ <<"readHandler", d>> /= Established(c)
        /\ <<"readHandler", d>> /= Removal(c) /\ sockOf[d] \in Loops
    BY DEF Task, ConnTasks, Established, Removal, Stored
  <2> QED  BY <1>1, <1>5, <2>1 DEF PeerCloses, PeerResets
<1>6. CASE Accepted \/ AcceptFails
  <2>1. accepting /= <<>> /\ UNCHANGED <<server, main>>
        /\ \E t \in {<<"acceptHandler", Head(accepting)>>, <<"acceptError", 0>>} : tasks' = Post(tasks, 0, t)
    BY <1>6 DEF Accepted, AcceptFails
  <2>2. Head(accepting) \in Loops
    BY <2>1 DEF Stored
  <2>3. \A t \in {<<"acceptHandler", Head(accepting)>>, <<"acceptError", 0>>} :
            t \in Task /\ t /= Established(c) /\ t /= Removal(c)
    BY <1>0, <2>2 DEF Task, Established, Removal
  <2> QED  BY <1>0, <1>1, <2>1, <2>3
<1>7. ASSUME NEW d \in Conns, shutdown(d) PROVE Told(c)'
  <2>1. /\ state_[d] = "kConnected" /\ state_' = [state_ EXCEPT ![d] = "kDisconnecting"]
        /\ UNCHANGED <<main, tasks, connections_, nextConnId_, loopOf, down>>
    BY <1>7 DEF shutdown
  <2>2. CASE c /= d
    <3>1. Keeps(tasks, tasks', c) /\ state_'[c] = state_[c]
      BY <2>1, <2>2 DEF Keeps, Stored
    <3> QED  BY <2>1, <3>1, ToldStays DEF Made, Ending
  <2>3. CASE c = d
    <3>1. state_'[c] = "kDisconnecting"
      BY <2>1, <2>3 DEF Stored
    <3>2. c \in Made /\ (c \in connections_ \/ Ending)
          /\ \A l \in Loops : ~In(tasks[l], Established(c)) /\ ~In(tasks[l], Removal(c))
      BY <2>1, <2>3 DEF Told
    <3> HIDE DEF Established, Destroyed, Removal
    <3> QED  BY <2>1, <3>1, <3>2 DEF Told, Made, Ending
  <2> QED  BY <2>2, <2>3
<1> QED  BY <1>2, <1>3, <1>4, <1>5, <1>6, <1>7

\* The destructor's assert holds and no application is left without its DOWN, for
\* every server, however its peers close or reset, its connections are shut down,
\* its accepts fail and its end comes, and even where the process has failed: all
\* but the connections that are shut down when the server is destroyed.
THEOREM AlwaysToldDown == Spec => []ToldDown
<1>1. Init => \A c \in Conns : Told(c)
  <2> SUFFICES ASSUME Init, NEW c \in Conns PROVE Told(c)
    OBVIOUS
  <2>1. connections_ = {} /\ state_[c] = "kConnecting" /\ nextConnId_ = 1
        /\ \A l \in Loops : tasks[l] = <<>>
    BY DEF Init, Loops
  <2>2. c \notin Made
    BY <2>1 DEF Made
  <2>3. \A l \in Loops : ~In(tasks[l], Established(c)) /\ ~In(tasks[l], Removal(c))
    BY <2>1 DEF In
  <2> QED  BY <2>1, <2>2, <2>3 DEF Told
<1>2. Control /\ Stored /\ (\A c \in Conns : Told(c)) /\ [Next]_vars => (\A c \in Conns : Told(c))'
  <2> SUFFICES ASSUME Control, Stored, \A c \in Conns : Told(c), [Next]_vars, NEW c \in Conns PROVE Told(c)'
    OBVIOUS
  <2>1. Told(c)
    OBVIOUS
  <2>2. CASE UNCHANGED vars
    BY <2>1, <2>2, ToldStutters DEF vars, Ending
  <2>3. CASE acceptHandler
    BY <2>3, AcceptTold
  <2>4. ASSUME NEW l \in Loops, runTask(l) PROVE Told(c)'
    BY <2>1, <2>4, EstablishedTold, DestroyedTold, ReadTold DEF runTask
  <2>5. CASE removeConnectionInLoop \/ ServerEnds
    BY <2>1, <2>5, RemoveTold, EndTold
  <2>6. CASE Next
    BY <2>1, <2>3, <2>4, <2>5, <2>6, RestTold DEF Next, baseTask, Loops
  <2> QED  BY <2>2, <2>6
<1>3. Stored /\ (\A c \in Conns : Told(c)) => ToldDown
  <2> SUFFICES ASSUME Stored, \A c \in Conns : Told(c), NEW c \in Made, Gone(c)
               PROVE  (state_[c] = "kDisconnected" /\ c \in down) \/ EndedShutDown(c)
    BY DEF ToldDown
  <2>1. c \in Conns
    BY ServerAssumption DEF Made, Conns, Stored
  <2>2. Told(c) /\ loopOf[c] \in Loops /\ state_[c] \in {"kConnecting", "kConnected", "kDisconnecting", "kDisconnected"}
    BY <2>1 DEF Stored
  <2>3. c \notin connections_ /\ ~In(tasks[loopOf[c]], Established(c)) /\ ~In(tasks[loopOf[c]], Destroyed(c))
    BY <2>2 DEF Gone, Referenced, In, Established, Destroyed, OwningTasks, Loops
  <2> HIDE DEF Established, Destroyed, Removal
  <2>4. CASE state_[c] \in {"kConnecting", "kConnected"}
    BY <2>2, <2>3, <2>4 DEF Told
  <2>5. CASE state_[c] = "kDisconnecting"
    BY <2>2, <2>3, <2>5 DEF Told, EndedShutDown
  <2>6. CASE state_[c] = "kDisconnected"
    BY <2>2, <2>6 DEF Told
  <2> QED  BY <2>2, <2>4, <2>5, <2>6
<1>4. Spec => [](\A c \in Conns : Told(c))
  BY <1>1, <1>2, ServerTypes, PTL DEF Spec
<1> QED
  BY <1>3, <1>4, ServerTypes, PTL

-----------------------------------------------------------------------------
(* No fault.                                                               *)

\* The servers that NoFault speaks of, and the end of a busy one without threads:
\* its own loop has been stopped and there is no other.
Gentle ==
    /\ "resetEarly" \notin setting.events
    /\ "resets" \in setting.events => setting.threads > 0 /\ "shutsDown" \notin setting.events
    /\ "endsBusy" \in setting.events => setting.threads = 0 /\ "shutsDown" \notin setting.events

Frozen == "endsBusy" \in setting.events /\ 0 \in stopped

\* A task about connection c, no such task in the queues, and at most one of
\* them, of kind k in loop l.
Of(t, c) == t[1] \in ConnTasks /\ t[2] = c
NoTask(Q, c) == \A l \in Loops : \A i \in 1 .. Len(Q[l]) : ~Of(Q[l][i], c)
OneTask(Q, c, l, k) ==
    \A m \in Loops : \A i \in 1 .. Len(Q[m]) : Of(Q[m][i], c) =>
        /\ m = l /\ Q[m][i][1] = k
        /\ \A j \in 1 .. Len(Q[m]) : Of(Q[m][j], c) => j = i

\* The queues R hold no more about c than the queues Q.
NoMore(Q, R, c) ==
    /\ NoTask(Q, c) => NoTask(R, c)
    /\ \A l, k : OneTask(Q, c, l, k) => OneTask(R, c, l, k)

\* A connection goes through five phases, each with the only task that can be
\* queued for it and, while it has anything to say, its place in the map.
Unmade(c) ==
    /\ c \notin Made /\ c \notin connections_ /\ c \notin reading /\ state_[c] = "kConnecting"
    /\ NoTask(tasks, c)

Opening(c) ==
    /\ c \in Made /\ c \in connections_ /\ c \notin reading /\ state_[c] = "kConnecting"
    /\ loopOf[c] /= 0
    /\ OneTask(tasks, c, loopOf[c], "connectEstablished")

Open(c) ==
    /\ c \in Made /\ c \in connections_ /\ c \in reading
    /\ state_[c] = "kConnected" \/ (state_[c] = "kDisconnecting" /\ "shutsDown" \in setting.events)
    /\ OneTask(tasks, c, loopOf[c], "readHandler") /\ (c \notin closed => NoTask(tasks, c))

Closing(c) ==
    /\ c \in Made /\ c \in connections_ /\ c \notin reading /\ state_[c] = "kDisconnected"
    /\ OneTask(tasks, c, 0, "removeConnectionInLoop")

Forgotten(c) ==
    /\ c \in Made /\ c \notin connections_ /\ c \notin reading /\ state_[c] = "kDisconnected"
    /\ OneTask(tasks, c, loopOf[c], "connectDestroyed")

Phase(c) == Unmade(c) \/ Opening(c) \/ Open(c) \/ Closing(c) \/ Forgotten(c)

\* A task about another connection, or about none, is posted.
LEMMA OtherPost ==
    ASSUME NEW Q \in [Loops -> Seq(Task)], NEW l \in Loops, NEW t \in Task, NEW c, ~Of(t, c)
    PROVE  NoMore(Q, Post(Q, l, t), c)
<1> DEFINE R == Post(Q, l, t)
           q == Q[l]
           r == Append(q, t)
<1>1. \A m \in Loops : R[m] = IF m = l THEN r ELSE Q[m]
  BY PostTypes
<1>2. /\ Len(q) \in Nat /\ Len(r) = Len(q) + 1
      /\ \A i \in 1 .. Len(q) : r[i] = q[i]
      /\ r[Len(q) + 1] = t
  OBVIOUS
<1> HIDE DEF R, r
<1>3. ASSUME NEW m \in Loops, NEW i \in 1 .. Len(R[m]), Of(R[m][i], c)
      PROVE  i \in 1 .. Len(Q[m]) /\ R[m][i] = Q[m][i]
  <2>1. CASE m = l
    <3>1. R[m] = r /\ Q[m] = q
      BY <1>1, <2>1
    <3>2. i \in 1 .. Len(q) \/ i = Len(q) + 1
      BY <1>2, <3>1
    <3> QED  BY <1>2, <1>3, <3>1, <3>2
  <2>2. CASE m /= l
    BY <1>1, <2>2
  <2> QED  BY <2>1, <2>2
<1>4. NoTask(Q, c) => NoTask(R, c)
  BY <1>3 DEF NoTask
<1>5. ASSUME NEW n, NEW k, OneTask(Q, c, n, k) PROVE OneTask(R, c, n, k)
  <2> SUFFICES ASSUME NEW m \in Loops, NEW i \in 1 .. Len(R[m]), Of(R[m][i], c)
               PROVE  /\ m = n /\ R[m][i][1] = k
                      /\ \A j \in 1 .. Len(R[m]) : Of(R[m][j], c) => j = i
    BY DEF OneTask
  <2>1. i \in 1 .. Len(Q[m]) /\ R[m][i] = Q[m][i]
    BY <1>3
  <2>2. \A j \in 1 .. Len(R[m]) : Of(R[m][j], c) => j \in 1 .. Len(Q[m]) /\ R[m][j] = Q[m][j]
    BY <1>3
  <2> QED  BY <1>5, <2>1, <2>2 DEF OneTask
<1> QED  BY <1>4, <1>5 DEF NoMore, R

\* The first task about a connection is posted.
LEMMA FirstPost ==
    ASSUME NEW Q \in [Loops -> Seq(Task)], NEW l \in Loops, NEW k \in ConnTasks, NEW c \in Conns, NoTask(Q, c)
    PROVE  OneTask(Post(Q, l, <<k, c>>), c, l, k)
<1> DEFINE t == <<k, c>>
           R == Post(Q, l, t)
           q == Q[l]
           r == Append(q, t)
<1>1. t \in Task /\ t[1] = k
  BY DEF Task
<1> HIDE DEF t
<1>2. \A m \in Loops : R[m] = IF m = l THEN r ELSE Q[m]
  BY <1>1, PostTypes
<1>3. /\ Len(q) \in Nat /\ Len(r) = Len(q) + 1
      /\ \A i \in 1 .. Len(q) : r[i] = q[i]
      /\ r[Len(q) + 1] = t
  BY <1>1
<1> HIDE DEF R, r
<1>4. ASSUME NEW m \in Loops, NEW i \in 1 .. Len(R[m]), Of(R[m][i], c)
      PROVE  m = l /\ i = Len(q) + 1
  <2>1. CASE m = l
    <3>1. R[m] = r
      BY <1>2, <2>1
    <3>2. i \in 1 .. Len(q) \/ i = Len(q) + 1
      BY <1>3, <3>1
    <3>3. i \notin 1 .. Len(q)
      BY <1>3, <1>4, <3>1 DEF NoTask
    <3> QED  BY <2>1, <3>2, <3>3
  <2>2. CASE m /= l
    BY <1>2, <1>4, <2>2 DEF NoTask
  <2> QED  BY <2>1, <2>2
<1>5. R[l][Len(q) + 1][1] = k
  BY <1>1, <1>2, <1>3
<1>6. OneTask(R, c, l, k)
  BY <1>4, <1>5 DEF OneTask
<1> QED  BY <1>6 DEF R, t

\* Taking a task adds none, and takes the only one there is about a connection.
LEMMA TakenTask ==
    ASSUME Stored, NEW l \in Loops, tasks[l] /= <<>>, NEW c
    PROVE  /\ NoMore(tasks, taken(l), c)
           /\ Of(Head(tasks[l]), c) => ~NoTask(tasks, c)
           /\ \A n, k : Of(Head(tasks[l]), c) /\ OneTask(tasks, c, n, k) =>
                 l = n /\ Head(tasks[l])[1] = k /\ NoTask(taken(l), c)
<1> DEFINE R == taken(l)
           q == tasks[l]
           r == Tail(q)
<1>1. \A m \in Loops : R[m] = IF m = l THEN r ELSE tasks[m]
  BY TakenTypes DEF Stored
<1>2. q \in Seq(Task) /\ q /= <<>>
  BY DEF Stored
<1> HIDE DEF R
<1>3. /\ Len(q) \in Nat \ {0} /\ Len(r) = Len(q) - 1 /\ Head(q) = q[1] /\ 1 \in 1 .. Len(q)
      /\ \A i \in 1 .. Len(r) : r[i] = q[i + 1]
  <2> HIDE DEF q
  <2> QED  BY <1>2
<1> HIDE DEF r
<1> DEFINE at(m, i) == IF m = l THEN i + 1 ELSE i
<1>4. ASSUME NEW m \in Loops, NEW i \in 1 .. Len(R[m])
      PROVE  /\ at(m, i) \in 1 .. Len(tasks[m]) /\ R[m][i] = tasks[m][at(m, i)]
             /\ m = l => at(m, i) /= 1
  <2>1. CASE m = l
    <3>1. R[m] = r /\ tasks[m] = q /\ at(m, i) = i + 1
      BY <1>1, <2>1
    <3>2. i + 1 \in 1 .. Len(q) /\ r[i] = q[i + 1] /\ i + 1 /= 1
      <4> HIDE DEF q
      <4> QED  BY <1>3, <3>1
    <3> QED  BY <3>1, <3>2
  <2>2. CASE m /= l
    BY <1>1, <2>2
  <2> QED  BY <2>1, <2>2
<1>5. \A m, i, j : i \in Nat /\ j \in Nat /\ at(m, i) = at(m, j) => i = j
  OBVIOUS
<1>6. \A m \in Loops : \A i \in 1 .. Len(R[m]) : i \in Nat
  OBVIOUS
<1> HIDE DEF at
<1>7. NoTask(tasks, c) => NoTask(R, c)
  BY <1>4 DEF NoTask
<1>8. ASSUME NEW n, NEW k, OneTask(tasks, c, n, k) PROVE OneTask(R, c, n, k)
  <2> SUFFICES ASSUME NEW m \in Loops, NEW i \in 1 .. Len(R[m]), Of(R[m][i], c)
               PROVE  /\ m = n /\ R[m][i][1] = k
                      /\ \A j \in 1 .. Len(R[m]) : Of(R[m][j], c) => j = i
    BY DEF OneTask
  <2>1. at(m, i) \in 1 .. Len(tasks[m]) /\ R[m][i] = tasks[m][at(m, i)]
    BY <1>4
  <2>2. m = n /\ R[m][i][1] = k
    BY <1>8, <2>1 DEF OneTask
  <2>3. ASSUME NEW j \in 1 .. Len(R[m]), Of(R[m][j], c) PROVE j = i
    <3>1. at(m, j) \in 1 .. Len(tasks[m]) /\ R[m][j] = tasks[m][at(m, j)]
      BY <1>4
    <3>2. at(m, j) = at(m, i)
      BY <1>8, <2>1, <2>3, <3>1 DEF OneTask
    <3> QED  BY <1>5, <1>6, <3>2
  <2> QED  BY <2>2, <2>3
<1>9. Of(Head(q), c) => ~NoTask(tasks, c)
  BY <1>3 DEF NoTask
<1>10. ASSUME NEW n, NEW k, Of(Head(q), c), OneTask(tasks, c, n, k)
       PROVE  l = n /\ Head(q)[1] = k /\ NoTask(R, c)
  <2>1. l = n /\ Head(q)[1] = k /\ \A j \in 1 .. Len(q) : Of(q[j], c) => j = 1
    BY <1>3, <1>10 DEF OneTask
  <2>2. ASSUME NEW m \in Loops, NEW i \in 1 .. Len(R[m]), Of(R[m][i], c) PROVE FALSE
    <3>1. at(m, i) \in 1 .. Len(tasks[m]) /\ Of(tasks[m][at(m, i)], c) /\ (m = l => at(m, i) /= 1)
      BY <1>4, <2>2
    <3>2. m = n
      BY <1>10, <3>1 DEF OneTask
    <3> QED  BY <2>1, <3>1, <3>2
  <2> QED  BY <2>1, <2>2 DEF NoTask
<1> QED  BY <1>7, <1>8, <1>9, <1>10 DEF NoMore, R

\* No task is in particular at most one.
LEMMA NoneIsOne ==
    ASSUME NEW Q, NEW c, NoTask(Q, c), NEW l, NEW k
    PROVE  OneTask(Q, c, l, k)
BY DEF NoTask, OneTask

LEMMA NoMoreTwice ==
    ASSUME NEW Q, NEW R, NEW S, NEW c, NoMore(Q, R, c), NoMore(R, S, c)
    PROVE  NoMore(Q, S, c)
BY DEF NoMore

\* A step that does not concern the connection.
LEMMA PhaseStays ==
    ASSUME NEW c \in Conns, Phase(c), NoMore(tasks, tasks', c),
           state_'[c] = state_[c], loopOf'[c] = loopOf[c],
           c \in Made' <=> c \in Made, c \in connections_' <=> c \in connections_,
           c \in reading' <=> c \in reading, c \in closed => c \in closed', setting' = setting
    PROVE  Phase(c)'
<1> USE DEF NoMore
<1>1. CASE Unmade(c)
  <2>1. Unmade(c)'
    BY <1>1 DEF Unmade
  <2> QED  BY <2>1 DEF Phase
<1>2. CASE Opening(c)
  <2>1. Opening(c)'
    BY <1>2 DEF Opening
  <2> QED  BY <2>1 DEF Phase
<1>3. CASE Open(c)
  <2>1. Open(c)'
    BY <1>3 DEF Open
  <2> QED  BY <2>1 DEF Phase
<1>4. CASE Closing(c)
  <2>1. Closing(c)'
    BY <1>4 DEF Closing
  <2> QED  BY <2>1 DEF Phase
<1>5. CASE Forgotten(c)
  <2>1. Forgotten(c)'
    BY <1>5 DEF Forgotten
  <2> QED  BY <2>1 DEF Phase
<1> QED  BY <1>1, <1>2, <1>3, <1>4, <1>5 DEF Phase

LEMMA PhaseStutters ==
    ASSUME NEW c \in Conns, Phase(c), UNCHANGED <<tasks, server, closed, setting>>
    PROVE  Phase(c)'
<1>1. NoMore(tasks, tasks', c)
  BY DEF NoMore
<1> QED  BY <1>1, PhaseStays DEF server, conns, Made

\* The task at the head of a queue tells the phase of its connection.
LEMMA HeadTells ==
    ASSUME Stored, NEW l \in Loops, tasks[l] /= <<>>, Head(tasks[l])[1] \in ConnTasks, Phase(arg(l))
    PROVE  /\ NoTask(taken(l), arg(l))
           /\ Head(tasks[l])[1] = "connectEstablished" => Opening(arg(l)) /\ l = loopOf[arg(l)]
           /\ Head(tasks[l])[1] = "readHandler" => Open(arg(l)) /\ l = loopOf[arg(l)]
           /\ Head(tasks[l])[1] = "removeConnectionInLoop" => Closing(arg(l))
           /\ Head(tasks[l])[1] = "connectDestroyed" => Forgotten(arg(l)) /\ l = loopOf[arg(l)]
<1> DEFINE c == arg(l)
           k == Head(tasks[l])[1]
<1>1. Of(Head(tasks[l]), c)
  BY DEF Of, arg
<1>2. /\ ~NoTask(tasks, c)
      /\ \A n, m : OneTask(tasks, c, n, m) => l = n /\ k = m /\ NoTask(taken(l), c)
  BY <1>1, TakenTask
<1> HIDE DEF c, k
<1>3. Phase(c)
  BY DEF c
<1>4. /\ NoTask(taken(l), c)
      /\ k = "connectEstablished" => Opening(c) /\ l = loopOf[c]
      /\ k = "readHandler" => Open(c) /\ l = loopOf[c]
      /\ k = "removeConnectionInLoop" => Closing(c)
      /\ k = "connectDestroyed" => Forgotten(c) /\ l = loopOf[c]
  <2>1. CASE Opening(c)
    <3>1. l = loopOf[c] /\ k = "connectEstablished" /\ NoTask(taken(l), c)
      BY <1>2, <2>1 DEF Opening
    <3> QED  BY <2>1, <3>1
  <2>2. CASE Open(c)
    <3>1. l = loopOf[c] /\ k = "readHandler" /\ NoTask(taken(l), c)
      BY <1>2, <2>2 DEF Open
    <3> QED  BY <2>2, <3>1
  <2>3. CASE Closing(c)
    <3>1. k = "removeConnectionInLoop" /\ NoTask(taken(l), c)
      BY <1>2, <2>3 DEF Closing
    <3> QED  BY <2>3, <3>1
  <2>4. CASE Forgotten(c)
    <3>1. l = loopOf[c] /\ k = "connectDestroyed" /\ NoTask(taken(l), c)
      BY <1>2, <2>4 DEF Forgotten
    <3> QED  BY <2>4, <3>1
  <2> QED  BY <1>2, <1>3, <2>1, <2>2, <2>3, <2>4 DEF Phase, Unmade
<1> QED  BY <1>4 DEF c, k

\* acceptHandler opens a connection.
LEMMA AcceptPhase ==
    ASSUME Control, Stored, acceptHandler, \A d \in Conns : Phase(d), NEW c \in Conns, setting' = setting
    PROVE  Phase(c)'
<1> DEFINE n == nextConnId_
           l == newSockBindedLoop_
           t == <<"connectEstablished", n>>
<1>1. tasks[0] /= <<>> /\ newConnection(arg(0), l)
  BY DEF acceptHandler, Takes
<1>2. 0 \in Loops /\ l \in Loops
  BY SettingFacts DEF Control, Loops
<1>3. /\ n \in Conns /\ nextConnId_' = n + 1 /\ connections_' = connections_ \cup {n} /\ closed' = closed
      /\ loopOf' = [loopOf EXCEPT ![n] = l]
      /\ \/ /\ l = 0 /\ state_' = [state_ EXCEPT ![n] = "kConnected"] /\ reading' = reading \cup {n}
            /\ tasks' = taken(0)
         \/ l /= 0 /\ state_' = state_ /\ reading' = reading /\ tasks' = Post(taken(0), l, t)
  BY <1>1 DEF newConnection, clients
<1>4. NoMore(tasks, taken(0), c) /\ taken(0) \in [Loops -> Seq(Task)]
  BY <1>1, <1>2, TakenTask, TakenTypes DEF Stored
<1>5. t \in Task
  BY <1>3 DEF Task, ConnTasks
<1>6. n \in Nat /\ n \notin Made /\ n \in Made' /\ \A d : d /= n => (d \in Made' <=> d \in Made)
  BY <1>3 DEF Made, Conns
<1>7. CASE c /= n
  <2>1. ~Of(t, c)
    BY <1>7 DEF Of
  <2>2. NoMore(tasks, tasks', c)
    BY <1>2, <1>3, <1>4, <1>5, <2>1, OtherPost, NoMoreTwice
  <2>3. /\ state_'[c] = state_[c] /\ loopOf'[c] = loopOf[c] /\ (c \in reading' <=> c \in reading)
        /\ (c \in connections_' <=> c \in connections_)
    BY <1>3, <1>7 DEF Stored
  <2> QED  BY <1>3, <1>6, <1>7, <2>2, <2>3, PhaseStays
<1>8. CASE c = n
  <2>1. Phase(n)
    BY <1>3
  <2>2. Unmade(n)
    BY <1>6, <2>1 DEF Phase, Opening, Open, Closing, Forgotten
  <2>3. NoTask(taken(0), n) /\ n \notin reading
    BY <1>4, <1>8, <2>2 DEF NoMore, Unmade
  <2>4. loopOf'[n] = l /\ n \in connections_' /\ n \in Made'
    BY <1>3, <1>6 DEF Stored
  <2>5. CASE l = 0
    <3>1. state_'[n] = "kConnected" /\ tasks' = taken(0) /\ n \in reading'
      BY <1>3, <2>5 DEF Stored
    <3>2. Open(c)'
      BY <1>8, <2>3, <2>4, <3>1, NoneIsOne DEF Open
    <3> QED  BY <3>2 DEF Phase
  <2>6. CASE l /= 0
    <3>1. /\ tasks' = Post(taken(0), l, t) /\ n \notin reading'
      BY <1>3, <2>3, <2>6
    <3>2. OneTask(tasks', n, l, "connectEstablished")
      BY <1>2, <1>3, <1>4, <2>3, <3>1, FirstPost DEF ConnTasks
    <3>3. state_'[n] = "kConnecting"
      BY <1>3, <2>2, <2>6 DEF Unmade
    <3>4. Opening(c)'
      BY <1>8, <2>4, <2>6, <3>1, <3>2, <3>3 DEF Opening
    <3> QED  BY <3>4 DEF Phase
  <2> QED  BY <2>5, <2>6
<1> QED  BY <1>7, <1>8

\* The functors and the read handler of a connection, in its loop.
LEMMA TaskPhase ==
    ASSUME Stored, NEW l \in Loops, runTask(l), \A d \in Conns : Phase(d), NEW c \in Conns, ~\E f : Fail(f),
           setting' = setting
    PROVE  Phase(c)'
<1> DEFINE d == arg(l)
           k == Head(tasks[l])[1]
           t == <<"removeConnectionInLoop", d>>
<1>1. tasks[l] /= <<>> /\ k \in ConnTasks /\ UNCHANGED <<nextConnId_, loopOf, closed>>
  BY DEF runTask, connectEstablished, readHandler, connectDestroyed, Takes, ConnTasks, clients
<1>2. d \in Conns /\ taken(l) \in [Loops -> Seq(Task)] /\ NoMore(tasks, taken(l), c) /\ 0 \in Loops
  <2>1. d \in Conns /\ taken(l) \in [Loops -> Seq(Task)]
    BY <1>1, TakenTypes DEF Stored
  <2>2. NoMore(tasks, taken(l), c)
    BY <1>1, TakenTask
  <2>3. 0 \in Loops
    BY ServerAssumption DEF Loops
  <2> QED  BY <2>1, <2>2, <2>3
<1>3. /\ NoTask(taken(l), d)
      /\ k = "connectEstablished" => Opening(d)
      /\ k = "readHandler" => Open(d)
      /\ k = "connectDestroyed" => Forgotten(d)
  <2>1. Phase(d)
    BY <1>2
  <2> QED  BY <1>1, <2>1, HeadTells
<1>4. t \in Task /\ (c /= d => ~Of(t, c))
  BY <1>2 DEF Task, ConnTasks, Of
<1>5. CASE connectEstablished(l)
  <2>1. /\ k = "connectEstablished" /\ tasks' = taken(l) /\ connections_' = connections_
        /\ state_' = [state_ EXCEPT ![d] = "kConnected"] /\ reading' = reading \cup {d}
    BY <1>5 DEF connectEstablished, Takes
  <2>2. CASE c /= d
    <3>1. state_'[c] = state_[c] /\ (c \in reading' <=> c \in reading)
      BY <2>1, <2>2 DEF Stored
    <3> QED  BY <1>1, <1>2, <2>1, <3>1, PhaseStays DEF Made
  <2>3. CASE c = d
    <3>1. state_'[d] = "kConnected" /\ d \in reading'
      BY <1>2, <2>1 DEF Stored
    <3>2. Open(c)'
      BY <1>1, <2>3, <1>3, <2>1, <3>1, NoneIsOne DEF Opening, Open, Made
    <3> QED  BY <3>2 DEF Phase
  <2> QED  BY <2>2, <2>3
<1>6. CASE readHandler(l)
  <2>1. /\ k = "readHandler" /\ handleClose(l, d) /\ reading' = reading \ {d}
    BY <1>6 DEF readHandler, Takes
  <2>2. /\ state_' = [state_ EXCEPT ![d] = "kDisconnected"]
        /\ \/ connections_' = connections_ \ {d} /\ tasks' = taken(l)
           \/ connections_' = connections_ /\ tasks' = Post(taken(l), 0, t)
    BY <2>1 DEF handleClose, removeConnection
  <2>3. CASE c /= d
    <3>1. state_'[c] = state_[c] /\ (c \in reading' <=> c \in reading) /\ (c \in connections_' <=> c \in connections_)
      BY <2>1, <2>2, <2>3 DEF Stored
    <3>2. NoMore(tasks, tasks', c)
      BY <1>2, <1>4, <2>2, <2>3, OtherPost, NoMoreTwice
    <3> QED  BY <1>1, <3>1, <3>2, PhaseStays DEF Made
  <2>4. CASE c = d
    <3>1. state_'[d] = "kDisconnected" /\ d \notin reading' /\ d \in Made /\ d \in connections_
      BY <1>2, <1>3, <2>1, <2>2 DEF Stored, Open
    <3>2. CASE connections_' = connections_ \ {d} /\ tasks' = taken(l)
      <4>1. Forgotten(c)'
        BY <1>1, <2>4, <1>3, <3>1, <3>2, NoneIsOne DEF Forgotten, Made
      <4> QED  BY <4>1 DEF Phase
    <3>3. CASE connections_' = connections_ /\ tasks' = Post(taken(l), 0, t)
      <4>1. OneTask(tasks', d, 0, "removeConnectionInLoop")
        BY <1>2, <1>3, <3>3, FirstPost DEF ConnTasks
      <4>2. Closing(c)'
        BY <1>1, <2>4, <3>1, <3>3, <4>1 DEF Closing, Made
      <4> QED  BY <4>2 DEF Phase
    <3> QED  BY <2>2, <3>2, <3>3
  <2> QED  BY <2>3, <2>4
<1>7. CASE connectDestroyed(l)
  <2>1. /\ k = "connectDestroyed" /\ tasks' = taken(l) /\ destroyed({d}) /\ UNCHANGED <<connections_, reading>>
    BY <1>7 DEF connectDestroyed, Takes
  <2>2. state_[d] = "kDisconnected"
    BY <1>3, <2>1 DEF Forgotten
  <2>3. state_'[c] = state_[c]
    <3>1. {d} \in SUBSET Conns
      BY <1>2
    <3>2. IF c \in {d} /\ state_[c] = "kConnected" THEN state_'[c] = "kDisconnected" /\ c \in down'
          ELSE state_'[c] = state_[c]
      BY <2>1, <3>1, DestroyedTypes
    <3> QED  BY <2>2, <3>2
  <2> QED  BY <1>1, <1>2, <2>1, <2>3, PhaseStays DEF Made
<1> QED  BY <1>5, <1>6, <1>7 DEF runTask

\* removeConnectionInLoop forgets a connection that is closing.
LEMMA RemovePhase ==
    ASSUME Stored, removeConnectionInLoop, \A d \in Conns : Phase(d), NEW c \in Conns, ~\E f : Fail(f),
           setting' = setting
    PROVE  Phase(c)'
<1> DEFINE d == arg(0)
           t == <<"connectDestroyed", d>>
<1>1. /\ tasks[0] /= <<>> /\ Head(tasks[0])[1] = "removeConnectionInLoop" /\ 0 \in Loops
      /\ connections_' = connections_ \ {d} /\ tasks' = Post(taken(0), loopOf[d], t)
      /\ UNCHANGED <<nextConnId_, loopOf, state_, reading, closed>>
  BY ServerAssumption DEF removeConnectionInLoop, Takes, Loops, conns, clients
<1>2. d \in Conns /\ taken(0) \in [Loops -> Seq(Task)] /\ NoMore(tasks, taken(0), c)
  BY <1>1, TakenTypes, TakenTask DEF Stored, ConnTasks
<1>3. NoTask(taken(0), d) /\ Closing(d)
  <2>1. Phase(d)
    BY <1>2
  <2> QED  BY <1>1, <2>1, HeadTells DEF ConnTasks
<1>4. t \in Task /\ (c /= d => ~Of(t, c)) /\ loopOf[d] \in Loops
  BY <1>2 DEF Task, ConnTasks, Of, Stored
<1>5. CASE c /= d
  <2>1. NoMore(tasks, tasks', c)
    BY <1>1, <1>2, <1>4, <1>5, OtherPost, NoMoreTwice
  <2> QED  BY <1>1, <1>5, <2>1, PhaseStays DEF Made
<1>6. CASE c = d
  <2>1. OneTask(tasks', d, loopOf[d], "connectDestroyed")
    BY <1>1, <1>2, <1>3, <1>4, FirstPost DEF ConnTasks
  <2>2. Forgotten(c)'
    BY <1>1, <1>6, <1>3, <2>1 DEF Closing, Forgotten, Made
  <2> QED  BY <2>2 DEF Phase
<1> QED  BY <1>5, <1>6

\* The peer of an open connection closes or resets: its one read completes, in
\* the loop of its socket, which is the connection's.
LEMMA ClosePhase ==
    ASSUME Stored, LoopsAgree, NEW d \in Conns, PeerCloses(d) \/ PeerResets(d),
           \A e \in Conns : Phase(e), NEW c \in Conns, setting' = setting
    PROVE  Phase(c)'
<1> DEFINE t == <<"readHandler", d>>
<1>1. /\ d \in reading /\ d \notin closed /\ closed' = closed \cup {d} /\ tasks' = Post(tasks, sockOf[d], t)
      /\ UNCHANGED <<connections_, nextConnId_, loopOf, state_, reading>>
  BY DEF PeerCloses, PeerResets, server, conns
<1>2. Open(d)
  <2>1. Phase(d)
    OBVIOUS
  <2> QED  BY <1>1, <2>1 DEF Phase, Unmade, Opening, Closing, Forgotten
<1>3. t \in Task /\ (c /= d => ~Of(t, c)) /\ sockOf[d] \in Loops /\ tasks \in [Loops -> Seq(Task)]
  BY DEF Task, ConnTasks, Of, Stored
<1>4. sockOf[d] = loopOf[d] /\ NoTask(tasks, d)
  BY <1>1, <1>2 DEF Open, LoopsAgree
<1>5. CASE c /= d
  <2>1. NoMore(tasks, tasks', c)
    BY <1>1, <1>3, <1>5, OtherPost
  <2> QED  BY <1>1, <1>5, <2>1, PhaseStays DEF Made
<1>6. CASE c = d
  <2>1. OneTask(tasks', d, loopOf[d], "readHandler")
    BY <1>1, <1>3, <1>4, FirstPost DEF ConnTasks
  <2>2. Open(c)'
    BY <1>1, <1>2, <1>6, <2>1 DEF Open, Made
  <2> QED  BY <2>2 DEF Phase
<1> QED  BY <1>5, <1>6

\* A connection that is shut down stays open until its peer closes too.
LEMMA ShutdownPhase ==
    ASSUME Stored, NEW d \in Conns, shutdown(d), \A e \in Conns : Phase(e), NEW c \in Conns, setting' = setting
    PROVE  Phase(c)'
<1>1. /\ state_[d] = "kConnected" /\ state_' = [state_ EXCEPT ![d] = "kDisconnecting"]
      /\ "shutsDown" \in setting.events
      /\ UNCHANGED <<tasks, connections_, nextConnId_, loopOf, reading, closed>>
  BY DEF shutdown, clients
<1>2. CASE c /= d
  <2>1. NoMore(tasks, tasks', c) /\ state_'[c] = state_[c]
    BY <1>1, <1>2 DEF NoMore, Stored
  <2> QED  BY <1>1, <2>1, PhaseStays DEF Made
<1>3. CASE c = d
  <2>1. Phase(d)
    OBVIOUS
  <2>2. Open(d)
    BY <1>1, <2>1 DEF Phase, Unmade, Opening, Closing, Forgotten
  <2>3. state_'[d] = "kDisconnecting"
    BY <1>1 DEF Stored
  <2>4. Open(c)'
    BY <1>1, <1>3, <2>2, <2>3 DEF Open, Made
  <2> QED  BY <2>4 DEF Phase
<1> QED  BY <1>2, <1>3

\* ~TcpServer of a server that has no connections posts nothing.
LEMMA IdlePhase ==
    ASSUME Stored, ServerEnds, \A d \in Made : Gone(d), \A d \in Conns : Phase(d), NEW c \in Conns,
           setting' = setting
    PROVE  Phase(c)'
<1>1. connections_ = {}
  <2> SUFFICES ASSUME NEW d \in connections_ PROVE FALSE
    OBVIOUS
  <2>1. d \in Conns
    BY DEF Stored
  <2>2. Phase(d)
    BY <2>1
  <2>3. d \in Made
    BY <2>2 DEF Phase, Unmade, Opening, Open, Closing, Forgotten
  <2> QED  BY <2>3 DEF Gone, Referenced
<1>2. /\ destroyed({d \in connections_ : loopOf[d] = 0}) /\ connections_' = {}
      /\ UNCHANGED <<nextConnId_, loopOf, reading, closed>>
  BY DEF ServerEnds, clients
<1>3. state_'[c] = state_[c]
  <2>1. {d \in connections_ : loopOf[d] = 0} = {}
    BY <1>1
  <2>2. destroyed({})
    BY <1>2, <2>1
  <2> QED  BY <2>2, DestroyedTypes
<1>4. ASSUME NEW l \in Loops PROVE tasks'[l] = tasks[l]
  <2> DEFINE p == SetToSeq(Posted(l))
             q == tasks[l]
  <2>1. q \in Seq(Task) /\ tasks'[l] = IF l = 0 THEN q ELSE q \o p
    BY EndStored DEF Stored
  <2>2. p \in Seq(Task) /\ \A i \in 1 .. Len(p) : p[i] \in Posted(l)
    BY PostedTypes DEF Stored
  <2>3. Posted(l) = {}
    BY <1>1 DEF Posted
  <2> HIDE DEF p, q
  <2>4. p = <<>>
    <3>1. Len(p) \in Nat /\ ~\E i \in 1 .. Len(p) : TRUE
      BY <2>2, <2>3
    <3>2. Len(p) = 0
      BY <3>1
    <3> QED  BY <2>2, <3>2
  <2>5. q \o p = q
    BY <2>1, <2>4
  <2> QED  BY <2>1, <2>5 DEF q
<1>5. NoMore(tasks, tasks', c)
  BY <1>4 DEF NoMore, NoTask, OneTask
<1> QED  BY <1>1, <1>2, <1>3, <1>5, PhaseStays DEF Made

\* The clients, the accepts and the threads.
LEMMA RestPhase ==
    ASSUME Stored, NEW c \in Conns, Phase(c), setting' = setting,
           \/ starting \/ ending \/ acceptHandlerError \/ ClientConnects \/ Accepted \/ AcceptFails
           \/ \E i \in Pool : threadFunc(i) \/ threadRuns(i)
    PROVE  Phase(c)'
<1>0. 0 \in Loops
  BY ServerAssumption DEF Loops
<1>1. CASE starting \/ ending \/ ClientConnects \/ \E i \in Pool : threadFunc(i) \/ threadRuns(i)
  <2>1. UNCHANGED <<tasks, server, closed>>
    BY <1>1 DEF starting, start, startLoopWait, startLoop, ending, quitThread, joinThread, Ended,
                ClientConnects, threadFunc, threadRuns, clients
  <2> QED  BY <2>1, PhaseStutters
<1>2. CASE acceptHandlerError
  <2>1. tasks[0] /= <<>> /\ tasks' = taken(0) /\ UNCHANGED <<server, closed>>
    BY <1>2 DEF acceptHandlerError, Takes, clients
  <2>2. NoMore(tasks, tasks', c)
    BY <1>0, <2>1, TakenTask
  <2> QED  BY <2>1, <2>2, PhaseStays DEF server, conns, Made
<1>3. CASE Accepted \/ AcceptFails
  <2>1. accepting /= <<>> /\ UNCHANGED <<server, closed>>
        /\ \E t \in {<<"acceptHandler", Head(accepting)>>, <<"acceptError", 0>>} : tasks' = Post(tasks, 0, t)
    BY <1>3 DEF Accepted, AcceptFails, clients
  <2>2. Head(accepting) \in Loops
    BY <2>1 DEF Stored
  <2>3. \A t \in {<<"acceptHandler", Head(accepting)>>, <<"acceptError", 0>>} : t \in Task /\ ~Of(t, c)
    BY <1>0, <2>2 DEF Task, Of, ConnTasks
  <2>4. NoMore(tasks, tasks', c)
    BY <1>0, <2>1, <2>3, OtherPost DEF Stored
  <2> QED  BY <2>1, <2>4, PhaseStays DEF server, conns, Made
<1> QED  BY <1>1, <1>2, <1>3

\* Nothing runs in a server that ended busy.
LEMMA NothingRuns ==
    ASSUME Control, Gentle, Frozen, NEW l \in Loops
    PROVE  ~Running(l)
<1>1. setting.threads = 0
  BY DEF Gentle, Frozen
<1>2. CASE l = 0
  BY <1>2 DEF Frozen, Running
<1>3. CASE l /= 0
  <2>1. l \in Pool /\ l > setting.threads
    BY <1>1, <1>3, ServerAssumption DEF Loops, Pool
  <2> QED  BY <1>3, <2>1 DEF Control, Running
<1> QED  BY <1>2, <1>3

\* A server with a pool gives no connection to its own loop, and one without
\* gives it every connection.
LEMMA OwnLoop ==
    ASSUME Turn, Control, Stored, NEW c \in Made
    PROVE  loopOf[c] = 0 <=> setting.threads = 0
<1>1. nextConnId_ /= 1 /\ c \in Nat \ {0} /\ c <= MaxConns
  BY ServerAssumption DEF Made, Stored
<1>2. loops_ = setting.threads /\ loops_ \in Nat
  BY <1>1 DEF Control, Turn
<1>3. loopOf[c] = IF loops_ = 0 THEN 0
                  ELSE IF c = 1 \/ loopOf[c - 1] = loops_ THEN 1 ELSE loopOf[c - 1] + 1
  BY DEF Turn, RoundRobin
<1>4. c /= 1 => loopOf[c - 1] \in Nat
  <2>1. c /= 1 => c - 1 \in Conns
    BY <1>1, ServerAssumption DEF Conns
  <2> QED  BY <2>1 DEF Stored, Loops
<1> QED  BY <1>1, <1>2, <1>3, <1>4

\* connectDestroyed releases only connections that are down.
LEMMA DestroyedLives ==
    ASSUME Stored, NEW l \in Loops, connectDestroyed(l), \A c \in Conns : Phase(c)
    PROVE  fault' = fault
<1> SUFFICES ASSUME NEW c \in Conns, Gone(c)', state_'[c] /= "kDisconnected" PROVE FALSE
  BY DEF connectDestroyed, dtor
<1>1. tasks[l] /= <<>> /\ Head(tasks[l])[1] \in ConnTasks /\ destroyed({arg(l)})
      /\ UNCHANGED <<connections_, nextConnId_>>
  BY DEF connectDestroyed, Takes, ConnTasks
<1>2. {arg(l)} \in SUBSET Conns
  BY <1>1, TakenTypes DEF Stored
<1>3. state_[c] /= "kDisconnected"
  BY <1>1, <1>2, DestroyedTypes
<1>4. Phase(c)
  OBVIOUS
<1>5. c \in connections_ \/ c \notin Made
  BY <1>3, <1>4 DEF Phase, Unmade, Opening, Open, Closing, Forgotten
<1> QED  BY <1>1, <1>5 DEF Gone, Referenced, Made

\* Nor does ~TcpServer, of a server that has no connections, or that has no pool
\* and none that is shut down.
LEMMA EndLives ==
    ASSUME Turn, Control, Stored, Gentle, ServerEnds, \A c \in Conns : Phase(c)
    PROVE  fault' = fault
<1> SUFFICES ASSUME NEW c \in Conns, Gone(c)', ~Gone(c), state_'[c] /= "kDisconnected" PROVE FALSE
  BY DEF ServerEnds, dtor
<1>1. destroyed({d \in connections_ : loopOf[d] = 0}) /\ nextConnId_' = nextConnId_
      /\ ("endsBusy" \in setting.events \/ \A d \in Made : Gone(d))
  BY DEF ServerEnds
<1>2. c \in Made
  BY <1>1 DEF Gone, Made
<1>3. setting.threads = 0 /\ "shutsDown" \notin setting.events
  BY <1>1, <1>2 DEF Gentle
<1>4. loopOf[c] = 0
  BY <1>2, <1>3, OwnLoop
<1>5. {d \in connections_ : loopOf[d] = 0} \in SUBSET Conns
  BY DEF Stored
<1>6. state_[c] /= "kDisconnected" /\ ~(c \in connections_ /\ state_[c] = "kConnected")
  BY <1>1, <1>4, <1>5, DestroyedTypes
<1>7. Phase(c)
  OBVIOUS
<1> QED  BY <1>2, <1>3, <1>4, <1>6, <1>7 DEF Phase, Unmade, Opening, Open, Closing, Forgotten

\* readHandler with an error: the server's map still holds the connection when
\* its loop is another one.
LEMMA ReadLives ==
    ASSUME Turn, Control, Stored, NEW l \in Loops, readHandler(l), fault = "none",
           Open(arg(l)), l = loopOf[arg(l)], reset = {} \/ setting.threads > 0
    PROVE  fault' = "none"
<1>1. readHandlerFault(l, arg(l)) = "none"
  BY DEF Open, readHandlerFault, Gone, Referenced
<1>2. /\ handleClose(l, arg(l)) /\ nextConnId_' = nextConnId_
      /\ fault' = IF \E c \in reset \cap {arg(l)} : Gone(c)' THEN "useAfterFree" ELSE fault
  BY <1>1 DEF readHandler
<1>3. ASSUME NEW c \in reset \cap {arg(l)}, Gone(c)' PROVE FALSE
  <2>1. c \in Made /\ c \in connections_ /\ l = loopOf[c] /\ setting.threads > 0
    BY <1>3 DEF Open
  <2>2. l /= 0
    BY <2>1, OwnLoop DEF Control
  <2>3. connections_' = connections_
    BY <1>2, <2>2 DEF handleClose, removeConnection
  <2> QED  BY <1>3, <2>1, <2>3 DEF Gone, Referenced
<1> QED  BY <1>2, <1>3

\* No assert fails, nothing throws and no dead connection is touched.
LEMMA NoStepFails ==
    ASSUME Turn, Control, Stored, Gentle, fault = "none", reset = {} \/ "resets" \in setting.events,
           Frozen \/ \A c \in Conns : Phase(c), Next
    PROVE  fault' = "none"
<1> USE DEF Takes
<1>0. 0 \in Loops
  BY ServerAssumption DEF Loops
<1>1. CASE acceptHandlerThrows
  BY <1>1 DEF acceptHandlerThrows, Gentle
<1>2. CASE removeConnectionInLoop
  <2>1. tasks[0] /= <<>> /\ Head(tasks[0])[1] = "removeConnectionInLoop" /\ Running(0)
    BY <1>2 DEF removeConnectionInLoop
  <2>2. arg(0) \in Conns
    BY <1>0, <2>1, TakenTypes DEF Stored, ConnTasks
  <2>3. Phase(arg(0))
    BY <1>0, <2>1, <2>2, NothingRuns
  <2>4. arg(0) \in connections_
    BY <1>0, <2>1, <2>3, HeadTells DEF ConnTasks, Closing
  <2> QED  BY <1>2, <2>4 DEF removeConnectionInLoop
<1>3. ASSUME NEW l \in Loops, runTask(l) PROVE fault' = "none"
  <2>1. CASE connectEstablished(l)
    BY <2>1 DEF connectEstablished
  <2>2. CASE connectDestroyed(l)
    <3>1. \A c \in Conns : Phase(c)
      BY <2>2, NothingRuns DEF connectDestroyed
    <3> QED  BY <2>2, <3>1, DestroyedLives
  <2>3. CASE readHandler(l)
    <3>1. tasks[l] /= <<>> /\ Head(tasks[l])[1] = "readHandler" /\ Running(l)
      BY <2>3 DEF readHandler
    <3>2. arg(l) \in Conns
      BY <3>1, TakenTypes DEF Stored, ConnTasks
    <3>3. Phase(arg(l))
      BY <3>1, <3>2, NothingRuns
    <3>4. Open(arg(l)) /\ l = loopOf[arg(l)]
      BY <3>1, <3>3, HeadTells DEF ConnTasks
    <3>5. reset = {} \/ setting.threads > 0
      BY DEF Gentle
    <3> QED  BY <2>3, <3>4, <3>5, ReadLives
  <2> QED  BY <1>3, <2>1, <2>2, <2>3 DEF runTask
<1>4. ASSUME NEW c \in Conns, ReadAborted(c) PROVE FALSE
  <2>1. Gone(c) /\ c \in reading /\ Running(sockOf[c]) /\ sockOf[c] \in Loops
    BY <1>4 DEF ReadAborted, Stored
  <2>2. Phase(c)
    BY <2>1, NothingRuns
  <2>3. c \in connections_
    BY <2>1, <2>2 DEF Phase, Unmade, Opening, Open, Closing, Forgotten
  <2> QED  BY <2>1, <2>3 DEF Gone, Referenced
<1>5. CASE starting \/ acceptHandler \/ acceptHandlerError \/ ending
           \/ ClientConnects \/ Accepted \/ AcceptFails
  BY <1>5 DEF starting, start, startLoopWait, startLoop, acceptHandler, newConnection, acceptHandlerError,
              ending, quitThread, joinThread, Ended, ClientConnects, Accepted, AcceptFails
<1>6. ASSUME NEW i \in Pool, threadFunc(i) \/ threadRuns(i) PROVE fault' = "none"
  BY <1>6 DEF threadFunc, threadRuns
<1>7. ASSUME NEW c \in Conns, PeerCloses(c) \/ PeerResets(c) PROVE fault' = "none"
  BY <1>7 DEF PeerCloses, PeerResets
<1>8. ASSUME NEW c \in Conns, shutdown(c) PROVE fault' = "none"
  <2>1. reset = {}
    BY <1>8 DEF shutdown, Gentle
  <2> QED  BY <1>8, <2>1 DEF shutdown
<1>9. CASE ServerEnds
  <2>1. \A c \in Conns : Phase(c)
    BY <1>9 DEF ServerEnds, Control, Frozen
  <2> QED  BY <1>9, <2>1, EndLives
<1> QED  BY <1>1, <1>2, <1>3, <1>4, <1>5, <1>6, <1>7, <1>8, <1>9 DEF Next, baseTask, Loops

\* What a step leaves of the setting, of a stopped loop and of the peers that reset.
Lasts ==
    /\ setting' = setting /\ stopped \subseteq stopped'
    /\ reset' = reset \/ "resets" \in setting.events

\* Every step leaves that.
LEMMA FrozenStays ==
    ASSUME Next
    PROVE  Lasts
<1> USE DEF Step, Takes, Fail, threads, clients, Lasts
<1>1. CASE starting \/ ending \/ ServerEnds
  BY <1>1 DEF starting, start, startLoopWait, startLoop, ending, quitThread, joinThread, Ended, ServerEnds
<1>2. CASE baseTask
  BY <1>2 DEF baseTask, acceptHandler, newConnection, acceptHandlerThrows, acceptHandlerError, removeConnectionInLoop
<1>3. ASSUME NEW i \in Pool, threadFunc(i) \/ threadRuns(i) PROVE Lasts
  BY <1>3 DEF threadFunc, threadRuns
<1>4. ASSUME NEW l \in Loops, runTask(l) PROVE Lasts
  BY <1>4 DEF runTask, connectEstablished, readHandler, connectDestroyed
<1>5. ASSUME NEW c \in Conns, PeerCloses(c) \/ PeerResets(c) \/ shutdown(c) \/ ReadAborted(c) PROVE Lasts
  BY <1>5 DEF PeerCloses, PeerResets, shutdown, ReadAborted
<1>6. CASE ClientConnects \/ Accepted \/ AcceptFails
  BY <1>6 DEF ClientConnects, Accepted, AcceptFails
<1> QED  BY <1>1, <1>2, <1>3, <1>4, <1>5, <1>6 DEF Next, Loops

\* Every connection is in one of its phases, and the process goes on.
Sound ==
    Gentle => /\ fault = "none" /\ (reset = {} \/ "resets" \in setting.events)
              /\ Frozen \/ \A c \in Conns : Phase(c)

LEMMA SoundStep ==
    ASSUME Turn, Control, Stored, LoopsAgree, Sound, Next
    PROVE  Sound'
<1>1. setting' = setting /\ stopped \subseteq stopped' /\ (reset' = reset \/ "resets" \in setting.events)
  BY FrozenStays DEF Lasts
<1> SUFFICES ASSUME Gentle PROVE fault' = "none" /\ (Frozen' \/ \A c \in Conns : Phase(c)')
  BY <1>1 DEF Sound, Gentle
<1>2. fault = "none" /\ (reset = {} \/ "resets" \in setting.events) /\ (Frozen \/ \A c \in Conns : Phase(c))
  BY DEF Sound
<1>3. fault' = "none"
  BY <1>2, NoStepFails
<1>4. CASE Frozen
  BY <1>1, <1>3, <1>4 DEF Frozen
<1>5. CASE ServerEnds /\ "endsBusy" \in setting.events
  BY <1>1, <1>3, <1>5 DEF ServerEnds, Frozen
<1>6. CASE (\A c \in Conns : Phase(c)) /\ ~(ServerEnds /\ "endsBusy" \in setting.events)
  <2> SUFFICES ASSUME NEW c \in Conns PROVE Phase(c)'
    BY <1>3
  <2>1. Phase(c) /\ \A d \in Conns : Phase(d)
    BY <1>6
  <2>2. \A f : Fail(f) => f = "none"
    BY <1>3 DEF Fail
  <2>3. CASE \E f : Fail(f)
    BY <1>1, <2>1, <2>3, PhaseStutters DEF Fail, clients
  <2>4. CASE ~\E f : Fail(f)
    <3>1. CASE acceptHandler
      BY <1>1, <2>1, <3>1, AcceptPhase
    <3>2. ASSUME NEW l \in Loops, runTask(l) PROVE Phase(c)'
      BY <1>1, <2>1, <2>4, <3>2, TaskPhase
    <3>3. CASE removeConnectionInLoop
      BY <1>1, <2>1, <2>4, <3>3, RemovePhase
    <3>4. ASSUME NEW d \in Conns, PeerCloses(d) \/ PeerResets(d) \/ shutdown(d) PROVE Phase(c)'
      BY <1>1, <2>1, <3>4, ClosePhase, ShutdownPhase
    <3>5. CASE ServerEnds
      <4>1. \A d \in Made : Gone(d)
        BY <1>6, <3>5 DEF ServerEnds
      <4> QED  BY <1>1, <2>1, <3>5, <4>1, IdlePhase
    <3>6. CASE acceptHandlerThrows \/ \E d \in Conns : ReadAborted(d)
      BY <2>4, <3>6 DEF acceptHandlerThrows, ReadAborted
    <3> QED
      BY <1>1, <2>1, <3>1, <3>2, <3>3, <3>4, <3>5, <3>6, RestPhase DEF Next, baseTask, Loops
  <2> QED  BY <2>3, <2>4
<1> QED  BY <1>2, <1>4, <1>5, <1>6

\* No assert of the server or of its connections fails, nothing throws and no
\* connection is used after it is gone, for any number of threads and of clients,
\* outside NoFault's exceptions: a peer that resets before its connection is made,
\* on a server without a pool or after a shutdown, and a server destroyed while it
\* has connections and a pool, or connections that are shut down.
THEOREM ServerNeverFails == Spec => []NoFault
<1>1. Init => Sound
  <2> SUFFICES ASSUME Init, NEW c \in Conns PROVE Phase(c)
    BY DEF Init, Sound
  <2>1. connections_ = {} /\ reading = {} /\ state_[c] = "kConnecting" /\ nextConnId_ = 1
        /\ \A l \in Loops : tasks[l] = <<>>
    BY DEF Init, Loops
  <2>2. c \notin Made
    BY <2>1 DEF Made
  <2>3. NoTask(tasks, c)
    BY <2>1 DEF NoTask
  <2> QED  BY <2>1, <2>2, <2>3 DEF Phase, Unmade
<1>2. Turn /\ Control /\ Stored /\ LoopsAgree /\ Sound /\ [Next]_vars => Sound'
  <2> SUFFICES ASSUME Turn, Control, Stored, LoopsAgree, Sound, [Next]_vars PROVE Sound'
    OBVIOUS
  <2>1. CASE UNCHANGED vars
    <3>1. \A c \in Conns : Phase(c) => Phase(c)'
      BY <2>1, PhaseStutters DEF vars, clients
    <3> QED  BY <2>1, <3>1 DEF vars, threads, clients, Sound, Gentle, Frozen
  <2>2. CASE Next
    BY <2>2, SoundStep
  <2> QED  BY <2>1, <2>2
<1>3. Control /\ Sound => NoFault
  <2> SUFFICES ASSUME Control, Sound, ~NoFault PROVE FALSE
    OBVIOUS
  <2>1. setting.threads \in Nat
    BY SettingFacts DEF Control
  <2> QED  BY <2>1 DEF Sound, Gentle, NoFault
<1> QED
  BY <1>1, <1>2, <1>3, TurnHolds, ServerTypes, LoopsAlwaysAgree, PTL DEF Spec
=============================================================================

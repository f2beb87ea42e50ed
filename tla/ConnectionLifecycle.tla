------------------------ MODULE ConnectionLifecycle -------------------------
(***************************************************************************)
(* The life of one TcpConnection (net/TcpConnection.cpp) between its owner *)
(* (TcpServer or TcpClient), its I/O loop, the application and the peer.   *)
(*                                                                         *)
(* Three threads take steps: the connection's I/O loop, the base loop that *)
(* keeps a TcpServer's map, and a thread of the application's.  A handler  *)
(* runs to its end in one step, except that it stops inside the UP and the *)
(* message callback, where the application may call the connection's       *)
(* methods; a call from another thread is one step per access to state_.   *)
(*                                                                         *)
(* Lifetime is modelled as shared_ptr has it: the object lives as long as  *)
(* the owner, the application, a running callback or a queued functor      *)
(* holds a pointer.  The functors of shutdownInLoop, startReadInLoop,      *)
(* stopReadInLoop, readHandler and writeHandler hold only the raw `this`.  *)
(* What would end the process (an assert, an exception out of the loop, an *)
(* access to the dead object) is recorded in fault and ends the behaviour. *)
(***************************************************************************)
EXTENDS Naturals, Sequences, FiniteSets

CONSTANTS Settings,  \* the ways in which the connection is owned and used
          MaxReads,  \* bound on outstanding async_read_somes
          MaxWrites, \* bound on outstanding async_sends
          MaxTasks,  \* bound on queued functors when a thread posts one
          MaxDowns   \* bound on the closes after which a thread starts no call

\* "serverLoop": TcpServer, the connection on the server's own loop;
\* "serverPool": TcpServer, the connection on a loop of the pool.
Owners == {"serverLoop", "serverPool", "client"}

Sites == {"up", "message", "loop", "thread"}

Calls == {"send", "shutdown", "forceClose", "stopRead", "startRead"}

\* uses: the calls the application makes, and from where.  careful: it holds a
\* pointer while it has paused reading or has sends outstanding.  events: what
\* may happen to the connection.
ASSUME LifecycleAssumption ==
    /\ Settings \subseteq [owner : Owners, uses : SUBSET (Sites \X Calls), careful : BOOLEAN,
                           events : SUBSET {"fin", "rst", "serverEnds"}]
    /\ MaxReads \in Nat \ {0}
    /\ MaxWrites \in Nat
    /\ MaxTasks \in Nat
    /\ MaxDowns \in Nat

VARIABLES
    state_,     \* TcpConnection::state_
    reading_,   \* TcpConnection::reading_
    reads,      \* outstanding async_read_somes, the queued handlers included
    writes,     \* async_sends the kernel has not completed
    shut,       \* shutdown(SHUT_WR) has been called on the socket
    peer,       \* "open", "fin" or "rst", as the socket would report it
    owned,      \* the owner's map (or connection_) holds the pointer
    held,       \* the application holds a pointer
    ioTasks,    \* functors and handlers queued in the connection's loop
    baseTasks,  \* functors queued in the server's base loop
    at,         \* where the I/O loop is: "idle", in a callback, or "quit"
    call,       \* where the application's thread is in shutdown or forceClose
    alive,      \* the object exists
    ups, downs, \* connectionCallback_ invocations
    fault,      \* what has ended the process, or "none"
    setting     \* the setting, which never changes

object == <<state_, reading_, shut, ups, downs>>
ops == <<reads, writes>>
refs == <<owned, held>>
loops == <<ioTasks, baseTasks, at>>
vars == <<state_, reading_, reads, writes, shut, peer, owned, held, ioTasks, baseTasks,
          at, call, alive, ups, downs, fault, setting>>

\* Functors that hold a shared_ptr, and those that hold the raw `this`.
OwningTasks == {"connectEstablished", "connectDestroyed", "forceCloseInLoop"}
RawTasks == {"shutdownInLoop", "startReadInLoop", "stopReadInLoop", "readHandler", "writeHandler"}

\* TcpServer::newConnection, TcpClient::newConnection: the owner has stored
\* the new connection, and connectEstablished is the next thing to run.
Init ==
    /\ state_ = "kConnecting" /\ reading_ = TRUE /\ reads = 0 /\ writes = 0
    /\ shut = FALSE /\ peer = "open"
    /\ owned = TRUE /\ held = FALSE
    /\ ioTasks = <<"connectEstablished">> /\ baseTasks = <<>>
    /\ at = "idle" /\ call = "none"
    /\ alive = TRUE /\ ups = 0 /\ downs = 0
    /\ fault = "none"
    /\ setting \in Settings

-----------------------------------------------------------------------------
(* Lifetime.                                                               *)

\* Somebody holds a shared_ptr.
Referenced ==
    \/ owned
    \/ held
    \/ call /= "none"
    \/ at \in {"upCallback", "messageCallback"}
    \/ baseTasks /= <<>>
    \/ \E i \in 1 .. Len(ioTasks) : ioTasks[i] \in OwningTasks

\* The end of a step that may have released a pointer: with the last one the
\* object goes, and ~TcpConnection asserts its state.
Release ==
    /\ alive' = (alive /\ Referenced')
    /\ fault' = IF alive /\ ~alive' /\ state_' /= "kDisconnected" THEN "dtorAssert" ELSE "none"

Fail(f) == fault' = f /\ UNCHANGED <<object, refs, loops, ops, peer, call, alive>>

\* The process lives and takes a step.
Step == fault = "none" /\ UNCHANGED setting

Queued(task) == Cardinality({i \in 1 .. Len(ioTasks) : ioTasks[i] = task})

\* A writeHandler is still to run.
sending == writes > 0 \/ Queued("writeHandler") > 0

\* The loop is about to run a functor or a handler.
Takes(task) == Step /\ at = "idle" /\ ioTasks /= <<>> /\ Head(ioTasks) = task

-----------------------------------------------------------------------------
(* Closing.                                                                *)

\* The assert in handleClose, and the one its closeCallback_ meets inline.
handleCloseFault ==
    IF state_ \notin {"kConnected", "kDisconnecting"} THEN "handleCloseAssert"
    ELSE IF setting.owner /= "serverPool" /\ ~owned THEN "removeAssert"
    ELSE "none"

\* closeCallback_.  removeConnection of a TcpServer goes through its base
\* loop, which is the running one for "serverLoop": there the erasure and
\* connectDestroyed (with nothing left to do) happen inline.
closeCallback(io) ==
    \/ /\ setting.owner = "serverLoop"
       /\ owned' = FALSE
       /\ ioTasks' = io
       /\ UNCHANGED baseTasks
    \/ /\ setting.owner = "serverPool"
       /\ baseTasks' = Append(baseTasks, "removeConnectionInLoop")
       /\ ioTasks' = io
       /\ UNCHANGED owned
    \/ /\ setting.owner = "client"
       /\ owned' = FALSE
       /\ ioTasks' = Append(io, "connectDestroyed")
       /\ UNCHANGED baseTasks

\* handleClose that does not call connectionCallback_.
handleCloseSilent(io) ==
    /\ state_' = "kDisconnected"
    /\ reading_' = FALSE
    /\ closeCallback(io)
    /\ UNCHANGED <<shut, ups, downs, held>>

\* handleClose, entered with io in the loop's queue.  The application may drop
\* its pointer in the DOWN callback, and calls nothing there.
handleClose(io) ==
    /\ state_' = "kDisconnected"
    /\ reading_' = FALSE
    /\ downs' = downs + 1
    /\ held' \in {held, setting.careful /\ sending /\ held}
    /\ closeCallback(io)
    /\ UNCHANGED <<shut, ups>>

\* TcpServer::removeConnectionInLoop on the base loop.
removeConnectionInLoop ==
    /\ Step /\ baseTasks /= <<>>
    /\ IF ~owned THEN Fail("removeAssert")
       ELSE /\ owned' = FALSE
            /\ baseTasks' = Tail(baseTasks)
            /\ ioTasks' = Append(ioTasks, "connectDestroyed")
            /\ UNCHANGED <<object, held, at, ops, peer, call>>
            /\ Release

\* connectDestroyed, as a functor in the I/O loop.
connectDestroyed ==
    /\ Takes("connectDestroyed")
    /\ ioTasks' = Tail(ioTasks)
    /\ state_' = IF state_ = "kConnected" THEN "kDisconnected" ELSE state_
    /\ downs' = IF state_ = "kConnected" THEN downs + 1 ELSE downs
    /\ UNCHANGED <<reading_, shut, ups, refs, baseTasks, at, ops, peer, call>>
    /\ Release

\* TcpServer::~TcpServer on the loop of the connection: connectDestroyed runs
\* inline, then the loop is told to quit and no handler runs any more.
ServerEnds ==
    /\ "serverEnds" \in setting.events /\ setting.owner = "serverLoop"
    /\ Step /\ at = "idle" /\ owned /\ ups = 1
    /\ owned' = FALSE
    /\ at' = "quit"
    /\ state_' = IF state_ = "kConnected" THEN "kDisconnected" ELSE state_
    /\ downs' = IF state_ = "kConnected" THEN downs + 1 ELSE downs
    /\ UNCHANGED <<reading_, shut, ups, held, ioTasks, baseTasks, ops, peer, call>>
    /\ Release

-----------------------------------------------------------------------------
(* Establishing and reading.                                               *)

\* connectEstablished, up to the connection callback, in which the
\* application may keep the pointer.
connectEstablished ==
    /\ Takes("connectEstablished")
    /\ IF state_ /= "kConnecting" THEN Fail("establishedAssert")
       ELSE /\ state_' = "kConnected"
            /\ reads' = reads + 1
            /\ ups' = ups + 1
            /\ at' = "upCallback"
            /\ held' \in BOOLEAN
            /\ ioTasks' = Tail(ioTasks)
            /\ UNCHANGED <<reading_, shut, downs, owned, baseTasks, writes, peer, call>>
            /\ Release

EndUpCallback ==
    /\ Step /\ at = "upCallback"
    /\ at' = "idle"
    /\ UNCHANGED <<object, refs, ioTasks, baseTasks, ops, peer, call>>
    /\ Release

\* The reactor finds the socket readable (data, end of stream or error).
ReadReady ==
    /\ Step /\ at /= "quit" /\ alive /\ Queued("readHandler") < reads
    /\ ioTasks' = Append(ioTasks, "readHandler")
    /\ UNCHANGED <<object, refs, ops, baseTasks, at, peer, call, alive, fault>>

\* readHandler with data, up to the message callback.
readHandlerData ==
    /\ Takes("readHandler") /\ alive /\ peer = "open"
    /\ ioTasks' = Tail(ioTasks)
    /\ reads' = reads - 1
    /\ at' = "messageCallback"
    /\ UNCHANGED <<object, refs, baseTasks, writes, peer, call, alive, fault>>

\* readHandler after the message callback that does not look at reading_.
readHandlerRearmAlways ==
    /\ Step /\ at = "messageCallback"
    /\ reads < MaxReads
    /\ at' = "idle"
    /\ reads' = reads + 1
    /\ UNCHANGED <<object, refs, ioTasks, baseTasks, writes, peer, call>>
    /\ alive' = (alive /\ Referenced')
    /\ fault' = IF alive' THEN "none" ELSE "useAfterFree"

\* readHandler after the message callback: the temporary pointer is released,
\* then reading_ is looked at and the next read is started.
readHandlerRearm ==
    /\ Step /\ at = "messageCallback"
    /\ reading_ => reads < MaxReads
    /\ at' = "idle"
    /\ reads' = IF reading_ THEN reads + 1 ELSE reads
    /\ UNCHANGED <<object, refs, ioTasks, baseTasks, writes, peer, call>>
    /\ alive' = (alive /\ Referenced')
    /\ fault' = IF alive' THEN "none" ELSE "useAfterFree"

\* readHandler that takes the end of the stream for an empty read.
readHandlerEofIgnored ==
    /\ Takes("readHandler") /\ alive /\ peer = "fin"
    /\ ioTasks' = Tail(ioTasks)
    /\ UNCHANGED <<object, refs, baseTasks, at, ops, peer, call, alive, fault>>

\* readHandler at the end of the stream.
readHandlerEof ==
    /\ Takes("readHandler") /\ alive /\ peer = "fin"
    /\ IF handleCloseFault /= "none" THEN Fail(handleCloseFault)
       ELSE /\ handleClose(Tail(ioTasks))
            /\ reads' = reads - 1
            /\ UNCHANGED <<at, writes, peer, call>>
            /\ Release

\* readHandler with an error: handleError closes, and then reading_ (FALSE by
\* now) is looked at, in an object that may be gone.
readHandlerError ==
    /\ Takes("readHandler") /\ alive /\ peer = "rst"
    /\ IF handleCloseFault /= "none" THEN Fail(handleCloseFault)
       ELSE /\ handleClose(Tail(ioTasks))
            /\ reads' = reads - 1
            /\ UNCHANGED <<at, writes, peer, call>>
            /\ alive' = (alive /\ Referenced')
            /\ fault' = IF alive' THEN "none" ELSE "useAfterFree"

\* The socket is closed with the object; its reads are aborted, and readHandler
\* runs on memory that has been freed.
ReadAborted == Step /\ at = "idle" /\ ~alive /\ reads > 0 /\ Fail("useAfterFree")

\* The kernel completes a pending async_send.
WriteReady ==
    /\ Step /\ at /= "quit" /\ alive /\ writes > 0 /\ peer /= "rst" /\ ~shut
    /\ writes' = writes - 1
    /\ ioTasks' = Append(ioTasks, "writeHandler")
    /\ UNCHANGED <<object, refs, baseTasks, at, reads, peer, call, alive, fault>>

\* A pending async_send fails or is aborted; writeHandler only logs that.
WriteFails ==
    /\ Step /\ writes > 0 /\ (~alive \/ peer = "rst" \/ shut)
    /\ writes' = writes - 1
    /\ UNCHANGED <<object, refs, loops, reads, peer, call, alive, fault>>

\* writeHandler after a successful write; what it does is in OutputPath.
writeHandler ==
    /\ Takes("writeHandler") /\ alive
    /\ ioTasks' = Tail(ioTasks)
    /\ UNCHANGED <<object, refs, baseTasks, at, ops, peer, call, alive, fault>>

-----------------------------------------------------------------------------
(* The application's calls in the loop's thread, in a callback or from a   *)
(* handler of its own, between UP and DOWN.                                *)

Site == IF at = "upCallback" THEN "up" ELSE IF at = "messageCallback" THEN "message" ELSE "loop"

InLoop(c) ==
    /\ Step /\ at /= "quit"
    /\ ups = 1 /\ downs = 0
    /\ at = "idle" => held
    /\ <<Site, c>> \in setting.uses

\* send: the async_send is completed at once, or is left to the kernel.
send ==
    /\ InLoop("send") /\ (setting.careful => held)
    /\ writes + Queued("writeHandler") < MaxWrites
    /\ \/ /\ peer /= "rst" /\ ~shut
          /\ ioTasks' = Append(ioTasks, "writeHandler")
          /\ UNCHANGED writes
       \/ /\ writes' = writes + 1
          /\ UNCHANGED ioTasks
    /\ UNCHANGED <<object, refs, baseTasks, at, reads, peer, call, alive, fault>>

\* socket_->shutdown throws when the peer has reset the connection.
socketShutdown ==
    /\ shut' = TRUE
    /\ fault' = IF peer = "rst" THEN "exception" ELSE "none"

shutdown ==
    /\ InLoop("shutdown") /\ state_ = "kConnected"
    /\ state_' = "kDisconnecting"
    /\ socketShutdown
    /\ UNCHANGED <<reading_, ups, downs, refs, loops, ops, peer, call, alive>>

\* forceClose, with forceCloseInLoop run inline.
forceClose ==
    /\ InLoop("forceClose") /\ state_ \in {"kConnected", "kDisconnecting"}
    /\ IF handleCloseFault /= "none" THEN Fail(handleCloseFault)
       ELSE /\ handleClose(ioTasks)
            /\ UNCHANGED <<at, ops, peer, call>>
            /\ Release

stopRead ==
    /\ InLoop("stopRead") /\ reading_ /\ (setting.careful => held)
    /\ reading_' = FALSE
    /\ UNCHANGED <<state_, shut, ups, downs, refs, loops, ops, peer, call, alive, fault>>

startRead ==
    /\ InLoop("startRead") /\ ~reading_ /\ reads < MaxReads
    /\ reading_' = TRUE
    /\ reads' = reads + 1
    /\ UNCHANGED <<state_, shut, ups, downs, refs, loops, writes, peer, call, alive, fault>>

\* The application lets its pointer go.
DropPointer ==
    /\ Step /\ held
    /\ setting.careful => ~sending /\ (reading_ \/ downs > 0)
    /\ held' = FALSE
    /\ UNCHANGED <<object, owned, loops, ops, peer, call>>
    /\ Release

-----------------------------------------------------------------------------
(* The application's calls in another thread: state_ is read, written, and *)
(* the rest is queued in the loop.                                         *)

ThreadIn(c) ==
    /\ Step /\ at /= "quit"
    /\ call = "none" /\ held /\ downs < MaxDowns
    /\ <<"thread", c>> \in setting.uses

threadCheck(c, states) ==
    /\ ThreadIn(c) /\ state_ \in states
    /\ call' = c
    /\ UNCHANGED <<object, refs, loops, ops, peer, alive, fault>>

shutdownCheck == threadCheck("shutdown", {"kConnected"})

forceCloseCheck == threadCheck("forceClose", {"kConnected", "kDisconnecting"})

\* setState(kDisconnecting), whatever state_ has become.
threadSetState ==
    /\ Step /\ call \in {"shutdown", "forceClose"}
    /\ state_' = "kDisconnecting"
    /\ call' = IF call = "shutdown" THEN "shutdownSet" ELSE "forceCloseSet"
    /\ UNCHANGED <<reading_, shut, ups, downs, refs, loops, ops, peer, alive, fault>>

threadPost(task) ==
    /\ Len(ioTasks) < MaxTasks
    /\ ioTasks' = Append(ioTasks, task)
    /\ call' = "none"
    /\ UNCHANGED <<object, refs, baseTasks, at, ops, peer>>
    /\ Release

shutdownPost == Step /\ call = "shutdownSet" /\ threadPost("shutdownInLoop")

forceClosePost == Step /\ call = "forceCloseSet" /\ threadPost("forceCloseInLoop")

stopReadPost == ThreadIn("stopRead") /\ threadPost("stopReadInLoop")

startReadPost == ThreadIn("startRead") /\ threadPost("startReadInLoop")

\* send needs no functor: it is the async_send, started in this thread, and
\* completed at once or left to the kernel, where it may fail.
threadSend ==
    /\ ThreadIn("send")
    /\ writes + Queued("writeHandler") < MaxWrites
    /\ \/ /\ peer /= "rst" /\ ~shut
          /\ threadPost("writeHandler")
       \/ /\ writes' = writes + 1
          /\ UNCHANGED <<object, refs, loops, reads, peer, call, alive, fault>>

\* The loop takes a functor that holds the raw `this` of a dead object.
DanglingTask == \E task \in RawTasks : Takes(task) /\ ~alive /\ Fail("useAfterFree")

shutdownInLoop ==
    /\ Takes("shutdownInLoop") /\ alive
    /\ ioTasks' = Tail(ioTasks)
    /\ socketShutdown
    /\ UNCHANGED <<state_, reading_, ups, downs, refs, baseTasks, at, ops, peer, call, alive>>

stopReadInLoop ==
    /\ Takes("stopReadInLoop") /\ alive
    /\ ioTasks' = Tail(ioTasks)
    /\ reading_' = FALSE
    /\ UNCHANGED <<state_, shut, ups, downs, refs, baseTasks, at, ops, peer, call, alive, fault>>

startReadInLoop ==
    /\ Takes("startReadInLoop") /\ alive
    /\ reading_ \/ reads < MaxReads
    /\ ioTasks' = Tail(ioTasks)
    /\ reading_' = TRUE
    /\ reads' = IF reading_ THEN reads ELSE reads + 1
    /\ UNCHANGED <<state_, shut, ups, downs, refs, baseTasks, at, writes, peer, call, alive, fault>>

forceCloseInLoop ==
    /\ Takes("forceCloseInLoop")
    /\ IF state_ \notin {"kConnected", "kDisconnecting"}
       THEN /\ ioTasks' = Tail(ioTasks)
            /\ UNCHANGED <<object, refs, baseTasks, at, ops, peer, call>>
            /\ Release
       ELSE IF handleCloseFault /= "none" THEN Fail(handleCloseFault)
       ELSE /\ handleClose(Tail(ioTasks))
            /\ UNCHANGED <<at, ops, peer, call>>
            /\ Release

-----------------------------------------------------------------------------
(* The peer.                                                               *)

PeerCloses ==
    /\ Step /\ peer = "open" /\ "fin" \in setting.events
    /\ peer' = "fin"
    /\ UNCHANGED <<object, refs, loops, ops, call, alive, fault>>

PeerResets ==
    /\ Step /\ peer /= "rst" /\ "rst" \in setting.events
    /\ peer' = "rst"
    /\ UNCHANGED <<object, refs, loops, ops, call, alive, fault>>

runTask ==
    \/ connectEstablished \/ connectDestroyed \/ DanglingTask
    \/ readHandlerData \/ readHandlerEof \/ readHandlerError \/ writeHandler
    \/ shutdownInLoop \/ stopReadInLoop \/ startReadInLoop \/ forceCloseInLoop

endCallback == EndUpCallback \/ readHandlerRearm

reactor == ReadReady \/ ReadAborted \/ WriteReady \/ WriteFails

threadStep ==
    \/ shutdownCheck \/ forceCloseCheck \/ threadSetState
    \/ shutdownPost \/ forceClosePost \/ stopReadPost \/ startReadPost \/ threadSend

Next ==
    \/ runTask
    \/ endCallback
    \/ reactor
    \/ removeConnectionInLoop
    \/ ServerEnds
    \/ send \/ shutdown \/ forceClose \/ stopRead \/ startRead \/ DropPointer
    \/ threadStep
    \/ PeerCloses \/ PeerResets

\* The loop's queue is first-in first-out: a functor is not overtaken for ever
\* by arriving data.  Callbacks return, calls in other threads go on, the
\* application resumes reading and lets go of a connection that is down, and a
\* peer whose read returns 0 closes its side.
Fairness ==
    /\ SF_vars(runTask)
    /\ WF_vars(ReadReady \/ ReadAborted)
    /\ WF_vars(WriteReady \/ WriteFails)
    /\ WF_vars(endCallback)
    /\ WF_vars(removeConnectionInLoop)
    /\ WF_vars(threadSetState \/ shutdownPost \/ forceClosePost)
    /\ WF_vars(startRead /\ at = "idle")
    /\ WF_vars(DropPointer /\ downs > 0)
    /\ WF_vars(PeerCloses /\ shut)

Spec == Init /\ [][Next]_vars /\ Fairness

-----------------------------------------------------------------------------

\* What may end the process.
Faults == {"handleCloseAssert", "removeAssert", "establishedAssert", "dtorAssert",
           "useAfterFree", "exception"}

\* No assert of TcpConnection and of its owner fails, nothing touches the
\* object after its end, and no exception leaves the loop.
NoFault == fault = "none"

\* The application pauses in the message callback only, where no read is
\* outstanding, and resumes later, in the loop's thread.  Anywhere else stopRead
\* leaves the outstanding read alone, and startReadInLoop (TcpConnection.cpp:158)
\* adds one; in the callback that paused it reads twice, and posted from a
\* thread it may run when the connection has been closed with a read pending.
PausesInMessage ==
    /\ \A x \in Sites : <<x, "stopRead">> \in setting.uses => x = "message"
    /\ <<"message", "startRead">> \notin setting.uses
    /\ <<"thread", "startRead">> \notin setting.uses

\* At most one async_read_some writes into inputBuffer_ at a time (two would
\* fill the same memory), through any sends and closes from any thread, for
\* every application that PausesInMessage.
OneRead == PausesInMessage => reads <= 1

\* ~TcpServer has forgotten a connection that was already shut down, about
\* which connectDestroyed (TcpConnection.cpp:192) says nothing.
EndedShutDown == at = "quit" /\ state_ = "kDisconnecting"

\* The owner forgets a connection only after the application has been told
\* DOWN, whoever closes it, from whichever thread, and when the server is
\* destroyed too, unless the connection EndedShutDown.
DownBeforeRemoval == ~owned => downs > 0 \/ EndedShutDown

\* The application and the owner see the life the contract describes.
Contract == INSTANCE ConnectionContract WITH
    phase <- CASE alive /\ ups = 0 -> "new"
               [] alive /\ ups = 1 /\ downs = 0 -> "up"
               [] alive /\ ups = 1 /\ downs = 1 -> "down"
               [] ~alive /\ ups = 1 /\ downs = 1 -> "gone"
               [] OTHER -> "broken",
    inMessage <- at = "messageCallback"

\* Refinement: UP once, DOWN once, messages in between, then the end.
KeepsContract == Contract!Spec

\* Once the peer has closed or reset the connection, or the application has
\* shut it down or closed it, its memory and its socket are released (unless
\* the loop that would do so has been told to quit).
Released == (peer /= "open" \/ shut \/ downs > 0) ~> (~alive \/ at = "quit")

\* The assert in removeConnectionInLoop (TcpServer.cpp:97): a connection is
\* removed from the map only once.
RemoveAssertHolds == fault /= "removeAssert"
=============================================================================

-------------------------- MODULE ConnectionProofs --------------------------
(***************************************************************************)
(* Proofs about the life of a connection, for every owner and every bound  *)
(* on reads, writes and queues.  Whatever the application and the peer do, *)
(* the owner forgets the connection only after DOWN (unless its server is  *)
(* destroyed after a shutdown), and there is one read at a time if the     *)
(* application pauses in the message callback.  With an application that   *)
(* the code is made for nothing fails and the contract of the callbacks is *)
(* kept.                                                                   *)
(***************************************************************************)
EXTENDS ConnectionLifecycle, FiniteSetTheorems, TLAPS

States == {"kConnecting", "kConnected", "kDisconnecting", "kDisconnected"}

\* A removal that is queued in the base loop has been preceded by a DOWN, as a
\* removal that has been made; so has the end of a connection that was up when
\* its server was destroyed, and of one that had been closed before.
Removal ==
    /\ state_ \in States
    /\ downs \in Nat
    /\ baseTasks \in Seq({"removeConnectionInLoop"})
    /\ state_ = "kConnecting" => ups = 0
    /\ state_ = "kDisconnected" => downs > 0
    /\ ~owned => downs > 0 \/ EndedShutDown
    /\ baseTasks /= <<>> => downs > 0

\* What every action but the removals leaves alone: of state_ it may make
\* kDisconnecting, and it does not set a loop going that has quit.
LEMMA RemovalStutters ==
    ASSUME Removal, UNCHANGED <<downs, baseTasks, owned, ups>>,
           state_' \in {state_, "kDisconnecting"}, at = "quit" => at' = "quit"
    PROVE  Removal'
BY DEF Removal, EndedShutDown, States

\* handleClose tells the application before it gives the connection back.
LEMMA CloseTells ==
    ASSUME Removal, NEW io, handleClose(io)
    PROVE  Removal'
<1>1. downs' \in Nat /\ downs' > 0 /\ state_' = "kDisconnected"
  BY DEF Removal, handleClose
<1>2. baseTasks' \in Seq({"removeConnectionInLoop"})
  BY DEF Removal, handleClose, closeCallback
<1> QED  BY <1>1, <1>2 DEF Removal, States

\* A step that fails changes nothing that the owner and the application see.
LEMMA FailStutters ==
    ASSUME Removal, NEW f, Fail(f)
    PROVE  Removal'
<1>1. UNCHANGED <<downs, baseTasks, owned, ups, state_, at>>
  BY DEF Fail, object, refs, loops
<1> QED  BY <1>1, RemovalStutters

\* removeConnectionInLoop runs because handleClose has posted it.
LEMMA RemoveFollows ==
    ASSUME Removal, removeConnectionInLoop
    PROVE  Removal'
<1>1. CASE Fail("removeAssert")
  BY <1>1, FailStutters
<1>2. CASE ~Fail("removeAssert")
  <2>1. downs > 0 /\ UNCHANGED <<downs, state_, ups>> /\ baseTasks' = Tail(baseTasks)
    BY <1>2 DEF removeConnectionInLoop, Removal, object
  <2>2. baseTasks' \in Seq({"removeConnectionInLoop"})
    BY <2>1 DEF Removal, removeConnectionInLoop
  <2> QED  BY <2>1, <2>2 DEF Removal
<1> QED  BY <1>1, <1>2

\* connectDestroyed in the loop may tell DOWN, and removes nothing.
LEMMA DestroyedTells ==
    ASSUME Removal, connectDestroyed
    PROVE  Removal'
<1>1. /\ downs' \in Nat /\ (downs > 0 => downs' > 0)
      /\ \/ state_' = "kDisconnected" /\ downs' > 0
         \/ UNCHANGED <<state_, downs>>
  BY DEF connectDestroyed, Removal
<1>2. UNCHANGED <<owned, baseTasks, ups, at>>
  BY DEF connectDestroyed, refs
<1> QED  BY <1>1, <1>2 DEF Removal, EndedShutDown, States

\* ~TcpServer tells DOWN of a connection that is up.  One that was closed has
\* been told of, and one that was shut down is the exception.
LEMMA EndTells ==
    ASSUME Removal, ServerEnds
    PROVE  Removal'
<1>1. /\ ups = 1 /\ ups' = ups /\ at' = "quit" /\ owned' = FALSE /\ baseTasks' = baseTasks
      /\ state_' = IF state_ = "kConnected" THEN "kDisconnected" ELSE state_
      /\ downs' = IF state_ = "kConnected" THEN downs + 1 ELSE downs
  BY DEF ServerEnds
<1>2. CASE state_ = "kConnected"
  BY <1>1, <1>2 DEF Removal, States
<1>3. CASE state_ \in {"kDisconnecting", "kDisconnected"}
  BY <1>1, <1>3 DEF Removal, EndedShutDown
<1>4. state_ /= "kConnecting"
  BY <1>1 DEF Removal
<1> QED  BY <1>2, <1>3, <1>4 DEF Removal, States

\* What the loop runs.
LEMMA TaskKeepsRemoval ==
    ASSUME Removal, runTask
    PROVE  Removal'
<1> USE DEF Takes, Step
<1>1. CASE connectEstablished
  <2>1. CASE state_ /= "kConnecting"
    BY <1>1, <2>1, FailStutters DEF connectEstablished
  <2>2. CASE state_ = "kConnecting"
    <3>1. state_' = "kConnected" /\ at = "idle" /\ UNCHANGED <<downs, baseTasks, owned>>
      BY <1>1, <2>2 DEF connectEstablished
    <3> QED  BY <3>1 DEF Removal, EndedShutDown, States
  <2> QED  BY <2>1, <2>2
<1>2. CASE connectDestroyed
  BY <1>2, DestroyedTells
<1>3. CASE DanglingTask
  BY <1>3, FailStutters DEF DanglingTask
<1>4. CASE readHandlerData \/ writeHandler \/ shutdownInLoop \/ stopReadInLoop \/ startReadInLoop
  <2>1. UNCHANGED <<downs, baseTasks, owned, ups, state_>> /\ at = "idle"
    BY <1>4 DEF readHandlerData, writeHandler, shutdownInLoop, stopReadInLoop, startReadInLoop,
                object, refs
  <2> QED  BY <2>1, RemovalStutters
<1>5. CASE readHandlerEof
  BY <1>5, CloseTells, FailStutters DEF readHandlerEof
<1>6. CASE readHandlerError
  BY <1>6, CloseTells, FailStutters DEF readHandlerError
<1>7. CASE forceCloseInLoop
  <2>1. CASE UNCHANGED <<object, refs, baseTasks, at, ops, peer, call>>
    BY <2>1, RemovalStutters DEF object, refs
  <2>2. CASE ~UNCHANGED <<object, refs, baseTasks, at, ops, peer, call>>
    BY <1>7, <2>2, CloseTells, FailStutters DEF forceCloseInLoop
  <2> QED  BY <2>1, <2>2
<1> QED  BY <1>1, <1>2, <1>3, <1>4, <1>5, <1>6, <1>7 DEF runTask

\* The callbacks, the reactor and the peer.
LEMMA LoopKeepsRemoval ==
    ASSUME Removal, endCallback \/ reactor \/ PeerCloses \/ PeerResets
    PROVE  Removal'
<1>1. CASE endCallback
  <2>1. UNCHANGED <<downs, baseTasks, owned, ups, state_>> /\ at /= "quit"
    BY <1>1 DEF endCallback, EndUpCallback, readHandlerRearm, object, refs
  <2> QED  BY <2>1, RemovalStutters
<1>2. CASE ReadAborted
  BY <1>2, FailStutters DEF ReadAborted
<1>3. CASE ReadReady \/ WriteReady \/ WriteFails \/ PeerCloses \/ PeerResets
  <2>1. UNCHANGED <<downs, baseTasks, owned, ups, state_, at>>
    BY <1>3 DEF ReadReady, WriteReady, WriteFails, PeerCloses, PeerResets, object, refs, loops
  <2> QED  BY <2>1, RemovalStutters
<1> QED  BY <1>1, <1>2, <1>3 DEF reactor

\* The application's calls, in the loop and in a thread.
LEMMA CallKeepsRemoval ==
    ASSUME Removal, send \/ shutdown \/ forceClose \/ stopRead \/ startRead \/ DropPointer \/ threadStep
    PROVE  Removal'
<1>1. CASE forceClose
  BY <1>1, CloseTells, FailStutters DEF forceClose
<1>2. CASE send \/ shutdown \/ stopRead \/ startRead \/ DropPointer
  <2>1. UNCHANGED <<downs, baseTasks, owned, ups, at>> /\ state_' \in {state_, "kDisconnecting"}
    BY <1>2 DEF send, shutdown, stopRead, startRead, DropPointer, object, refs, loops
  <2> QED  BY <2>1, RemovalStutters
<1>3. CASE threadStep
  <2>1. UNCHANGED <<downs, baseTasks, owned, ups, at>> /\ state_' \in {state_, "kDisconnecting"}
    BY <1>3 DEF threadStep, shutdownCheck, forceCloseCheck, threadCheck, threadSetState,
                shutdownPost, forceClosePost, stopReadPost, startReadPost, threadSend, threadPost,
                object, refs, loops
  <2> QED  BY <2>1, RemovalStutters
<1> QED  BY <1>1, <1>2, <1>3

\* The owner's map (TcpServer) or connection_ (TcpClient) lets a connection go
\* only after connectionCallback_ has been called with DOWN, through any calls
\* of the application from any thread, anything its peer does and the end of
\* the server; but ~TcpServer forgets a connection that was shut down and not
\* yet closed without a word.
THEOREM ToldBeforeForgotten == Spec => []DownBeforeRemoval
<1>1. Init => Removal
  BY DEF Init, Removal, States
<1>2. Removal /\ [Next]_vars => Removal'
  <2> SUFFICES ASSUME Removal, [Next]_vars PROVE Removal'
    OBVIOUS
  <2>1. CASE UNCHANGED vars
    BY <2>1, RemovalStutters DEF vars
  <2> QED
    BY <2>1, TaskKeepsRemoval, LoopKeepsRemoval, CallKeepsRemoval, RemoveFollows, EndTells DEF Next
<1>3. Removal => DownBeforeRemoval
  BY DEF Removal, DownBeforeRemoval
<1> QED
  BY <1>1, <1>2, <1>3, PTL DEF Spec

-----------------------------------------------------------------------------
(* The loop's queue.                                                       *)

Tasks == OwningTasks \cup RawTasks

\* Where, and how often, task is in the queue q.
Positions(q, task) == {i \in 1 .. Len(q) : q[i] = task}

Count(q, task) == Cardinality(Positions(q, task))

\* A count is a number, 0 if there is none.
LEMMA CountType ==
    ASSUME NEW q \in Seq(Tasks), NEW task
    PROVE  /\ IsFiniteSet(Positions(q, task))
           /\ Count(q, task) \in Nat
           /\ Count(q, task) = 0 <=> \A i \in 1 .. Len(q) : q[i] /= task
<1> DEFINE P == Positions(q, task)
<1>1. IsFiniteSet(1 .. Len(q))
  <2>1. Len(q) \in Int /\ 1 \in Int
    OBVIOUS
  <2> QED  BY <2>1, FS_Interval
<1>2. IsFiniteSet(P)
  <2>1. P \in SUBSET (1 .. Len(q))
    BY DEF Positions
  <2> QED  BY <1>1, <2>1, FS_Subset
<1>3. Cardinality(P) \in Nat /\ (Cardinality(P) = 0 <=> P = {})
  BY <1>2, FS_CardinalityType, FS_EmptySet
<1>4. P = {} <=> \A i \in 1 .. Len(q) : q[i] /= task
  BY DEF Positions
<1> QED  BY <1>2, <1>3, <1>4 DEF Count

\* The queue with one more task.
LEMMA CountAppend ==
    ASSUME NEW q \in Seq(Tasks), NEW x \in Tasks, NEW task
    PROVE  Count(Append(q, x), task) = Count(q, task) + (IF x = task THEN 1 ELSE 0)
<1> DEFINE a == Append(q, x)
           P == Positions(q, task)
           A == Positions(a, task)
<1>1. /\ Len(a) = Len(q) + 1 /\ Len(q) \in Nat /\ a[Len(q) + 1] = x
      /\ \A i \in 1 .. Len(q) : a[i] = q[i]
  OBVIOUS
<1>2. IsFiniteSet(P) /\ Count(q, task) = Cardinality(P) /\ Cardinality(P) \in Nat
  BY CountType DEF Count
<1> HIDE DEF a
<1>3. CASE x = task
  <2>1. A = P \cup {Len(q) + 1} /\ Len(q) + 1 \notin P
    BY <1>1, <1>3 DEF Positions
  <2> HIDE DEF A, P
  <2>2. Cardinality(A) = Cardinality(P) + 1
    BY <1>2, <2>1, FS_AddElement
  <2>3. Count(a, task) = Cardinality(A)
    BY DEF Count, A
  <2> QED  BY <1>2, <1>3, <2>2, <2>3 DEF a
<1>4. CASE x /= task
  <2>1. A = P
    BY <1>1, <1>4 DEF Positions
  <2>2. Count(a, task) = Count(q, task) /\ Count(q, task) \in Nat
    BY <1>2, <2>1 DEF Count
  <2> QED  BY <1>4, <2>2 DEF a
<1> QED  BY <1>3, <1>4

\* The queue without its head.
LEMMA CountTail ==
    ASSUME NEW q \in Seq(Tasks), q /= <<>>, NEW task
    PROVE  Count(q, task) = Count(Tail(q), task) + (IF Head(q) = task THEN 1 ELSE 0)
<1> DEFINE a == Tail(q)
           P == Positions(q, task)
           A == Positions(a, task)
           f == [i \in A |-> i + 1]
<1>1. /\ a \in Seq(Tasks) /\ Head(q) = q[1] /\ Len(q) \in Nat /\ Len(q) >= 1 /\ Len(a) = Len(q) - 1
      /\ \A i \in 1 .. Len(a) : a[i] = q[i + 1]
  OBVIOUS
<1> HIDE DEF a
<1>2. IsFiniteSet(P) /\ Count(q, task) = Cardinality(P) /\ Cardinality(P) \in Nat
  BY CountType DEF Count
<1>3. IsFiniteSet(A) /\ Count(a, task) = Cardinality(A) /\ Cardinality(A) \in Nat
  BY <1>1, CountType DEF Count
<1>4. f \in Bijection(A, P \ {1})
  <2>1. \A i \in A : i + 1 \in P \ {1}
    BY <1>1 DEF Positions
  <2>2. \A j \in P \ {1} : j - 1 \in A /\ (j - 1) + 1 = j
    BY <1>1 DEF Positions
  <2>3. f \in Injection(A, P \ {1})
    <3>1. \A i \in A : i \in Nat
      BY <1>1 DEF Positions
    <3> HIDE DEF A, P
    <3> QED  BY <2>1, <3>1 DEF Injection, IsInjective
  <2>4. f \in Surjection(A, P \ {1})
    <3> HIDE DEF A, P
    <3> QED  BY <2>1, <2>2 DEF Surjection
  <2> QED  BY <2>3, <2>4 DEF Bijection
<1>5. Cardinality(P \ {1}) = Cardinality(A)
  <2> HIDE DEF A, P, f
  <2>1. ExistsBijection(A, P \ {1})
    BY <1>4 DEF ExistsBijection
  <2> QED  BY <1>3, <2>1, FS_Bijection
<1>6. 1 \in P <=> Head(q) = task
  BY <1>1 DEF Positions
<1> HIDE DEF P, A
<1>7. Cardinality(P \ {1}) = IF 1 \in P THEN Cardinality(P) - 1 ELSE Cardinality(P)
  BY <1>2, FS_RemoveElement
<1> QED  BY <1>2, <1>3, <1>5, <1>6, <1>7 DEF a

\* The types of the queue with one more task, and without its head.
LEMMA TaskTypes ==
    ASSUME NEW q \in Seq(Tasks)
    PROVE  /\ \A x \in Tasks : Append(q, x) \in Seq(Tasks)
           /\ q /= <<>> => Tail(q) \in Seq(Tasks) /\ Head(q) \in Tasks
OBVIOUS

-----------------------------------------------------------------------------
(* Types.  A queued readHandler stands for a read that is counted.         *)

Scalars ==
    /\ state_ \in States
    /\ reading_ \in BOOLEAN /\ shut \in BOOLEAN /\ owned \in BOOLEAN
    /\ held \in BOOLEAN /\ alive \in BOOLEAN
    /\ writes \in 0 .. MaxWrites
    /\ peer \in {"open", "fin", "rst"}
    /\ baseTasks \in Seq({"removeConnectionInLoop"})
    /\ at \in {"idle", "upCallback", "messageCallback", "quit"}
    /\ call \in {"none", "shutdown", "shutdownSet", "forceClose", "forceCloseSet"}
    /\ ups \in Nat /\ downs \in Nat
    /\ fault \in {"none"} \cup Faults
    /\ setting \in Settings

Queue ==
    /\ ioTasks \in Seq(Tasks)
    /\ reads \in 0 .. MaxReads
    /\ Count(ioTasks, "readHandler") <= reads

\* Before connectEstablished nothing else can have happened: it reads without
\* looking at what is outstanding.
Fresh ==
    state_ = "kConnecting" =>
        /\ ioTasks = <<"connectEstablished">> /\ baseTasks = <<>>
        /\ reads = 0 /\ writes = 0 /\ ups = 0 /\ ~held /\ reading_
        /\ at = "idle" /\ call = "none"

Typed == Scalars /\ Queue /\ Fresh

\* The facts about the queue that every step uses.
LEMMA QueueFacts ==
    ASSUME Typed
    PROVE  /\ ioTasks \in Seq(Tasks) /\ reads \in Nat /\ writes \in Nat
           /\ \A task : Queued(task) = Count(ioTasks, task) /\ Count(ioTasks, task) \in Nat
           /\ \A x \in Tasks :
                 /\ Append(ioTasks, x) \in Seq(Tasks)
                 /\ \A task : Count(Append(ioTasks, x), task)
                                = Count(ioTasks, task) + (IF x = task THEN 1 ELSE 0)
           /\ ioTasks /= <<>> =>
                 /\ Tail(ioTasks) \in Seq(Tasks)
                 /\ \A task : /\ Count(Tail(ioTasks), task) \in Nat
                              /\ Count(ioTasks, task)
                                   = Count(Tail(ioTasks), task) + (IF Head(ioTasks) = task THEN 1 ELSE 0)
<1>1. ioTasks \in Seq(Tasks) /\ reads \in Nat /\ writes \in Nat
  BY LifecycleAssumption DEF Typed, Scalars, Queue
<1>2. \A task : Queued(task) = Count(ioTasks, task) /\ Count(ioTasks, task) \in Nat
  BY <1>1, CountType DEF Queued, Count, Positions
<1>3. ioTasks /= <<>> => Tail(ioTasks) \in Seq(Tasks)
  BY <1>1, TaskTypes
<1>4. ioTasks /= <<>> =>
         \A task : /\ Count(Tail(ioTasks), task) \in Nat
                   /\ Count(ioTasks, task)
                        = Count(Tail(ioTasks), task) + (IF Head(ioTasks) = task THEN 1 ELSE 0)
  BY <1>1, <1>3, CountType, CountTail
<1>5. \A x \in Tasks :
         /\ Append(ioTasks, x) \in Seq(Tasks)
         /\ \A task : Count(Append(ioTasks, x), task)
                        = Count(ioTasks, task) + (IF x = task THEN 1 ELSE 0)
  BY <1>1, TaskTypes, CountAppend
<1> QED  BY <1>1, <1>2, <1>3, <1>4, <1>5

\* What the end of a step leaves.
LEMMA ReleaseTypes == Release => alive' \in BOOLEAN /\ fault' \in {"none", "dtorAssert"}
BY DEF Release

\* A step that ends the process.
LEMMA FailTyped ==
    ASSUME Typed, NEW f \in Faults, Fail(f), UNCHANGED setting
    PROVE  Typed'
BY DEF Typed, Scalars, Queue, Fresh, Fail, object, refs, loops, ops

\* What handleClose leaves, entered with io in the queue.
LEMMA CloseTypes ==
    ASSUME Typed, NEW io \in Seq(Tasks), handleClose(io)
    PROVE  /\ state_' = "kDisconnected" /\ reading_' = FALSE
           /\ downs' \in Nat /\ downs' = downs + 1 /\ held' \in BOOLEAN /\ owned' \in BOOLEAN
           /\ ioTasks' \in Seq(Tasks) /\ baseTasks' \in Seq({"removeConnectionInLoop"})
           /\ \A task : task /= "connectDestroyed" => Count(ioTasks', task) = Count(io, task)
           /\ UNCHANGED <<shut, ups>>
<1>1. /\ owned \in BOOLEAN /\ held \in BOOLEAN /\ downs \in Nat
      /\ baseTasks \in Seq({"removeConnectionInLoop"})
  BY DEF Typed, Scalars
<1>2. /\ state_' = "kDisconnected" /\ reading_' = FALSE /\ downs' = downs + 1
      /\ held' \in {held, setting.careful /\ sending /\ held} /\ closeCallback(io)
      /\ UNCHANGED <<shut, ups>>
  BY DEF handleClose
<1>3. held' \in BOOLEAN
  BY <1>1, <1>2
<1>4. owned' \in BOOLEAN /\ baseTasks' \in Seq({"removeConnectionInLoop"})
  <2>1. owned' \in {owned, FALSE} /\ baseTasks' \in {baseTasks, Append(baseTasks, "removeConnectionInLoop")}
    BY <1>2 DEF closeCallback
  <2>2. Append(baseTasks, "removeConnectionInLoop") \in Seq({"removeConnectionInLoop"})
    BY <1>1
  <2> QED  BY <1>1, <2>1, <2>2
<1>5. ioTasks' \in {io, Append(io, "connectDestroyed")}
  BY <1>2 DEF closeCallback
<1>6. "connectDestroyed" \in Tasks
  BY DEF Tasks, OwningTasks
<1>7. Append(io, "connectDestroyed") \in Seq(Tasks)
  BY <1>6, TaskTypes
<1>8. \A task : task /= "connectDestroyed" => Count(Append(io, "connectDestroyed"), task) = Count(io, task)
  <2> SUFFICES ASSUME NEW task, task /= "connectDestroyed"
               PROVE  Count(Append(io, "connectDestroyed"), task) = Count(io, task)
    OBVIOUS
  <2>1. Count(io, task) \in Nat
    BY CountType
  <2>2. Count(Append(io, "connectDestroyed"), task) = Count(io, task) + 0
    BY <1>6, CountAppend
  <2> QED  BY <2>1, <2>2
<1>9. ioTasks' \in Seq(Tasks) /\ \A task : task /= "connectDestroyed" => Count(ioTasks', task) = Count(io, task)
  <2>1. CASE ioTasks' = io
    BY <2>1
  <2>2. CASE ioTasks' = Append(io, "connectDestroyed")
    BY <1>7, <1>8, <2>2
  <2> QED  BY <1>5, <2>1, <2>2
<1>10. downs' \in Nat
  BY <1>1, <1>2
<1> QED  BY <1>2, <1>3, <1>4, <1>9, <1>10

\* After connectEstablished only the scalars and the queue matter.
LEMMA Settled ==
    ASSUME Scalars', Queue', state_' /= "kConnecting"
    PROVE  Typed'
BY DEF Typed, Fresh

LEMMA EstablishedTyped ==
    ASSUME Typed, connectEstablished
    PROVE  Typed'
<1> USE DEF Takes, Step
<1>1. CASE state_ /= "kConnecting"
  BY <1>1, FailTyped DEF connectEstablished, Faults
<1>2. CASE state_ = "kConnecting"
  <2>1. /\ Release /\ UNCHANGED <<reading_, shut, downs, owned, baseTasks, writes, peer, call, setting>>
        /\ state_' = "kConnected" /\ at' = "upCallback" /\ held' \in BOOLEAN /\ ups' = ups + 1
        /\ reads' = reads + 1 /\ ioTasks' = Tail(ioTasks) /\ ioTasks /= <<>>
    BY <1>2 DEF connectEstablished
  <2>2. Scalars'
    BY <2>1, ReleaseTypes DEF Typed, Scalars, States, Faults
  <2>3. reads = 0
    BY <1>2 DEF Typed, Fresh
  <2>4. Count(ioTasks, "readHandler") <= 0
    BY <2>3 DEF Typed, Queue
  <2>5. Count(Tail(ioTasks), "readHandler") \in Nat /\ Count(Tail(ioTasks), "readHandler") <= 0
    BY <2>1, <2>4, QueueFacts
  <2>6. Queue'
    BY <2>1, <2>3, <2>5, QueueFacts, LifecycleAssumption DEF Queue
  <2> QED  BY <2>1, <2>2, <2>6, Settled
<1> QED  BY <1>1, <1>2

LEMMA DestroyedTyped ==
    ASSUME Typed, connectDestroyed
    PROVE  Typed'
<1> USE DEF Takes, Step
<1>1. /\ Release /\ UNCHANGED <<reading_, shut, ups, owned, held, baseTasks, at, writes, reads, peer, call, setting>>
      /\ state_' \in {state_, "kDisconnected"} /\ downs' \in {downs, downs + 1}
      /\ ioTasks' = Tail(ioTasks) /\ ioTasks /= <<>> /\ Head(ioTasks) = "connectDestroyed"
  BY DEF connectDestroyed, refs, ops
<1>2. state_ /= "kConnecting"
  BY <1>1 DEF Typed, Fresh
<1>3. Scalars'
  BY <1>1, ReleaseTypes DEF Typed, Scalars, States, Faults
<1>4. Queue'
  BY <1>1, QueueFacts DEF Typed, Queue
<1> QED  BY <1>1, <1>2, <1>3, <1>4, Settled

\* handleClose, in a step that takes one read out of the queue, or none.
LEMMA CloseTyped ==
    ASSUME Typed, NEW io \in Seq(Tasks), handleClose(io),
           UNCHANGED <<at, writes, peer, call, setting>>, alive' \in BOOLEAN,
           fault' \in {"none"} \cup Faults,
           reads' \in 0 .. MaxReads, Count(io, "readHandler") <= reads'
    PROVE  Typed'
<1>1. Scalars'
  BY CloseTypes DEF Typed, Scalars, States
<1>2. Queue'
  BY CloseTypes DEF Queue
<1>3. state_' /= "kConnecting"
  BY CloseTypes
<1> QED  BY <1>1, <1>2, <1>3, Settled

LEMMA CloseFaultTypes == handleCloseFault /= "none" => handleCloseFault \in Faults
BY DEF handleCloseFault, Faults

LEMMA ReadHandlerTyped ==
    ASSUME Typed, readHandlerData \/ readHandlerEof \/ readHandlerError
    PROVE  Typed'
<1> USE DEF Takes, Step
<1> DEFINE io == Tail(ioTasks)
<1>1. /\ ioTasks /= <<>> /\ Head(ioTasks) = "readHandler" /\ setting' = setting /\ alive
  BY DEF readHandlerData, readHandlerEof, readHandlerError
<1>2. io \in Seq(Tasks) /\ Count(io, "readHandler") \in Nat /\ Count(ioTasks, "readHandler") = Count(io, "readHandler") + 1
  BY <1>1, QueueFacts
<1>3. reads - 1 \in 0 .. MaxReads /\ Count(io, "readHandler") <= reads - 1
  BY <1>2, QueueFacts, LifecycleAssumption DEF Typed, Queue
<1>4. state_ /= "kConnecting"
  BY <1>1 DEF Typed, Fresh
<1> HIDE DEF io
<1>5. CASE readHandlerData
  <2>1. /\ UNCHANGED <<state_, reading_, shut, ups, downs, owned, held, baseTasks, writes, peer, call, alive, fault, setting>>
        /\ at' = "messageCallback" /\ reads' = reads - 1 /\ ioTasks' = io
    BY <1>5 DEF readHandlerData, object, refs, io
  <2>2. Scalars'
    BY <2>1 DEF Typed, Scalars
  <2>3. Queue'
    BY <1>2, <1>3, <2>1 DEF Queue
  <2> QED  BY <1>4, <2>1, <2>2, <2>3, Settled
<1>6. CASE readHandlerEof
  <2>1. CASE handleCloseFault /= "none"
    BY <1>1, <1>6, <2>1, FailTyped, CloseFaultTypes DEF readHandlerEof
  <2>2. CASE handleCloseFault = "none"
    <3>1. handleClose(io) /\ reads' = reads - 1 /\ UNCHANGED <<at, writes, peer, call>> /\ Release
      BY <1>6, <2>2 DEF readHandlerEof, io
    <3>2. alive' \in BOOLEAN /\ fault' \in {"none"} \cup Faults
      BY <3>1, ReleaseTypes DEF Faults
    <3> QED  BY <1>1, <1>2, <1>3, <3>1, <3>2, CloseTyped
  <2> QED  BY <2>1, <2>2
<1>7. CASE readHandlerError
  <2>1. CASE handleCloseFault /= "none"
    BY <1>1, <1>7, <2>1, FailTyped, CloseFaultTypes DEF readHandlerError
  <2>2. CASE handleCloseFault = "none"
    <3>1. handleClose(io) /\ reads' = reads - 1 /\ UNCHANGED <<at, writes, peer, call>>
      BY <1>7, <2>2 DEF readHandlerError, io
    <3>2. alive' \in BOOLEAN /\ fault' \in {"none"} \cup Faults
      BY <1>7, <2>2 DEF readHandlerError, Faults
    <3> QED  BY <1>1, <1>2, <1>3, <3>1, <3>2, CloseTyped
  <2> QED  BY <2>1, <2>2
<1> QED  BY <1>5, <1>6, <1>7

\* The functors that take nothing from the reads outstanding.
LEMMA FunctorTyped ==
    ASSUME Typed, writeHandler \/ shutdownInLoop \/ stopReadInLoop \/ startReadInLoop
    PROVE  Typed'
<1> USE DEF Takes, Step
<1>1. /\ ioTasks /= <<>> /\ Head(ioTasks) /= "readHandler" /\ Head(ioTasks) /= "connectEstablished"
      /\ ioTasks' = Tail(ioTasks)
      /\ UNCHANGED <<state_, ups, downs, owned, held, baseTasks, at, writes, peer, call, alive, setting>>
      /\ reading_' \in {reading_, TRUE, FALSE} /\ shut' \in {shut, TRUE}
      /\ fault' \in {fault, "none", "exception"}
      /\ reads' = reads \/ (reads' = reads + 1 /\ reads < MaxReads)
  BY DEF writeHandler, shutdownInLoop, stopReadInLoop, startReadInLoop, socketShutdown,
         object, refs, ops
<1>2. state_ /= "kConnecting"
  BY <1>1 DEF Typed, Fresh
<1>3. Scalars'
  <2>1. reading_' \in BOOLEAN /\ shut' \in BOOLEAN /\ fault' \in {"none"} \cup Faults
    BY <1>1 DEF Typed, Scalars, Faults
  <2> QED  BY <1>1, <2>1 DEF Typed, Scalars
<1>4. Queue'
  <2>1. reads' \in 0 .. MaxReads /\ reads' >= reads
    BY <1>1, LifecycleAssumption DEF Typed, Queue
  <2>2. Count(Tail(ioTasks), "readHandler") <= reads'
    BY <1>1, <2>1, QueueFacts, LifecycleAssumption DEF Typed, Queue
  <2> QED  BY <1>1, <2>1, <2>2, QueueFacts DEF Queue
<1> QED  BY <1>1, <1>2, <1>3, <1>4, Settled

\* forceClose in the loop's thread, and as a functor.
LEMMA ForceCloseTyped ==
    ASSUME Typed, forceClose \/ forceCloseInLoop
    PROVE  Typed'
<1> USE DEF Takes, Step, InLoop
<1>1. setting' = setting
  BY DEF forceClose, forceCloseInLoop
<1>2. CASE Fail(handleCloseFault) /\ handleCloseFault /= "none"
  BY <1>1, <1>2, FailTyped, CloseFaultTypes
<1>3. \A io \in Seq(Tasks) :
         /\ handleClose(io) /\ UNCHANGED <<at, ops, peer, call>> /\ Release
         /\ Count(io, "readHandler") <= reads
         => Typed'
  <2> SUFFICES ASSUME NEW io \in Seq(Tasks),
                      handleClose(io) /\ UNCHANGED <<at, ops, peer, call>> /\ Release,
                      Count(io, "readHandler") <= reads
               PROVE  Typed'
    OBVIOUS
  <2>1. alive' \in BOOLEAN /\ fault' \in {"none"} \cup Faults
    BY ReleaseTypes DEF Faults
  <2>2. reads' \in 0 .. MaxReads /\ Count(io, "readHandler") <= reads' /\ writes' = writes
    BY DEF ops, Typed, Queue
  <2> QED  BY <1>1, <2>1, <2>2, CloseTyped
<1>4. CASE forceClose
  <2>1. ioTasks \in Seq(Tasks) /\ Count(ioTasks, "readHandler") <= reads
    BY DEF Typed, Queue
  <2> QED  BY <1>2, <1>3, <1>4, <2>1 DEF forceClose
<1>5. CASE forceCloseInLoop
  <2>1. ioTasks /= <<>> /\ Head(ioTasks) = "forceCloseInLoop"
    BY <1>5 DEF forceCloseInLoop
  <2>2. /\ Tail(ioTasks) \in Seq(Tasks) /\ Count(Tail(ioTasks), "readHandler") <= reads
    BY <2>1, QueueFacts DEF Typed, Queue
  <2>3. CASE state_ \notin {"kConnected", "kDisconnecting"}
    <3>1. /\ ioTasks' = Tail(ioTasks) /\ Release
          /\ UNCHANGED <<state_, reading_, shut, ups, downs, owned, held, baseTasks, at, reads,
                         writes, peer, call>>
      BY <1>5, <2>3 DEF forceCloseInLoop, object, refs, ops
    <3>2. Scalars'
      BY <1>1, <3>1, ReleaseTypes DEF Typed, Scalars, Faults
    <3>3. Queue'
      BY <2>2, <3>1 DEF Typed, Queue
    <3>4. state_ /= "kConnecting"
      BY <2>1 DEF Typed, Fresh
    <3> QED  BY <3>1, <3>2, <3>3, <3>4, Settled
  <2>4. CASE state_ \in {"kConnected", "kDisconnecting"}
    BY <1>2, <1>3, <1>5, <2>2, <2>4 DEF forceCloseInLoop
  <2> QED  BY <2>3, <2>4
<1> QED  BY <1>4, <1>5

\* The loop leaves a callback.
LEMMA CallbackTyped ==
    ASSUME Typed, endCallback
    PROVE  Typed'
<1> USE DEF Step
<1>1. /\ at \in {"upCallback", "messageCallback"} /\ at' = "idle"
      /\ UNCHANGED <<state_, reading_, shut, ups, downs, owned, held, ioTasks, baseTasks, writes,
                     peer, call, setting>>
      /\ reads' = reads \/ (reads' = reads + 1 /\ reads < MaxReads)
      /\ alive' \in BOOLEAN /\ fault' \in {"none", "dtorAssert", "useAfterFree"}
  BY ReleaseTypes DEF endCallback, EndUpCallback, readHandlerRearm, object, refs, ops
<1>2. state_ /= "kConnecting"
  BY <1>1 DEF Typed, Fresh
<1>3. Scalars'
  BY <1>1 DEF Typed, Scalars, Faults
<1>4. Queue'
  BY <1>1, QueueFacts, LifecycleAssumption DEF Typed, Queue
<1> QED  BY <1>1, <1>2, <1>3, <1>4, Settled

\* The reactor completes an operation.
LEMMA ReactorTyped ==
    ASSUME Typed, reactor
    PROVE  Typed'
<1> USE DEF Step
<1>1. CASE ReadAborted
  BY <1>1, FailTyped DEF ReadAborted, Faults
<1>2. CASE ReadReady
  <2>1. /\ ioTasks' = Append(ioTasks, "readHandler") /\ Queued("readHandler") < reads
        /\ UNCHANGED <<state_, reading_, shut, ups, downs, owned, held, reads, writes, baseTasks,
                       at, peer, call, alive, fault, setting>>
    BY <1>2 DEF ReadReady, object, refs, ops
  <2>2. "readHandler" \in Tasks
    BY DEF Tasks, RawTasks
  <2>3. Queue'
    <3>1. Count(ioTasks, "readHandler") < reads /\ Count(ioTasks, "readHandler") \in Nat
      BY <2>1, QueueFacts
    <3>2. Append(ioTasks, "readHandler") \in Seq(Tasks)
          /\ Count(Append(ioTasks, "readHandler"), "readHandler") = Count(ioTasks, "readHandler") + 1
      BY <2>2, QueueFacts
    <3> QED  BY <2>1, <3>1, <3>2, QueueFacts DEF Typed, Queue
  <2>4. Scalars'
    BY <2>1 DEF Typed, Scalars
  <2>5. state_ /= "kConnecting"
    BY <2>1, QueueFacts DEF Typed, Fresh
  <2> QED  BY <2>1, <2>3, <2>4, <2>5, Settled
<1>3. CASE WriteReady
  <2>1. /\ ioTasks' = Append(ioTasks, "writeHandler") /\ writes > 0 /\ writes' = writes - 1
        /\ UNCHANGED <<state_, reading_, shut, ups, downs, owned, held, reads, baseTasks,
                       at, peer, call, alive, fault, setting>>
    BY <1>3 DEF WriteReady, object, refs
  <2>2. "writeHandler" \in Tasks
    BY DEF Tasks, RawTasks
  <2>3. Queue'
    BY <2>1, <2>2, QueueFacts DEF Typed, Queue
  <2>4. writes' \in 0 .. MaxWrites
    BY <2>1, LifecycleAssumption DEF Typed, Scalars
  <2>5. Scalars'
    BY <2>1, <2>4 DEF Typed, Scalars
  <2>6. state_ /= "kConnecting"
    BY <2>1 DEF Typed, Fresh
  <2> QED  BY <2>1, <2>3, <2>5, <2>6, Settled
<1>4. CASE WriteFails
  <2>1. /\ writes > 0 /\ writes' = writes - 1
        /\ UNCHANGED <<state_, reading_, shut, ups, downs, owned, held, reads, ioTasks, baseTasks,
                       at, peer, call, alive, fault, setting>>
    BY <1>4 DEF WriteFails, object, refs, loops
  <2>2. writes' \in 0 .. MaxWrites
    BY <2>1, LifecycleAssumption DEF Typed, Scalars
  <2>3. Scalars' /\ Queue'
    BY <2>1, <2>2 DEF Typed, Scalars, Queue
  <2>4. state_ /= "kConnecting"
    BY <2>1 DEF Typed, Fresh
  <2> QED  BY <2>1, <2>3, <2>4, Settled
<1> QED  BY <1>1, <1>2, <1>3, <1>4 DEF reactor

\* The owner lets the connection go.
LEMMA OwnerTyped ==
    ASSUME Typed, removeConnectionInLoop \/ ServerEnds
    PROVE  Typed'
<1> USE DEF Step
<1>1. CASE ServerEnds
  <2>1. /\ Release /\ at' = "quit" /\ owned' = FALSE /\ ups = 1
        /\ state_' \in {state_, "kDisconnected"} /\ downs' \in {downs, downs + 1}
        /\ UNCHANGED <<reading_, shut, ups, held, ioTasks, baseTasks, reads, writes, peer, call, setting>>
    BY <1>1 DEF ServerEnds, ops
  <2>2. Scalars'
    <3>1. state_' \in States /\ downs' \in Nat
      BY <2>1 DEF Typed, Scalars, States
    <3> QED  BY <2>1, <3>1, ReleaseTypes DEF Typed, Scalars, Faults
  <2>3. Queue'
    BY <2>1 DEF Typed, Queue
  <2>4. state_ /= "kConnecting"
    BY <2>1 DEF Typed, Fresh
  <2> QED  BY <2>1, <2>2, <2>3, <2>4, Settled
<1>2. CASE removeConnectionInLoop
  <2>1. CASE ~owned
    BY <1>2, <2>1, FailTyped DEF removeConnectionInLoop, Faults
  <2>2. CASE owned
    <3>1. /\ Release /\ owned' = FALSE /\ baseTasks /= <<>> /\ baseTasks' = Tail(baseTasks)
          /\ ioTasks' = Append(ioTasks, "connectDestroyed")
          /\ UNCHANGED <<state_, reading_, shut, ups, downs, held, at, reads, writes, peer, call, setting>>
      BY <1>2, <2>2 DEF removeConnectionInLoop, object, ops
    <3>2. baseTasks' \in Seq({"removeConnectionInLoop"})
      BY <3>1 DEF Typed, Scalars
    <3>3. Scalars'
      BY <3>1, <3>2, ReleaseTypes DEF Typed, Scalars, Faults
    <3>4. "connectDestroyed" \in Tasks
      BY DEF Tasks, OwningTasks
    <3>5. Queue'
      BY <3>1, <3>4, QueueFacts DEF Typed, Queue
    <3>6. state_ /= "kConnecting"
      BY <3>1 DEF Typed, Fresh
    <3> QED  BY <3>1, <3>3, <3>5, <3>6, Settled
  <2> QED  BY <2>1, <2>2
<1> QED  BY <1>1, <1>2

\* The application's calls in the loop's thread.
LEMMA CallTyped ==
    ASSUME Typed, send \/ shutdown \/ stopRead \/ startRead \/ DropPointer
    PROVE  Typed'
<1> USE DEF Step, InLoop
<1>1. state_ /= "kConnecting"
  BY DEF Typed, Fresh, send, shutdown, stopRead, startRead, DropPointer
<1>2. CASE send
  <2>1. /\ UNCHANGED <<state_, reading_, shut, ups, downs, owned, held, baseTasks, at, reads, peer,
                       call, alive, fault, setting>>
        /\ writes + Queued("writeHandler") < MaxWrites
        /\ \/ ioTasks' = ioTasks /\ writes' = writes + 1
           \/ ioTasks' = Append(ioTasks, "writeHandler") /\ writes' = writes
    BY <1>2 DEF send, object, refs
  <2>2. writes' \in 0 .. MaxWrites
    BY <2>1, QueueFacts, LifecycleAssumption DEF Typed, Scalars
  <2>3. Scalars'
    BY <2>1, <2>2 DEF Typed, Scalars
  <2>4. "writeHandler" \in Tasks
    BY DEF Tasks, RawTasks
  <2>5. Queue'
    <3>1. CASE ioTasks' = ioTasks
      BY <2>1, <3>1 DEF Typed, Queue
    <3>2. CASE ioTasks' = Append(ioTasks, "writeHandler")
      BY <2>1, <2>4, <3>2, QueueFacts DEF Typed, Queue
    <3> QED  BY <2>1, <3>1, <3>2
  <2> QED  BY <1>1, <2>1, <2>3, <2>5, Settled
<1>3. CASE shutdown
  <2>1. /\ state_' = "kDisconnecting" /\ shut' = TRUE /\ fault' \in {"none", "exception"}
        /\ UNCHANGED <<reading_, ups, downs, owned, held, ioTasks, baseTasks, at, reads, writes,
                       peer, call, alive, setting>>
    BY <1>3 DEF shutdown, socketShutdown, refs, loops, ops
  <2>2. Scalars'
    BY <2>1 DEF Typed, Scalars, States, Faults
  <2>3. Queue'
    BY <2>1 DEF Typed, Queue
  <2> QED  BY <2>1, <2>2, <2>3, Settled
<1>4. CASE stopRead \/ startRead
  <2>1. /\ UNCHANGED <<state_, shut, ups, downs, owned, held, ioTasks, baseTasks, at, writes,
                       peer, call, alive, fault, setting>>
        /\ reading_' \in BOOLEAN
        /\ reads' = reads \/ (reads' = reads + 1 /\ reads < MaxReads)
    BY <1>4 DEF stopRead, startRead, refs, loops, ops
  <2>2. Scalars'
    BY <2>1 DEF Typed, Scalars
  <2>3. Queue'
    BY <2>1, QueueFacts, LifecycleAssumption DEF Typed, Queue
  <2> QED  BY <1>1, <2>1, <2>2, <2>3, Settled
<1>5. CASE DropPointer
  <2>1. /\ Release /\ held' = FALSE
        /\ UNCHANGED <<state_, reading_, shut, ups, downs, owned, ioTasks, baseTasks, at, reads,
                       writes, peer, call, setting>>
    BY <1>5 DEF DropPointer, object, loops, ops
  <2>2. Scalars'
    BY <2>1, ReleaseTypes DEF Typed, Scalars, Faults
  <2>3. Queue'
    BY <2>1 DEF Typed, Queue
  <2> QED  BY <1>1, <2>1, <2>2, <2>3, Settled
<1> QED  BY <1>2, <1>3, <1>4, <1>5

\* The application's calls in another thread.
LEMMA ThreadTyped ==
    ASSUME Typed, threadStep
    PROVE  Typed'
<1> USE DEF Step, ThreadIn
<1>1. state_ /= "kConnecting"
  BY DEF Typed, Fresh, threadStep, shutdownCheck, forceCloseCheck, threadCheck, threadSetState,
         shutdownPost, forceClosePost, stopReadPost, startReadPost, threadSend
<1>2. CASE shutdownCheck \/ forceCloseCheck \/ threadSetState
  <2>1. /\ state_' \in {state_, "kDisconnecting"}
        /\ call' \in {"shutdown", "forceClose", "shutdownSet", "forceCloseSet"}
        /\ UNCHANGED <<reading_, shut, ups, downs, owned, held, ioTasks, baseTasks, at, reads, writes,
                       peer, alive, fault, setting>>
    BY <1>2 DEF shutdownCheck, forceCloseCheck, threadCheck, threadSetState, object, refs, loops, ops
  <2>2. Scalars'
    BY <2>1 DEF Typed, Scalars, States
  <2>3. Queue'
    BY <2>1 DEF Typed, Queue
  <2> QED  BY <1>1, <2>1, <2>2, <2>3, Settled
<1>3. ASSUME NEW task \in RawTasks \cup OwningTasks, task /= "readHandler", threadPost(task), UNCHANGED setting
      PROVE  Typed'
  <2>1. /\ ioTasks' = Append(ioTasks, task) /\ call' = "none" /\ Release
        /\ UNCHANGED <<state_, reading_, shut, ups, downs, owned, held, baseTasks, at, reads, writes,
                       peer, setting>>
    BY <1>3 DEF threadPost, object, refs, ops
  <2>2. Scalars'
    BY <2>1, ReleaseTypes DEF Typed, Scalars, Faults
  <2>3. Queue'
    <3>1. task \in Tasks
      BY DEF Tasks
    <3> QED  BY <1>3, <2>1, <3>1, QueueFacts DEF Typed, Queue
  <2> QED  BY <1>1, <2>1, <2>2, <2>3, Settled
<1>4. CASE shutdownPost \/ forceClosePost \/ stopReadPost \/ startReadPost
            \/ (threadSend /\ threadPost("writeHandler"))
  BY <1>3, <1>4 DEF shutdownPost, forceClosePost, stopReadPost, startReadPost, threadSend,
                    RawTasks, OwningTasks
<1>5. CASE threadSend /\ ~threadPost("writeHandler")
  <2>1. /\ writes + Queued("writeHandler") < MaxWrites /\ writes' = writes + 1
        /\ UNCHANGED <<state_, reading_, shut, ups, downs, owned, held, ioTasks, baseTasks, at, reads,
                       peer, call, alive, fault, setting>>
    BY <1>5 DEF threadSend, object, refs, loops
  <2>2. writes' \in 0 .. MaxWrites
    BY <2>1, QueueFacts, LifecycleAssumption DEF Typed, Scalars
  <2>3. Scalars' /\ Queue'
    BY <2>1, <2>2 DEF Typed, Scalars, Queue
  <2> QED  BY <1>1, <2>1, <2>3, Settled
<1> QED  BY <1>2, <1>4, <1>5 DEF threadStep

\* The peer changes nothing but what the socket reports.
LEMMA PeerTyped ==
    ASSUME Typed, PeerCloses \/ PeerResets
    PROVE  Typed'
<1>1. /\ peer' \in {"fin", "rst"}
      /\ UNCHANGED <<state_, reading_, reads, writes, shut, owned, held, ioTasks, baseTasks,
                     at, call, alive, ups, downs, fault, setting>>
  BY DEF PeerCloses, PeerResets, Step, object, refs, loops, ops
<1> QED  BY <1>1 DEF Typed, Scalars, Queue, Fresh

LEMMA TypedInvariant == Spec => []Typed
<1>1. Init => Typed
  <2> SUFFICES ASSUME Init PROVE Typed
    OBVIOUS
  <2>1. Scalars
    <3>1. /\ state_ = "kConnecting" /\ reading_ = TRUE /\ writes = 0 /\ shut = FALSE /\ peer = "open"
          /\ owned = TRUE /\ held = FALSE /\ at = "idle" /\ call = "none"
          /\ alive = TRUE /\ ups = 0 /\ downs = 0 /\ fault = "none" /\ setting \in Settings
      BY DEF Init
    <3>2. baseTasks \in Seq({"removeConnectionInLoop"})
      BY DEF Init
    <3>3. 0 \in 0 .. MaxWrites
      BY LifecycleAssumption
    <3> QED  BY <3>1, <3>2, <3>3 DEF Scalars, States
  <2>2. ioTasks \in Seq(Tasks) /\ Len(ioTasks) = 1 /\ ioTasks[1] = "connectEstablished" /\ reads = 0
    BY DEF Init, Tasks, OwningTasks
  <2>3. Count(ioTasks, "readHandler") = 0
    <3>1. \A i \in 1 .. Len(ioTasks) : ioTasks[i] /= "readHandler"
      BY <2>2
    <3> QED  BY <2>2, <3>1, CountType
  <2>4. Queue
    BY <2>2, <2>3, LifecycleAssumption DEF Queue
  <2>5. Fresh
    BY DEF Init, Fresh
  <2> QED  BY <2>1, <2>4, <2>5 DEF Typed
<1>2. Typed /\ [Next]_vars => Typed'
  <2> SUFFICES ASSUME Typed, [Next]_vars PROVE Typed'
    OBVIOUS
  <2>1. CASE UNCHANGED vars
    BY <2>1 DEF vars, Typed, Scalars, Queue, Fresh
  <2>2. CASE DanglingTask
    BY <2>2, FailTyped DEF DanglingTask, Takes, Step, Faults
  <2>3. CASE runTask
    BY <2>2, <2>3, EstablishedTyped, DestroyedTyped, ReadHandlerTyped, FunctorTyped, ForceCloseTyped
       DEF runTask
  <2> QED
    BY <2>1, <2>3, CallbackTyped, ReactorTyped, OwnerTyped, CallTyped, ForceCloseTyped, ThreadTyped,
       PeerTyped DEF Next
<1> QED
  BY <1>1, <1>2, PTL DEF Spec

-----------------------------------------------------------------------------
(* One read at a time.                                                     *)

\* No functor that pauses or resumes is queued.
NoPause == Count(ioTasks, "stopReadInLoop") = 0 /\ Count(ioTasks, "startReadInLoop") = 0

\* In the message callback the read that brought the message is over; while
\* reading is paused none is outstanding.
OneReader ==
    /\ reads <= 1
    /\ at = "messageCallback" => reads = 0
    /\ downs = 0 /\ at /= "messageCallback" /\ ~reading_ => reads = 0

\* A queue one step later, in what it says of pausing.
LEMMA PauseQueue ==
    ASSUME Typed, NoPause
    PROVE  /\ ioTasks /= <<>> =>
                 /\ Head(ioTasks) \notin {"stopReadInLoop", "startReadInLoop"}
                 /\ ioTasks' = Tail(ioTasks) => NoPause'
           /\ \A x \in Tasks \ {"stopReadInLoop", "startReadInLoop"} :
                 ioTasks' = Append(ioTasks, x) => NoPause'
           /\ ioTasks' = ioTasks => NoPause'
<1> DEFINE Out == {"stopReadInLoop", "startReadInLoop"}
<1>1. \A task \in Out : Count(ioTasks, task) = 0
  BY DEF NoPause
<1>2. ASSUME ioTasks /= <<>>
      PROVE  Head(ioTasks) \notin Out /\ \A task \in Out : Count(Tail(ioTasks), task) = 0
  <2>1. \A task \in Out :
          /\ Count(Tail(ioTasks), task) \in Nat
          /\ Count(ioTasks, task) = Count(Tail(ioTasks), task) + (IF Head(ioTasks) = task THEN 1 ELSE 0)
    BY <1>2, QueueFacts
  <2> QED  BY <1>1, <2>1
<1>3. ASSUME NEW x \in Tasks \ Out
      PROVE  \A task \in Out : Count(Append(ioTasks, x), task) = 0
  <2>1. \A task \in Out :
          Count(Append(ioTasks, x), task) = Count(ioTasks, task) + (IF x = task THEN 1 ELSE 0)
    BY <1>3, QueueFacts
  <2> QED  BY <1>1, <1>3, <2>1
<1> QED  BY <1>2, <1>3 DEF NoPause

\* handleClose queues nothing that pauses or resumes.
LEMMA CloseNoPause ==
    ASSUME Typed, NEW io \in Seq(Tasks), handleClose(io),
           Count(io, "stopReadInLoop") = 0, Count(io, "startReadInLoop") = 0
    PROVE  NoPause'
BY CloseTypes DEF NoPause

\* What leaves alone all that OneReader is about.
LEMMA ReaderStutters ==
    ASSUME OneReader, UNCHANGED <<reads, at, downs, reading_>>
    PROVE  OneReader'
BY DEF OneReader

LEMMA ReaderCloses ==
    ASSUME Typed, OneReader, NEW io \in Seq(Tasks), handleClose(io), at' = at,
           reads' \in Nat, reads' <= reads
    PROVE  OneReader'
<1>1. downs' = downs + 1 /\ downs \in Nat
  BY CloseTypes DEF Typed, Scalars
<1>2. reads \in Nat
  BY QueueFacts
<1> QED  BY <1>1, <1>2 DEF OneReader

\* What the loop runs.
LEMMA TaskReader ==
    ASSUME Typed, OneReader, NoPause, runTask
    PROVE  OneReader' /\ NoPause'
<1> USE DEF Takes, Step
<1> DEFINE io == Tail(ioTasks)
<1>1. ioTasks /= <<>> /\ Head(ioTasks) \notin {"stopReadInLoop", "startReadInLoop"} /\ at = "idle"
  BY PauseQueue
     DEF runTask, connectEstablished, connectDestroyed, DanglingTask, readHandlerData, readHandlerEof,
         readHandlerError, writeHandler, shutdownInLoop, stopReadInLoop, startReadInLoop, forceCloseInLoop
<1>2. io \in Seq(Tasks) /\ Count(io, "stopReadInLoop") = 0 /\ Count(io, "startReadInLoop") = 0
  <2>1. Count(ioTasks, "stopReadInLoop") = Count(io, "stopReadInLoop") + 0 /\ Count(io, "stopReadInLoop") \in Nat
    BY <1>1, QueueFacts
  <2>2. Count(ioTasks, "startReadInLoop") = Count(io, "startReadInLoop") + 0 /\ Count(io, "startReadInLoop") \in Nat
    BY <1>1, QueueFacts
  <2> QED  BY <1>1, <2>1, <2>2, QueueFacts DEF NoPause
<1>3. reads \in Nat /\ downs \in Nat
  BY QueueFacts DEF Typed, Scalars
<1>4. ASSUME ioTasks' = ioTasks, UNCHANGED <<reads, at, downs, reading_>> PROVE OneReader' /\ NoPause'
  BY <1>4, ReaderStutters, PauseQueue
<1>5. ASSUME NEW f, Fail(f) PROVE OneReader' /\ NoPause'
  BY <1>4, <1>5 DEF Fail, object, loops, ops
<1> HIDE DEF io
<1>6. CASE connectEstablished
  <2>1. CASE state_ /= "kConnecting"
    BY <1>5, <1>6, <2>1 DEF connectEstablished
  <2>2. CASE state_ = "kConnecting"
    <3>1. reads = 0 /\ reads' = reads + 1 /\ at' = "upCallback" /\ reading_ /\ reading_' = reading_ /\ downs' = downs /\ ioTasks' = io
      BY <1>6, <2>2 DEF connectEstablished, Typed, Fresh, io
    <3> QED  BY <1>1, <3>1, PauseQueue DEF OneReader, io
  <2> QED  BY <2>1, <2>2
<1>7. CASE connectDestroyed
  <2>1. /\ UNCHANGED <<reads, at, reading_>> /\ downs' \in {downs, downs + 1} /\ ioTasks' = io
    BY <1>7 DEF connectDestroyed, ops, io
  <2> QED  BY <1>1, <1>3, <2>1, PauseQueue DEF OneReader, io
<1>8. CASE DanglingTask
  BY <1>5, <1>8 DEF DanglingTask
<1>9. CASE readHandlerData
  <2>1. reads' = reads - 1 /\ at' = "messageCallback" /\ ioTasks' = io /\ Head(ioTasks) = "readHandler"
    BY <1>9 DEF readHandlerData, io
  <2>2. reads >= 1
    BY <1>1, <2>1, QueueFacts DEF Typed, Queue
  <2> QED  BY <1>1, <1>3, <2>1, <2>2, PauseQueue DEF OneReader, io
<1>10. CASE readHandlerEof \/ readHandlerError
  <2>1. CASE handleCloseFault /= "none"
    BY <1>5, <1>10, <2>1 DEF readHandlerEof, readHandlerError
  <2>2. CASE handleCloseFault = "none"
    <3>1. handleClose(io) /\ at' = at /\ reads' = reads - 1 /\ Head(ioTasks) = "readHandler"
      BY <1>10, <2>2 DEF readHandlerEof, readHandlerError, io
    <3>2. reads >= 1
      BY <1>1, <3>1, QueueFacts DEF Typed, Queue
    <3>3. reads' \in Nat /\ reads' <= reads
      BY <1>3, <3>1, <3>2
    <3> QED  BY <1>2, <3>1, <3>3, ReaderCloses, CloseNoPause
  <2> QED  BY <2>1, <2>2
<1>11. CASE writeHandler \/ shutdownInLoop
  <2>1. UNCHANGED <<reads, at, downs, reading_>> /\ ioTasks' = Tail(ioTasks)
    BY <1>11 DEF writeHandler, shutdownInLoop, object, ops
  <2> QED  BY <1>1, <2>1, PauseQueue, ReaderStutters
<1>12. CASE forceCloseInLoop
  <2>1. CASE state_ \notin {"kConnected", "kDisconnecting"}
    <3>1. UNCHANGED <<reads, at, downs, reading_>> /\ ioTasks' = Tail(ioTasks)
      BY <1>12, <2>1 DEF forceCloseInLoop, object, ops
    <3> QED  BY <1>1, <3>1, PauseQueue, ReaderStutters
  <2>2. CASE state_ \in {"kConnected", "kDisconnecting"} /\ handleCloseFault /= "none"
    BY <1>5, <1>12, <2>2 DEF forceCloseInLoop
  <2>3. CASE state_ \in {"kConnected", "kDisconnecting"} /\ handleCloseFault = "none"
    <3>1. handleClose(io) /\ at' = at /\ reads' = reads
      BY <1>12, <2>3 DEF forceCloseInLoop, ops, io
    <3>2. reads' \in Nat /\ reads' <= reads
      BY <1>3, <3>1
    <3> QED  BY <1>2, <3>1, <3>2, ReaderCloses, CloseNoPause
  <2> QED  BY <2>1, <2>2, <2>3
<1>13. ~stopReadInLoop /\ ~startReadInLoop
  BY <1>1 DEF stopReadInLoop, startReadInLoop
<1> QED  BY <1>6, <1>7, <1>8, <1>9, <1>10, <1>11, <1>12, <1>13 DEF runTask

\* The callbacks, the reactor, the owner and the peer.
LEMMA LoopReader ==
    ASSUME Typed, OneReader, NoPause,
           endCallback \/ reactor \/ removeConnectionInLoop \/ ServerEnds \/ PeerCloses \/ PeerResets
    PROVE  OneReader' /\ NoPause'
<1> USE DEF Step
<1>1. reads \in Nat /\ downs \in Nat
  BY QueueFacts DEF Typed, Scalars
<1>2. CASE endCallback
  <2>1. /\ at' = "idle" /\ UNCHANGED <<downs, reading_, ioTasks>>
        /\ \/ at = "upCallback" /\ reads' = reads
           \/ at = "messageCallback" /\ reads' = IF reading_ THEN reads + 1 ELSE reads
    BY <1>2 DEF endCallback, EndUpCallback, readHandlerRearm, object, ops
  <2> QED  BY <1>1, <2>1, PauseQueue DEF OneReader
<1>3. CASE ServerEnds
  <2>1. /\ at = "idle" /\ at' = "quit" /\ UNCHANGED <<reads, reading_, ioTasks>> /\ downs' \in {downs, downs + 1}
    BY <1>3 DEF ServerEnds, ops
  <2> QED  BY <1>1, <2>1, PauseQueue DEF OneReader
<1>4. CASE ReadAborted \/ WriteFails \/ PeerCloses \/ PeerResets
  <2>1. UNCHANGED <<reads, at, downs, reading_, ioTasks>>
    BY <1>4 DEF ReadAborted, WriteFails, PeerCloses, PeerResets, Fail, object, loops, ops
  <2> QED  BY <2>1, ReaderStutters, PauseQueue
<1>5. CASE ReadReady \/ WriteReady \/ removeConnectionInLoop
  <2>1. /\ UNCHANGED <<reads, at, downs, reading_>>
        /\ \/ ioTasks' = ioTasks
           \/ \E x \in {"readHandler", "writeHandler", "connectDestroyed"} : ioTasks' = Append(ioTasks, x)
    BY <1>5 DEF ReadReady, WriteReady, removeConnectionInLoop, Fail, object, loops, ops
  <2>2. {"readHandler", "writeHandler", "connectDestroyed"} \subseteq Tasks \ {"stopReadInLoop", "startReadInLoop"}
    BY DEF Tasks, OwningTasks, RawTasks
  <2> QED  BY <2>1, <2>2, ReaderStutters, PauseQueue
<1> QED  BY <1>2, <1>3, <1>4, <1>5 DEF reactor

\* The application's calls.
LEMMA CallReader ==
    ASSUME PausesInMessage, Typed, OneReader, NoPause,
           send \/ shutdown \/ forceClose \/ stopRead \/ startRead \/ DropPointer \/ threadStep
    PROVE  OneReader' /\ NoPause'
<1> USE DEF Step, InLoop, ThreadIn
<1>1. reads \in Nat /\ setting \in Settings
  BY QueueFacts DEF Typed, Scalars
<1>2. /\ <<"up", "stopRead">> \notin setting.uses /\ <<"loop", "stopRead">> \notin setting.uses
      /\ <<"thread", "stopRead">> \notin setting.uses
      /\ <<"message", "startRead">> \notin setting.uses /\ <<"thread", "startRead">> \notin setting.uses
  BY DEF PausesInMessage, Sites
<1>3. CASE stopRead
  <2>1. at = "messageCallback" /\ UNCHANGED <<reads, at, downs, ioTasks>>
    BY <1>2, <1>3 DEF stopRead, Site, loops, ops
  <2> QED  BY <2>1, PauseQueue DEF OneReader
<1>4. CASE startRead
  <2>1. /\ at /= "messageCallback" /\ ~reading_ /\ downs = 0
        /\ reading_' = TRUE /\ reads' = reads + 1 /\ UNCHANGED <<at, downs, ioTasks>>
    BY <1>2, <1>4 DEF startRead, Site, loops
  <2> QED  BY <1>1, <2>1, PauseQueue DEF OneReader
<1>5. CASE forceClose
  <2>1. CASE handleCloseFault /= "none"
    <3>1. UNCHANGED <<reads, at, downs, reading_, ioTasks>>
      BY <1>5, <2>1 DEF forceClose, Fail, object, loops, ops
    <3> QED  BY <3>1, ReaderStutters, PauseQueue
  <2>2. CASE handleCloseFault = "none"
    <3>1. handleClose(ioTasks) /\ at' = at /\ reads' = reads
      BY <1>5, <2>2 DEF forceClose, ops
    <3>2. reads' \in Nat /\ reads' <= reads /\ ioTasks \in Seq(Tasks)
      BY <1>1, <3>1, QueueFacts
    <3> QED  BY <3>1, <3>2, ReaderCloses, CloseNoPause DEF NoPause
  <2> QED  BY <2>1, <2>2
<1>6. CASE send \/ shutdown \/ DropPointer \/ threadStep
  <2>1. /\ UNCHANGED <<reads, at, downs, reading_>>
        /\ \/ ioTasks' = ioTasks
           \/ \E x \in {"writeHandler", "shutdownInLoop", "forceCloseInLoop"} : ioTasks' = Append(ioTasks, x)
    BY <1>2, <1>6 DEF send, shutdown, DropPointer, threadStep, shutdownCheck, forceCloseCheck,
         threadCheck, threadSetState, shutdownPost, forceClosePost, stopReadPost, startReadPost,
         threadSend, threadPost, object, loops, ops
  <2>2. {"writeHandler", "shutdownInLoop", "forceCloseInLoop"} \subseteq Tasks \ {"stopReadInLoop", "startReadInLoop"}
    BY DEF Tasks, OwningTasks, RawTasks
  <2> QED  BY <2>1, <2>2, ReaderStutters, PauseQueue
<1> QED  BY <1>3, <1>4, <1>5, <1>6

\* The setting never changes.
LEMMA SettingStays == [Next]_vars => setting' = setting
BY DEF Next, vars, runTask, endCallback, reactor, threadStep, connectEstablished, connectDestroyed,
       DanglingTask, readHandlerData, readHandlerEof, readHandlerError, writeHandler, shutdownInLoop,
       stopReadInLoop, startReadInLoop, forceCloseInLoop, EndUpCallback, readHandlerRearm, ReadReady,
       ReadAborted, WriteReady, WriteFails, removeConnectionInLoop, ServerEnds, send, shutdown,
       forceClose, stopRead, startRead, DropPointer, shutdownCheck, forceCloseCheck, threadCheck,
       threadSetState, shutdownPost, forceClosePost, stopReadPost, startReadPost, threadSend,
       PeerCloses, PeerResets, Takes, InLoop, ThreadIn, Step

LEMMA ReaderInvariant == Spec => [](PausesInMessage => OneReader /\ NoPause)
<1> DEFINE RInv == PausesInMessage => OneReader /\ NoPause
<1>1. Init => RInv
  <2> SUFFICES ASSUME Init PROVE OneReader /\ NoPause
    OBVIOUS
  <2>1. /\ ioTasks \in Seq(Tasks) /\ Len(ioTasks) = 1 /\ ioTasks[1] = "connectEstablished"
        /\ reads = 0
    BY DEF Init, Tasks, OwningTasks
  <2>2. \A i \in 1 .. Len(ioTasks) : ioTasks[i] /= "stopReadInLoop" /\ ioTasks[i] /= "startReadInLoop"
    BY <2>1
  <2> QED  BY <2>1, <2>2, CountType DEF OneReader, NoPause
<1>2. Typed /\ RInv /\ [Next]_vars => RInv'
  <2> SUFFICES ASSUME Typed, RInv, [Next]_vars, PausesInMessage'
               PROVE  OneReader' /\ NoPause'
    OBVIOUS
  <2>1. setting' = setting
    BY SettingStays
  <2>2. PausesInMessage /\ OneReader /\ NoPause
    BY <2>1 DEF PausesInMessage
  <2>3. CASE UNCHANGED vars
    BY <2>2, <2>3, ReaderStutters, PauseQueue DEF vars
  <2> QED  BY <2>2, <2>3, TaskReader, LoopReader, CallReader DEF Next
<1>3. Spec => []Typed
  BY TypedInvariant
<1> QED
  BY <1>1, <1>2, <1>3, PTL DEF Spec

\* At most one async_read_some is outstanding, in every state of a connection
\* whose application PausesInMessage: through every send and close, by whichever
\* thread, no second read is ever started into inputBuffer_.
THEOREM ReadsOneAtATime == Spec => []OneRead
<1>1. (PausesInMessage => OneReader /\ NoPause) => OneRead
  BY DEF OneReader, OneRead
<1> QED
  BY <1>1, ReaderInvariant, PTL

-----------------------------------------------------------------------------
(* What the code is made for.                                              *)

Shuts(s) == \E x \in Sites : <<x, "shutdown">> \in s.uses

\* The application sends from anywhere, pauses in the message callback, shuts
\* down in the loop's thread and forces a close only in the message callback,
\* and it holds a pointer while it has paused or has sends outstanding.  A
\* connection that is shut down is not reset and outlives no server; one on
\* the server's own loop is not reset or force-closed at all.
MadeFor(s) ==
    /\ s.careful
    /\ s.uses \subseteq (Sites \X {"send"}) \cup ((Sites \ {"thread"}) \X {"shutdown"})
                        \cup {<<"message", "stopRead">>, <<"loop", "startRead">>,
                              <<"message", "forceClose">>}
    /\ s.owner = "serverLoop" => <<"message", "forceClose">> \notin s.uses /\ "rst" \notin s.events
    /\ Shuts(s) => "rst" \notin s.events /\ "serverEnds" \notin s.events

AllMadeFor == \A s \in Settings : MadeFor(s)

\* The functors that such an application never queues, and the one that has
\* run by the time the application sees the connection.
Spare == {"shutdownInLoop", "forceCloseInLoop", "startReadInLoop", "stopReadInLoop",
          "connectEstablished"}

NoSpare == \A task \in Spare : Count(ioTasks, task) = 0

\* The owner holds a connection that is not down; one that is down reads no
\* more (unless its loop has quit, and runs nothing).
Phases ==
    /\ state_ /= "kConnecting" => NoSpare /\ ups = 1
    /\ state_ /= "kDisconnected" =>
           owned /\ baseTasks = <<>> /\ downs = 0 /\ at /= "quit" /\ Count(ioTasks, "connectDestroyed") = 0
    /\ state_ = "kDisconnected" => downs = 1 /\ (at = "quit" \/ (reads = 0 /\ ~reading_))
    /\ baseTasks /= <<>> => owned /\ Len(baseTasks) = 1 /\ setting.owner = "serverPool"
    /\ state_ = "kDisconnecting" => Shuts(setting)
    /\ peer = "rst" => "rst" \in setting.events

\* Who keeps the object alive: its owner; the application, for the sends that
\* are outstanding; and for a message callback in which the connection was
\* closed, the removal that is on its way.
Kept ==
    /\ owned \/ held \/ at = "messageCallback" => alive
    /\ writes > 0 \/ Count(ioTasks, "writeHandler") > 0 => held
    /\ at = "messageCallback" /\ state_ = "kDisconnected" =>
           baseTasks /= <<>> \/ Count(ioTasks, "connectDestroyed") > 0

Safe == fault = "none" /\ call = "none" /\ Phases /\ Kept

\* All that holds at once.
Whole == Typed /\ OneReader /\ Safe

\* What MadeFor says of the setting in force.
LEMMA MadeForFacts ==
    ASSUME AllMadeFor, Typed
    PROVE  /\ setting.careful
           /\ \A x \in Sites : <<x, "stopRead">> \in setting.uses => x = "message"
           /\ \A x \in Sites : <<x, "startRead">> \in setting.uses => x = "loop"
           /\ \A x \in Sites : <<x, "forceClose">> \in setting.uses => x = "message" /\ setting.owner /= "serverLoop"
           /\ <<"thread", "shutdown">> \notin setting.uses
           /\ setting.owner = "serverLoop" => "rst" \notin setting.events
           /\ Shuts(setting) => "rst" \notin setting.events /\ "serverEnds" \notin setting.events
           /\ setting.owner \in Owners
<1>1. setting \in Settings /\ MadeFor(setting)
  BY DEF AllMadeFor, Typed, Scalars
<1>2. setting.owner \in Owners
  BY <1>1, LifecycleAssumption
<1> QED  BY <1>1, <1>2 DEF MadeFor

\* The queue of a connection that has been established, one step later.
LEMMA SpareQueue ==
    ASSUME Typed, NoSpare
    PROVE  /\ ioTasks /= <<>> =>
                 /\ Head(ioTasks) \notin Spare
                 /\ \A task \in Spare : Count(Tail(ioTasks), task) = 0
           /\ \A x \in Tasks \ Spare : \A task \in Spare : Count(Append(ioTasks, x), task) = 0
<1>1. ASSUME ioTasks /= <<>>, NEW task \in Spare
      PROVE  Head(ioTasks) /= task /\ Count(Tail(ioTasks), task) = 0
  <2>1. Count(ioTasks, task) = 0
    BY DEF NoSpare
  <2> QED  BY <1>1, <2>1, QueueFacts
<1>2. ASSUME NEW x \in Tasks \ Spare, NEW task \in Spare
      PROVE  Count(Append(ioTasks, x), task) = 0
  <2>1. Count(ioTasks, task) = 0 /\ x /= task
    BY DEF NoSpare
  <2> QED  BY <2>1, QueueFacts
<1> QED  BY <1>1, <1>2

\* A readHandler in the queue belongs to a connection that is up.
LEMMA ReadingUp ==
    ASSUME Whole, reads > 0, at /= "quit"
    PROVE  state_ /= "kDisconnected" /\ owned /\ alive /\ reads = 1
BY QueueFacts DEF Whole, Safe, Phases, Kept, OneReader

\* The end of a step in which nobody new takes a pointer.
LEMMA ReleaseSafe ==
    ASSUME Safe, Release, state_' /= "kDisconnected" => owned', owned' => owned, held' => held,
           at' = "messageCallback" => at = "messageCallback"
    PROVE  fault' = "none" /\ (owned' \/ held' \/ at' = "messageCallback" => alive')
<1>1. owned' \/ held' \/ at' = "messageCallback" => alive /\ Referenced'
  BY DEF Safe, Kept, Referenced
<1>2. alive' = (alive /\ Referenced')
      /\ fault' = IF alive /\ ~alive' /\ state_' /= "kDisconnected" THEN "dtorAssert" ELSE "none"
  BY DEF Release
<1> QED  BY <1>1, <1>2

\* A step that moves functors and handlers about and nothing else.
LEMMA QuietSafe ==
    ASSUME Whole, state_ /= "kConnecting", NoSpare',
           UNCHANGED <<state_, ups, downs, owned, held, baseTasks, at, call, alive, fault, peer, setting>>,
           writes' > 0 \/ Count(ioTasks', "writeHandler") > 0 => held,
           Count(ioTasks', "connectDestroyed") = Count(ioTasks, "connectDestroyed"),
           downs = 0 \/ UNCHANGED <<reads, reading_>>
    PROVE  Safe'
<1>1. Phases'
  BY DEF Whole, Safe, Phases
<1>2. Kept'
  BY DEF Whole, Safe, Kept
<1> QED  BY <1>1, <1>2 DEF Whole, Safe

\* The loop starts the connection.
LEMMA EstablishedSafe ==
    ASSUME Whole, connectEstablished
    PROVE  Safe'
<1> USE DEF Takes, Step
<1>1. ioTasks /= <<>> /\ Head(ioTasks) = "connectEstablished"
  BY DEF connectEstablished
<1>2. state_ = "kConnecting"
  <2>1. CASE state_ /= "kConnecting"
    <3>1. NoSpare
      BY <2>1 DEF Whole, Safe, Phases
    <3> QED  BY <1>1, <3>1, SpareQueue DEF Whole, Spare
  <2> QED  BY <2>1
<1>3. /\ state_' = "kConnected" /\ ups' = ups + 1 /\ at' = "upCallback" /\ ioTasks' = Tail(ioTasks) /\ Release
      /\ UNCHANGED <<downs, owned, baseTasks, writes, peer, call, setting>>
  BY <1>2 DEF connectEstablished
<1>4. ioTasks = <<"connectEstablished">> /\ ups = 0 /\ writes = 0
  BY <1>2 DEF Whole, Typed, Fresh
<1>5. \A task : Count(ioTasks', task) = 0
  <2>1. ioTasks' = <<>>
    BY <1>3, <1>4
  <2>2. ioTasks' \in Seq(Tasks) /\ Len(ioTasks') = 0
    BY <2>1
  <2>3. \A task : \A i \in 1 .. Len(ioTasks') : ioTasks'[i] /= task
    BY <2>2
  <2> QED  BY <2>2, <2>3, CountType
<1>6. owned /\ baseTasks = <<>> /\ downs = 0 /\ alive /\ (peer = "rst" => "rst" \in setting.events)
  BY <1>2 DEF Whole, Safe, Phases, Kept
<1>7. Phases'
  BY <1>3, <1>4, <1>5, <1>6 DEF Phases, NoSpare
<1>8. alive' /\ fault' = "none"
  <2>1. Referenced'
    BY <1>3, <1>6 DEF Referenced
  <2> QED  BY <1>3, <1>6, <2>1 DEF Release
<1>9. Kept'
  BY <1>3, <1>4, <1>5, <1>8 DEF Kept
<1> QED  BY <1>3, <1>7, <1>8, <1>9 DEF Whole, Safe

\* A removal posted to the loop has nothing left to do.
LEMMA DestroyedSafe ==
    ASSUME Whole, connectDestroyed
    PROVE  Safe'
<1> USE DEF Takes, Step
<1>1. ioTasks /= <<>> /\ Head(ioTasks) = "connectDestroyed" /\ at = "idle"
  BY DEF connectDestroyed
<1>2. Count(ioTasks, "connectDestroyed") > 0
  BY <1>1, QueueFacts DEF Whole
<1>3. state_ = "kDisconnected"
  BY <1>2 DEF Whole, Safe, Phases
<1>4. /\ ioTasks' = Tail(ioTasks) /\ Release
      /\ UNCHANGED <<state_, downs, reading_, shut, ups, owned, held, baseTasks, at, reads, writes, peer, call, setting>>
  BY <1>3 DEF connectDestroyed, refs, ops
<1>5. fault' = "none" /\ (owned' \/ held' \/ at' = "messageCallback" => alive')
  BY <1>3, <1>4, ReleaseSafe DEF Whole
<1>6. NoSpare'
  <2>1. NoSpare
    BY <1>3 DEF Whole, Safe, Phases
  <2> QED  BY <1>1, <1>4, <2>1, SpareQueue DEF Whole, NoSpare
<1>7. Phases'
  BY <1>3, <1>4, <1>6 DEF Whole, Safe, Phases
<1>8. Count(ioTasks', "writeHandler") > 0 => Count(ioTasks, "writeHandler") > 0
  BY <1>1, <1>4, QueueFacts DEF Whole
<1>9. Kept'
  BY <1>1, <1>4, <1>5, <1>8 DEF Whole, Safe, Kept
<1> QED  BY <1>4, <1>5, <1>7, <1>9 DEF Whole, Safe

\* handleClose of a connection that is up: the assert of handleClose holds, and
\* the removal that its owner makes or posts holds a pointer.
LEMMA CloseSafe ==
    ASSUME AllMadeFor, Whole, state_ \in {"kConnected", "kDisconnecting"}
    PROVE  /\ handleCloseFault = "none"
           /\ \A io \in Seq(Tasks) :
                 /\ handleClose(io)
                 /\ \A task \in Spare \cup {"writeHandler"} : Count(io, task) <= Count(ioTasks, task)
                 /\ UNCHANGED <<at, writes, peer, call, setting>>
                 /\ reads' = 0
                 => /\ Phases'
                    /\ state_' = "kDisconnected" /\ (owned' => owned) /\ (held' => held)
                    /\ writes' > 0 \/ Count(ioTasks', "writeHandler") > 0 => held'
                    /\ setting.owner /= "serverLoop" =>
                          baseTasks' /= <<>> \/ Count(ioTasks', "connectDestroyed") > 0
<1>1. owned /\ baseTasks = <<>> /\ downs = 0 /\ at /= "quit" /\ NoSpare /\ ups = 1
  BY DEF Whole, Safe, Phases
<1>2. handleCloseFault = "none"
  BY <1>1 DEF handleCloseFault
<1>3. ASSUME NEW io \in Seq(Tasks), handleClose(io),
             \A task \in Spare \cup {"writeHandler"} : Count(io, task) <= Count(ioTasks, task),
             UNCHANGED <<at, writes, peer, call, setting>>, reads' = 0
      PROVE  /\ Phases'
             /\ state_' = "kDisconnected" /\ (owned' => owned) /\ (held' => held)
             /\ writes' > 0 \/ Count(ioTasks', "writeHandler") > 0 => held'
             /\ setting.owner /= "serverLoop" =>
                   baseTasks' /= <<>> \/ Count(ioTasks', "connectDestroyed") > 0
  <2>1. /\ state_' = "kDisconnected" /\ reading_' = FALSE /\ downs' = 1 /\ ups' = ups
        /\ \A task : task /= "connectDestroyed" => Count(ioTasks', task) = Count(io, task)
    <3>1. state_' = "kDisconnected" /\ reading_' = FALSE /\ downs' = downs + 1 /\ ups' = ups
      BY <1>3 DEF handleClose
    <3>2. Typed
      BY DEF Whole
    <3>3. \A task : task /= "connectDestroyed" => Count(ioTasks', task) = Count(io, task)
      BY <1>3, <3>2, CloseTypes
    <3> QED  BY <1>1, <3>1, <3>3
  <2>2. \/ setting.owner = "serverLoop" /\ baseTasks' = baseTasks
        \/ setting.owner = "serverPool" /\ owned' = owned /\ baseTasks' = Append(baseTasks, "removeConnectionInLoop")
        \/ setting.owner = "client" /\ baseTasks' = baseTasks /\ ioTasks' = Append(io, "connectDestroyed")
    BY <1>3 DEF handleClose, closeCallback
  <2>3. Append(<<>>, "removeConnectionInLoop") /= <<>> /\ Len(Append(<<>>, "removeConnectionInLoop")) = 1
    OBVIOUS
  <2>4. NoSpare'
    <3>1. \A task \in Spare : Count(io, task) \in Nat /\ Count(io, task) <= 0
      BY <1>1, <1>3, CountType DEF NoSpare
    <3>2. \A task \in Spare : Count(ioTasks', task) = Count(io, task)
      BY <2>1 DEF Spare
    <3> QED  BY <3>1, <3>2 DEF NoSpare
  <2>5. Phases'
    BY <1>1, <1>3, <2>1, <2>2, <2>3, <2>4 DEF Whole, Safe, Phases
  <2>6. held' \in {held, setting.careful /\ sending /\ held} /\ (owned' => owned)
    BY <1>1, <1>3 DEF handleClose
  <2>7. writes' > 0 \/ Count(ioTasks', "writeHandler") > 0 => held'
    <3>1. Count(ioTasks', "writeHandler") = Count(io, "writeHandler") /\ Count(io, "writeHandler") <= Count(ioTasks, "writeHandler")
      BY <1>3, <2>1
    <3>2. Count(io, "writeHandler") \in Nat /\ Count(ioTasks, "writeHandler") \in Nat
      BY CountType, QueueFacts DEF Whole
    <3>3. writes' > 0 \/ Count(ioTasks', "writeHandler") > 0 => writes > 0 \/ Count(ioTasks, "writeHandler") > 0
      BY <1>3, <3>1, <3>2
    <3>4. writes > 0 \/ Count(ioTasks, "writeHandler") > 0 => held /\ sending
      BY QueueFacts DEF Whole, Safe, Kept, sending
    <3>5. setting.careful
      BY MadeForFacts DEF Whole
    <3> QED  BY <2>6, <3>3, <3>4, <3>5
  <2>8. setting.owner /= "serverLoop" => baseTasks' /= <<>> \/ Count(ioTasks', "connectDestroyed") > 0
    <3>1. CASE setting.owner = "client"
      <4>1. ioTasks' = Append(io, "connectDestroyed")
        BY <2>2, <3>1
      <4>2. "connectDestroyed" \in Tasks
        BY DEF Tasks, OwningTasks
      <4>3. Count(io, "connectDestroyed") \in Nat
        BY CountType
      <4>4. Count(ioTasks', "connectDestroyed") = Count(io, "connectDestroyed") + 1
        BY <4>1, <4>2, CountAppend
      <4> QED  BY <4>3, <4>4
    <3> QED  BY <1>1, <2>2, <2>3, <3>1
  <2> QED  BY <2>1, <2>5, <2>6, <2>7, <2>8
<1> QED  BY <1>2, <1>3

\* readHandler.
LEMMA ReadHandlerSafe ==
    ASSUME AllMadeFor, Whole, readHandlerData \/ readHandlerEof \/ readHandlerError
    PROVE  Safe'
<1> USE DEF Takes, Step
<1> DEFINE io == Tail(ioTasks)
<1>1. ioTasks /= <<>> /\ Head(ioTasks) = "readHandler" /\ at = "idle" /\ alive /\ setting' = setting
  BY DEF readHandlerData, readHandlerEof, readHandlerError
<1>2. Typed /\ Safe
  BY DEF Whole
<1>3. reads > 0
  BY <1>1, <1>2, QueueFacts DEF Typed, Queue
<1>4. reads = 1 /\ owned /\ state_ /= "kDisconnected"
  BY <1>1, <1>3, ReadingUp
<1>5. state_ \in {"kConnected", "kDisconnecting"}
  <2>1. state_ /= "kConnecting"
    BY <1>4, <1>2 DEF Typed, Fresh
  <2> QED  BY <1>2, <1>4, <2>1 DEF Typed, Scalars, States
<1>6. /\ io \in Seq(Tasks)
      /\ \A task : /\ Count(io, task) \in Nat /\ Count(ioTasks, task) \in Nat
                   /\ Count(io, task) <= Count(ioTasks, task)
                   /\ task /= "readHandler" => Count(io, task) = Count(ioTasks, task)
  BY <1>1, <1>2, QueueFacts
<1> HIDE DEF io
<1>7. CASE readHandlerData
  <2>1. /\ UNCHANGED <<state_, reading_, shut, ups, downs, owned, held, baseTasks, writes, peer, call, alive, fault>>
        /\ at' = "messageCallback" /\ reads' = reads - 1 /\ ioTasks' = io
    BY <1>7 DEF readHandlerData, object, refs, io
  <2>2. NoSpare /\ \A task \in Spare : task /= "readHandler"
    BY <1>2, <1>5 DEF Safe, Phases, Spare
  <2>3. NoSpare'
    BY <1>6, <2>1, <2>2 DEF NoSpare
  <2>4. Count(ioTasks', "connectDestroyed") = Count(ioTasks, "connectDestroyed")
        /\ Count(ioTasks', "writeHandler") = Count(ioTasks, "writeHandler")
    BY <1>6, <2>1
  <2>5. Phases'
    BY <1>1, <1>2, <1>5, <2>1, <2>3, <2>4 DEF Safe, Phases
  <2>6. Kept'
    BY <1>1, <1>2, <1>5, <2>1, <2>4 DEF Safe, Kept
  <2> QED  BY <1>2, <2>1, <2>5, <2>6 DEF Safe
<1>8. CASE readHandlerEof \/ readHandlerError
  <2>1. handleCloseFault = "none"
    BY <1>5, CloseSafe
  <2>2. /\ handleClose(io) /\ reads' = reads - 1 /\ UNCHANGED <<at, writes, peer, call>>
        /\ alive' = (alive /\ Referenced')
    BY <1>8, <2>1 DEF readHandlerEof, readHandlerError, Release, io
  <2>3. reads' = 0
    BY <1>4, <2>2
  <2>4. \A task \in Spare \cup {"writeHandler"} : Count(io, task) <= Count(ioTasks, task)
    BY <1>6
  <2>5. /\ Phases'
        /\ state_' = "kDisconnected" /\ (owned' => owned) /\ (held' => held)
        /\ writes' > 0 \/ Count(ioTasks', "writeHandler") > 0 => held'
        /\ setting.owner /= "serverLoop" =>
              baseTasks' /= <<>> \/ Count(ioTasks', "connectDestroyed") > 0
    BY <1>1, <1>5, <1>6, <2>2, <2>3, <2>4, CloseSafe
  <2>6. owned' \/ held' \/ at' = "messageCallback" => alive'
    BY <1>1, <2>2 DEF Referenced
  <2>7. Kept'
    BY <1>1, <2>2, <2>5, <2>6 DEF Kept
  <2>8. fault' = "none"
    <3>1. CASE readHandlerEof
      BY <2>1, <2>5, <3>1 DEF readHandlerEof, Release
    <3>2. CASE readHandlerError
      <4>1. setting.owner /= "serverLoop"
        BY <1>2, <3>2, MadeForFacts DEF readHandlerError, Safe, Phases
      <4>2. ioTasks' \in Seq(Tasks)
        BY <1>2, <1>6, <2>2, CloseTypes
      <4>3. Count(ioTasks', "connectDestroyed") > 0 => \E i \in 1 .. Len(ioTasks') : ioTasks'[i] \in OwningTasks
        BY <4>2, CountType DEF OwningTasks
      <4>4. Referenced'
        BY <2>5, <4>1, <4>3 DEF Referenced
      <4> QED  BY <1>1, <2>1, <2>2, <3>2, <4>4 DEF readHandlerError
    <3> QED  BY <1>8, <3>1, <3>2
  <2> QED  BY <1>2, <2>2, <2>5, <2>7, <2>8 DEF Safe
<1> QED  BY <1>7, <1>8

\* What the loop runs: of the functors with a raw pointer, only handlers whose
\* object is there.
LEMMA TaskSafe ==
    ASSUME AllMadeFor, Whole, runTask
    PROVE  Safe'
<1> USE DEF Takes, Step
<1>1. Typed /\ Safe
  BY DEF Whole
<1>2. ASSUME NEW task \in Spare, task /= "connectEstablished" PROVE ~Takes(task)
  <2> SUFFICES ASSUME Takes(task) PROVE FALSE
    OBVIOUS
  <2>1. ioTasks /= <<>> /\ Head(ioTasks) = task
    OBVIOUS
  <2>2. CASE state_ = "kConnecting"
    BY <1>1, <1>2, <2>1, <2>2 DEF Typed, Fresh
  <2>3. CASE state_ /= "kConnecting"
    <3>1. NoSpare
      BY <1>1, <2>3 DEF Safe, Phases
    <3> QED  BY <1>1, <2>1, <3>1, SpareQueue
  <2> QED  BY <2>2, <2>3
<1>3. ~shutdownInLoop /\ ~stopReadInLoop /\ ~startReadInLoop /\ ~forceCloseInLoop
  <2> HIDE DEF Takes
  <2> QED  BY <1>2 DEF shutdownInLoop, stopReadInLoop, startReadInLoop, forceCloseInLoop, Spare
<1>4. ~DanglingTask
  <2> SUFFICES ASSUME NEW task \in RawTasks, Takes(task), ~alive PROVE FALSE
    BY DEF DanglingTask
  <2>1. task \in {"readHandler", "writeHandler"}
    <3> HIDE DEF Takes
    <3> QED  BY <1>2 DEF RawTasks, Spare
  <2>2. ioTasks /= <<>> /\ Head(ioTasks) = task /\ at = "idle"
    OBVIOUS
  <2>3. Count(ioTasks, task) > 0
    BY <1>1, <2>2, QueueFacts
  <2>4. CASE task = "writeHandler"
    BY <1>1, <2>3, <2>4 DEF Safe, Kept
  <2>5. CASE task = "readHandler"
    <3>1. reads > 0
      BY <1>1, <2>3, <2>5, QueueFacts DEF Typed, Queue
    <3> QED  BY <2>2, <3>1, ReadingUp
  <2> QED  BY <2>1, <2>4, <2>5
<1>5. CASE writeHandler
  <2>1. /\ ioTasks /= <<>> /\ Head(ioTasks) = "writeHandler" /\ ioTasks' = Tail(ioTasks)
        /\ UNCHANGED <<state_, ups, downs, owned, held, baseTasks, at, call, alive, fault, peer,
                       setting, reads, writes, reading_>>
    BY <1>5 DEF writeHandler, object, refs, ops
  <2>2. state_ /= "kConnecting"
    BY <1>1, <2>1 DEF Typed, Fresh
  <2>3. NoSpare'
    <3>1. NoSpare
      BY <1>1, <2>2 DEF Safe, Phases
    <3> QED  BY <1>1, <2>1, <3>1, SpareQueue DEF NoSpare
  <2>4. Count(ioTasks', "connectDestroyed") = Count(ioTasks, "connectDestroyed")
        /\ (Count(ioTasks', "writeHandler") > 0 => Count(ioTasks, "writeHandler") > 0)
    BY <1>1, <2>1, QueueFacts
  <2>5. writes' > 0 \/ Count(ioTasks', "writeHandler") > 0 => held
    BY <1>1, <2>1, <2>4 DEF Safe, Kept
  <2> QED  BY <2>1, <2>2, <2>3, <2>4, <2>5, QuietSafe
<1> QED
  BY <1>3, <1>4, <1>5, EstablishedSafe, DestroyedSafe, ReadHandlerSafe DEF runTask

\* The loop leaves a callback: readHandler looks at reading_ in an object that
\* is still there.
LEMMA CallbackSafe ==
    ASSUME Whole, endCallback
    PROVE  Safe'
<1> USE DEF Step
<1>1. Typed /\ Safe
  BY DEF Whole
<1>2. /\ at \in {"upCallback", "messageCallback"} /\ at' = "idle"
      /\ UNCHANGED <<state_, reading_, shut, ups, downs, owned, held, ioTasks, baseTasks, writes,
                     peer, call, setting>>
      /\ reads' = reads \/ reading_
      /\ alive' = (alive /\ Referenced')
  BY DEF endCallback, EndUpCallback, readHandlerRearm, object, refs, ops, Release
<1>3. Phases'
  BY <1>1, <1>2 DEF Safe, Phases, NoSpare
<1>4. Kept'
  BY <1>1, <1>2 DEF Safe, Kept, Referenced
<1>5. fault' = "none"
  <2>1. state_' /= "kDisconnected" => owned'
    BY <1>1, <1>2 DEF Safe, Phases
  <2>2. CASE EndUpCallback
    BY <1>1, <1>2, <2>1, <2>2, ReleaseSafe DEF EndUpCallback
  <2>3. CASE readHandlerRearm
    <3>1. alive /\ (owned \/ baseTasks /= <<>> \/ Count(ioTasks, "connectDestroyed") > 0)
      BY <1>1, <2>3 DEF readHandlerRearm, Safe, Phases, Kept
    <3>2. Count(ioTasks, "connectDestroyed") > 0 => \E i \in 1 .. Len(ioTasks) : ioTasks[i] \in OwningTasks
      BY <1>1, CountType, QueueFacts DEF OwningTasks
    <3>3. Referenced'
      BY <1>2, <3>1, <3>2 DEF Referenced
    <3> QED  BY <1>2, <2>3, <3>1, <3>3 DEF readHandlerRearm
  <2> QED  BY <2>2, <2>3 DEF endCallback
<1> QED  BY <1>1, <1>2, <1>3, <1>4, <1>5 DEF Safe

\* The queue of a connection in use, with one handler more.
LEMMA HandlerQueued ==
    ASSUME Typed, NoSpare, NEW x \in {"readHandler", "writeHandler"}, ioTasks' = Append(ioTasks, x)
    PROVE  /\ NoSpare'
           /\ Count(ioTasks', "connectDestroyed") = Count(ioTasks, "connectDestroyed")
           /\ x = "readHandler" => Count(ioTasks', "writeHandler") = Count(ioTasks, "writeHandler")
<1>1. x \in Tasks \ Spare
  BY DEF Tasks, RawTasks, Spare
<1>2. NoSpare'
  BY <1>1, SpareQueue DEF NoSpare
<1>3. \A task : task /= x => Count(ioTasks', task) = Count(ioTasks, task)
  BY <1>1, QueueFacts
<1> QED  BY <1>2, <1>3

\* The reactor; no read is aborted under a dead object.
LEMMA ReactorSafe ==
    ASSUME Whole, reactor
    PROVE  Safe'
<1> USE DEF Step
<1>1. Typed /\ Safe
  BY DEF Whole
<1>2. ~ReadAborted
  BY ReadingUp DEF ReadAborted
<1>3. state_ /= "kConnecting" => NoSpare
  BY <1>1 DEF Safe, Phases
<1>4. CASE ReadReady
  <2>1. /\ ioTasks' = Append(ioTasks, "readHandler") /\ Queued("readHandler") < reads
        /\ UNCHANGED <<state_, ups, downs, owned, held, baseTasks, at, call, alive, fault, peer,
                       setting, reads, writes, reading_>>
    BY <1>4 DEF ReadReady, object, refs, ops
  <2>2. state_ /= "kConnecting"
    BY <1>1, <2>1, QueueFacts DEF Typed, Fresh
  <2>3. NoSpare' /\ Count(ioTasks', "connectDestroyed") = Count(ioTasks, "connectDestroyed")
        /\ Count(ioTasks', "writeHandler") = Count(ioTasks, "writeHandler")
    BY <1>1, <1>3, <2>1, <2>2, HandlerQueued
  <2>4. writes' > 0 \/ Count(ioTasks', "writeHandler") > 0 => held
    BY <1>1, <2>1, <2>3 DEF Safe, Kept
  <2> QED  BY <2>1, <2>2, <2>3, <2>4, QuietSafe
<1>5. CASE WriteReady \/ WriteFails
  <2>1. /\ ioTasks' \in {ioTasks, Append(ioTasks, "writeHandler")} /\ writes > 0
        /\ UNCHANGED <<state_, ups, downs, owned, held, baseTasks, at, call, alive, fault, peer,
                       setting, reads, reading_>>
    BY <1>5 DEF WriteReady, WriteFails, object, refs, loops
  <2>2. state_ /= "kConnecting" /\ held
    BY <1>1, <2>1 DEF Typed, Fresh, Safe, Kept
  <2>3. NoSpare' /\ Count(ioTasks', "connectDestroyed") = Count(ioTasks, "connectDestroyed")
    <3>1. CASE ioTasks' = ioTasks
      BY <1>3, <2>2, <3>1 DEF NoSpare
    <3>2. CASE ioTasks' = Append(ioTasks, "writeHandler")
      BY <1>1, <1>3, <2>2, <3>2, HandlerQueued
    <3> QED  BY <2>1, <3>1, <3>2
  <2> QED  BY <2>1, <2>2, <2>3, QuietSafe
<1> QED  BY <1>2, <1>4, <1>5 DEF reactor

\* The owner removes the connection once, and its end leaves nothing half done.
LEMMA OwnerSafe ==
    ASSUME AllMadeFor, Whole, removeConnectionInLoop \/ ServerEnds
    PROVE  Safe'
<1> USE DEF Step
<1>1. Typed /\ Safe
  BY DEF Whole
<1>2. CASE removeConnectionInLoop
  <2>1. baseTasks /= <<>> /\ owned /\ Len(baseTasks) = 1 /\ state_ = "kDisconnected"
    BY <1>1, <1>2 DEF removeConnectionInLoop, Safe, Phases
  <2>2. /\ owned' = FALSE /\ baseTasks' = Tail(baseTasks) /\ ioTasks' = Append(ioTasks, "connectDestroyed")
        /\ UNCHANGED <<state_, reading_, shut, ups, downs, held, at, reads, writes, peer, call, setting>>
        /\ Release
    BY <1>2, <2>1 DEF removeConnectionInLoop, object, ops
  <2>3. baseTasks' = <<>>
    <3>1. baseTasks \in Seq({"removeConnectionInLoop"})
      BY <1>1 DEF Typed, Scalars
    <3> QED  BY <2>1, <2>2, <3>1
  <2>4. "connectDestroyed" \in Tasks \ Spare
    BY DEF Tasks, OwningTasks, Spare
  <2>5. NoSpare'
    <3>1. NoSpare
      BY <1>1, <2>1 DEF Safe, Phases
    <3> QED  BY <1>1, <2>2, <2>4, <3>1, SpareQueue DEF NoSpare
  <2>6. Count(ioTasks', "connectDestroyed") > 0 /\ Count(ioTasks', "writeHandler") = Count(ioTasks, "writeHandler")
    BY <1>1, <2>2, <2>4, QueueFacts
  <2>7. fault' = "none" /\ (owned' \/ held' \/ at' = "messageCallback" => alive')
    BY <1>1, <2>1, <2>2, ReleaseSafe
  <2>8. Phases'
    BY <1>1, <2>1, <2>2, <2>3, <2>5 DEF Safe, Phases
  <2>9. Kept'
    BY <1>1, <2>2, <2>6, <2>7 DEF Safe, Kept
  <2> QED  BY <1>1, <2>2, <2>7, <2>8, <2>9 DEF Safe
<1>3. CASE ServerEnds
  <2>1. state_ /= "kDisconnecting" /\ setting.owner = "serverLoop"
    BY <1>1, <1>3, MadeForFacts DEF ServerEnds, Safe, Phases
  <2>2. state_ /= "kConnecting"
    BY <1>1, <1>3 DEF ServerEnds, Typed, Fresh
  <2>3. /\ owned' = FALSE /\ at = "idle" /\ at' = "quit"
        /\ state_' = (IF state_ = "kConnected" THEN "kDisconnected" ELSE state_)
        /\ downs' = (IF state_ = "kConnected" THEN downs + 1 ELSE downs)
        /\ UNCHANGED <<reading_, shut, ups, held, ioTasks, baseTasks, reads, writes, peer, call, setting>>
        /\ Release
    BY <1>3 DEF ServerEnds, ops
  <2>4. state_' = "kDisconnected" /\ downs' = 1
    BY <1>1, <2>1, <2>2, <2>3 DEF Typed, Scalars, States, Safe, Phases
  <2>5. fault' = "none" /\ (owned' \/ held' \/ at' = "messageCallback" => alive')
    BY <1>1, <2>3, <2>4, ReleaseSafe
  <2>6. Phases'
    BY <1>1, <2>1, <2>2, <2>3, <2>4 DEF Safe, Phases, NoSpare
  <2>7. Kept'
    BY <1>1, <2>3, <2>5 DEF Safe, Kept
  <2> QED  BY <1>1, <2>3, <2>5, <2>6, <2>7 DEF Safe
<1> QED  BY <1>2, <1>3

\* A send, from any thread: the application holds a pointer until its handler
\* has run.
LEMMA SendSafe ==
    ASSUME AllMadeFor, Whole, send \/ threadSend
    PROVE  Safe'
<1> USE DEF Step, InLoop, ThreadIn
<1>1. Typed /\ Safe
  BY DEF Whole
<1>2. held /\ alive
  <2>1. setting.careful
    BY <1>1, MadeForFacts
  <2> QED  BY <1>1, <2>1 DEF send, threadSend, Safe, Kept
<1>3. /\ ioTasks' \in {ioTasks, Append(ioTasks, "writeHandler")}
      /\ UNCHANGED <<state_, ups, downs, owned, held, baseTasks, at, peer, setting, reads, reading_>>
      /\ call' = "none"
  BY <1>1 DEF send, threadSend, threadPost, object, refs, loops, ops, Safe
<1>4. state_ /= "kConnecting"
  BY <1>1, <1>2 DEF Typed, Fresh
<1>5. NoSpare' /\ Count(ioTasks', "connectDestroyed") = Count(ioTasks, "connectDestroyed")
  <2>1. NoSpare
    BY <1>1, <1>4 DEF Safe, Phases
  <2>2. CASE ioTasks' = ioTasks
    BY <2>1, <2>2 DEF NoSpare
  <2>3. CASE ioTasks' = Append(ioTasks, "writeHandler")
    BY <1>1, <2>1, <2>3, HandlerQueued
  <2> QED  BY <1>3, <2>2, <2>3
<1>6. alive' = alive /\ fault' = fault
  <2>1. CASE send
    BY <2>1 DEF send
  <2>2. CASE threadSend
    <3>1. Release \/ UNCHANGED <<alive, fault>>
      BY <2>2 DEF threadSend, threadPost
    <3>2. Referenced' /\ fault = "none"
      BY <1>1, <1>2, <1>3 DEF Referenced, Safe
    <3> QED  BY <1>2, <3>1, <3>2 DEF Release
  <2> QED  BY <2>1, <2>2
<1>7. call' = call
  BY <1>1, <1>3 DEF Safe
<1> QED  BY <1>2, <1>3, <1>4, <1>5, <1>6, <1>7, QuietSafe

\* The other calls in the loop's thread.
LEMMA CallSafe ==
    ASSUME AllMadeFor, Whole, shutdown \/ forceClose \/ stopRead \/ startRead \/ DropPointer
    PROVE  Safe'
<1> USE DEF Step, InLoop
<1>1. Typed /\ Safe
  BY DEF Whole
<1>2. Site \in Sites /\ (Site = "message" => at = "messageCallback")
  BY DEF Site, Sites
<1>3. state_ /= "kConnecting"
  BY <1>1 DEF Typed, Fresh, shutdown, forceClose, stopRead, startRead, DropPointer
<1>4. NoSpare /\ ups = 1
  BY <1>1, <1>3 DEF Safe, Phases
<1>5. CASE shutdown
  <2>1. Shuts(setting) /\ peer /= "rst"
    <3>1. Shuts(setting)
      BY <1>2, <1>5 DEF shutdown, Shuts
    <3> QED  BY <1>1, <3>1, MadeForFacts DEF Safe, Phases
  <2>2. /\ state_ = "kConnected" /\ state_' = "kDisconnecting" /\ fault' = "none"
        /\ UNCHANGED <<reading_, ups, downs, owned, held, ioTasks, baseTasks, at, reads, writes, peer,
                       call, alive, setting>>
    BY <1>5, <2>1 DEF shutdown, socketShutdown, refs, loops, ops
  <2>3. Phases'
    BY <1>1, <1>4, <2>1, <2>2 DEF Safe, Phases, NoSpare
  <2>4. Kept'
    BY <1>1, <2>2 DEF Safe, Kept
  <2> QED  BY <1>1, <2>2, <2>3, <2>4 DEF Safe
<1>6. CASE forceClose
  <2>1. /\ at = "messageCallback" /\ setting.owner /= "serverLoop"
        /\ state_ \in {"kConnected", "kDisconnecting"}
    BY <1>1, <1>2, <1>6, MadeForFacts DEF forceClose
  <2>2. handleCloseFault = "none"
    BY <2>1, CloseSafe
  <2>3. handleClose(ioTasks) /\ UNCHANGED <<at, reads, writes, peer, call, setting>> /\ Release
    BY <1>6, <2>2 DEF forceClose, ops
  <2>4. reads' = 0
    BY <2>1, <2>3 DEF Whole, OneReader
  <2>5. ioTasks \in Seq(Tasks) /\ \A task \in Spare \cup {"writeHandler"} : Count(ioTasks, task) <= Count(ioTasks, task)
    BY <1>1, QueueFacts
  <2>6. /\ Phases'
        /\ state_' = "kDisconnected" /\ (owned' => owned) /\ (held' => held)
        /\ writes' > 0 \/ Count(ioTasks', "writeHandler") > 0 => held'
        /\ baseTasks' /= <<>> \/ Count(ioTasks', "connectDestroyed") > 0
    BY <2>1, <2>3, <2>4, <2>5, CloseSafe
  <2>7. fault' = "none" /\ (owned' \/ held' \/ at' = "messageCallback" => alive')
    BY <1>1, <2>1, <2>3, <2>6, ReleaseSafe
  <2> QED  BY <1>1, <2>3, <2>6, <2>7 DEF Safe, Kept
<1>7. CASE stopRead \/ startRead
  <2>1. /\ downs = 0
        /\ UNCHANGED <<state_, ups, downs, owned, held, ioTasks, baseTasks, at, writes, peer, call,
                       alive, fault, setting>>
    BY <1>7 DEF stopRead, startRead, refs, loops, ops
  <2>2. NoSpare' /\ Count(ioTasks', "connectDestroyed") = Count(ioTasks, "connectDestroyed")
    BY <1>4, <2>1 DEF NoSpare
  <2>3. writes' > 0 \/ Count(ioTasks', "writeHandler") > 0 => held
    BY <1>1, <2>1 DEF Safe, Kept
  <2> QED  BY <1>3, <2>1, <2>2, <2>3, QuietSafe
<1>8. CASE DropPointer
  <2>1. /\ held' = FALSE /\ Release
        /\ UNCHANGED <<state_, reading_, ups, downs, owned, ioTasks, baseTasks, at, reads, writes, peer,
                       call, setting>>
    BY <1>8 DEF DropPointer, object, loops, ops
  <2>2. ~(writes' > 0 \/ Count(ioTasks', "writeHandler") > 0)
    <3>1. setting.careful
      BY <1>1, MadeForFacts
    <3> QED  BY <1>1, <1>8, <2>1, <3>1, QueueFacts DEF DropPointer, sending
  <2>3. state_' /= "kDisconnected" => owned'
    BY <1>1, <2>1 DEF Safe, Phases
  <2>4. fault' = "none" /\ (owned' \/ held' \/ at' = "messageCallback" => alive')
    BY <1>1, <2>1, <2>3, ReleaseSafe
  <2>5. Phases'
    BY <1>1, <1>4, <2>1 DEF Safe, Phases, NoSpare
  <2>6. Kept'
    BY <1>1, <2>1, <2>2, <2>4 DEF Safe, Kept
  <2> QED  BY <1>1, <2>1, <2>4, <2>5, <2>6 DEF Safe
<1> QED  BY <1>5, <1>6, <1>7, <1>8

\* In another thread such an application only sends.
LEMMA ThreadSends ==
    ASSUME AllMadeFor, Whole, threadStep
    PROVE  threadSend
<1>1. call = "none"
  BY DEF Whole, Safe
<1>2. "thread" \in Sites /\ Typed
  BY DEF Whole, Sites
<1>3. /\ <<"thread", "shutdown">> \notin setting.uses /\ <<"thread", "forceClose">> \notin setting.uses
      /\ <<"thread", "stopRead">> \notin setting.uses /\ <<"thread", "startRead">> \notin setting.uses
  BY <1>2, MadeForFacts
<1> QED
  BY <1>1, <1>3 DEF threadStep, shutdownCheck, forceCloseCheck, threadCheck, ThreadIn, threadSetState,
                    shutdownPost, forceClosePost, stopReadPost, startReadPost

LEMMA PeerSafe ==
    ASSUME Whole, PeerCloses \/ PeerResets
    PROVE  Safe'
<1>1. /\ UNCHANGED <<state_, reading_, reads, writes, owned, held, ioTasks, baseTasks,
                     at, call, alive, ups, downs, fault, setting>>
      /\ peer' = "rst" => "rst" \in setting.events
  BY DEF PeerCloses, PeerResets, Step, object, refs, loops, ops
<1>2. Phases'
  BY <1>1 DEF Whole, Safe, Phases, NoSpare
<1>3. Kept'
  BY <1>1 DEF Whole, Safe, Kept
<1> QED  BY <1>1, <1>2, <1>3 DEF Whole, Safe

LEMMA SafeStep ==
    ASSUME AllMadeFor, Whole, [Next]_vars
    PROVE  Safe'
<1>1. CASE UNCHANGED vars
  <2>1. Phases' /\ Kept'
    BY <1>1 DEF vars, Whole, Safe, Phases, Kept, NoSpare
  <2> QED  BY <1>1, <2>1 DEF vars, Whole, Safe
<1> QED
  BY <1>1, TaskSafe, CallbackSafe, ReactorSafe, OwnerSafe, SendSafe, CallSafe, ThreadSends, PeerSafe
     DEF Next

LEMMA WholeInvariant ==
    ASSUME AllMadeFor
    PROVE  Spec => []Whole
<1>1. Init => Safe
  <2> SUFFICES ASSUME Init PROVE Safe
    OBVIOUS
  <2>1. /\ ioTasks \in Seq(Tasks) /\ Len(ioTasks) = 1 /\ ioTasks[1] = "connectEstablished"
    BY DEF Init, Tasks, OwningTasks
  <2>2. \A i \in 1 .. Len(ioTasks) : ioTasks[i] /= "connectDestroyed" /\ ioTasks[i] /= "writeHandler"
    BY <2>1
  <2>3. Count(ioTasks, "connectDestroyed") = 0 /\ Count(ioTasks, "writeHandler") = 0
    BY <2>1, <2>2, CountType
  <2>4. Phases
    BY <2>3 DEF Init, Phases
  <2>5. Kept
    BY <2>3 DEF Init, Kept
  <2> QED  BY <2>4, <2>5 DEF Init, Safe
<1>2. Typed => PausesInMessage
  BY MadeForFacts DEF PausesInMessage, Sites
<1>3. Spec => []Typed
  BY TypedInvariant
<1>4. Spec => [](PausesInMessage => OneReader /\ NoPause)
  BY ReaderInvariant
<1>5. Typed /\ OneReader /\ Safe /\ [Next]_vars => Safe'
  BY SafeStep DEF Whole
<1>6. Typed /\ OneReader /\ Safe => Whole
  BY DEF Whole
<1> QED
  BY <1>1, <1>2, <1>3, <1>4, <1>5, <1>6, PTL DEF Spec

\* Used as it is made for, a connection ends no process: no assert of it or of
\* its owner fails, no handler or functor meets the freed object, and shutdown
\* does not throw, for any number of reads, writes and queued functors.
THEOREM ConnectionNeverFails ==
    ASSUME AllMadeFor
    PROVE  Spec => []NoFault
<1>1. Whole => NoFault
  BY DEF Whole, Safe, NoFault
<1>2. Spec => []Whole
  BY WholeInvariant
<1> QED
  BY <1>1, <1>2, PTL

-----------------------------------------------------------------------------
(* The contract.                                                           *)

\* The contract's phase, of a connection that is alive or not, and has said UP
\* and DOWN so often.
PhaseOf(a, u, d) ==
    CASE a /\ u = 0 -> "new"
      [] a /\ u = 1 /\ d = 0 -> "up"
      [] a /\ u = 1 /\ d = 1 -> "down"
      [] ~a /\ u = 1 /\ d = 1 -> "gone"
      [] OTHER -> "broken"

LEMMA PhaseMeans ==
    ASSUME NEW a \in BOOLEAN, NEW u \in {0, 1}, NEW d \in {0, 1}, d = 0 => a, u = 0 => d = 0
    PROVE  PhaseOf(a, u, d) = IF u = 0 THEN "new" ELSE IF d = 0 THEN "up" ELSE IF a THEN "down" ELSE "gone"
<1>1. CASE u = 0
  BY <1>1 DEF PhaseOf
<1>2. CASE u = 1 /\ d = 0
  BY <1>2 DEF PhaseOf
<1>3. CASE u = 1 /\ d = 1 /\ a
  BY <1>3 DEF PhaseOf
<1>4. CASE u = 1 /\ d = 1 /\ ~a
  BY <1>4 DEF PhaseOf
<1> QED  BY <1>1, <1>2, <1>3, <1>4

\* What the contract needs to know of a state.
Told ==
    /\ alive \in BOOLEAN /\ ups \in {0, 1} /\ downs \in {0, 1}
    /\ downs = 0 => alive
    /\ ups = 0 => downs = 0 /\ at /= "messageCallback"
    /\ at = "messageCallback" => alive

LEMMA WholeTold == Whole => Told
<1> SUFFICES ASSUME Whole PROVE Told
  OBVIOUS
<1>1. Typed /\ Safe
  BY DEF Whole
<1>2. CASE state_ = "kConnecting"
  BY <1>1, <1>2 DEF Typed, Scalars, Fresh, Safe, Phases, Kept, Told
<1>3. CASE state_ /= "kConnecting"
  BY <1>1, <1>3 DEF Typed, Scalars, Safe, Phases, Kept, Told
<1> QED  BY <1>2, <1>3

\* The steps of the connection, as the contract sees them.
LEMMA StepsTell ==
    ASSUME AllMadeFor, Whole, Whole', [Next]_vars
    PROVE  \/ /\ ups = 0 /\ ups' = 1 /\ downs' = downs /\ at' /= "messageCallback"
           \/ /\ UNCHANGED <<ups, downs, alive>> /\ downs = 0 /\ ups = 1
              /\ at /= "messageCallback" /\ at' = "messageCallback"
           \/ /\ UNCHANGED <<ups, downs, alive>> /\ at = "messageCallback" /\ at' /= "messageCallback"
           \/ /\ ups' = ups /\ downs' \in {downs, downs + 1} /\ (alive' => alive)
              /\ at' = "messageCallback" <=> at = "messageCallback"
<1> USE DEF Step, Takes, InLoop, ThreadIn
<1>1. fault' = "none" /\ Typed /\ Safe
  BY DEF Whole, Safe
<1>2. CASE connectEstablished
  <2>1. state_ = "kConnecting"
    BY <1>1, <1>2 DEF connectEstablished, Fail
  <2> QED  BY <1>1, <1>2, <2>1 DEF connectEstablished, Typed, Fresh
<1>3. CASE readHandlerData
  <2>1. Head(ioTasks) = "readHandler" /\ ioTasks /= <<>> /\ at = "idle"
    BY <1>3 DEF readHandlerData
  <2>2. reads > 0
    BY <1>1, <2>1, QueueFacts DEF Typed, Queue
  <2>3. state_ /= "kDisconnected" /\ state_ /= "kConnecting"
    BY <1>1, <2>1, <2>2, ReadingUp DEF Typed, Fresh
  <2>4. downs = 0 /\ ups = 1
    BY <1>1, <2>3 DEF Safe, Phases
  <2> QED  BY <1>3, <2>1, <2>4 DEF readHandlerData, object
<1>4. CASE readHandlerRearm
  <2>1. alive' /\ alive
    BY <1>1, <1>4 DEF readHandlerRearm
  <2> QED  BY <1>4, <2>1 DEF readHandlerRearm, object, Whole, Typed, Scalars
<1>5. ASSUME NEW io, handleClose(io), alive' = (alive /\ Referenced'), at' = at
      PROVE  ups' = ups /\ downs' \in {downs, downs + 1} /\ (alive' => alive) /\ at' = at
  BY <1>5 DEF handleClose
<1>6. CASE runTask /\ ~connectEstablished /\ ~readHandlerData
  BY <1>1, <1>5, <1>6 DEF runTask, connectDestroyed, DanglingTask, readHandlerEof, readHandlerError,
     writeHandler, shutdownInLoop, stopReadInLoop, startReadInLoop, forceCloseInLoop, Fail, Release,
     object, loops
<1>7. CASE \/ EndUpCallback \/ reactor \/ removeConnectionInLoop \/ ServerEnds \/ PeerCloses \/ PeerResets
  BY <1>7 DEF EndUpCallback, reactor, ReadReady, ReadAborted, WriteReady, WriteFails,
     removeConnectionInLoop, ServerEnds, PeerCloses, PeerResets, Fail, Release, object, loops
<1>8. CASE forceClose
  BY <1>5, <1>8 DEF forceClose, Fail, Release, object, loops
<1>9. CASE send \/ shutdown \/ stopRead \/ startRead \/ DropPointer \/ threadStep
  BY <1>9 DEF send, shutdown, stopRead, startRead, DropPointer, threadStep, shutdownCheck,
     forceCloseCheck, threadCheck, threadSetState, shutdownPost, forceClosePost, stopReadPost,
     startReadPost, threadSend, threadPost, Release, object, loops
<1>10. CASE UNCHANGED vars
  BY <1>10 DEF vars
<1> QED
  BY <1>2, <1>3, <1>4, <1>6, <1>7, <1>8, <1>9, <1>10 DEF Next, endCallback

\* Each of them is a step of the contract, or none.
LEMMA StepRefines ==
    ASSUME AllMadeFor, Whole, Whole', Told, Told', [Next]_vars
    PROVE  [Contract!Next]_(Contract!vars)
<1> DEFINE p == PhaseOf(alive, ups, downs)
           q == PhaseOf(alive', ups', downs')
           m == at = "messageCallback"
           n == at' = "messageCallback"
<1>1. p = IF ups = 0 THEN "new" ELSE IF downs = 0 THEN "up" ELSE IF alive THEN "down" ELSE "gone"
  BY PhaseMeans DEF Told
<1>2. q = IF ups' = 0 THEN "new" ELSE IF downs' = 0 THEN "up" ELSE IF alive' THEN "down" ELSE "gone"
  BY PhaseMeans DEF Told
<1> HIDE DEF p, q
<1>3. \/ p = "new" /\ q = "up" /\ n = m
      \/ p = "up" /\ ~m /\ n = TRUE /\ q = p
      \/ m /\ n = FALSE /\ q = p
      \/ p = "up" /\ (q = "down" \/ (q = "gone" /\ ~m)) /\ n = m
      \/ p = "down" /\ ~n /\ q = "gone" /\ n = m
      \/ q = p /\ n = m
  BY <1>1, <1>2, StepsTell DEF Told
<1>4. Contract!Next \/ UNCHANGED Contract!vars
  BY <1>3 DEF p, q, PhaseOf, Contract!Next, Contract!Up, Contract!BeginMessage, Contract!EndMessage,
              Contract!Down, Contract!Gone, Contract!vars
<1> QED  BY <1>4

\* Used as it is made for, a connection keeps the contract: UP once, DOWN once,
\* messages only in between, and the object goes only after DOWN and never
\* under a message callback.
THEOREM ConnectionRefinement ==
    ASSUME AllMadeFor
    PROVE  Spec => KeepsContract
<1>1. Init => Contract!Init
  BY DEF Init, Contract!Init
<1>2. Spec => []Whole
  BY WholeInvariant
<1>3. Whole => Told
  BY WholeTold
<1>4. Whole /\ Whole' /\ Told /\ Told' /\ [Next]_vars => [Contract!Next]_(Contract!vars)
  BY StepRefines
<1> QED
  BY <1>1, <1>2, <1>3, <1>4, PTL DEF Spec, KeepsContract, Contract!Spec

=============================================================================

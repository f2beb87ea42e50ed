# A verification project for libNetToy

libNetToy is a small C++ network library in the style of muduo, on top of
boost.asio. It is built without `NDEBUG` (the CMake build type is empty), so
its asserts are active: a failed assert ends the process, and the modules treat
it as an outcome to be excluded.

## The system

| Part | State | Operations | Interacts with |
|---|---|---|---|
| `Buffer` (base/Buffer.h) | `buffer_`, `readerIndex_`, `writerIndex_` | append, prepend, retrieve, unwrite, ensureWritableBytes, hasWritten, integers | the input and output of a connection |
| `EventLoop` (base) | an io_service queue, its thread, a `TimerQueue` | loop, quit, runInLoop (inline in its own thread, else posted), queueInLoop, runAfter, cancel | everything |
| `TimerQueue` (base) | a map from timers to callbacks | addTimer, cancel, handleTimer | `Connector`, applications |
| `EventLoopThread`, `EventLoopThreadPool` (base) | a thread and its loop; the loops and the next index | startLoop (condition variable handshake), start, getNextLoop (round robin) | `TcpServer`, `Acceptor` |
| `Acceptor` (net) | `listenning_`, `newSockBindedLoop_` | listen, acceptHandler | pool, `TcpServer` |
| `TcpConnection` (net) | `state_`, `reading_`, two Buffers, the socket, callbacks | connectEstablished, readHandler, writeHandler, send, shutdown, forceClose, startRead, stopRead, handleClose, connectDestroyed | its owner (closeCallback), the application (connection, message and write-complete callbacks), the peer |
| `TcpServer` (net) | `connections_`, `nextConnId_` | start, newConnection, removeConnection, destructor | all of the above |
| `Connector` (net) | `connect_`, `state_`, `retryDelayMs_`, a weak socket, a weak timer | start, startInLoop, handleConnect, retry, restart, stop | `TcpClient` (newConnection callback), timers |
| `TcpClient` (net) | `connect_`, `retry_`, `connection_` | connect, disconnect, stop, newConnection, removeConnection, destructor | `Connector`, `TcpConnection` |
| `Logger`, `StringPiece`, `WeakCallback`, `Callbacks` | none that matters here | formatting, views, typedefs | |

What is hard in it:

* **Lifetime.** Completion handlers and several functors are bound to the raw
  `this`, others to a `shared_ptr`; the last pointer may go inside a handler that
  goes on. Where the object dies depends on whether the owner's loop is the
  connection's loop (inline removal) or not (two posts).
* **State without locks.** `state_` is checked and set in any thread by shutdown
  and forceClose, and set by the loop; `connect_` exists in both TcpClient and
  Connector; `handleTimer` and `writeHandler` take no lock.
* **Asynchronous writes that name memory**, partial writes, overlapping sends.
* **Stale completions**: an attempt that succeeded but was stopped, an aborted
  attempt's handler after a new start, a timer racing a stop.

A part is correct when: a Buffer is a queue of bytes that never trips its own
asserts and does not creep; the output is a stream of bytes; a connection says
UP once and DOWN once, messages in between, is removed once, never touched
after its end, and released; a client is after one connection at a time, gets it
when the server stays up, and rests after stop; timers fire once and cancelled
ones not at all; a server keeps accepting and forgets every connection it closed.

## Modules

| Module | Models | Notes |
|---|---|---|
| `Buffer` | base/Buffer.h as a record and one operator per method | a byte is a digit in base `Base`; asserts are predicates of their own |
| `ByteQueue` | the abstract queue of bytes | push and pop at both ends, clear, exchange |
| `BufferSpec` | any sequence of legal calls on a Buffer | refines `ByteQueue` |
| `OutputPath` | send, async_send, the kernel, writeHandler, shutdown, reset | uses `Buffer` |
| `ByteStream` | the abstract stream: submit and deliver in order | |
| `ConnectionLifecycle` | one TcpConnection between owner, loop, threads, application, peer | keeps `ConnectionContract` |
| `ConnectionContract` | UP, messages, DOWN, gone | |
| `Connector` | TcpClient and Connector: connect, retry, reconnect, stop | |
| `InputPath` | async_read_some, readHandler, startRead and stopRead, findCRLF and findEOL | uses `Buffer`; refines `ByteStream` |
| `TimerQueue` | addTimer, cancel and handleTimer, with `mutex_` where the code takes it | |
| `TcpServer` | TcpServer, Acceptor, EventLoopThreadPool and EventLoopThread together | several connections and loops |
| `BufferLemmas`, `BufferProofs`, `OutputProofs`, `InputProofs`, `ConnectionProofs`, `ConnectorProofs`, `TimerProofs`, `ServerProofs` | theorems | checked by TLAPS |
| `MC...` | the constants of the runs | |

`PROJECT.json` maps every definition to the lines it models. An operator defined
just before another one and not used anywhere is a mutant of it: a plausible slip
in that code, which the property named in `PROJECT.json` must catch.

**Buffer.** `makeSpace` has its two branches (grow by `resize`, or move the
content to the front); `std::vector` and `std::copy` are the functions they
compute. `Base` is 2 in the run, so that all integers of the widths can be
enumerated, and any number of at least 2 in the proofs. Searching (`findCRLF`,
`findEOL`) does not change a Buffer and is in `InputPath`.

**OutputPath.** An outstanding async_send is where it points, its length and the
size of the vector then; the bytes it sends are what the memory holds when the
kernel gets to it, and any bytes if the vector has changed size, since it may have
been reallocated. `MaxInFlight` says how many sends the application lets be
outstanding: 1 is an application that waits for each handler, 2 one that does not.
writeHandler does not go on with a partial write; the next send does. Of a write that
fails the application is never told: the handler only logs.

**ConnectionLifecycle.** A handler is one step, except that it stops inside the
UP and the message callback, where the application may call any method; a call
from another thread is one step for each access to `state_`. `alive` follows the
shared pointers: the owner's, the application's, a running callback's and those
bound into queued functors. A failed assert, an exception out of the loop or an
access to a dead object is recorded in `fault` and ends the behaviour. A setting,
chosen in the initial state from `Settings`, says which of the three ways the
connection is owned, which methods the application calls from where, whether it
is careful to keep its pointer while it has paused reading or has writes
outstanding, and what the peer and the server may do. A send from a thread completes at
once or is left to the kernel, where it may fail. In the DOWN callback the
application may let its pointer go, but calls nothing. An end of stream or a reset
is reported to the read handler that runs next.

**Connector.** The loop's queue holds functors and completion handlers in the
order they were posted; timers expire and connects complete at any time. stop() in
a thread is six steps (TcpClient's `connect_`, Connector's, the functor, and cancel()'s
weak_ptr, erasure and return), the handler of the retry timer is three (the weak_ptr,
the search and startInLoop, the erasure, without a lock), and the loop's
removeConnection and restart are two. The application calls connect() once (`app`).
Sockets and timers are numbered, and a number is used again once nothing refers to it. A
setting says whether the client retries, what the application calls from where,
whether the server is up, down, or both in turn, and whether it may reset a connection
before newConnection asks for its endpoint.

**InputPath.** A read names its window, the writable bytes when it was started; the
kernel copies any number of bytes there, later, and readHandler counts them in
(`landed`). If the vector has changed size since, the copy goes to memory the
buffer no longer has. The application takes whole lines in the message callback, and
a setting says when it pauses: never, there with the buffer empty, there with anything
in it, or at any time in the loop's thread (and then it also resumes at any time, with up
to `MaxReads` reads under way). stopReadInLoop leaves an outstanding read alone and
startReadInLoop makes no room, as in the code. The peer may cut the stream anywhere, and
the kernel hands over at most `Backlog` bytes at once.

**TimerQueue.** handleTimer is three steps (the weak_ptr, the search and the
callback, what follows) and takes no lock; cancel in another thread is four. A timer
lives as long as the map, a running handleTimer or a running cancel points to it,
and its outstanding wait is aborted with it. What the code leaves undefined is an
outcome of its own: a search while another thread changes the map (`race`), an erase
at an iterator that has gone (`invalidIterator`), a callback destroyed while it runs
(`callbackDestroyed`, which may also pass unnoticed).

**TcpServer.** Loop 0 is the server's, the others the pool's; each has a queue, and
runInLoop is inline or a post as the code has it. start() is a step per thread, with
startLoop's wait on the condition variable and threadFunc's notify under the mutex.
The loop of an accepted socket (`sockOf`) and the loop its TcpConnection is given
(`loopOf`) are kept apart, since Acceptor takes the one from the handler and the other
from a member. Of a connection there is only what concerns the server: established,
closed or reset by its peer, shut down by the application, removed, destroyed, and gone
when nothing holds a pointer, which is when its destructor's assert looks at `state_`.
After a reset readHandler goes on to `reading_` of a connection that may be gone. The
destructor runs in loop 0, stops it, and quits and joins the pool's threads one by
one; functors left in a loop that has quit never run.

## Runs

Passing:

| Run | Shows |
|---|---|
| `buffer` | ordered indices, no failing assert, bounded memory, integers survive, refines the queue |
| `output` | with one send at a time: no byte lost, repeated or reordered over partial writes, failures, shutdown and reset; what a partial write left goes out with the sends that follow |
| `connection` | for each owner and an application the code is made for: no fault, the contract, and release of the object after a close by either side; one of the settings destroys the server under connections that have not been shut down |
| `connection_any` | every owner, every call from every thread in every state, the end of the server and faults included: DOWN precedes removal, except for a connection shut down when its server is destroyed; one read at a time, whatever else is called, if the application pauses in the message callback and resumes later in the loop's thread |
| `input` | for one reader: no byte lost, repeated or overwritten from the kernel to the application; hasWritten's assert; a bounded buffer; refines the stream; if it pauses only with an empty buffer: room for every read, and every line delivered |
| `timers` | safe use in the loop, one wait per timer, silence after cancel (in any thread, and for a handler already queued), every timer fires |
| `server` | zero to two pool threads, a failing accept, an early or later reset, shutdown, an idle or busy end: round robin, sockets and connections on the same loop, DOWN before the end of each connection, clients accepted, closed connections forgotten, start() and the destructor return |
| `client` | one attempt at a time, reconnection once the server stays up, and rest after stop(), with a server that comes and goes (and stop() in a callback) and with one that refuses (and stop() at any moment from any thread); no fault but the two named in `NoFault` |

Where the code and what it says about itself part (each is a finding in
`PROJECT.json` with the line it contradicts):

| Run | Shows |
|---|---|
| `output_overlap_stream` | a second send before the first has completed sends the first one's bytes again (and, with one more step, its handler trips `Buffer::retrieve`'s assert) |
| `close_race` | forceClose in a thread undoes a close in the loop, and the second removal aborts |
| `client_stop_race` | stop() closes the socket of a connect that has already succeeded; newConnection throws |
| `timer_cancel_thread` | cancel in another thread, between handleTimer's weak_ptr and its search, trips its assert |

Distinct states: buffer 84,290, output 22,774, connection 789, connection_any 1,337,485,
input 40,865, timers 5,463, client 53,266, server 84,728.

The code does not cope with everything, and a property that holds says for whom. Where the
offending application or event is in the run, the exception is a named predicate in the
property; else it is left out of the settings in the `MC` module. Dropping any of them
makes the run fail:

* Connection: forceClose only inside the message callback and not on the server's own
  loop (elsewhere a read is outstanding, whose completion closes a second time or finds
  the object gone); no reset on that loop (readHandler goes on in the object that
  handleError destroyed, TcpConnection.cpp:103); no shutdown in a server that is
  destroyed (connectDestroyed leaves kDisconnecting, and the destructor's assert
  fails) or with a peer that resets (the socket's shutdown throws); the pointer kept
  while writes are outstanding; no shutdown from a thread. In `connection_any` all of that
  happens; there `DownBeforeRemoval` excepts `EndedShutDown`, a server destroyed with a
  connection shut down, and `OneRead` speaks of applications that `PausesInMessage`
  (elsewhere startRead adds a read to the outstanding one, TcpConnection.cpp:158).
* Input: bytes are conserved for `OneReader`, an application that pauses in the message
  callback only; reads have room, and lines are delivered, for one that also `KeepsRoom`:
  after a pause with a line half read startReadInLoop may find no writable byte, and the
  read completes empty, for ever. The other applications are in the run.
* Output: one send at a time. An application that waits for writeCompleteCallback_ after a
  write that failed waits for ever (TcpConnection.cpp:117), and one that stops calling
  send leaves the rest of a partial write unsent.
* Client: connect() once (after DOWN the Connector is still kConnected and startInLoop's
  assert fails); with a server that accepts, stop() only inside a callback (elsewhere it
  can overtake a connect that has succeeded, and in another thread restart() can set
  `connect_` again after stop() has cleared it, TcpClient.cpp:150, Connector.cpp:87).
  `NoFault` excepts two faults that do occur in the run: newConnection throws on a
  connection that its peer has reset already (TcpConnection.cpp:39), and stop() in another
  thread cancels the timer that handleTimer has in hand (TimerQueue.cpp:32).
* Server: `NoFault` excepts a reset between accept and the constructor of TcpConnection,
  which throws; later resets of a server without a pool (readHandler goes on in the
  connection that handleError has destroyed) or of connections that are shut down (the
  socket's shutdown throws); and a server destroyed busy with a pool (a connection that is
  still reading is destroyed, and its aborted read runs on freed memory) or with
  connections that are shut down (their destructor's assert fails). `ToldDown` excepts the
  last ones only, `EndedShutDown`. `KeepsAccepting` ends with the first failed accept, after which nothing
  listens. start() is called once: a second call fails `assert(!started_)`, though
  TcpServer.h:68 calls it harmless.
* Timers (`LoopUseIsSafe`): no use from other threads, no cancel of a timer inside its own
  callback.

**Bounds.** The Buffer run uses a prepend area and initial sizes of a few bytes,
so that growing, moving and exact fits all occur within a handful of calls.
`MaxSent` = 9 bytes let several sends, each split in any way, pass through a
reallocation and a compaction. `MaxReads` = 2 leaves room for a second read, so
that OneRead, and the conservation of the input, can fail; `MaxTasks`, `MaxWrites` and `MaxDowns` allow two or three of
anything that can pile up. Three sockets and two timers are more than the one that
OneAttempt allows. Three
connections on up to two pool threads wrap the round robin around and leave one loop
with two connections. Input streams are up to a few lines, longer than the initial
buffer, with `Backlog` = 3 (and one short line for the application that pauses at any
time). Two timers are enough for one to be added or cancelled in
the other's callback. Every bound is a named constant used in a guard. Deadlock is not
checked where the modelled process really may stop: a released connection, a stopped
client, a stream at its bound, a server that has ended, and any process after a fault.

**Fairness.** The loop runs what is queued (io_service is first-in first-out, so
a functor is not overtaken for ever by arriving data: strong fairness for the
connection's `runTask`, since the loop may be inside a callback in between) and
callbacks return. The kernel completes or fails each read, write and connect. A
due timer is not passed over for ever. A thread inside a call goes on. `Released`
also assumes that the application resumes what it paused and lets go of a
connection that is down, and that a peer whose stream has ended closes its side.
Sends by the application, the server's moods and losing a connection are not fair.
In `InputPath` the application also takes the lines it finds and resumes after a
pause; in `TimerQueue` time passes for each timer; in `TcpServer` each thread runs and an
outstanding accept takes a waiting client, while clients, closes, failures and the end
of the server are not fair. `LeftoversGoOut` assumes, in its antecedent, an application that
goes on sending.

## Proofs

`BufferProofs` proves, for every base, every reserve, initial size and payload,
that the indices stay ordered (`TypeCorrect`), that no assert of the space
management fails (`SpaceAssertsNeverFail`), that memory stays bounded
(`MemoryStaysBounded`) and that the Buffer implements the byte queue
(`Refinement`). The inductive invariant is the order of the indices together
with `kCheapPrepend` <= size (without it retrieveAll could move both indices past
the end of the vector), the bound on the unread bytes and the bound on the vector,
which need each other: makeSpace grows only when content, reserve and request
exceed what is there. One lemma per operation shows both that it keeps the invariant and
which step of the queue it is; they rest on `BufferLemmas`, which says what each
operator of `Buffer` does to the content.

`IntegersComeBack` adds that an integer put into a Buffer in any reachable state comes
back, and the rest of the content with it. It assumes `ConversionsInvert`, a fact about
`hostToNetwork` and `networkToHost` alone: the second is a recursive function over the
bytes, beyond the prover, and the run checks it for its widths.

`OutputProofs` proves, under `MaxInFlight = 1` and for every set of messages, that
the wire carries a prefix of what was sent (`StreamIsIntact`), that nothing is
lost (`NothingIsLost`) and that retrieve's assert never fails (`RetrieveNeverAborts`).
The invariant distinguishes
four situations, idle, sending, a success and a failure waiting for writeHandler,
and says in each how content, wire and sent fit together; an async_send always
points at the current content, which is why reallocation cannot hurt. `OutputTyped` needs
no such assumption: overlapping sends break the stream, never the buffer.

`InputProofs` proves for every stream, cut, backlog and size the types (`InputTyped`),
overlapping reads included; and, for an application that is one reader (`OneReader`), that
no byte is lost or overwritten (`InputIsConserved`), that no assert of the Buffer fails
(`ReadsAlwaysFit`), that the buffer is bounded (`InputStaysBounded`) and the refinement of
the stream (`InputRefinement`). `ReadsAlwaysFit` also says that every read has room if the
application pauses only with an empty buffer. The invariant is that
the input is in exactly one of five phases (a read outstanding, completed, the end seen,
inside the handler, quiet); that a read's window is what is still writable, so that
landing and counting agree; that a buffer found empty has been reset to its start, which
is what gives startReadInLoop its room after such a pause; and that what was consumed ends
a line, so that what is left is at most the longest incomplete line. The search for a line
is a Min or Max of a set, whose existence comes from well-foundedness of the naturals.

`ConnectionProofs` proves, for every owner, application and peer and with no assumption,
that a connection is forgotten only after its application was told DOWN
(`ToldBeforeForgotten`), but for one that was shut down when ~TcpServer forgets it. On a
pool the removal is queued on the base loop, so the invariant says that a queued removal,
too, has been preceded by DOWN. Which call or event closes, from which thread, and what
else is closing at the time do not matter. `ReadsOneAtATime` is about every application
that `PausesInMessage`, whatever else it calls: in the message callback the read is over,
and while paused there is none, so that the invariant relates `reading_`, the queued
readHandler and the count of reads. With an application that keeps to
`MadeFor`, which states the connection's restrictions under Runs as a predicate of the
setting, nothing fails (`ConnectionNeverFails`) and the contract of the callbacks is
implemented (`ConnectionRefinement`). The invariant says in each state who owns the object
and what is queued (`Phases`), and who keeps it alive (`Kept`): the owner until it is
down, the application while sends are outstanding, and after a close inside the message
callback the removal that is on its way. The settings of the `connection` run satisfy it.

`ConnectorProofs` proves the types for every application (`ConnectorTyped`); one attempt at
a time (`OneAttemptAtATime`), if stop() is not called in another thread by a client that may
be connected (`StopsInLoop`); and `NoFault`, its two exceptions included
(`ConnectorNeverFails`), if such a client also stops only in callbacks
(`StopsInCallback`). Both are restrictions of the `client`
run. The invariant is that the client is in one of six phases, idle, attempting, delayed
by a timer, about to handle a completion, connected, about to restart, each with the one
thing that may be queued, outstanding or on a timer then; that handleTimer's timer is
missing from the map only if a thread may have cancelled it; and that a client that has been
stopped cannot leave for a new attempt.

`TimerProofs` proves for any number of timers and any use that a timer nobody handles or
cancels has exactly one wait or queued handler (`TimersStayArmed`) and that a cancelled one
is silent (`CancelSilences`), and that use in the loop is safe (`LoopUseNeverFails`). For the
first the invariant adds that the timer being handled has neither, so that setting it again
gives it one; for the second, that a timer that cancel has returned for is not in the map.

`ServerProofs` proves for any number of threads and connections that a server gives its
connections to the loops in turn (`InTurn`) and that each runs in the loop its socket
belongs to (`LoopsAlwaysAgree`). For the first the invariant follows three places that
must be one behind the other: the last connection's loop, `newSockBindedLoop_` and
`next_`, with the wrap at the end of the pool. For the second it is that at most one
accept is under way, outstanding or as a queued acceptHandler, so that the member
`newSockBindedLoop_` cannot have moved on when the connection is made; the lemmas follow
the queue of the server's loop through every post and every task taken. `ServerTyped` are
the types. `AlwaysToldDown` says for every server, faults and busy ends included, that no
connection is released before DOWN, but for one that is kDisconnecting when the server is
destroyed: until connectEstablished has run it is queued in the connection's loop, once,
and the map holds the connection or a connectDestroyed is queued behind it; a connection
that is up is in the map or has its connectDestroyed queued, and until it is down, shut down
or not, it leaves the map only with the server. What is left in the queue of a loop that has
quit keeps its connection, which keeps the loop: it is never released.
`ServerNeverFails` is `NoFault`: for the servers it does not except, a connection goes
through five phases (unmade, opening,
open, closing, forgotten), each with the only functor or handler that can be queued for it
and the loop it is queued in, so that a handler finds its connection in the map; on a pool
the queued removal keeps a connection that was reset alive through the rest of readHandler.
A server without threads that is destroyed busy has stopped the only loop there is.

Only model-checked: liveness (`LeftoversGoOut`, `Released`, `Reconnects`,
`StopStops`, `LinesDelivered`, `Fires`, and the server's three), which the prover cannot
do under fairness, and that the byte-order conversions undo each other (within
`IntegersSurvive`).

## Not modelled, and the plan

Done: Buffer, the input and the output path, the life of a connection, the connector,
the timer queue, and the server with its acceptor, pool and threads.

Next, proofs: what the conversions of integers compute, for the widths of the code; and
whether the assumptions `StopsInLoop` and `MadeFor` can be weakened.

Left out:

* The destructor of TcpClient. Run in the loop's thread it either queues stopInLoop on a
  Connector that is then gone, or closes a connection whose outstanding read is then
  aborted on freed memory, or, if the application holds a pointer, leaves a close
  callback bound to the dead client. Only a client that outlives its loop is safe, and
  then nothing of it runs any more.
* `getLoopForHash` and `getAllLoops` of the pool (nothing calls them), the thread-local
  registration and the context of EventLoop.
* `Logger` (formatting and output), `StringPiece` and `WeakCallback` (no state; not used by
  the rest), `Callbacks` (typedefs).
* The data race between `writeHandler` and `send` on the Buffer's fields: with one send
  outstanding they do not overlap, and with two the code already fails.
* boost.asio itself, which is modelled by what the library relies on.

----------------------------- MODULE OutputPath -----------------------------
(***************************************************************************)
(* How TcpConnection (net/TcpConnection.cpp) writes: send appends to       *)
(* outputBuffer_ and starts an async_send of ALL its readable bytes, the   *)
(* kernel takes some of them, and writeHandler retrieves as many.          *)
(*                                                                         *)
(* An async_send names memory, not bytes: what goes out is what the memory *)
(* holds when the kernel gets to it.  If the vector has grown meanwhile it *)
(* may have been reallocated, and then any bytes go out.                   *)
(*                                                                         *)
(* send is atomic here (it holds mutex_).  So is writeHandler, which does  *)
(* not take mutex_: with MaxInFlight = 1 the two never overlap, since send *)
(* is only called when no handler is due.                                  *)
(***************************************************************************)
EXTENDS Buffer

CONSTANTS Message,      \* what the application may send
          MaxInFlight,  \* async_sends the application lets be outstanding
          MaxSent       \* bound on the bytes sent

ASSUME OutputAssumption ==
    /\ Message \subseteq Seq(Byte)
    /\ MaxInFlight \in Nat
    /\ MaxSent \in Nat

VARIABLES outputBuffer_,
          sends,        \* async_sends the kernel has not got to, oldest first
          completions,  \* calls of writeHandler queued in the loop
          socket,       \* "open", "shut" (by shutdown) or "reset" (by the peer)
          sent,         \* all the bytes handed to send so far
          wire,         \* all the bytes the kernel has taken so far
          failed        \* an assert has failed: the process has aborted

vars == <<outputBuffer_, sends, completions, socket, sent, wire, failed>>

Init ==
    /\ outputBuffer_ = newBuffer(kInitialSize)
    /\ sends = <<>>
    /\ completions = <<>>
    /\ socket = "open"
    /\ sent = <<>>
    /\ wire = <<>>
    /\ failed = FALSE

\* asyncSend from the place where the content of a new buffer starts.
asyncSendFromStart(b) == [at |-> kCheapPrepend, len |-> readableBytes(b), size |-> Len(b.buffer_)]

\* asyncSend up to the end of the vector.
asyncSendWholeVector(b) ==
    [at |-> b.readerIndex_, len |-> Len(b.buffer_) - b.readerIndex_, size |-> Len(b.buffer_)]

\* An async_send of everything readable in b.
asyncSend(b) == [at |-> b.readerIndex_, len |-> readableBytes(b), size |-> Len(b.buffer_)]

InFlight == Len(sends) + Len(completions)

\* send that writes its own message only.
sendNewBytes(m) ==
    /\ ~failed
    /\ InFlight < MaxInFlight
    /\ Len(sent) + Len(m) <= MaxSent
    /\ outputBuffer_' = append(outputBuffer_, m)
    /\ sends' = Append(sends, [at |-> outputBuffer_'.writerIndex_ - Len(m), len |-> Len(m),
                               size |-> Len(outputBuffer_'.buffer_)])
    /\ sent' = sent \o m
    /\ UNCHANGED <<completions, socket, wire, failed>>

\* TcpConnection::send, by an application that lets the handlers of all but
\* MaxInFlight - 1 of its earlier calls run first.
send(m) ==
    /\ ~failed
    /\ InFlight < MaxInFlight
    /\ Len(sent) + Len(m) <= MaxSent
    /\ outputBuffer_' = append(outputBuffer_, m)
    /\ sends' = Append(sends, asyncSend(outputBuffer_'))
    /\ sent' = sent \o m
    /\ UNCHANGED <<completions, socket, wire, failed>>

\* The n bytes an async_send finds where its buffer points.
found(op, n) ==
    IF Len(outputBuffer_.buffer_) = op.size
    THEN {[i \in 1 .. n |-> outputBuffer_.buffer_[op.at + i]]}
    ELSE [1 .. n -> Byte]

\* The kernel takes some of the bytes of the oldest async_send (at least one,
\* unless it has none).
KernelSend ==
    /\ ~failed /\ sends /= <<>>
    /\ LET op == Head(sends) IN
       /\ socket = "open" \/ op.len = 0
       /\ \E n \in 0 .. op.len :
             /\ n = 0 => op.len = 0
             /\ \E bytes \in found(op, n) : wire' = wire \o bytes
             /\ completions' = Append(completions, [ok |-> TRUE, n |-> n])
    /\ sends' = Tail(sends)
    /\ UNCHANGED <<outputBuffer_, socket, sent, failed>>

\* The oldest async_send fails: the connection cannot be written any more.
KernelFail ==
    /\ ~failed /\ sends /= <<>>
    /\ socket /= "open" /\ Head(sends).len > 0
    /\ completions' = Append(completions, [ok |-> FALSE, n |-> 0])
    /\ sends' = Tail(sends)
    /\ UNCHANGED <<outputBuffer_, socket, sent, wire, failed>>

\* writeHandler that takes the end of the async_send for the end of the data.
writeHandlerRetrieveAll ==
    /\ ~failed /\ completions /= <<>>
    /\ completions' = Tail(completions)
    /\ outputBuffer_' = IF Head(completions).ok THEN retrieveAll(outputBuffer_) ELSE outputBuffer_
    /\ UNCHANGED <<sends, socket, sent, wire, failed>>

\* TcpConnection::writeHandler.  On success the application is told by
\* writeCompleteCallback_; an error is only logged.
writeHandler ==
    /\ ~failed /\ completions /= <<>>
    /\ completions' = Tail(completions)
    /\ LET done == Head(completions) IN
       \/ /\ done.ok /\ retrieveAssert(outputBuffer_, done.n)
          /\ outputBuffer_' = retrieve(outputBuffer_, done.n)
          /\ failed' = failed
       \/ /\ done.ok /\ ~retrieveAssert(outputBuffer_, done.n)
          /\ failed' = TRUE
          /\ outputBuffer_' = outputBuffer_
       \/ /\ ~done.ok
          /\ UNCHANGED <<outputBuffer_, failed>>
    /\ UNCHANGED <<sends, socket, sent, wire>>

\* TcpConnection::shutdownInLoop: the sending side is closed at once, whether
\* or not outputBuffer_ is empty.
shutdownInLoop ==
    /\ ~failed /\ socket = "open"
    /\ socket' = "shut"
    /\ UNCHANGED <<outputBuffer_, sends, completions, sent, wire, failed>>

PeerReset ==
    /\ ~failed /\ socket /= "reset"
    /\ socket' = "reset"
    /\ UNCHANGED <<outputBuffer_, sends, completions, sent, wire, failed>>

Next ==
    \/ \E m \in Message : send(m)
    \/ KernelSend
    \/ KernelFail
    \/ writeHandler
    \/ shutdownInLoop
    \/ PeerReset

\* The peer goes on reading, so the kernel gets to every async_send, and the
\* loop runs the handlers that are queued.
Fairness == WF_vars(KernelSend) /\ WF_vars(KernelFail) /\ WF_vars(writeHandler)

Spec == Init /\ [][Next]_vars /\ Fairness

-----------------------------------------------------------------------------

\* The types of the variables, and the order of the buffer's indices.
TypeOK ==
    /\ outputBuffer_ \in Buffers
    /\ outputBuffer_.readerIndex_ <= outputBuffer_.writerIndex_
    /\ outputBuffer_.writerIndex_ <= Len(outputBuffer_.buffer_)
    /\ sends \in Seq([at : Nat, len : Nat, size : Nat])
    /\ completions \in Seq([ok : BOOLEAN, n : Nat])
    /\ socket \in {"open", "shut", "reset"}
    /\ sent \in Seq(Byte)
    /\ wire \in Seq(Byte)
    /\ failed \in BOOLEAN

\* writeHandler never retrieves more than outputBuffer_ holds: the assert in
\* Buffer::retrieve (Buffer.h:114) does not fail.
RetrieveAssertHolds == ~failed

\* What the kernel has taken is the beginning of what was sent: no byte is
\* repeated, dropped, reordered or read from memory that is no longer ours.
StreamIntegrity == Len(wire) <= Len(sent) /\ wire = SubSeq(sent, 1, Len(wire))

\* The bytes writeHandler is about to retrieve.
taken == IF completions /= <<>> /\ completions[1].ok THEN completions[1].n ELSE 0

\* Nothing is lost between the buffer and the kernel, on partial and on failed
\* sends too: what the kernel took followed by what is still readable (less
\* what writeHandler is about to retrieve) is what was sent.
Conservation ==
    wire \o SubSeq(content(outputBuffer_), taken + 1, readableBytes(outputBuffer_)) = sent

\* writeHandler does not go on with a partial write: what the kernel did not
\* take stays in outputBuffer_ until the next call of send, which writes it
\* first.  An application that goes on calling send, with empty messages too,
\* therefore gets every byte out, unless the connection is shut or reset.
\* (One that stops calling does not; and of a failed write it is never told.)
LeftoversGoOut ==
    []<>(sends /= <<>>) =>
        \A k \in 1 .. MaxSent : Len(sent) >= k ~> (Len(wire) >= k \/ socket /= "open")
=============================================================================

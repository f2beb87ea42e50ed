---------------------------- MODULE OutputProofs ----------------------------
(***************************************************************************)
(* Proofs about TcpConnection's output path, for every set of messages and *)
(* every size of the buffer: the types, however the application sends, and *)
(* the stream, for one that lets each handler run before it sends again    *)
(* (MaxInFlight = 1).                                                      *)
(***************************************************************************)
EXTENDS OutputPath, BufferLemmas

\* The readable bytes that the kernel has not taken.
Untaken(b, n) == SubSeq(content(b), n + 1, readableBytes(b))

Success(n) == [ok |-> TRUE, n |-> n]

Failure == [ok |-> FALSE, n |-> 0]

\* With one async_send at a time the path is in one of four phases.
Idle == sends = <<>> /\ completions = <<>>

Sending == sends = <<asyncSend(outputBuffer_)>> /\ completions = <<>>

Succeeded ==
    /\ sends = <<>>
    /\ \E n \in 0 .. readableBytes(outputBuffer_) : completions = <<Success(n)>>

GaveUp == sends = <<>> /\ completions = <<Failure>>

\* The inductive invariant.  Conservation alone is not inductive: that the
\* kernel takes the right bytes needs Sending to say that the one async_send
\* names exactly the readable bytes, in a vector that has not grown since.
IInv ==
    /\ Ordered(outputBuffer_)
    /\ sent \in Seq(Byte)
    /\ wire \in Seq(Byte)
    /\ socket \in {"open", "shut", "reset"}
    /\ failed = FALSE
    /\ Idle \/ Sending \/ Succeeded \/ GaveUp
    /\ Conservation

-----------------------------------------------------------------------------
(* Facts about the bytes of a buffer.                                      *)

\* The untaken bytes of a buffer.
LEMMA UntakenOK ==
    ASSUME NEW b, Ordered(b), NEW n \in 0 .. readableBytes(b)
    PROVE  /\ Untaken(b, n) \in Seq(Byte)
           /\ Untaken(b, 0) = content(b)
           /\ peek(b, n) \in Seq(Byte)
           /\ peek(b, n) \o Untaken(b, n) = content(b)
<1>1. content(b) \in Seq(Byte) /\ Len(content(b)) = readableBytes(b)
  BY ContentType
<1>2. readableBytes(b) \in Nat /\ n \in Nat /\ n <= readableBytes(b)
  BY DEF readableBytes, Ordered, Buffers
<1>3. peek(b, n) \in Seq(Byte) /\ peek(b, n) = SubSeq(content(b), 1, n)
  BY <1>2, PeekOK
<1>4. Untaken(b, 0) = content(b)
  BY <1>1, SubSeqFull DEF Untaken
<1> QED BY <1>1, <1>2, <1>3, <1>4, Split DEF Untaken

-----------------------------------------------------------------------------
(* What Conservation says in each phase.                                   *)

\* Nothing has been taken but not retrieved.
LEMMA NothingTaken ==
    ASSUME Ordered(outputBuffer_), completions = <<>> \/ completions = <<Failure>>
    PROVE  Conservation <=> wire \o content(outputBuffer_) = sent
<1>1. taken = 0
  BY DEF taken, Failure
<1>2. 0 \in 0 .. readableBytes(outputBuffer_)
  BY DEF readableBytes, Ordered, Buffers
<1>3. Untaken(outputBuffer_, 0) = content(outputBuffer_)
  BY <1>2, UntakenOK
<1> QED BY <1>1, <1>3 DEF Conservation, Untaken

\* n bytes have been taken and are about to be retrieved.
LEMMA SomeTaken ==
    ASSUME NEW n, completions = <<Success(n)>>
    PROVE  Conservation <=> wire \o Untaken(outputBuffer_, n) = sent
<1>1. taken = n
  BY DEF taken, Success
<1> QED BY <1>1 DEF Conservation, Untaken

\* The initial state satisfies the invariant.
LEMMA InitOK == Init => IInv
<1> SUFFICES ASSUME Init PROVE IInv
  OBVIOUS
<1>1. Ordered(outputBuffer_) /\ content(outputBuffer_) = <<>>
  BY NewBufferOK, BufferAssumption DEF Init
<1>2. completions = <<>> /\ sends = <<>> /\ wire = <<>> /\ sent = <<>>
      /\ socket = "open" /\ failed = FALSE
  BY DEF Init
<1>3. wire \in Seq(Byte) /\ sent \in Seq(Byte) /\ wire \o content(outputBuffer_) = sent
  BY <1>1, <1>2
<1>4. Conservation
  BY <1>1, <1>2, <1>3, NothingTaken
<1> QED BY <1>1, <1>2, <1>3, <1>4 DEF IInv, Idle

\* send: the new bytes go to the end of the buffer and of what was sent.
LEMMA SendStep ==
    ASSUME MaxInFlight = 1, IInv, NEW m \in Message, send(m)
    PROVE  IInv'
<1>1. m \in Seq(Byte)
  BY OutputAssumption
<1>2. Idle
  <2>1. Len(sends) + Len(completions) < 1
    BY DEF send, InFlight
  <2>2. ~Sending
    BY <2>1 DEF Sending
  <2>3. ~Succeeded
    BY <2>1 DEF Succeeded
  <2>4. ~GaveUp
    BY <2>1 DEF GaveUp
  <2> QED BY <2>2, <2>3, <2>4 DEF IInv
<1>3. /\ outputBuffer_' = append(outputBuffer_, m) /\ sent' = sent \o m
      /\ sends' = Append(sends, asyncSend(outputBuffer_')) /\ completions' = completions
      /\ wire' = wire /\ socket' = socket /\ failed' = failed
  BY DEF send
<1>4. Ordered(outputBuffer_') /\ content(outputBuffer_') = content(outputBuffer_) \o m
  BY <1>1, <1>3, AppendOK DEF IInv
<1>5. Sending'
  BY <1>2, <1>3 DEF Idle, Sending
<1>6. wire \o content(outputBuffer_) = sent
  BY <1>2, NothingTaken DEF IInv, Idle
<1>7. content(outputBuffer_) \in Seq(Byte) /\ wire \in Seq(Byte)
  BY ContentType DEF IInv
<1>8. wire' \o content(outputBuffer_') = sent'
  <2>1. (wire \o content(outputBuffer_)) \o m = wire \o (content(outputBuffer_) \o m)
    BY <1>1, <1>7, ConcatAssociative
  <2> QED BY <1>3, <1>4, <1>6, <2>1
<1>9. Conservation'
  <2>1. completions' = <<>>
    BY <1>5 DEF Sending
  <2>2. taken' = 0
    BY <2>1 DEF taken
  <2>3. 0 \in 0 .. readableBytes(outputBuffer_')
    BY <1>4 DEF readableBytes, Ordered, Buffers
  <2>4. Untaken(outputBuffer_', 0) = content(outputBuffer_')
    BY <1>4, <2>3, UntakenOK
  <2> QED BY <1>8, <2>2, <2>4 DEF Conservation, Untaken
<1>10. sent' \in Seq(Byte)
  BY <1>1, <1>3 DEF IInv
<1> QED BY <1>2, <1>3, <1>4, <1>5, <1>9, <1>10 DEF IInv

\* KernelSend: the kernel takes the beginning of the readable bytes.
LEMMA KernelSendStep ==
    ASSUME IInv, KernelSend
    PROVE  IInv'
<1>1. Sending
  BY DEF IInv, KernelSend, Idle, Succeeded, GaveUp
<1> DEFINE b == outputBuffer_
           op == Head(sends)
<1>2. op = asyncSend(b) /\ Tail(sends) = <<>>
  BY <1>1 DEF Sending
<1>3. /\ op.at = b.readerIndex_ /\ op.len = readableBytes(b) /\ op.size = Len(b.buffer_)
  BY <1>2 DEF asyncSend
<1>4. PICK n \in 0 .. op.len :
         /\ \E bytes \in found(op, n) : wire' = wire \o bytes
         /\ completions' = Append(completions, [ok |-> TRUE, n |-> n])
  BY DEF KernelSend
<1>5. n \in 0 .. readableBytes(b)
  BY <1>3, <1>4
<1>6. found(op, n) = {peek(b, n)}
  <2> HIDE DEF op
  <2> QED BY <1>3 DEF found, peek
<1>7. wire' = wire \o peek(b, n)
  BY <1>4, <1>6
<1>8. completions' = <<Success(n)>>
  BY <1>1, <1>4 DEF Sending, Success
<1>9. /\ sends' = <<>> /\ outputBuffer_' = b /\ socket' = socket /\ sent' = sent /\ failed' = failed
  BY <1>2 DEF KernelSend
<1>10. Ordered(b) /\ wire \in Seq(Byte) /\ sent \in Seq(Byte) /\ wire \o content(b) = sent
  BY <1>1, NothingTaken DEF IInv, Sending
<1>11. /\ Untaken(b, n) \in Seq(Byte) /\ peek(b, n) \in Seq(Byte)
       /\ peek(b, n) \o Untaken(b, n) = content(b)
  BY <1>5, <1>10, UntakenOK
<1>12. wire' \o Untaken(b, n) = sent'
  <2>1. (wire \o peek(b, n)) \o Untaken(b, n) = wire \o (peek(b, n) \o Untaken(b, n))
    <3>1. wire \in Seq(Byte) /\ peek(b, n) \in Seq(Byte) /\ Untaken(b, n) \in Seq(Byte)
      BY <1>10, <1>11
    <3> QED BY <3>1, BytesAssociate, Zenon
  <2>2. wire' \o Untaken(b, n) = wire \o content(b)
    BY <1>7, <1>11, <2>1
  <2> QED BY <1>9, <1>10, <2>2
<1>13. Conservation'
  <2>1. taken' = n
    BY <1>8 DEF taken, Success
  <2> QED BY <1>9, <1>12, <2>1 DEF Conservation, Untaken
<1>14. Succeeded'
  BY <1>5, <1>8, <1>9 DEF Succeeded
<1>15. wire' \in Seq(Byte)
  BY <1>7, <1>10, <1>11
<1> QED BY <1>9, <1>10, <1>13, <1>14, <1>15 DEF IInv

\* KernelFail: nothing is taken, nothing changes but the phase.
LEMMA KernelFailStep ==
    ASSUME IInv, KernelFail
    PROVE  IInv'
<1>1. Sending
  BY DEF IInv, KernelFail, Idle, Succeeded, GaveUp
<1>2. /\ sends' = <<>> /\ completions' = <<Failure>> /\ outputBuffer_' = outputBuffer_
      /\ socket' = socket /\ sent' = sent /\ wire' = wire /\ failed' = failed
  BY <1>1 DEF KernelFail, Sending, Failure
<1>3. taken = 0 /\ taken' = 0
  BY <1>1, <1>2 DEF taken, Sending, Failure
<1>4. Conservation'
  BY <1>2, <1>3 DEF IInv, Conservation
<1>5. GaveUp'
  BY <1>2 DEF GaveUp
<1> QED BY <1>2, <1>4, <1>5 DEF IInv

\* writeHandler: what was taken is retrieved, or an error is dropped.
LEMMA WriteHandlerStep ==
    ASSUME IInv, writeHandler
    PROVE  IInv'
<1>1. sends' = sends /\ socket' = socket /\ sent' = sent /\ wire' = wire
  BY DEF writeHandler
<1>2. CASE Succeeded
  <2>1. PICK n \in 0 .. readableBytes(outputBuffer_) : completions = <<Success(n)>>
    BY <1>2 DEF Succeeded
  <2>2. n \in Nat /\ n <= readableBytes(outputBuffer_) /\ readableBytes(outputBuffer_) \in Nat
    BY DEF readableBytes, IInv, Ordered, Buffers
  <2>3. retrieveAssert(outputBuffer_, n)
    BY <2>2 DEF retrieveAssert
  <2>4. Head(completions).ok = TRUE /\ Head(completions).n = n /\ Tail(completions) = <<>>
    BY <2>1 DEF Success
  <2>5. /\ outputBuffer_' = retrieve(outputBuffer_, n) /\ failed' = failed /\ completions' = <<>>
    BY <2>3, <2>4 DEF writeHandler
  <2>6. /\ Ordered(outputBuffer_')
        /\ content(outputBuffer_') = SubSeq(content(outputBuffer_), n + 1, Len(content(outputBuffer_)))
        /\ Len(content(outputBuffer_)) = readableBytes(outputBuffer_)
    BY <2>2, <2>3, <2>5, RetrieveOK, ContentType DEF IInv
  <2>7. content(outputBuffer_') = Untaken(outputBuffer_, n)
    BY <2>6 DEF Untaken
  <2>8. wire' \o content(outputBuffer_') = sent'
    BY <1>1, <2>1, <2>7, SomeTaken DEF IInv
  <2>9. Conservation'
    <3>1. taken' = 0
      BY <2>5 DEF taken
    <3>2. 0 \in 0 .. readableBytes(outputBuffer_')
      BY <2>6 DEF readableBytes, Ordered, Buffers
    <3>3. Untaken(outputBuffer_', 0) = content(outputBuffer_')
      BY <2>6, <3>2, UntakenOK
    <3> QED BY <2>8, <3>1, <3>3 DEF Conservation, Untaken
  <2>10. Idle'
    BY <1>1, <1>2, <2>5 DEF Idle, Succeeded
  <2> QED BY <1>1, <2>5, <2>6, <2>9, <2>10 DEF IInv
<1>3. CASE GaveUp
  <2>1. Head(completions).ok = FALSE /\ Tail(completions) = <<>>
    BY <1>3 DEF GaveUp, Failure
  <2>2. outputBuffer_' = outputBuffer_ /\ failed' = failed /\ completions' = <<>>
    BY <2>1 DEF writeHandler
  <2>3. taken = 0 /\ taken' = 0
    BY <1>3, <2>2 DEF taken, GaveUp, Failure
  <2>4. Conservation'
    BY <1>1, <2>2, <2>3 DEF IInv, Conservation
  <2>5. Idle'
    BY <1>1, <1>3, <2>2 DEF Idle, GaveUp
  <2> QED BY <1>1, <2>2, <2>4, <2>5 DEF IInv
<1>4. ~Idle /\ ~Sending
  BY DEF writeHandler, Idle, Sending
<1> QED BY <1>2, <1>3, <1>4 DEF IInv

\* The socket's state is no part of what the invariant relates.
LEMMA SocketStep ==
    ASSUME IInv, shutdownInLoop \/ PeerReset
    PROVE  IInv'
<1>1. /\ outputBuffer_' = outputBuffer_ /\ sends' = sends /\ completions' = completions
      /\ sent' = sent /\ wire' = wire /\ failed' = failed
      /\ socket' \in {"open", "shut", "reset"}
  BY DEF shutdownInLoop, PeerReset
<1>2. taken' = taken
  BY <1>1 DEF taken
<1>3. Conservation'
  BY <1>1, <1>2 DEF IInv, Conservation
<1>4. (Idle \/ Sending \/ Succeeded \/ GaveUp)'
  BY <1>1 DEF IInv, Idle, Sending, Succeeded, GaveUp
<1> QED BY <1>1, <1>3, <1>4 DEF IInv

\* StreamIntegrity and the other properties follow from the invariant.
LEMMA InvariantImplies == IInv => StreamIntegrity /\ RetrieveAssertHolds /\ Conservation
<1> SUFFICES ASSUME IInv PROVE StreamIntegrity /\ RetrieveAssertHolds /\ Conservation
  OBVIOUS
<1> DEFINE rest == SubSeq(content(outputBuffer_), taken + 1, readableBytes(outputBuffer_))
<1>1. rest \in Seq(Byte)
  <2>1. 0 \in 0 .. readableBytes(outputBuffer_)
    BY DEF IInv, readableBytes, Ordered, Buffers
  <2>2. CASE Succeeded
    <3>1. PICK n \in 0 .. readableBytes(outputBuffer_) : completions = <<Success(n)>>
      BY <2>2 DEF Succeeded
    <3>2. taken = n
      BY <3>1 DEF taken, Success
    <3>3. Untaken(outputBuffer_, n) \in Seq(Byte)
      BY UntakenOK DEF IInv
    <3> QED BY <3>2, <3>3 DEF Untaken
  <2>3. CASE Idle \/ Sending \/ GaveUp
    <3>1. taken = 0
      BY <2>3 DEF taken, Idle, Sending, GaveUp, Failure
    <3>2. Untaken(outputBuffer_, 0) \in Seq(Byte)
      BY <2>1, UntakenOK DEF IInv
    <3> QED BY <3>1, <3>2 DEF Untaken
  <2> QED BY <2>2, <2>3 DEF IInv
<1>2. wire \o rest = sent /\ wire \in Seq(Byte)
  BY DEF IInv, Conservation
<1> HIDE DEF rest
<1>3. Len(wire) <= Len(wire \o rest) /\ wire = SubSeq(wire \o rest, 1, Len(wire))
  BY <1>1, <1>2, Beginning
<1>4. StreamIntegrity
  BY <1>2, <1>3 DEF StreamIntegrity
<1> QED BY <1>4 DEF IInv, RetrieveAssertHolds

\* Every step keeps the invariant.
LEMMA NextOK ==
    ASSUME MaxInFlight = 1, IInv, [Next]_vars
    PROVE  IInv'
<1>1. CASE \E m \in Message : send(m)
  BY <1>1, SendStep
<1>2. CASE KernelSend
  BY <1>2, KernelSendStep
<1>3. CASE KernelFail
  BY <1>3, KernelFailStep
<1>4. CASE writeHandler
  BY <1>4, WriteHandlerStep
<1>5. CASE shutdownInLoop \/ PeerReset
  BY <1>5, SocketStep
<1>6. CASE UNCHANGED vars
  <2>1. /\ outputBuffer_' = outputBuffer_ /\ sends' = sends /\ completions' = completions
        /\ sent' = sent /\ wire' = wire /\ failed' = failed /\ socket' = socket
    BY <1>6 DEF vars
  <2>2. Conservation'
    BY <2>1 DEF IInv, Conservation, taken
  <2>3. (Idle \/ Sending \/ Succeeded \/ GaveUp)'
    BY <2>1 DEF IInv, Idle, Sending, Succeeded, GaveUp
  <2> QED BY <2>1, <2>2, <2>3 DEF IInv
<1> QED BY <1>1, <1>2, <1>3, <1>4, <1>5, <1>6 DEF Next

\* The invariant holds for ever.
LEMMA Inductive ==
    ASSUME MaxInFlight = 1
    PROVE  Spec => []IInv
<1>1. IInv /\ [Next]_vars => IInv'
  BY NextOK
<1> QED BY <1>1, InitOK, PTL DEF Spec

\* For every set of messages and every size of the buffer: if the application
\* lets each handler run before it sends again, what the socket
\* takes is the beginning of what was sent, through partial writes, growth and
\* compaction of the buffer, shutdown and reset.
THEOREM StreamIsIntact ==
    ASSUME MaxInFlight = 1
    PROVE  Spec => []StreamIntegrity
BY Inductive, InvariantImplies, PTL

\* Under the same discipline no byte is lost between buffer and socket.
THEOREM NothingIsLost ==
    ASSUME MaxInFlight = 1
    PROVE  Spec => []Conservation
BY Inductive, InvariantImplies, PTL

\* Under the same discipline the assert in Buffer::retrieve never fails.
THEOREM RetrieveNeverAborts ==
    ASSUME MaxInFlight = 1
    PROVE  Spec => []RetrieveAssertHolds
BY Inductive, InvariantImplies, PTL

-----------------------------------------------------------------------------
(* Type correctness, for an application that does not wait either: any     *)
(* number of async_sends may be outstanding, and may name memory that has  *)
(* moved.                                                                  *)

\* An async_send names memory within the vector it was started on.
Within(op) == op.at + op.len <= op.size

Sends == {op \in [at : Nat, len : Nat, size : Nat] : Within(op)}

\* The inductive invariant: what the kernel finds is bytes only if it looks
\* within the vector.
TypedInv == TypeOK /\ Ordered(outputBuffer_) /\ sends \in Seq(Sends)

\* A sequence stays one of the same set without its first element, or with one more.
LEMMA QueueTypes ==
    ASSUME NEW S, NEW q \in Seq(S)
    PROVE  /\ q /= <<>> => Tail(q) \in Seq(S) /\ Head(q) \in S
           /\ \A x \in S : Append(q, x) \in Seq(S)
OBVIOUS

\* An async_send of a buffer names memory within its vector.
LEMMA AsyncSendWithin ==
    ASSUME NEW b, Ordered(b)
    PROVE  asyncSend(b) \in Sends
<1>1. PICK r \in Nat, w \in Nat, l \in Nat :
         r = b.readerIndex_ /\ w = b.writerIndex_ /\ l = Len(b.buffer_) /\ r <= w /\ w <= l
  BY DEF Ordered, Buffers
<1>2. asyncSend(b) = [at |-> r, len |-> w - r, size |-> l]
  BY <1>1 DEF asyncSend, readableBytes
<1>3. w - r \in Nat /\ r + (w - r) <= l
  BY <1>1
<1> QED  BY <1>2, <1>3 DEF Sends, Within

\* What an async_send finds in memory is bytes.
LEMMA FoundBytes ==
    ASSUME Ordered(outputBuffer_), NEW op \in Sends, NEW n \in 0 .. op.len, NEW s \in found(op, n)
    PROVE  s \in Seq(Byte)
<1>1. op.at \in Nat /\ op.len \in Nat /\ op.size \in Nat /\ op.at + op.len <= op.size /\ n \in Nat
  BY DEF Sends, Within
<1>2. CASE Len(outputBuffer_.buffer_) = op.size
  <2>1. s = [i \in 1 .. n |-> outputBuffer_.buffer_[op.at + i]]
    BY <1>2 DEF found
  <2>2. \A i \in 1 .. n : op.at + i \in 1 .. Len(outputBuffer_.buffer_)
    BY <1>1, <1>2
  <2>3. \A i \in 1 .. n : outputBuffer_.buffer_[op.at + i] \in Byte
    BY <2>2 DEF Ordered, Buffers
  <2> QED  BY <1>1, <2>1, <2>3
<1>3. CASE Len(outputBuffer_.buffer_) /= op.size
  <2>1. s \in [1 .. n -> Byte]
    BY <1>3 DEF found
  <2> QED  BY <1>1, <2>1
<1> QED  BY <1>2, <1>3

\* Every step keeps the types, whether or not the application waits.
LEMMA TypedNext == TypedInv /\ [Next]_vars => TypedInv'
<1> SUFFICES ASSUME TypedInv, [Next]_vars PROVE TypedInv'
  OBVIOUS
<1> DEFINE C == [ok : BOOLEAN, n : Nat]
<1>1. Ordered(outputBuffer_)
  BY DEF TypedInv
<1>2. /\ sends \in Seq(Sends) /\ sends \in Seq([at : Nat, len : Nat, size : Nat])
      /\ completions \in Seq(C)
      /\ sent \in Seq(Byte) /\ wire \in Seq(Byte)
      /\ socket \in {"open", "shut", "reset"} /\ failed \in BOOLEAN
  BY DEF TypedInv, TypeOK
<1>3. ASSUME NEW m \in Message, send(m) PROVE TypedInv'
  <2>1. m \in Seq(Byte)
    BY OutputAssumption
  <2>2. Ordered(outputBuffer_')
    BY <1>1, <1>3, <2>1, AppendOK DEF send
  <2>3. asyncSend(outputBuffer_') \in Sends
    BY <2>2, AsyncSendWithin
  <2>4. sends' \in Seq(Sends) /\ sends' \in Seq([at : Nat, len : Nat, size : Nat])
    BY <1>2, <1>3, <2>3, QueueTypes DEF send, Sends
  <2>5. sent' \in Seq(Byte)
    BY <1>2, <1>3, <2>1 DEF send
  <2> QED  BY <1>2, <1>3, <2>2, <2>4, <2>5 DEF send, TypedInv, TypeOK, Ordered
<1>4. CASE KernelSend
  <2>1. Head(sends) \in Sends /\ sends' \in Seq(Sends)
        /\ sends' \in Seq([at : Nat, len : Nat, size : Nat])
    BY <1>2, <1>4, QueueTypes DEF KernelSend
  <2>2. PICK n \in 0 .. Head(sends).len :
           /\ \E s \in found(Head(sends), n) : wire' = wire \o s
           /\ completions' = Append(completions, [ok |-> TRUE, n |-> n])
    BY <1>4 DEF KernelSend
  <2>3. PICK s \in found(Head(sends), n) : wire' = wire \o s
    BY <2>2
  <2>4. wire' \in Seq(Byte)
    <3>1. s \in Seq(Byte)
      BY <1>1, <2>1, FoundBytes
    <3> QED  BY <1>2, <2>3, <3>1
  <2>5. Head(sends).len \in Nat
    BY <2>1 DEF Sends
  <2>6. [ok |-> TRUE, n |-> n] \in C
    BY <2>5
  <2>7. completions' \in Seq(C)
    BY <1>2, <2>2, <2>6, QueueTypes
  <2> QED  BY <1>1, <1>2, <1>4, <2>1, <2>4, <2>7 DEF KernelSend, TypedInv, TypeOK, Ordered
<1>5. CASE KernelFail
  <2>1. sends' \in Seq(Sends) /\ sends' \in Seq([at : Nat, len : Nat, size : Nat])
    BY <1>2, <1>5, QueueTypes DEF KernelFail
  <2>2. completions' \in Seq(C)
    BY <1>2, <1>5, QueueTypes DEF KernelFail
  <2> QED  BY <1>1, <1>2, <1>5, <2>1, <2>2 DEF KernelFail, TypedInv, TypeOK, Ordered
<1>6. CASE writeHandler
  <2>1. Head(completions) \in C /\ completions' \in Seq(C)
    BY <1>2, <1>6, QueueTypes DEF writeHandler
  <2>2. Head(completions).n \in Nat
    BY <2>1
  <2>3. Ordered(outputBuffer_') /\ failed' \in BOOLEAN
    BY <1>1, <1>2, <1>6, <2>2, RetrieveOK DEF writeHandler
  <2> QED  BY <1>2, <1>6, <2>1, <2>3 DEF writeHandler, TypedInv, TypeOK, Ordered
<1>7. CASE shutdownInLoop \/ PeerReset
  BY <1>1, <1>2, <1>7 DEF shutdownInLoop, PeerReset, TypedInv, TypeOK, Ordered
<1>8. CASE UNCHANGED vars
  BY <1>1, <1>2, <1>8 DEF vars, TypedInv, TypeOK, Ordered
<1> QED  BY <1>3, <1>4, <1>5, <1>6, <1>7, <1>8 DEF Next

\* The types, and the order of outputBuffer_'s indices, survive every call of
\* send at any time, overlapping ones included: what breaks when the
\* application does not wait is the stream and an assert, never the buffer.
THEOREM OutputTyped == Spec => []TypeOK
<1>1. Init => TypedInv
  <2> SUFFICES ASSUME Init PROVE TypedInv
    OBVIOUS
  <2>1. Ordered(outputBuffer_)
    BY NewBufferOK, BufferAssumption DEF Init
  <2>2. <<>> \in Seq(Sends) /\ <<>> \in Seq([at : Nat, len : Nat, size : Nat])
        /\ <<>> \in Seq([ok : BOOLEAN, n : Nat]) /\ <<>> \in Seq(Byte)
    OBVIOUS
  <2> QED  BY <2>1, <2>2 DEF Init, TypedInv, TypeOK, Ordered
<1>2. TypedInv => TypeOK
  BY DEF TypedInv
<1> QED  BY <1>1, <1>2, TypedNext, PTL DEF Spec
=============================================================================

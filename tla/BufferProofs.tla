---------------------------- MODULE BufferProofs ----------------------------
(***************************************************************************)
(* Proofs about every sequence of calls of base/Buffer.h.                  *)
(***************************************************************************)
EXTENDS BufferSpec, BufferLemmas

-----------------------------------------------------------------------------
(* The inductive invariant.  MemoryBounded needs the bound on the unread   *)
(* bytes, and the order of the indices needs kCheapPrepend <= size, for    *)
(* otherwise retrieveAll would move the indices past the end.              *)

IInv ==
    /\ Ordered(buf)
    /\ readableBytes(buf) <= MaxReadable
    /\ MemoryBounded
    /\ result \in Seq(Byte)

\* What one step of Next does, named by the queue operation it implements.
StepOK == IInv' /\ [Queue!Next]_(Queue!vars)

\* A fresh Buffer satisfies the invariant and is an empty queue.
LEMMA InitOK == Init => IInv /\ Queue!Init
<1> SUFFICES ASSUME Init PROVE IInv /\ Queue!Init
  OBVIOUS
<1>1. buf = newBuffer(kInitialSize) /\ result = <<>>
  BY DEF Init
<1>2. /\ Ordered(buf) /\ content(buf) = <<>> /\ readableBytes(buf) = 0
      /\ Len(buf.buffer_) = kCheapPrepend + kInitialSize
  BY <1>1, NewBufferOK, BufferAssumption
<1>3. result \in Seq(Byte)
  BY <1>1
<1> QED BY <1>1, <1>2, <1>3, BufferAssumption, SpecAssumption DEF IInv, MemoryBounded, Queue!Init

\* A call that leaves the vector at its size, or lets it grow below the bound.
LEMMA GrowthBounded ==
    ASSUME NEW b, Ordered(b), NEW c, Ordered(c), NEW len \in Nat, len <= MaxLen,
           readableBytes(b) <= MaxReadable,
           \/ Len(b.buffer_) <= kCheapPrepend + kInitialSize
           \/ Len(b.buffer_) < kCheapPrepend + MaxReadable + 2 * MaxLen,
           \/ Len(c.buffer_) = Len(b.buffer_)
           \/ Len(c.buffer_) < kCheapPrepend + readableBytes(b) + 2 * len
    PROVE  \/ Len(c.buffer_) <= kCheapPrepend + kInitialSize
           \/ Len(c.buffer_) < kCheapPrepend + MaxReadable + 2 * MaxLen
BY BufferAssumption, SpecAssumption DEF Ordered, Buffers, readableBytes

\* Buffer::append keeps the invariant and pushes its bytes at the back, whether
\* makeSpace grows the vector, moves the content to the front or does nothing.
LEMMA AppendStep ==
    ASSUME IInv, NEW d \in Payload, AppendBytes(d)
    PROVE  StepOK
<1>1. d \in Seq(Byte) /\ Len(d) \in Nat /\ Len(d) <= MaxLen
  BY SpecAssumption
<1>2. buf' = append(buf, d) /\ result' = <<>> /\ readableBytes(buf) + Len(d) <= MaxReadable
  BY DEF AppendBytes
<1>3. Ordered(buf) /\ readableBytes(buf) <= MaxReadable
  BY DEF IInv
<1>4. /\ Ordered(buf') /\ content(buf') = content(buf) \o d
      /\ readableBytes(buf') = readableBytes(buf) + Len(d)
      /\ \/ Len(buf'.buffer_) = Len(buf.buffer_)
         \/ Len(buf'.buffer_) < kCheapPrepend + readableBytes(buf) + 2 * Len(d)
  BY <1>1, <1>2, <1>3, AppendOK
<1>5. MemoryBounded'
  BY <1>1, <1>3, <1>4, GrowthBounded DEF MemoryBounded, IInv
<1>6. IInv'
  BY <1>2, <1>4, <1>5 DEF IInv
<1>7. Queue!Next
  BY <1>2, <1>4 DEF Queue!Next, Queue!PushBack
<1> QED BY <1>6, <1>7 DEF StepOK

\* Buffer::prepend keeps the invariant and pushes its bytes at the front.
LEMMA PrependStep ==
    ASSUME IInv, NEW d \in Payload, PrependBytes(d)
    PROVE  StepOK
<1>1. d \in Seq(Byte)
  BY SpecAssumption
<1>2. /\ buf' = prepend(buf, d) /\ result' = <<>> /\ prependAssert(buf, Len(d))
      /\ readableBytes(buf) + Len(d) <= MaxReadable
  BY DEF PrependBytes
<1>3. /\ Ordered(buf') /\ content(buf') = d \o content(buf)
      /\ readableBytes(buf') = readableBytes(buf) + Len(d)
      /\ Len(buf'.buffer_) = Len(buf.buffer_)
  BY <1>1, <1>2, PrependOK DEF IInv
<1>4. IInv'
  BY <1>2, <1>3 DEF IInv, MemoryBounded
<1>5. Queue!Next
  BY <1>2, <1>3 DEF Queue!Next, Queue!PushFront
<1> QED BY <1>4, <1>5 DEF StepOK

\* Writing at beginWrite() and hasWritten keep the invariant and push at the back.
LEMMA WriteInPlaceStep ==
    ASSUME IInv, NEW d \in Payload, WriteInPlace(d)
    PROVE  StepOK
<1>1. d \in Seq(Byte)
  BY SpecAssumption
<1>2. /\ buf' = hasWritten(buf, d) /\ result' = <<>> /\ hasWrittenAssert(buf, Len(d))
      /\ readableBytes(buf) + Len(d) <= MaxReadable
  BY DEF WriteInPlace
<1>3. /\ Ordered(buf') /\ content(buf') = content(buf) \o d
      /\ readableBytes(buf') = readableBytes(buf) + Len(d)
      /\ Len(buf'.buffer_) = Len(buf.buffer_)
  BY <1>1, <1>2, HasWrittenOK DEF IInv
<1>4. IInv'
  BY <1>2, <1>3 DEF IInv, MemoryBounded
<1>5. Queue!Next
  BY <1>2, <1>3 DEF Queue!Next, Queue!PushBack
<1> QED BY <1>4, <1>5 DEF StepOK

\* Buffer::swap with another valid Buffer keeps the invariant and exchanges contents.
LEMMA SwapStep ==
    ASSUME IInv, NEW d \in Payload, Swap(d)
    PROVE  StepOK
<1> DEFINE fresh == newBuffer(kInitialSize)
<1> HIDE DEF fresh
<1>1. d \in Seq(Byte) /\ Len(d) \in Nat /\ Len(d) <= MaxLen
  BY SpecAssumption
<1>2. buf' = append(fresh, d) /\ result' = <<>> /\ Len(d) <= MaxReadable
  BY DEF Swap, fresh
<1>3. /\ Ordered(fresh) /\ content(fresh) = <<>> /\ readableBytes(fresh) = 0
      /\ Len(fresh.buffer_) = kCheapPrepend + kInitialSize
  BY NewBufferOK, BufferAssumption DEF fresh
<1>4. /\ Ordered(buf') /\ content(buf') = content(fresh) \o d
      /\ readableBytes(buf') = readableBytes(fresh) + Len(d)
      /\ \/ Len(buf'.buffer_) = Len(fresh.buffer_)
         \/ Len(buf'.buffer_) < kCheapPrepend + readableBytes(fresh) + 2 * Len(d)
  BY <1>1, <1>2, <1>3, AppendOK
<1>5. content(buf') = d
  BY <1>1, <1>3, <1>4, ConcatEmptySeq
<1>6. readableBytes(buf') = Len(d)
  BY <1>1, <1>3, <1>4
<1>7. MemoryBounded'
  BY <1>1, <1>3, <1>4, GrowthBounded, BufferAssumption, SpecAssumption DEF MemoryBounded
<1>8. IInv'
  BY <1>2, <1>4, <1>6, <1>7 DEF IInv
<1>9. Queue!Next
  BY <1>2, <1>5 DEF Queue!Next, Queue!Exchange
<1> QED BY <1>8, <1>9 DEF StepOK

\* Buffer::retrieveAsString keeps the invariant and pops its bytes from the front.
LEMMA RetrieveStep ==
    ASSUME IInv, NEW len \in 0 .. readableBytes(buf), RetrieveAsString(len)
    PROVE  StepOK
<1>1. /\ Ordered(buf) /\ readableBytes(buf) \in Nat /\ readableBytes(buf) <= MaxReadable
      /\ Len(content(buf)) = readableBytes(buf) /\ MaxReadable \in Nat
  BY ContentType, SpecAssumption DEF IInv, readableBytes, Ordered, Buffers
<1>2. len \in Nat /\ len <= readableBytes(buf)
  BY <1>1
<1>3. buf' = retrieve(buf, len) /\ result' = peek(buf, len) /\ retrieveAssert(buf, len)
  BY DEF RetrieveAsString
<1>4. /\ Ordered(buf') /\ buf'.buffer_ = buf.buffer_
      /\ content(buf') = SubSeq(content(buf), len + 1, Len(content(buf)))
      /\ readableBytes(buf') = readableBytes(buf) - len
  BY <1>1, <1>2, <1>3, RetrieveOK
<1>5. result' \in Seq(Byte) /\ result' = SubSeq(content(buf), 1, len)
  BY <1>1, <1>2, <1>3, PeekOK
<1>6. readableBytes(buf') <= MaxReadable
  BY <1>1, <1>2, <1>4
<1>7. IInv'
  BY <1>4, <1>5, <1>6 DEF IInv, MemoryBounded
<1>8. Queue!PopFront(len)
  BY <1>1, <1>2, <1>4, <1>5 DEF Queue!PopFront
<1>9. Queue!Next
  BY <1>1, <1>8 DEF Queue!Next
<1> QED BY <1>7, <1>9 DEF StepOK

\* Buffer::unwrite keeps the invariant and pops its bytes from the back.
LEMMA UnwriteStep ==
    ASSUME IInv, NEW len \in 0 .. readableBytes(buf), Unwrite(len)
    PROVE  StepOK
<1>1. /\ Ordered(buf) /\ readableBytes(buf) \in Nat /\ readableBytes(buf) <= MaxReadable
      /\ Len(content(buf)) = readableBytes(buf) /\ MaxReadable \in Nat
  BY ContentType, SpecAssumption DEF IInv, readableBytes, Ordered, Buffers
<1>2. len \in Nat /\ len <= readableBytes(buf)
  BY <1>1
<1>3. buf' = unwrite(buf, len) /\ result' = <<>> /\ unwriteAssert(buf, len)
  BY DEF Unwrite
<1>4. /\ Ordered(buf') /\ buf'.buffer_ = buf.buffer_
      /\ content(buf') = SubSeq(content(buf), 1, Len(content(buf)) - len)
      /\ readableBytes(buf') = readableBytes(buf) - len
  BY <1>1, <1>2, <1>3, UnwriteOK
<1>5. result' \in Seq(Byte)
  BY <1>3
<1>6. readableBytes(buf') <= MaxReadable
  BY <1>1, <1>2, <1>4
<1>7. IInv'
  BY <1>4, <1>5, <1>6 DEF IInv, MemoryBounded
<1>8. Queue!PopBack(len)
  BY <1>1, <1>2, <1>3, <1>4 DEF Queue!PopBack
<1>9. Queue!Next
  BY <1>1, <1>8 DEF Queue!Next
<1> QED BY <1>7, <1>9 DEF StepOK

\* Buffer::ensureWritableBytes keeps the invariant and is invisible to the queue.
LEMMA EnsureWritableStep ==
    ASSUME IInv, NEW len \in 0 .. MaxLen, EnsureWritableBytes(len)
    PROVE  StepOK
<1>1. len \in Nat /\ len <= MaxLen
  BY SpecAssumption
<1>2. buf' = ensureWritableBytes(buf, len) /\ result' = <<>>
  BY DEF EnsureWritableBytes
<1>3. Ordered(buf) /\ readableBytes(buf) <= MaxReadable
  BY DEF IInv
<1>4. /\ Ordered(buf') /\ content(buf') = content(buf)
      /\ readableBytes(buf') = readableBytes(buf)
      /\ \/ Len(buf'.buffer_) = Len(buf.buffer_)
         \/ Len(buf'.buffer_) < kCheapPrepend + readableBytes(buf) + 2 * len
  BY <1>1, <1>2, <1>3, EnsureWritableOK
<1>5. MemoryBounded'
  BY <1>1, <1>3, <1>4, GrowthBounded DEF MemoryBounded, IInv
<1>6. IInv'
  BY <1>2, <1>3, <1>4, <1>5 DEF IInv
<1>7. Queue!Next
  BY <1>2, <1>4 DEF Queue!Next, Queue!Invisible
<1> QED BY <1>6, <1>7 DEF StepOK

\* Buffer::retrieveAll keeps the invariant and empties the queue.
LEMMA RetrieveAllStep ==
    ASSUME IInv, RetrieveAll
    PROVE  StepOK
<1>1. /\ Ordered(buf') /\ content(buf') = <<>> /\ buf'.buffer_ = buf.buffer_
      /\ readableBytes(buf') = 0 /\ result' = <<>>
  BY RetrieveAllOK DEF RetrieveAll, IInv
<1>2. IInv'
  BY <1>1, SpecAssumption DEF IInv, MemoryBounded
<1>3. Queue!Next
  BY <1>1 DEF Queue!Next, Queue!Clear
<1> QED BY <1>2, <1>3 DEF StepOK

\* Every step keeps the inductive invariant and is a step of the queue.
LEMMA NextOK == IInv /\ [Next]_vars => StepOK
<1> SUFFICES ASSUME IInv, [Next]_vars PROVE StepOK
  OBVIOUS
<1>1. CASE \E d \in Payload : AppendBytes(d)
  BY <1>1, AppendStep
<1>2. CASE \E d \in Payload : PrependBytes(d)
  BY <1>2, PrependStep
<1>3. CASE \E d \in Payload : WriteInPlace(d)
  BY <1>3, WriteInPlaceStep
<1>4. CASE \E d \in Payload : Swap(d)
  BY <1>4, SwapStep
<1>5. CASE \E len \in 0 .. readableBytes(buf) : RetrieveAsString(len)
  BY <1>5, RetrieveStep
<1>6. CASE \E len \in 0 .. readableBytes(buf) : Unwrite(len)
  BY <1>6, UnwriteStep
<1>7. CASE \E len \in 0 .. MaxLen : EnsureWritableBytes(len)
  BY <1>7, EnsureWritableStep
<1>8. CASE RetrieveAll
  BY <1>8, RetrieveAllStep
<1>9. CASE UNCHANGED vars
  BY <1>9 DEF vars, StepOK, IInv, MemoryBounded, Queue!vars
<1> QED BY <1>1, <1>2, <1>3, <1>4, <1>5, <1>6, <1>7, <1>8, <1>9 DEF Next

\* IInv holds in every state a Buffer can reach.
LEMMA Inductive == Spec => []IInv
BY InitOK, NextOK, PTL DEF Spec, StepOK

\* For every base, reserve, initial size and bound: the buffer keeps its type
\* and its indices their order through every sequence of legal calls.
THEOREM TypeCorrect == Spec => []TypeOK
<1>1. IInv => TypeOK
  BY DEF IInv, Ordered, TypeOK
<1> QED BY <1>1, Inductive, PTL

\* No assert of ensureWritableBytes and makeSpace can fail, for any request.
THEOREM SpaceAssertsNeverFail == Spec => []SpaceAssertsHold
<1>1. IInv => SpaceAssertsHold
  BY EnsureWritableOK, SpecAssumption DEF IInv, SpaceAssertsHold
<1> QED BY <1>1, Inductive, PTL

\* The vector stays below its bound for ever.
THEOREM MemoryStaysBounded == Spec => []MemoryBounded
<1>1. IInv => MemoryBounded
  BY DEF IInv
<1> QED BY <1>1, Inductive, PTL

\* The class implements the queue of bytes.
THEOREM Refinement == Spec => ImplementsByteQueue
<1>1. Init => Queue!Init
  BY InitOK
<1>2. IInv /\ [Next]_vars => [Queue!Next]_(Queue!vars)
  BY NextOK DEF StepOK
<1> QED BY <1>1, <1>2, Inductive, PTL DEF Spec, ImplementsByteQueue, Queue!Spec

\* The integers that the two conversions give back: a fact of arithmetic about
\* the operators alone, whatever the Buffer does with the bytes.
ConversionsInvert ==
    \A n \in Widths : \A x \in IntsOf(n) :
        hostToNetwork(x, n) \in Seq(Byte) /\ networkToHost(hostToNetwork(x, n)) = x

\* The bytes at the front and at the back of a string.
LEMMA Ends ==
    ASSUME NEW s \in Seq(Byte), NEW t \in Seq(Byte)
    PROVE  SubSeq(s \o t, Len(s) + 1, Len(s \o t)) = t
<1> DEFINE r == s \o t
<1>1. /\ Len(s) \in Nat /\ Len(t) \in Nat /\ r \in Seq(Byte) /\ Len(r) = Len(s) + Len(t)
      /\ \A i \in 1 .. Len(t) : r[Len(s) + i] = t[i]
  OBVIOUS
<1> HIDE DEF r
<1> DEFINE u == SubSeq(r, Len(s) + 1, Len(r))
<1>2. u \in Seq(Byte) /\ Len(u) = Len(t) /\ \A i \in 1 .. Len(t) : u[i] = r[Len(s) + i]
  BY <1>1
<1> HIDE DEF u
<1>3. u = t
  BY <1>1, <1>2
<1> QED  BY <1>3 DEF u, r

\* An integer goes through the Buffer as the bytes that it was converted to,
\* wherever they come to lie: over makeSpace's growing and moving it comes back
\* from the front, or from behind everything else, and the rest is intact.
\* That the conversions undo each other is assumed; the run checks it.
THEOREM IntegersComeBack ==
    ASSUME ConversionsInvert
    PROVE  Spec => []IntegersSurvive
<1>1. IInv => IntegersSurvive
  <2> SUFFICES ASSUME IInv, NEW n \in Widths, NEW x \in IntsOf(n)
               PROVE  /\ prependAssert(buf, n) =>
                            /\ peekInt(prependInt(buf, x, n), n) = x
                            /\ content(retrieve(prependInt(buf, x, n), n)) = content(buf)
                      /\ peekInt(retrieve(appendInt(buf, x, n), readableBytes(buf)), n) = x
                      /\ peek(appendInt(buf, x, n), readableBytes(buf)) = content(buf)
    BY DEF IntegersSurvive
  <2> DEFINE d == hostToNetwork(x, n)
             r == readableBytes(buf)
             s == content(buf)
  <2>1. d \in Seq(Byte) /\ networkToHost(d) = x /\ n \in Nat
    BY SpecAssumption DEF ConversionsInvert
  <2>2. Len(d) = n
    BY <2>1 DEF hostToNetwork
  <2> HIDE DEF d
  <2>3. Ordered(buf) /\ s \in Seq(Byte) /\ Len(s) = r
    BY ContentType DEF IInv
  <2>4. r \in Nat
    BY <2>3
  <2>5. ASSUME prependAssert(buf, n)
        PROVE  peekInt(prepend(buf, d), n) = x /\ content(retrieve(prepend(buf, d), n)) = s
    <3> DEFINE b == prepend(buf, d)
    <3>1. Ordered(b) /\ content(b) = d \o s /\ readableBytes(b) = r + n
      BY <2>1, <2>2, <2>3, <2>5, PrependOK
    <3> HIDE DEF b, s, r
    <3>2. n <= readableBytes(b)
      BY <2>1, <2>4, <3>1
    <3>3. peek(b, n) = d
      <4>1. peek(b, n) = SubSeq(content(b), 1, n)
        BY <2>1, <3>1, <3>2, PeekOK
      <4>2. SubSeq(d \o s, 1, n) = d
        BY <2>1, <2>2, <2>3, Beginning, Zenon
      <4> QED  BY <3>1, <4>1, <4>2, Zenon
    <3>4. content(retrieve(b, n)) = s
      <4>1. content(retrieve(b, n)) = SubSeq(content(b), n + 1, Len(content(b)))
        BY <2>1, <3>1, <3>2, RetrieveOK DEF retrieveAssert
      <4>2. SubSeq(d \o s, n + 1, Len(d \o s)) = s
        BY <2>1, <2>2, <2>3, Ends, Zenon
      <4> QED  BY <3>1, <4>1, <4>2, Zenon
    <3> QED  BY <2>1, <3>3, <3>4 DEF peekInt, b
  <2>6. peekInt(retrieve(append(buf, d), r), n) = x /\ peek(append(buf, d), r) = s
    <3> DEFINE b == append(buf, d)
               a == retrieve(b, r)
    <3>1. Ordered(b) /\ content(b) = s \o d /\ readableBytes(b) = r + n
      BY <2>1, <2>2, <2>3, AppendOK
    <3> HIDE DEF b, s, r
    <3>2. r <= readableBytes(b) /\ readableBytes(b) - r = n
      BY <2>1, <2>4, <3>1
    <3>3. Ordered(a) /\ content(a) = d /\ readableBytes(a) = n
      <4>1. /\ Ordered(a) /\ content(a) = SubSeq(content(b), r + 1, Len(content(b)))
            /\ readableBytes(a) = readableBytes(b) - r
        BY <2>4, <3>1, <3>2, RetrieveOK DEF retrieveAssert
      <4>2. SubSeq(s \o d, r + 1, Len(s \o d)) = d
        BY <2>1, <2>3, Ends, Zenon
      <4> QED  BY <3>1, <3>2, <4>1, <4>2, Zenon
    <3> HIDE DEF a
    <3>4. peek(a, n) = d
      <4>1. peek(a, n) = SubSeq(d, 1, n)
        BY <2>1, <3>3, PeekOK
      <4> QED  BY <2>1, <2>2, <4>1
    <3>5. peek(b, r) = s
      <4>1. peek(b, r) = SubSeq(content(b), 1, r)
        BY <2>4, <3>1, <3>2, PeekOK
      <4>2. SubSeq(s \o d, 1, r) = s
        BY <2>1, <2>3, Beginning, Zenon
      <4> QED  BY <3>1, <4>1, <4>2, Zenon
    <3> QED  BY <2>1, <3>4, <3>5 DEF peekInt, a, b, r, s
  <2> QED  BY <2>5, <2>6 DEF prependInt, appendInt, d, r, s
<1>2. Spec => []IInv
  BY Inductive
<1> QED BY <1>1, <1>2, PTL
=============================================================================

----------------------------- MODULE BufferSpec -----------------------------
(***************************************************************************)
(* A Buffer in use: every sequence of calls of the public methods that     *)
(* keeps their asserted preconditions.  appendIntN and prependIntN append  *)
(* and prepend the bytes of an integer, readIntN and retrieveIntN retrieve *)
(* N / 8 bytes: they are AppendBytes, PrependBytes and RetrieveAsString,   *)
(* and the conversion itself is the subject of IntegersSurvive.            *)
(***************************************************************************)
EXTENDS Buffer

CONSTANTS Payload,      \* strings appended and prepended
          Widths,       \* sizes in bytes of the integer types
          MaxLen,       \* bound on a string or on a request for room
          MaxReadable   \* bound on the unread bytes users leave in the buffer

ASSUME SpecAssumption ==
    /\ MaxLen \in Nat
    /\ MaxReadable \in Nat
    /\ Payload \subseteq Seq(Byte)
    /\ \A d \in Payload : Len(d) <= MaxLen
    /\ Widths \subseteq Nat

VARIABLES buf,    \* the Buffer
          result  \* the string returned by the last call

vars == <<buf, result>>

Init == buf = newBuffer(kInitialSize) /\ result = <<>>

AppendBytes(d) ==
    /\ readableBytes(buf) + Len(d) <= MaxReadable
    /\ buf' = append(buf, d)
    /\ result' = <<>>

PrependBytes(d) ==
    /\ prependAssert(buf, Len(d))
    /\ readableBytes(buf) + Len(d) <= MaxReadable
    /\ buf' = prepend(buf, d)
    /\ result' = <<>>

RetrieveAsString(len) ==
    /\ retrieveAssert(buf, len)
    /\ result' = peek(buf, len)
    /\ buf' = retrieve(buf, len)

RetrieveAll == buf' = retrieveAll(buf) /\ result' = <<>>

Unwrite(len) ==
    /\ unwriteAssert(buf, len)
    /\ buf' = unwrite(buf, len)
    /\ result' = <<>>

EnsureWritableBytes(len) ==
    /\ buf' = ensureWritableBytes(buf, len)
    /\ result' = <<>>

\* Data arrives at beginWrite() from outside (a socket read), then hasWritten.
WriteInPlace(d) ==
    /\ hasWrittenAssert(buf, Len(d))
    /\ readableBytes(buf) + Len(d) <= MaxReadable
    /\ buf' = hasWritten(buf, d)
    /\ result' = <<>>

\* swap with a new Buffer to which d has been appended.
Swap(d) ==
    /\ Len(d) <= MaxReadable
    /\ buf' = append(newBuffer(kInitialSize), d)
    /\ result' = <<>>

Next ==
    \/ \E d \in Payload : AppendBytes(d) \/ PrependBytes(d) \/ WriteInPlace(d) \/ Swap(d)
    \/ \E len \in 0 .. readableBytes(buf) : RetrieveAsString(len) \/ Unwrite(len)
    \/ \E len \in 0 .. MaxLen : EnsureWritableBytes(len)
    \/ RetrieveAll

Spec == Init /\ [][Next]_vars

-----------------------------------------------------------------------------

\* The type of the buffer and the order of its indices that the diagram in
\* Buffer.h:33-39 draws: 0 <= readerIndex_ <= writerIndex_ <= size.
TypeOK ==
    /\ buf \in Buffers
    /\ buf.readerIndex_ <= buf.writerIndex_
    /\ buf.writerIndex_ <= Len(buf.buffer_)
    /\ result \in Seq(Byte)

\* Whatever calls came before, ensureWritableBytes can serve every request:
\* none of the asserts in it and in makeSpace (Buffer.h:205, 414, 421) fails.
SpaceAssertsHold ==
    \A len \in 0 .. MaxLen : ensureWritableBytesAssert(buf, len)

\* The vector does not creep upwards over a long run of calls: as long as the
\* users leave at most MaxReadable bytes unread and ask for at most MaxLen at
\* a time, makeSpace's reuse of the room in front keeps the vector bounded.
MemoryBounded ==
    \/ Len(buf.buffer_) <= kCheapPrepend + kInitialSize
    \/ Len(buf.buffer_) < kCheapPrepend + MaxReadable + 2 * MaxLen

\* The signed integers of n bytes.
IntsOf(n) == -(Base ^ n \div 2) .. (Base ^ n \div 2) - 1

\* An integer put in front of whatever the buffer holds, or appended to it
\* and read after everything else, comes back with its value and its sign,
\* and the rest of the content is intact.
IntegersSurvive ==
    \A n \in Widths : \A x \in IntsOf(n) :
        /\ prependAssert(buf, n) =>
               LET b == prependInt(buf, x, n) IN
               /\ peekInt(b, n) = x
               /\ content(retrieve(b, n)) = content(buf)
        /\ LET b == appendInt(buf, x, n) IN
               /\ peekInt(retrieve(b, readableBytes(buf)), n) = x
               /\ peek(b, readableBytes(buf)) = content(buf)

\* The buffer implements the queue of bytes, capacity management hidden.
Queue == INSTANCE ByteQueue WITH queue <- content(buf)

\* Refinement: every call changes the readable bytes, and returns, exactly
\* what the corresponding operation of a queue of bytes does.
ImplementsByteQueue == Queue!Spec
=============================================================================

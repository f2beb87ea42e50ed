------------------------------- MODULE Buffer -------------------------------
(***************************************************************************)
(* The class Buffer of base/Buffer.h as a value: a record with the fields  *)
(* of the class, and one operator per method.                              *)
(*                                                                         *)
(*    +-------------------+------------------+------------------+          *)
(*    | prependable bytes |  readable bytes  |  writable bytes  |          *)
(*    +-------------------+------------------+------------------+          *)
(*    0      <=      readerIndex_  <=   writerIndex_   <=     size         *)
(*                                                                         *)
(* std::vector<char> is a sequence of bytes; the byte at index i of the    *)
(* vector is element i + 1 of the sequence.  A byte is a digit in base     *)
(* Base (256 in the code), kept a parameter so that TLC can enumerate      *)
(* whole integers and so that the proofs cover every base.                 *)
(*                                                                         *)
(* A method's assert is a predicate of its own, named after the method,    *)
(* so that a caller can say what happens when it fails.                    *)
(*                                                                         *)
(* An operator that no other one uses and that is a slip away from the one *)
(* after it is a mutant: the runs' properties must tell the two apart.     *)
(***************************************************************************)
EXTENDS Integers, Sequences

CONSTANTS Base,           \* how many values a byte has
          kCheapPrepend,  \* bytes reserved in front of the content
          kInitialSize    \* writable bytes of a default-constructed Buffer

ASSUME BufferAssumption ==
    /\ Base \in Nat
    /\ Base >= 2
    /\ kCheapPrepend \in Nat
    /\ kInitialSize \in Nat

Byte == 0 .. Base - 1

Buffers == [buffer_ : Seq(Byte), readerIndex_ : Nat, writerIndex_ : Nat]

readableBytes(b) == b.writerIndex_ - b.readerIndex_

writableBytes(b) == Len(b.buffer_) - b.writerIndex_

prependableBytes(b) == b.readerIndex_

\* The bytes from peek() up to beginWrite().
content(b) == [i \in 1 .. readableBytes(b) |-> b.buffer_[b.readerIndex_ + i]]

\* The first len bytes from peek().
peek(b, len) == [i \in 1 .. len |-> b.buffer_[b.readerIndex_ + i]]

-----------------------------------------------------------------------------
(* std::vector and std::copy, as the class uses them. *)

zeros(n) == [i \in 1 .. n |-> 0]

resize(mem, n) == [i \in 1 .. n |-> IF i <= Len(mem) THEN mem[i] ELSE 0]

\* data copied to the vector from index offset on.
copy(data, mem, offset) ==
    [i \in 1 .. Len(mem) |->
        IF offset < i /\ i <= offset + Len(data) THEN data[i - offset] ELSE mem[i]]

-----------------------------------------------------------------------------
(* The methods. *)

newBuffer(initialSize) ==
    [buffer_      |-> zeros(kCheapPrepend + initialSize),
     readerIndex_ |-> kCheapPrepend,
     writerIndex_ |-> kCheapPrepend]

\* retrieveAll that forgets to reset the reader.
retrieveAllWriterOnly(b) == [b EXCEPT !.writerIndex_ = kCheapPrepend]

retrieveAll(b) ==
    [buffer_      |-> b.buffer_,
     readerIndex_ |-> kCheapPrepend,
     writerIndex_ |-> kCheapPrepend]

retrieveAssert(b, len) == len <= readableBytes(b)

retrieve(b, len) ==
    IF len < readableBytes(b)
    THEN [b EXCEPT !.readerIndex_ = @ + len]
    ELSE retrieveAll(b)

unwriteAssert(b, len) == len <= readableBytes(b)

unwrite(b, len) == [b EXCEPT !.writerIndex_ = @ - len]

\* mustGrow with the reserve forgotten.
mustGrowNoReserve(b, len) == writableBytes(b) + prependableBytes(b) < len

\* mustGrow that never finds the room in front.
mustGrowAlways(b, len) == TRUE

\* Room is short: does the vector have to grow, or is there enough in front?
mustGrow(b, len) ==
    writableBytes(b) + prependableBytes(b) < len + kCheapPrepend

\* compact that moves the indices and not the bytes.
compactIndicesOnly(b) ==
    [buffer_      |-> b.buffer_,
     readerIndex_ |-> kCheapPrepend,
     writerIndex_ |-> kCheapPrepend + readableBytes(b)]

\* The readable bytes move to the front, which std::copy does correctly only
\* towards lower addresses.
compact(b) ==
    [buffer_      |-> copy(content(b), b.buffer_, kCheapPrepend),
     readerIndex_ |-> kCheapPrepend,
     writerIndex_ |-> kCheapPrepend + readableBytes(b)]

makeSpace(b, len) ==
    IF mustGrow(b, len)
    THEN [b EXCEPT !.buffer_ = resize(@, b.writerIndex_ + len)]
    ELSE compact(b)

makeSpaceAssert(b, len) == ~mustGrow(b, len) => kCheapPrepend < b.readerIndex_

ensureWritableBytes(b, len) ==
    IF writableBytes(b) < len THEN makeSpace(b, len) ELSE b

ensureWritableBytesAssert(b, len) ==
    /\ writableBytes(b) < len => makeSpaceAssert(b, len)
    /\ writableBytes(ensureWritableBytes(b, len)) >= len

hasWrittenAssert(b, len) == len <= writableBytes(b)

\* The caller has put data at beginWrite() and says so with hasWritten.
hasWritten(b, data) ==
    [buffer_      |-> copy(data, b.buffer_, b.writerIndex_),
     readerIndex_ |-> b.readerIndex_,
     writerIndex_ |-> b.writerIndex_ + Len(data)]

append(b, data) == hasWritten(ensureWritableBytes(b, Len(data)), data)

prependAssert(b, len) == len <= prependableBytes(b)

prepend(b, data) ==
    [buffer_      |-> copy(data, b.buffer_, b.readerIndex_ - Len(data)),
     readerIndex_ |-> b.readerIndex_ - Len(data),
     writerIndex_ |-> b.writerIndex_]

-----------------------------------------------------------------------------
(* Integers of n bytes, two's complement, in network byte order.           *)

\* The host's own order on a little-endian machine.
hostToHost(x, n) == [i \in 1 .. n |-> (x \div Base ^ (i - 1)) % Base]

\* htonl, htons: the bytes of x, the most significant first.
hostToNetwork(x, n) == [i \in 1 .. n |-> (x \div Base ^ (n - i)) % Base]

\* ntohl, ntohs and the conversion to a signed type.
networkToHost(s) ==
    LET n == Len(s)
        value[i \in 0 .. n] == IF i = 0 THEN 0 ELSE value[i - 1] * Base + s[i]
    IN  IF 2 * value[n] >= Base ^ n THEN value[n] - Base ^ n ELSE value[n]

appendInt(b, x, n) == append(b, hostToNetwork(x, n))

prependInt(b, x, n) == prepend(b, hostToNetwork(x, n))

peekIntAssert(b, n) == readableBytes(b) >= n

peekInt(b, n) == networkToHost(peek(b, n))
=============================================================================

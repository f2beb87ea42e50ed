---------------------------- MODULE BufferLemmas ----------------------------
(***************************************************************************)
(* What each method of base/Buffer.h does to the indices, to the readable  *)
(* bytes and to the size of the vector, for every base, every reserve in   *)
(* front and every initial size.                                           *)
(***************************************************************************)
EXTENDS Buffer, SequenceTheorems, TLAPS

\* A buffer whose indices are in the order the class promises.
Ordered(b) ==
    /\ b \in Buffers
    /\ b.readerIndex_ <= b.writerIndex_
    /\ b.writerIndex_ <= Len(b.buffer_)
    /\ kCheapPrepend <= Len(b.buffer_)

-----------------------------------------------------------------------------
(* std::vector and std::copy.                                              *)

\* A vector of n zeros is a sequence of n bytes.
LEMMA ZerosType ==
    ASSUME NEW n \in Nat
    PROVE  zeros(n) \in Seq(Byte) /\ Len(zeros(n)) = n
BY BufferAssumption DEF zeros, Byte

\* resize yields a vector of the new size.
LEMMA ResizeType ==
    ASSUME NEW mem \in Seq(Byte), NEW n \in Nat
    PROVE  resize(mem, n) \in Seq(Byte) /\ Len(resize(mem, n)) = n
BY BufferAssumption DEF resize, Byte

\* Copying keeps the size of the vector and its type.
LEMMA CopyType ==
    ASSUME NEW mem \in Seq(Byte), NEW data \in Seq(Byte), NEW offset \in Nat
    PROVE  copy(data, mem, offset) \in Seq(Byte) /\ Len(copy(data, mem, offset)) = Len(mem)
BY DEF copy

\* What copying puts at each place of the vector.
LEMMA CopyElement ==
    ASSUME NEW mem, NEW data, NEW offset, NEW j \in 1 .. Len(mem)
    PROVE  copy(data, mem, offset)[j]
             = IF offset < j /\ j <= offset + Len(data) THEN data[j - offset] ELSE mem[j]
BY DEF copy

\* The elements r + 1 .. r + n of the vector.
window(mem, r, n) == [i \in 1 .. n |-> mem[r + i]]

\* A window extended over what has just been copied behind it.
LEMMA CopyBehind ==
    ASSUME NEW mem \in Seq(Byte), NEW d \in Seq(Byte), NEW r \in Nat, NEW n \in Nat,
           r + n + Len(d) <= Len(mem)
    PROVE  window(copy(d, mem, r + n), r, n + Len(d)) = window(mem, r, n) \o d
<1> DEFINE c == copy(d, mem, r + n)
           a == window(c, r, n + Len(d))
           z == window(mem, r, n) \o d
<1>1. Len(d) \in Nat /\ Len(mem) \in Nat /\ r + n \in Nat
  OBVIOUS
<1>2. c \in Seq(Byte) /\ Len(c) = Len(mem)
  BY <1>1, CopyType
<1>3. window(mem, r, n) \in Seq(Byte) /\ Len(window(mem, r, n)) = n
  BY <1>1 DEF window
<1>4. a \in Seq(Byte) /\ Len(a) = n + Len(d)
  <2> HIDE DEF c
  <2> QED BY <1>1, <1>2 DEF window
<1>5. z \in Seq(Byte) /\ Len(z) = n + Len(d)
  BY <1>3
<1>6. ASSUME NEW i \in 1 .. (n + Len(d)) PROVE a[i] = z[i]
  <2>1. a[i] = c[r + i]
    BY DEF window
  <2>2. r + i \in 1 .. Len(mem)
    BY <1>1
  <2>3. c[r + i] = IF r + n < r + i /\ r + i <= r + n + Len(d) THEN d[r + i - (r + n)] ELSE mem[r + i]
    BY <2>2, CopyElement
  <2>4. CASE i <= n
    <3>1. ~(r + n < r + i)
      BY <2>4
    <3>2. z[i] = window(mem, r, n)[i]
      BY <1>3, <2>4
    <3>3. window(mem, r, n)[i] = mem[r + i]
      BY <2>4 DEF window
    <3> QED BY <2>1, <2>3, <3>1, <3>2, <3>3
  <2>5. CASE ~(i <= n)
    <3>1. r + n < r + i /\ r + i <= r + n + Len(d) /\ r + i - (r + n) = i - n
      BY <1>1, <2>5
    <3>2. z[i] = d[i - n]
      BY <1>1, <1>3, <2>5
    <3> QED BY <2>1, <2>3, <3>1, <3>2
  <2> QED BY <2>4, <2>5
<1> QED BY <1>4, <1>5, <1>6, SeqEqual

\* A window extended over what has just been copied in front of it.
LEMMA CopyBefore ==
    ASSUME NEW mem \in Seq(Byte), NEW d \in Seq(Byte), NEW r \in Nat, NEW n \in Nat,
           r + Len(d) + n <= Len(mem)
    PROVE  window(copy(d, mem, r), r, Len(d) + n) = d \o window(mem, r + Len(d), n)
<1> DEFINE c == copy(d, mem, r)
           b == window(mem, r + Len(d), n)
           a == window(c, r, Len(d) + n)
           z == d \o b
<1>1. Len(d) \in Nat /\ Len(mem) \in Nat /\ r + Len(d) \in Nat
  OBVIOUS
<1>2. c \in Seq(Byte) /\ Len(c) = Len(mem)
  BY <1>1, CopyType
<1>3. b \in Seq(Byte) /\ Len(b) = n
  BY <1>1 DEF window
<1>4. a \in Seq(Byte) /\ Len(a) = Len(d) + n
  <2> HIDE DEF c
  <2> QED BY <1>1, <1>2 DEF window
<1>5. z \in Seq(Byte) /\ Len(z) = Len(d) + n
  BY <1>3
<1>6. ASSUME NEW i \in 1 .. (Len(d) + n) PROVE a[i] = z[i]
  <2>1. a[i] = c[r + i]
    BY DEF window
  <2>2. r + i \in 1 .. Len(mem)
    BY <1>1
  <2>3. c[r + i] = IF r < r + i /\ r + i <= r + Len(d) THEN d[r + i - r] ELSE mem[r + i]
    BY <2>2, CopyElement
  <2>4. CASE i <= Len(d)
    <3>1. r < r + i /\ r + i <= r + Len(d) /\ r + i - r = i
      BY <1>1, <2>4
    <3>2. z[i] = d[i]
      BY <1>1, <1>3, <2>4
    <3> QED BY <2>1, <2>3, <3>1, <3>2
  <2>5. CASE ~(i <= Len(d))
    <3>1. ~(r + i <= r + Len(d)) /\ r + Len(d) + (i - Len(d)) = r + i /\ i - Len(d) \in 1 .. n
      BY <1>1, <2>5
    <3>2. z[i] = b[i - Len(d)]
      BY <1>1, <1>3, <2>5
    <3>3. b[i - Len(d)] = mem[r + Len(d) + (i - Len(d))]
      BY <3>1 DEF window
    <3> QED BY <2>1, <2>3, <3>1, <3>2, <3>3
  <2> QED BY <2>4, <2>5
<1> QED BY <1>4, <1>5, <1>6, SeqEqual

\* The readable bytes are a string of bytes.
LEMMA ContentType ==
    ASSUME NEW b, Ordered(b)
    PROVE  content(b) \in Seq(Byte) /\ Len(content(b)) = readableBytes(b)
BY DEF content, Ordered, Buffers, readableBytes

-----------------------------------------------------------------------------
(* Each method keeps the indices in order and does to the readable bytes   *)
(* what the queue does.                                                    *)

\* A new Buffer is in order and empty.
LEMMA NewBufferOK ==
    ASSUME NEW n \in Nat
    PROVE  /\ Ordered(newBuffer(n))
           /\ content(newBuffer(n)) = <<>>
           /\ Len(newBuffer(n).buffer_) = kCheapPrepend + n
           /\ readableBytes(newBuffer(n)) = 0
BY BufferAssumption, ZerosType DEF newBuffer, Ordered, Buffers, content, readableBytes

\* retrieveAll empties the buffer and keeps its vector.
LEMMA RetrieveAllOK ==
    ASSUME NEW b, Ordered(b)
    PROVE  /\ Ordered(retrieveAll(b))
           /\ content(retrieveAll(b)) = <<>>
           /\ retrieveAll(b).buffer_ = b.buffer_
           /\ readableBytes(retrieveAll(b)) = 0
BY BufferAssumption DEF retrieveAll, Ordered, Buffers, content, readableBytes

\* retrieve removes the first len readable bytes.
LEMMA RetrieveOK ==
    ASSUME NEW b, Ordered(b), NEW len \in Nat, retrieveAssert(b, len)
    PROVE  /\ Ordered(retrieve(b, len))
           /\ content(retrieve(b, len)) = SubSeq(content(b), len + 1, Len(content(b)))
           /\ retrieve(b, len).buffer_ = b.buffer_
           /\ readableBytes(retrieve(b, len)) = readableBytes(b) - len
<1>1. CASE len < readableBytes(b)
  <2> DEFINE r == [b EXCEPT !.readerIndex_ = @ + len]
  <2>1. retrieve(b, len) = r
    BY <1>1 DEF retrieve
  <2>2. Ordered(r) /\ r.buffer_ = b.buffer_ /\ readableBytes(r) = readableBytes(b) - len
    BY <1>1 DEF Ordered, Buffers, readableBytes
  <2>3. content(r) = SubSeq(content(b), len + 1, Len(content(b)))
    <3>1. Len(content(b)) = readableBytes(b) /\ content(b) \in Seq(Byte)
      BY ContentType
    <3>2. SubSeq(content(b), len + 1, readableBytes(b))
            = [i \in 1 .. (readableBytes(b) - len) |-> content(b)[i + len]]
      BY <1>1, <3>1 DEF readableBytes, Ordered, Buffers
    <3>3. \A i \in 1 .. (readableBytes(b) - len) :
             content(b)[i + len] = b.buffer_[b.readerIndex_ + len + i]
      BY <1>1 DEF content, readableBytes, Ordered, Buffers
    <3>4. content(r) = [i \in 1 .. (readableBytes(b) - len) |-> b.buffer_[b.readerIndex_ + len + i]]
      BY <1>1, <2>2 DEF content, Ordered, Buffers
    <3> QED BY <3>1, <3>2, <3>3, <3>4
  <2> QED BY <2>1, <2>2, <2>3
<1>2. CASE ~(len < readableBytes(b))
  <2>1. len = readableBytes(b)
    BY <1>2 DEF retrieveAssert, readableBytes, Ordered, Buffers
  <2>2. SubSeq(content(b), len + 1, Len(content(b))) = <<>>
    BY <2>1, ContentType, SubSeqEmpty DEF readableBytes, Ordered, Buffers
  <2>3. retrieve(b, len) = retrieveAll(b)
    BY <1>2 DEF retrieve
  <2>4. readableBytes(b) - len = 0
    BY <2>1 DEF readableBytes, Ordered, Buffers
  <2> QED BY <2>2, <2>3, <2>4, RetrieveAllOK
<1> QED BY <1>1, <1>2

\* unwrite withdraws the last len readable bytes.
LEMMA UnwriteOK ==
    ASSUME NEW b, Ordered(b), NEW len \in Nat, unwriteAssert(b, len)
    PROVE  /\ Ordered(unwrite(b, len))
           /\ content(unwrite(b, len)) = SubSeq(content(b), 1, Len(content(b)) - len)
           /\ unwrite(b, len).buffer_ = b.buffer_
           /\ readableBytes(unwrite(b, len)) = readableBytes(b) - len
<1> DEFINE u == unwrite(b, len)
<1>1. Ordered(u) /\ u.buffer_ = b.buffer_ /\ readableBytes(u) = readableBytes(b) - len
  BY DEF unwrite, unwriteAssert, Ordered, Buffers, readableBytes
<1>2. Len(content(b)) = readableBytes(b) /\ content(b) \in Seq(Byte)
  BY ContentType
<1>3. content(u) = [i \in 1 .. (readableBytes(b) - len) |-> content(b)[i]]
  BY <1>1 DEF content, unwrite, Ordered, Buffers, readableBytes, unwriteAssert
<1>4. SubSeq(content(b), 1, readableBytes(b) - len)
        = [i \in 1 .. (readableBytes(b) - len) |-> content(b)[i]]
  BY <1>2 DEF unwriteAssert, readableBytes, Ordered, Buffers
<1> QED BY <1>1, <1>2, <1>3, <1>4

\* Growing adds room at the back and leaves the readable bytes where they are.
LEMMA GrowOK ==
    ASSUME NEW b, Ordered(b), NEW len \in Nat, writableBytes(b) < len
    PROVE  LET g == [b EXCEPT !.buffer_ = resize(@, b.writerIndex_ + len)] IN
           /\ Ordered(g)
           /\ content(g) = content(b)
           /\ readableBytes(g) = readableBytes(b)
           /\ writableBytes(g) = len
           /\ Len(g.buffer_) = b.writerIndex_ + len
<1> DEFINE mem == resize(b.buffer_, b.writerIndex_ + len)
           g == [b EXCEPT !.buffer_ = mem]
<1>1. /\ b.buffer_ \in Seq(Byte) /\ b.readerIndex_ \in Nat /\ b.writerIndex_ \in Nat
      /\ b.readerIndex_ <= b.writerIndex_ /\ b.writerIndex_ <= Len(b.buffer_)
      /\ kCheapPrepend <= Len(b.buffer_) /\ Len(b.buffer_) - b.writerIndex_ < len
  BY DEF Ordered, Buffers, writableBytes
<1>2. mem \in Seq(Byte) /\ Len(mem) = b.writerIndex_ + len
  <2>1. b.writerIndex_ + len \in Nat
    BY <1>1
  <2> QED BY <1>1, <2>1, ResizeType
<1>3. /\ g.buffer_ = mem
      /\ g.readerIndex_ = b.readerIndex_
      /\ g.writerIndex_ = b.writerIndex_
      /\ g \in Buffers
  BY <1>1, <1>2 DEF Ordered, Buffers
<1>4. /\ Ordered(g)
      /\ readableBytes(g) = readableBytes(b)
      /\ writableBytes(g) = len
      /\ Len(g.buffer_) = b.writerIndex_ + len
  BY <1>1, <1>2, <1>3, BufferAssumption DEF Ordered, readableBytes, writableBytes
<1>5. \A i \in 1 .. readableBytes(b) : mem[b.readerIndex_ + i] = b.buffer_[b.readerIndex_ + i]
  <2>1. TAKE i \in 1 .. readableBytes(b)
  <2>2. i \in 1 .. b.writerIndex_ - b.readerIndex_
    BY <2>1 DEF readableBytes
  <2>3. /\ b.readerIndex_ + i \in 1 .. b.writerIndex_ + len
        /\ b.readerIndex_ + i <= Len(b.buffer_)
    BY <1>1, <2>2
  <2> QED BY <2>3 DEF resize
<1>6. content(g) = content(b)
  BY <1>3, <1>4, <1>5 DEF content
<1> QED BY <1>4, <1>6

\* Moving the readable bytes down to kCheapPrepend leaves the bytes they moved
\* over behind them.
LEMMA CompactFrees ==
    ASSUME NEW b, Len(b.buffer_) \in Nat, b.readerIndex_ \in Nat, b.writerIndex_ \in Nat
    PROVE  Len(b.buffer_) - (kCheapPrepend + readableBytes(b))
               = writableBytes(b) + prependableBytes(b) - kCheapPrepend
<1>1. kCheapPrepend \in Nat
  BY BufferAssumption
<1>2. SUFFICES ASSUME NEW r \in Nat, NEW w \in Nat, r = b.readerIndex_, w = b.writerIndex_
               PROVE  Len(b.buffer_) - (kCheapPrepend + (w - r))
                        = (Len(b.buffer_) - w) + r - kCheapPrepend
  BY DEF readableBytes, writableBytes, prependableBytes
<1> QED BY <1>1

\* Compacting moves the readable bytes to the front and loses none of them.
LEMMA CompactOK ==
    ASSUME NEW b, Ordered(b), kCheapPrepend < b.readerIndex_
    PROVE  /\ Ordered(compact(b))
           /\ content(compact(b)) = content(b)
           /\ readableBytes(compact(b)) = readableBytes(b)
           /\ writableBytes(compact(b)) = writableBytes(b) + prependableBytes(b) - kCheapPrepend
           /\ Len(compact(b).buffer_) = Len(b.buffer_)
<1> DEFINE mem == copy(content(b), b.buffer_, kCheapPrepend)
<1>1. /\ b.buffer_ \in Seq(Byte) /\ b.readerIndex_ \in Nat /\ b.writerIndex_ \in Nat
      /\ b.readerIndex_ <= b.writerIndex_ /\ b.writerIndex_ <= Len(b.buffer_)
      /\ kCheapPrepend \in Nat /\ readableBytes(b) \in Nat
      /\ readableBytes(b) = b.writerIndex_ - b.readerIndex_
  BY BufferAssumption DEF Ordered, Buffers, readableBytes
<1>2. content(b) \in Seq(Byte) /\ Len(content(b)) = readableBytes(b)
  BY ContentType
<1>3. mem \in Seq(Byte) /\ Len(mem) = Len(b.buffer_)
  BY <1>1, <1>2, CopyType
<1>4. /\ compact(b).buffer_ = mem
      /\ compact(b).readerIndex_ = kCheapPrepend
      /\ compact(b).writerIndex_ = kCheapPrepend + readableBytes(b)
      /\ compact(b) \in Buffers
  BY <1>1, <1>3 DEF compact, Buffers
<1>5. /\ Ordered(compact(b))
      /\ readableBytes(compact(b)) = readableBytes(b)
      /\ writableBytes(compact(b)) = writableBytes(b) + prependableBytes(b) - kCheapPrepend
      /\ Len(compact(b).buffer_) = Len(b.buffer_)
  <2>1. Len(compact(b).buffer_) = Len(b.buffer_) /\ Len(b.buffer_) \in Nat
    BY <1>1, <1>3, <1>4
  <2> HIDE DEF mem
  <2>2. Ordered(compact(b))
    BY <1>1, <1>4, <2>1 DEF Ordered
  <2>3. readableBytes(compact(b)) = readableBytes(b)
    BY <1>1, <1>4 DEF readableBytes
  <2>4. writableBytes(compact(b)) = writableBytes(b) + prependableBytes(b) - kCheapPrepend
    <3>1. writableBytes(compact(b)) = Len(b.buffer_) - (kCheapPrepend + readableBytes(b))
      BY <1>4, <2>1 DEF writableBytes
    <3>2. /\ Len(b.buffer_) \in Nat /\ b.readerIndex_ \in Nat /\ b.writerIndex_ \in Nat
      BY <1>1, <2>1
    <3>3. Len(b.buffer_) - (kCheapPrepend + readableBytes(b))
            = writableBytes(b) + prependableBytes(b) - kCheapPrepend
      BY <3>2, CompactFrees
    <3> QED BY <3>1, <3>3, Zenon
  <2> QED BY <2>1, <2>2, <2>3, <2>4
<1>6. \A i \in 1 .. readableBytes(b) : mem[kCheapPrepend + i] = content(b)[i]
  BY <1>1, <1>2 DEF copy
<1>7. content(compact(b)) = [i \in 1 .. readableBytes(b) |-> mem[kCheapPrepend + i]]
  BY <1>4, <1>5 DEF content
<1>8. content(b) = [i \in 1 .. readableBytes(b) |-> content(b)[i]]
  BY <1>1 DEF content
<1> QED BY <1>5, <1>6, <1>7, <1>8

\* ensureWritableBytes: the asserts in it hold, the readable bytes stay, and a
\* vector that grows stays below what its readable bytes and the request need.
LEMMA EnsureWritableOK ==
    ASSUME NEW b, Ordered(b), NEW len \in Nat
    PROVE  LET e == ensureWritableBytes(b, len) IN
           /\ Ordered(e)
           /\ content(e) = content(b)
           /\ readableBytes(e) = readableBytes(b)
           /\ writableBytes(e) >= len
           /\ ensureWritableBytesAssert(b, len)
           /\ \/ Len(e.buffer_) = Len(b.buffer_)
              \/ Len(e.buffer_) < kCheapPrepend + readableBytes(b) + 2 * len
<1> DEFINE e == ensureWritableBytes(b, len)
<1>0. /\ b.buffer_ \in Seq(Byte) /\ b.readerIndex_ \in Nat /\ b.writerIndex_ \in Nat
      /\ b.readerIndex_ <= b.writerIndex_ /\ b.writerIndex_ <= Len(b.buffer_)
      /\ kCheapPrepend \in Nat /\ Len(b.buffer_) \in Nat
  BY BufferAssumption DEF Ordered, Buffers
<1>1. CASE ~(writableBytes(b) < len)
  <2>1. e = b
    BY <1>1 DEF ensureWritableBytes
  <2>2. writableBytes(b) >= len
    BY <1>0, <1>1 DEF writableBytes
  <2> QED BY <1>1, <2>1, <2>2 DEF ensureWritableBytesAssert
<1>2. CASE writableBytes(b) < len /\ mustGrow(b, len)
  <2> DEFINE g == [b EXCEPT !.buffer_ = resize(@, b.writerIndex_ + len)]
  <2>1. e = g
    BY <1>2 DEF ensureWritableBytes, makeSpace
  <2>2. /\ Ordered(g) /\ content(g) = content(b) /\ readableBytes(g) = readableBytes(b)
        /\ writableBytes(g) = len /\ Len(g.buffer_) = b.writerIndex_ + len
    BY <1>2, GrowOK
  <2>3. b.writerIndex_ + len < kCheapPrepend + readableBytes(b) + 2 * len
    <3>1. /\ b.readerIndex_ \in Nat /\ b.writerIndex_ \in Nat /\ Len(b.buffer_) \in Nat
          /\ kCheapPrepend \in Nat /\ b.writerIndex_ <= Len(b.buffer_)
      BY <1>0
    <3>2. Len(b.buffer_) - b.writerIndex_ + b.readerIndex_ < len + kCheapPrepend
      BY <1>2 DEF mustGrow, writableBytes, prependableBytes
    <3>3. b.readerIndex_ < len + kCheapPrepend
      BY <3>1, <3>2
    <3> QED BY <3>1, <3>3 DEF readableBytes
  <2>4. ensureWritableBytesAssert(b, len)
    BY <1>2, <2>1, <2>2 DEF ensureWritableBytesAssert, makeSpaceAssert
  <2> HIDE DEF e, g
  <2> QED BY <2>1, <2>2, <2>3, <2>4 DEF e
<1>3. CASE writableBytes(b) < len /\ ~mustGrow(b, len)
  <2>1. e = compact(b)
    BY <1>3 DEF ensureWritableBytes, makeSpace
  <2>2. kCheapPrepend < b.readerIndex_
    BY <1>0, <1>3 DEF mustGrow, writableBytes, prependableBytes
  <2>3. /\ Ordered(compact(b)) /\ content(compact(b)) = content(b)
        /\ readableBytes(compact(b)) = readableBytes(b)
        /\ writableBytes(compact(b)) = writableBytes(b) + prependableBytes(b) - kCheapPrepend
        /\ Len(compact(b).buffer_) = Len(b.buffer_)
    BY <2>2, CompactOK
  <2>4. writableBytes(compact(b)) >= len
    BY <1>0, <1>3, <2>3 DEF mustGrow, writableBytes, prependableBytes
  <2>5. ensureWritableBytesAssert(b, len)
    BY <2>1, <2>2, <2>4 DEF ensureWritableBytesAssert, makeSpaceAssert
  <2> HIDE DEF e
  <2> QED BY <2>1, <2>3, <2>4, <2>5 DEF e
<1> QED BY <1>1, <1>2, <1>3

\* Data written at beginWrite() is appended to the readable bytes.
LEMMA HasWrittenOK ==
    ASSUME NEW b, Ordered(b), NEW d \in Seq(Byte), hasWrittenAssert(b, Len(d))
    PROVE  /\ Ordered(hasWritten(b, d))
           /\ content(hasWritten(b, d)) = content(b) \o d
           /\ readableBytes(hasWritten(b, d)) = readableBytes(b) + Len(d)
           /\ Len(hasWritten(b, d).buffer_) = Len(b.buffer_)
<1> DEFINE mem == copy(d, b.buffer_, b.writerIndex_)
           h == hasWritten(b, d)
<1>1. /\ b.buffer_ \in Seq(Byte) /\ b.readerIndex_ \in Nat /\ b.writerIndex_ \in Nat
      /\ b.readerIndex_ <= b.writerIndex_ /\ b.writerIndex_ <= Len(b.buffer_)
      /\ kCheapPrepend \in Nat /\ Len(b.buffer_) \in Nat /\ Len(d) \in Nat
      /\ kCheapPrepend <= Len(b.buffer_)
      /\ b.writerIndex_ + Len(d) <= Len(b.buffer_)
      /\ readableBytes(b) \in Nat /\ readableBytes(b) = b.writerIndex_ - b.readerIndex_
  BY BufferAssumption DEF Ordered, Buffers, hasWrittenAssert, writableBytes, readableBytes
<1>2. mem \in Seq(Byte) /\ Len(mem) = Len(b.buffer_)
  BY <1>1, CopyType
<1>3. /\ h.buffer_ = mem
      /\ h.readerIndex_ = b.readerIndex_
      /\ h.writerIndex_ = b.writerIndex_ + Len(d)
      /\ h \in Buffers
  BY <1>1, <1>2 DEF hasWritten, Buffers
<1>4. /\ Ordered(h)
      /\ readableBytes(h) = readableBytes(b) + Len(d)
      /\ Len(h.buffer_) = Len(b.buffer_)
  <2> HIDE DEF mem, h
  <2> QED BY <1>1, <1>2, <1>3 DEF Ordered, readableBytes
<1>5. /\ content(b) = window(b.buffer_, b.readerIndex_, readableBytes(b))
      /\ content(h) = window(mem, b.readerIndex_, readableBytes(b) + Len(d))
  <2> HIDE DEF mem, h
  <2> QED BY <1>3, <1>4 DEF content, window
<1>6. /\ b.readerIndex_ + readableBytes(b) = b.writerIndex_
      /\ b.readerIndex_ + readableBytes(b) + Len(d) <= Len(b.buffer_)
  BY <1>1
<1>7. content(h) = content(b) \o d
  <2>1. window(copy(d, b.buffer_, b.readerIndex_ + readableBytes(b)), b.readerIndex_, readableBytes(b) + Len(d))
          = window(b.buffer_, b.readerIndex_, readableBytes(b)) \o d
    <3>1. b.buffer_ \in Seq(Byte) /\ b.readerIndex_ \in Nat /\ readableBytes(b) \in Nat
      BY <1>1
    <3>2. \A m, e \in Seq(Byte) : \A q, n \in Nat : q + n + Len(e) <= Len(m) =>
             window(copy(e, m, q + n), q, n + Len(e)) = window(m, q, n) \o e
      BY CopyBehind
    <3> QED BY <1>6, <3>1, <3>2, Zenon
  <2>2. copy(d, b.buffer_, b.readerIndex_ + readableBytes(b)) = mem
    BY <1>6
  <2> QED BY <1>5, <2>1, <2>2
<1> QED BY <1>4, <1>7

\* append adds the data at the back, whatever makeSpace had to do.
LEMMA AppendOK ==
    ASSUME NEW b, Ordered(b), NEW d \in Seq(Byte)
    PROVE  /\ Ordered(append(b, d))
           /\ content(append(b, d)) = content(b) \o d
           /\ readableBytes(append(b, d)) = readableBytes(b) + Len(d)
           /\ \/ Len(append(b, d).buffer_) = Len(b.buffer_)
              \/ Len(append(b, d).buffer_) < kCheapPrepend + readableBytes(b) + 2 * Len(d)
<1> DEFINE e == ensureWritableBytes(b, Len(d))
<1>1. Len(d) \in Nat
  OBVIOUS
<1>2. /\ Ordered(e) /\ content(e) = content(b) /\ readableBytes(e) = readableBytes(b)
      /\ writableBytes(e) >= Len(d)
      /\ \/ Len(e.buffer_) = Len(b.buffer_)
         \/ Len(e.buffer_) < kCheapPrepend + readableBytes(b) + 2 * Len(d)
  BY <1>1, EnsureWritableOK
<1> HIDE DEF e
<1>3. hasWrittenAssert(e, Len(d))
  BY <1>1, <1>2 DEF hasWrittenAssert, writableBytes, Ordered, Buffers
<1>4. append(b, d) = hasWritten(e, d)
  BY DEF append, e
<1> QED BY <1>2, <1>3, <1>4, HasWrittenOK

\* prepend puts the data in front of the readable bytes.
LEMMA PrependOK ==
    ASSUME NEW b, Ordered(b), NEW d \in Seq(Byte), prependAssert(b, Len(d))
    PROVE  /\ Ordered(prepend(b, d))
           /\ content(prepend(b, d)) = d \o content(b)
           /\ readableBytes(prepend(b, d)) = readableBytes(b) + Len(d)
           /\ Len(prepend(b, d).buffer_) = Len(b.buffer_)
<1> DEFINE mem == copy(d, b.buffer_, b.readerIndex_ - Len(d))
           h == prepend(b, d)
<1>1. /\ b.buffer_ \in Seq(Byte) /\ b.readerIndex_ \in Nat /\ b.writerIndex_ \in Nat
      /\ b.readerIndex_ <= b.writerIndex_ /\ b.writerIndex_ <= Len(b.buffer_)
      /\ kCheapPrepend \in Nat /\ Len(b.buffer_) \in Nat /\ Len(d) \in Nat
      /\ kCheapPrepend <= Len(b.buffer_)
      /\ Len(d) <= b.readerIndex_ /\ b.readerIndex_ - Len(d) \in Nat
      /\ readableBytes(b) \in Nat /\ readableBytes(b) = b.writerIndex_ - b.readerIndex_
  BY BufferAssumption DEF Ordered, Buffers, prependAssert, prependableBytes, readableBytes
<1>2. mem \in Seq(Byte) /\ Len(mem) = Len(b.buffer_)
  BY <1>1, CopyType
<1>3. /\ h.buffer_ = mem
      /\ h.readerIndex_ = b.readerIndex_ - Len(d)
      /\ h.writerIndex_ = b.writerIndex_
      /\ h \in Buffers
  BY <1>1, <1>2 DEF prepend, Buffers
<1>4. /\ Ordered(h)
      /\ readableBytes(h) = readableBytes(b) + Len(d)
      /\ Len(h.buffer_) = Len(b.buffer_)
  <2> HIDE DEF mem, h
  <2> QED BY <1>1, <1>2, <1>3 DEF Ordered, readableBytes
<1>5. /\ content(b) = window(b.buffer_, b.readerIndex_, readableBytes(b))
      /\ content(h) = window(mem, b.readerIndex_ - Len(d), readableBytes(b) + Len(d))
  <2> HIDE DEF mem, h
  <2> QED BY <1>3, <1>4 DEF content, window
<1>6. /\ (b.readerIndex_ - Len(d)) + Len(d) = b.readerIndex_
      /\ (b.readerIndex_ - Len(d)) + Len(d) + readableBytes(b) <= Len(b.buffer_)
      /\ Len(d) + readableBytes(b) = readableBytes(b) + Len(d)
  <2>1. /\ b.readerIndex_ \in Nat /\ b.writerIndex_ \in Nat /\ Len(d) \in Nat
        /\ Len(b.buffer_) \in Nat /\ b.writerIndex_ <= Len(b.buffer_)
        /\ readableBytes(b) = b.writerIndex_ - b.readerIndex_
    BY <1>1
  <2> QED BY <2>1
<1>7. content(h) = d \o content(b)
  <2> DEFINE r == b.readerIndex_ - Len(d)
  <2> HIDE DEF r, mem
  <2>1. r \in Nat /\ r + Len(d) + readableBytes(b) <= Len(b.buffer_)
    BY <1>1, <1>6 DEF r
  <2>2. r + Len(d) = b.readerIndex_
    BY <1>6 DEF r
  <2>3. mem = copy(d, b.buffer_, r)
    BY DEF r, mem
  <2>4. window(copy(d, b.buffer_, r), r, Len(d) + readableBytes(b))
          = d \o window(b.buffer_, r + Len(d), readableBytes(b))
    <3>1. b.buffer_ \in Seq(Byte) /\ readableBytes(b) \in Nat
      BY <1>1
    <3>2. \A m, e \in Seq(Byte) : \A q, n \in Nat : q + Len(e) + n <= Len(m) =>
             window(copy(e, m, q), q, Len(e) + n) = e \o window(m, q + Len(e), n)
      BY CopyBefore
    <3> QED BY <2>1, <3>1, <3>2, Zenon
  <2>5. content(h) = window(mem, r, Len(d) + readableBytes(b))
    BY <1>5, <1>6 DEF r
  <2>6. content(b) = window(b.buffer_, r + Len(d), readableBytes(b))
    BY <1>5, <2>2
  <2> QED BY <2>3, <2>4, <2>5, <2>6, Zenon
<1> QED BY <1>4, <1>7

\* What retrieveAsString returns is the beginning of the readable bytes.
LEMMA PeekOK ==
    ASSUME NEW b, Ordered(b), NEW len \in Nat, len <= readableBytes(b)
    PROVE  /\ peek(b, len) \in Seq(Byte)
           /\ peek(b, len) = SubSeq(content(b), 1, len)
<1>1. content(b) \in Seq(Byte) /\ Len(content(b)) = readableBytes(b)
  BY ContentType
<1>2. readableBytes(b) \in Nat
  BY DEF readableBytes, Ordered, Buffers
<1>3. SubSeq(content(b), 1, len) = [i \in 1 .. len |-> content(b)[i]]
  BY <1>1, <1>2
<1>4. \A i \in 1 .. len : content(b)[i] = b.buffer_[b.readerIndex_ + i]
  BY <1>2 DEF content
<1>5. peek(b, len) = SubSeq(content(b), 1, len)
  BY <1>3, <1>4 DEF peek
<1>6. SubSeq(content(b), 1, len) \in Seq(Byte)
  BY <1>1, <1>2
<1> QED BY <1>5, <1>6

-----------------------------------------------------------------------------
(* Sequences of bytes.                                                     *)

\* Concatenation of bytes is associative.
LEMMA BytesAssociate ==
    \A s, t, u \in Seq(Byte) : (s \o t) \o u = s \o (t \o u)
BY ConcatAssociative

\* A sequence is its beginning followed by the rest.
LEMMA Split ==
    ASSUME NEW s \in Seq(Byte), NEW n \in 0 .. Len(s)
    PROVE  /\ SubSeq(s, 1, n) \in Seq(Byte)
           /\ SubSeq(s, n + 1, Len(s)) \in Seq(Byte)
           /\ SubSeq(s, 1, n) \o SubSeq(s, n + 1, Len(s)) = s
<1>1. Len(s) \in Nat /\ n \in Nat /\ n <= Len(s)
  OBVIOUS
<1>2. SubSeq(s, 1, n) \in Seq(Byte) /\ SubSeq(s, n + 1, Len(s)) \in Seq(Byte)
  BY <1>1
<1>3. 1 \in 1 .. Len(s) + 1 /\ n \in 1 - 1 .. Len(s) /\ Len(s) \in n .. Len(s)
  BY <1>1
<1>4. SubSeq(s, 1, n) \o SubSeq(s, n + 1, Len(s)) = SubSeq(s, 1, Len(s))
  BY <1>3, ConcatAdjacentSubSeq
<1> QED BY <1>2, <1>4, SubSeqFull

\* The beginning of a concatenation.
LEMMA Beginning ==
    ASSUME NEW s \in Seq(Byte), NEW t \in Seq(Byte)
    PROVE  Len(s) <= Len(s \o t) /\ s = SubSeq(s \o t, 1, Len(s))
<1>1. Len(s \o t) = Len(s) + Len(t) /\ s \o t \in Seq(Byte)
  OBVIOUS
<1>2. SubSeq(s \o t, 1, Len(s)) \in Seq(Byte) /\ Len(SubSeq(s \o t, 1, Len(s))) = Len(s)
  BY <1>1
<1>3. \A i \in 1 .. Len(s) : SubSeq(s \o t, 1, Len(s))[i] = s[i]
  BY <1>1
<1> QED BY <1>1, <1>2, <1>3, SeqEqual
=============================================================================

----------------------------- MODULE InputProofs ----------------------------
(***************************************************************************)
(* Proofs about TcpConnection's input path, for every stream, every way to *)
(* cut it, every size of the buffer and of the kernel's backlog, and an    *)
(* application that pauses as its setting says.                            *)
(***************************************************************************)
EXTENDS InputPath, BufferLemmas, WellFoundedInduction

-----------------------------------------------------------------------------
(* Min and Max, and what the searches find.                                *)

\* A set of numbers has a least one.
LEMMA MinExists ==
    ASSUME NEW T, T \subseteq Nat, T /= {}
    PROVE  Min(T) \in T /\ \A y \in T : Min(T) <= y
<1> DEFINE R == {ss \in Nat \X Nat : ss[1] < ss[2]}
<1>1. PICK x \in T : \A y \in T : ~(<<y, x>> \in R)
  <2>1. IsWellFoundedOn(R, Nat)
    BY NatLessThanWellFounded DEF OpToRel
  <2> HIDE DEF R
  <2> QED  BY <2>1, WFMin
<1>2. \A y \in T : x <= y
  <2> SUFFICES ASSUME NEW y \in T PROVE x <= y
    OBVIOUS
  <2>1. x \in Nat /\ y \in Nat /\ ~(<<y, x>> \in R)
    BY <1>1
  <2> QED  BY <2>1
<1> QED  BY <1>2 DEF Min

\* A bounded set of numbers has a greatest one.
LEMMA MaxExists ==
    ASSUME NEW N \in Nat, NEW T, T \subseteq 0 .. N, T /= {}
    PROVE  Max(T) \in T /\ \A y \in T : Max(T) >= y
<1> DEFINE M == {N - y : y \in T}
<1>1. M \subseteq Nat /\ M /= {}
  <2>1. \A y \in T : N - y \in Nat
    OBVIOUS
  <2>2. PICK t : t \in T
    OBVIOUS
  <2>3. N - t \in M
    BY <2>2
  <2> QED  BY <2>1, <2>3
<1>2. PICK m \in M : \A y \in M : m <= y
  <2> HIDE DEF M
  <2> QED  BY <1>1, MinExists
<1>3. PICK x \in T : m = N - x
  OBVIOUS
<1>4. \A y \in T : x >= y
  <2> SUFFICES ASSUME NEW y \in T PROVE x >= y
    OBVIOUS
  <2>1. N - x <= N - y
    BY <1>2, <1>3
  <2> QED  BY <2>1
<1> QED  BY <1>4 DEF Max

LEMMA FirstOK ==
    ASSUME NEW hits, hits \subseteq Nat
    PROVE  \/ hits = {} /\ first(hits) = -1
           \/ first(hits) \in hits
BY MinExists DEF first

\* Place k of the sequence s ends a line.
EndsLine(s, k) == s[k] = LF /\ (setting.find = "findCRLF" => k > 1 /\ s[k - 1] = CR)

\* What the application takes is within the readable bytes and ends a line, and
\* it takes nothing only if there is no line.
LEMMA LineOK ==
    ASSUME setting \in Settings, NEW b, Ordered(b)
    PROVE  /\ line(b) \in 0 .. readableBytes(b)
           /\ line(b) > 0 => content(b)[line(b)] = LF
           /\ line(b) = 0 => \A k \in 1 .. readableBytes(b) : ~EndsLine(content(b), k)
<1> DEFINE n == readableBytes(b)
           c == content(b)
<1>1. n \in Nat
  BY DEF readableBytes, Ordered, Buffers
<1>2. CASE setting.find = "findCRLF"
  <2> DEFINE hits == {p \in 0 .. n - 2 : c[p + 1] = CR /\ c[p + 2] = LF}
  <2>1. line(b) = IF first(hits) = -1 THEN 0 ELSE first(hits) + 2
    BY <1>2 DEF line, findCRLF
  <2>2. hits \subseteq Nat
    BY <1>1
  <2>3. CASE hits = {} /\ first(hits) = -1
    <3>1. line(b) = 0
      BY <2>1, <2>3
    <3>2. ASSUME NEW k \in 1 .. n, c[k] = LF, k > 1, c[k - 1] = CR PROVE FALSE
      <4>1. k - 2 \in 0 .. n - 2 /\ (k - 2) + 1 = k - 1 /\ (k - 2) + 2 = k
        BY <1>1, <3>2
      <4>2. k - 2 \in hits
        BY <3>2, <4>1
      <4> QED  BY <2>3, <4>2
    <3> QED  BY <1>1, <1>2, <3>1, <3>2 DEF EndsLine
  <2>4. CASE first(hits) \in hits
    <3>1. first(hits) \in 0 .. n - 2 /\ c[first(hits) + 2] = LF
      BY <2>4
    <3>2. line(b) = first(hits) + 2
      BY <1>1, <2>1, <3>1
    <3> HIDE DEF hits
    <3> QED  BY <1>1, <3>1, <3>2
  <2> HIDE DEF hits
  <2> QED  BY <2>2, <2>3, <2>4, FirstOK
<1>3. CASE setting.find = "findEOL"
  <2> DEFINE hits == {p \in 0 .. n - 1 : c[p + 1] = LF}
  <2>1. line(b) = first(hits) + 1
    BY <1>3 DEF line, findEOL
  <2>2. hits \subseteq Nat
    BY <1>1
  <2>3. CASE hits = {} /\ first(hits) = -1
    <3>1. line(b) = 0
      BY <2>1, <2>3
    <3>2. ASSUME NEW k \in 1 .. n, c[k] = LF PROVE FALSE
      <4>1. k - 1 \in 0 .. n - 1 /\ (k - 1) + 1 = k
        BY <1>1
      <4>2. k - 1 \in hits
        BY <3>2, <4>1
      <4> QED  BY <2>3, <4>2
    <3> QED  BY <1>1, <3>1, <3>2 DEF EndsLine
  <2>4. CASE first(hits) \in hits
    <3>1. first(hits) \in 0 .. n - 1 /\ c[first(hits) + 1] = LF
      BY <2>4
    <3> HIDE DEF hits
    <3> QED  BY <1>1, <2>1, <3>1
  <2> HIDE DEF hits
  <2> QED  BY <2>2, <2>3, <2>4, FirstOK
<1> QED  BY <1>2, <1>3, InputAssumption DEF Finds

-----------------------------------------------------------------------------
(* The phases of the input path, and the inductive invariant.              *)

\* A read into all that is writable.
Reading ==
    /\ reads = <<asyncRead(inputBuffer_)>> /\ completions = <<>> /\ handling = -1
    /\ reading_ = TRUE /\ (KeepsRoom => writableBytes(inputBuffer_) > 0)

Data(n) == [what |-> "data", n |-> n]

\* n bytes have landed behind the readable ones.
Completed(n) ==
    /\ reads = <<>> /\ completions = <<Data(n)>> /\ handling = -1 /\ reading_ = TRUE
    /\ n \in 0 .. writableBytes(inputBuffer_) /\ n <= Backlog /\ (KeepsRoom => n > 0)

EndSeen ==
    /\ reads = <<>> /\ handling = -1 /\ reading_ = TRUE
    /\ \E how \in {"fin", "rst"} : completions = <<[what |-> how, n |-> 0]>>

\* In readHandler; one that keeps room has paused with nothing left to read.
Handling ==
    /\ reads = <<>> /\ completions = <<>> /\ handling \in 0 .. Backlog
    /\ KeepsRoom => handling > 0 /\ (~reading_ => readableBytes(inputBuffer_) = 0)

\* Paused or closed.
Quiet ==
    /\ reads = <<>> /\ completions = <<>> /\ handling = -1 /\ reading_ = FALSE
    /\ KeepsRoom /\ ~closed => readableBytes(inputBuffer_) = 0

\* An empty buffer is back at its start, so that it has room.
Roomy(b) ==
    /\ readableBytes(b) = 0 => b.readerIndex_ = kCheapPrepend
    /\ Len(b.buffer_) >= kCheapPrepend + kInitialSize

\* What the application has got ends a line.
WholeLines == consumed \in Seq(Byte) /\ (consumed /= <<>> => consumed[Len(consumed)] = LF)

Counts ==
    /\ sent \in 0 .. Len(setting.stream) /\ taken \in 0 .. sent
    /\ sent - taken <= Backlog

IInv ==
    /\ setting \in Settings /\ setting.pauses /= "anyTime"
    /\ Ordered(inputBuffer_) /\ Roomy(inputBuffer_)
    /\ Counts /\ WholeLines
    /\ socket \in {"open", "fin", "rst"} /\ reading_ \in BOOLEAN /\ closed \in BOOLEAN
    /\ failed = FALSE
    /\ Reading \/ (\E n \in Nat : Completed(n)) \/ EndSeen \/ Handling \/ Quiet
    /\ closed => Quiet
    /\ InputConservation
    /\ InputBounded

-----------------------------------------------------------------------------
(* What the parts of the invariant say.                                    *)

\* Nothing has landed that is not counted.
LEMMA AllCounted ==
    ASSUME OneReader, Ordered(inputBuffer_), consumed \in Seq(Byte), completions = <<>> \/ EndSeen
    PROVE  InputConservation
             <=> consumed \o content(inputBuffer_) = SubSeq(setting.stream, 1, taken)
<1>1. uncounted = <<>>
  <2>1. CASE completions = <<>>
    BY <2>1 DEF uncounted
  <2>2. ASSUME NEW how, completions = <<[what |-> how, n |-> 0]>> PROVE uncounted = <<>>
    BY <2>2 DEF uncounted, landed
  <2> QED  BY <2>1, <2>2 DEF EndSeen
<1>2. consumed \o content(inputBuffer_) \in Seq(Byte)
  BY ContentType
<1>3. (consumed \o content(inputBuffer_)) \o <<>> = consumed \o content(inputBuffer_)
  BY <1>2
<1> QED  BY <1>1, <1>3 DEF InputConservation

\* The same after a step.
LEMMA AllCountedNext ==
    ASSUME Ordered(inputBuffer_'), consumed' \in Seq(Byte), completions' = <<>>,
           consumed' \o content(inputBuffer_') = SubSeq(setting'.stream, 1, taken')
    PROVE  InputConservation'
<1>1. uncounted' = <<>>
  BY DEF uncounted
<1>2. content(inputBuffer_') \in Seq(Byte)
  BY ContentType
<1>3. (consumed' \o content(inputBuffer_')) \o <<>> = consumed' \o content(inputBuffer_')
  BY <1>2
<1> QED  BY <1>1, <1>3 DEF InputConservation

\* n bytes have landed.
LEMMA SomeLanded ==
    ASSUME NEW n, completions = <<Data(n)>>
    PROVE  uncounted = landed(inputBuffer_, n)
BY DEF uncounted, Data

LEMMA LandedType ==
    ASSUME NEW b, Ordered(b), NEW n \in 0 .. writableBytes(b)
    PROVE  landed(b, n) \in Seq(Byte) /\ Len(landed(b, n)) = n
BY DEF landed, Ordered, Buffers, writableBytes

\* The limit of InputBounded covers its two cases.
LEMMA Limits ==
    ASSUME setting \in Settings
    PROVE  LET limit == Max({kInitialSize, 2 * Backlog + LongestRest - 1}) IN
           /\ LongestRest \in Nat
           /\ limit \in Nat
           /\ kInitialSize <= limit
           /\ 2 * Backlog + LongestRest - 1 <= limit
           /\ \A k \in 0 .. Len(setting.stream) : \A i \in 0 .. Len(setting.stream) - k :
                 (i + 1 .. i + k) \cap LineEnds = {} => k <= LongestRest
<1> DEFINE st == setting.stream
           N == Len(st)
           T == {k \in 0 .. N : \E i \in 0 .. N - k : (i + 1 .. i + k) \cap LineEnds = {}}
<1>1. N \in Nat
  BY InputAssumption
<1>2. 0 \in T
  <2>1. 0 \in 0 .. N /\ 0 \in 0 .. N - 0 /\ 0 + 1 .. 0 + 0 = {}
    BY <1>1
  <2> QED  BY <2>1
<1>3. LongestRest = Max(T)
  BY DEF LongestRest
<1>4. LongestRest \in T /\ \A k \in T : LongestRest >= k
  <2>1. T \subseteq 0 .. N /\ T /= {}
    BY <1>2
  <2> HIDE DEF T, N
  <2> QED  BY <1>1, <1>3, <2>1, MaxExists
<1>5. LongestRest \in Nat
  BY <1>4
<1>6. \A k \in 0 .. N : \A i \in 0 .. N - k : (i + 1 .. i + k) \cap LineEnds = {} => k <= LongestRest
  <2>1. ASSUME NEW k \in 0 .. N, NEW i \in 0 .. N - k, (i + 1 .. i + k) \cap LineEnds = {}
        PROVE  k <= LongestRest
    <3>1. k \in T
      BY <2>1
    <3> QED  BY <1>1, <1>4, <1>5, <3>1
  <2> QED  BY <2>1
<1> DEFINE a == kInitialSize
           c == 2 * Backlog + LongestRest - 1
<1>7. a \in Nat /\ c \in Nat
  BY <1>5, InputAssumption, BufferAssumption
<1>8. Max({a, c}) \in {a, c} /\ a <= Max({a, c}) /\ c <= Max({a, c})
  <2> HIDE DEF a, c
  <2>1. {a, c} \subseteq 0 .. a + c /\ {a, c} /= {} /\ a + c \in Nat
    BY <1>7
  <2>2. Max({a, c}) \in {a, c} /\ \A y \in {a, c} : Max({a, c}) >= y
    BY <2>1, MaxExists
  <2> QED  BY <1>7, <2>2
<1> QED  BY <1>5, <1>6, <1>7, <1>8

\* Between complete lines there is no more than the longest beginning of one.
LEMMA RestIsShort ==
    ASSUME setting \in Settings, NEW b, Ordered(b), WholeLines, Counts,
           consumed \o content(b) = SubSeq(setting.stream, 1, taken), line(b) = 0
    PROVE  readableBytes(b) <= LongestRest
<1> DEFINE st == setting.stream
           i == Len(consumed)
           k == readableBytes(b)
           c == content(b)
<1>1. /\ st \in Seq(Byte) /\ Len(st) \in Nat /\ taken \in 0 .. Len(st)
      /\ consumed \in Seq(Byte) /\ i \in Nat
  BY InputAssumption DEF Counts, WholeLines
<1>2. c \in Seq(Byte) /\ Len(c) = k /\ k \in Nat
  BY ContentType DEF readableBytes, Ordered, Buffers
<1>3. Len(consumed \o c) = i + k /\ Len(SubSeq(st, 1, taken)) = taken
  BY <1>1, <1>2
<1>4. i + k = taken
  BY <1>3
<1>5. \A j \in 1 .. taken : (consumed \o c)[j] = st[j]
  BY <1>1
<1>6. \A j \in 1 .. i : consumed[j] = st[j]
  BY <1>1, <1>2, <1>4, <1>5
<1>7. \A j \in 1 .. k : c[j] = st[i + j]
  <2> SUFFICES ASSUME NEW j \in 1 .. k PROVE c[j] = st[i + j]
    OBVIOUS
  <2>1. (consumed \o c)[i + j] = c[j] /\ i + j \in 1 .. taken
    BY <1>1, <1>2, <1>4
  <2> QED  BY <1>5, <2>1
<1>8. ASSUME NEW e \in (i + 1 .. i + k) \cap LineEnds PROVE FALSE
  <2>1. e \in 1 .. Len(st) /\ st[e] = LF
        /\ (setting.find = "findCRLF" => e > 1 /\ st[e - 1] = CR)
    BY <1>8 DEF LineEnds
  <2>2. e - i \in 1 .. k /\ i + (e - i) = e
    BY <1>1, <1>2
  <2>3. ~EndsLine(c, e - i)
    BY <2>2, LineOK
  <2>4. c[e - i] = LF
    BY <2>1, <2>2, <1>7
  <2>5. setting.find = "findCRLF" /\ ~(e - i > 1 /\ c[e - i - 1] = CR)
    BY <2>3, <2>4 DEF EndsLine
  <2>6. CASE e - i > 1
    <3>1. e - i - 1 \in 1 .. k /\ i + (e - i - 1) = e - 1
      BY <2>2, <2>6, <1>1, <1>2
    <3> QED  BY <2>1, <2>5, <2>6, <3>1, <1>7
  <2>7. CASE e - i = 1
    <3>1. e - 1 = i /\ i > 0
      BY <2>1, <2>5, <2>7, <1>1
    <3>2. consumed /= <<>>
      BY <3>1
    <3>3. consumed[i] = LF /\ consumed[i] = st[i]
      BY <3>1, <3>2, <1>1, <1>6 DEF WholeLines
    <3> QED  BY <2>1, <2>5, <3>1, <3>3 DEF LF, CR
  <2> QED  BY <2>2, <2>6, <2>7, <1>1
<1>9. k \in 0 .. Len(st) /\ i \in 0 .. Len(st) - k
  BY <1>1, <1>2, <1>4
<1>10. (i + 1 .. i + k) \cap LineEnds = {}
  BY <1>8
<1>11. k <= LongestRest
  <2> HIDE DEF i, k
  <2> QED  BY <1>9, <1>10, Limits
<1> QED  BY <1>11

-----------------------------------------------------------------------------
(* Every action keeps the invariant.                                       *)

LEMMA InitOK == Init /\ OneReader => IInv
<1> SUFFICES ASSUME Init, OneReader PROVE IInv
  OBVIOUS
<1> DEFINE b == inputBuffer_
<1>1. kInitialSize \in Nat /\ kInitialSize > 0 /\ kCheapPrepend \in Nat /\ Backlog \in Nat
  BY InputAssumption, BufferAssumption
<1>2. Ordered(b) /\ content(b) = <<>> /\ Len(b.buffer_) = kCheapPrepend + kInitialSize
      /\ readableBytes(b) = 0
  BY <1>1, NewBufferOK DEF Init
<1>3. b.readerIndex_ = kCheapPrepend /\ b.writerIndex_ = kCheapPrepend
  BY DEF Init, newBuffer
<1>4. writableBytes(b) > 0 /\ Roomy(b)
  BY <1>1, <1>2, <1>3 DEF writableBytes, Roomy
<1>5. setting \in Settings /\ setting.stream \in Seq(Byte) /\ Len(setting.stream) \in Nat
  BY InputAssumption DEF Init
<1>6. Counts /\ WholeLines
  BY <1>1, <1>5 DEF Init, Counts, WholeLines
<1>7. Reading /\ completions = <<>>
  BY <1>4 DEF Init, Reading
<1>8. consumed \o content(b) = SubSeq(setting.stream, 1, taken)
  <2>1. SubSeq(setting.stream, 1, 0) = <<>> /\ <<>> \o <<>> = <<>>
    BY <1>5
  <2> QED  BY <1>2, <2>1 DEF Init
<1>9. InputConservation
  BY <1>2, <1>6, <1>7, <1>8, AllCounted DEF WholeLines
<1>10. InputBounded
  BY <1>1, <1>2, <1>5, Limits DEF InputBounded
<1> QED  BY <1>2, <1>4, <1>5, <1>6, <1>7, <1>9, <1>10 DEF Init, IInv, OneReader

\* What the phases have in common, for the steps that keep the buffer.
LEMMA SameBuffer ==
    ASSUME IInv, UNCHANGED <<inputBuffer_, consumed, taken, setting>>
    PROVE  /\ Ordered(inputBuffer_') /\ Roomy(inputBuffer_') /\ WholeLines' /\ InputBounded'
           /\ setting' \in Settings
           /\ UNCHANGED completions => InputConservation'
BY DEF IInv, WholeLines, InputBounded, InputConservation, OneReader, uncounted, landed, LongestRest, LineEnds

\* The peer sends a byte, closes or resets.
LEMMA PeerStep ==
    ASSUME IInv, PeerSends \/ PeerEnds("fin") \/ PeerEnds("rst")
    PROVE  IInv'
<1>1. /\ UNCHANGED <<inputBuffer_, reading_, reads, completions, handling, taken, consumed, closed,
                      failed, setting>>
      /\ socket' \in {"open", "fin", "rst"}
      /\ sent' = sent \/ (sent < Len(setting.stream) /\ sent - taken < Backlog /\ sent' = sent + 1)
  BY DEF PeerSends, PeerEnds, Step, bytes, IInv
<1>2. Len(setting.stream) \in Nat /\ Backlog \in Nat
  BY InputAssumption DEF IInv
<1>3. Counts'
  BY <1>1, <1>2 DEF IInv, Counts
<1>4. /\ (Reading \/ (\E n \in Nat : Completed(n)) \/ EndSeen \/ Handling \/ Quiet)'
      /\ (closed => Quiet)'
  BY <1>1 DEF IInv, Reading, Completed, EndSeen, Handling, Quiet, KeepsRoom
<1> QED  BY <1>1, <1>3, <1>4, SameBuffer DEF IInv

\* The kernel copies bytes to the window of the read, behind the content.
LEMMA KernelReadStep ==
    ASSUME IInv, KernelRead
    PROVE  IInv'
<1> DEFINE b == inputBuffer_
           st == setting.stream
<1>1. Reading
  BY DEF IInv, KernelRead, Completed, EndSeen, Handling, Quiet
<1>2. /\ b.buffer_ \in Seq(Byte) /\ b.readerIndex_ \in Nat /\ b.writerIndex_ \in Nat
      /\ b.readerIndex_ <= b.writerIndex_ /\ b.writerIndex_ <= Len(b.buffer_)
      /\ kCheapPrepend <= Len(b.buffer_) /\ b \in Buffers /\ Len(b.buffer_) \in Nat
  BY DEF IInv, Ordered, Buffers
<1>3. /\ st \in Seq(Byte) /\ Len(st) \in Nat /\ Backlog \in Nat /\ setting' = setting
      /\ taken \in Nat /\ sent \in Nat /\ taken <= sent /\ sent <= Len(st) /\ sent - taken <= Backlog
  BY InputAssumption DEF IInv, Counts, KernelRead, Step
<1>4. Head(reads) = asyncRead(b) /\ Tail(reads) = <<>>
  BY <1>1 DEF Reading
<1>5. PICK n \in 0 .. Min({writableBytes(b), sent - taken}) :
          /\ n = 0 <=> writableBytes(b) = 0
          /\ inputBuffer_' = [b EXCEPT !.buffer_ = copy(SubSeq(st, taken + 1, taken + n), @, b.writerIndex_)]
          /\ taken' = taken + n
          /\ Complete("data", n)
  <2>1. /\ Head(reads).len = writableBytes(b) /\ Head(reads).at = b.writerIndex_
        /\ Head(reads).size = Len(b.buffer_)
    BY <1>4 DEF asyncRead
  <2> QED  BY <2>1, Zenon DEF KernelRead
<1>6. n \in Nat /\ (KeepsRoom => n > 0) /\ n <= writableBytes(b) /\ n <= sent - taken
  <2> DEFINE T == {writableBytes(b), sent - taken}
  <2>1. writableBytes(b) \in Nat /\ sent - taken \in Nat
    BY <1>2, <1>3 DEF writableBytes
  <2>2. Min(T) \in T /\ \A y \in T : Min(T) <= y
    <3>1. T \subseteq Nat /\ T /= {}
      BY <2>1
    <3> HIDE DEF T
    <3> QED  BY <3>1, MinExists
  <2> QED  BY <1>1, <1>5, <2>1, <2>2 DEF Reading
<1> DEFINE d == SubSeq(st, taken + 1, taken + n)
           mem == copy(d, b.buffer_, b.writerIndex_)
           e == [b EXCEPT !.buffer_ = mem]
<1>7. d \in Seq(Byte) /\ Len(d) = n
  BY <1>3, <1>6
<1>8. mem \in Seq(Byte) /\ Len(mem) = Len(b.buffer_)
  BY <1>2, <1>7, CopyType
<1>9. /\ inputBuffer_' = e /\ e.buffer_ = mem /\ e.readerIndex_ = b.readerIndex_
      /\ e.writerIndex_ = b.writerIndex_ /\ e \in Buffers
  BY <1>2, <1>5, <1>8 DEF Buffers
<1> HIDE DEF e, mem
<1>10. Ordered(e) /\ readableBytes(e) = readableBytes(b) /\ writableBytes(e) = writableBytes(b)
       /\ Len(e.buffer_) = Len(b.buffer_)
  BY <1>2, <1>8, <1>9 DEF Ordered, readableBytes, writableBytes
<1>11. content(e) = content(b)
  <2>1. \A i \in 1 .. readableBytes(b) : mem[b.readerIndex_ + i] = b.buffer_[b.readerIndex_ + i]
    <3> SUFFICES ASSUME NEW i \in 1 .. readableBytes(b)
                 PROVE  mem[b.readerIndex_ + i] = b.buffer_[b.readerIndex_ + i]
      OBVIOUS
    <3>1. b.readerIndex_ + i \in 1 .. Len(b.buffer_) /\ ~(b.writerIndex_ < b.readerIndex_ + i)
      BY <1>2 DEF readableBytes
    <3> QED  BY <3>1, CopyElement DEF mem
  <2> QED  BY <1>9, <1>10, <2>1 DEF content
<1>12. landed(e, n) = d
  <2>1. landed(e, n) \in Seq(Byte) /\ Len(landed(e, n)) = n
    BY <1>6, <1>10, LandedType
  <2>2. \A i \in 1 .. n : landed(e, n)[i] = d[i]
    <3> SUFFICES ASSUME NEW i \in 1 .. n PROVE mem[b.writerIndex_ + i] = d[i]
      BY <1>9 DEF landed
    <3>1. /\ b.writerIndex_ + i \in 1 .. Len(b.buffer_) /\ b.writerIndex_ < b.writerIndex_ + i
          /\ b.writerIndex_ + i <= b.writerIndex_ + n /\ b.writerIndex_ + i - b.writerIndex_ = i
      BY <1>2, <1>6 DEF writableBytes
    <3> DEFINE w == b.writerIndex_
               j == w + i
    <3> HIDE DEF d
    <3>2. j \in 1 .. Len(b.buffer_) /\ w < j /\ j <= w + Len(d) /\ j - w = i
      BY <1>2, <1>6, <1>7, <3>1
    <3> HIDE DEF j, w
    <3>3. mem[j] = IF w < j /\ j <= w + Len(d) THEN d[j - w] ELSE b.buffer_[j]
      BY <3>2, CopyElement, Zenon DEF mem, w
    <3>4. mem[j] = d[i]
      BY <3>2, <3>3
    <3> QED  BY <3>4 DEF j, w
  <2> HIDE DEF d
  <2> QED  BY <1>7, <2>1, <2>2, SeqEqual
<1>13. Completed(n)' /\ completions' = <<Data(n)>>
  <2>1. completions' = <<Data(n)>> /\ reads' = <<>>
    BY <1>1, <1>4, <1>5 DEF Complete, Reading, Data
  <2>2. n \in 0 .. writableBytes(inputBuffer_')
    BY <1>2, <1>6, <1>9, <1>10 DEF writableBytes
  <2> QED  BY <1>1, <1>3, <1>6, <2>1, <2>2 DEF Completed, Reading, KernelRead, KeepsRoom
<1>14. InputConservation'
  <2>1. consumed \o content(b) = SubSeq(st, 1, taken)
    BY <1>1, AllCounted DEF IInv, OneReader, WholeLines, Reading
  <2>2. SubSeq(st, 1, taken) \o d = SubSeq(st, 1, taken + n)
    <3>1. 1 \in 1 .. Len(st) + 1 /\ taken \in 1 - 1 .. Len(st) /\ taken + n \in taken .. Len(st)
      BY <1>3, <1>6
    <3> QED  BY <1>3, <3>1, ConcatAdjacentSubSeq
  <2>3. uncounted' = landed(inputBuffer_', n)
    BY <1>13 DEF uncounted, Data
  <2>4. consumed' = consumed /\ taken' = taken + n /\ content(inputBuffer_') = content(b)
        /\ uncounted' = d
    BY <1>5, <1>9, <1>11, <1>12, <2>3 DEF KernelRead
  <2> HIDE DEF d
  <2> QED  BY <1>3, <2>1, <2>2, <2>4 DEF InputConservation
<1>15. Roomy(inputBuffer_') /\ InputBounded'
  BY <1>3, <1>9, <1>10 DEF IInv, Roomy, InputBounded, OneReader, LongestRest, LineEnds
<1>16. Counts' /\ WholeLines'
  BY <1>3, <1>5, <1>6 DEF IInv, Counts, WholeLines, KernelRead
<1>17. UNCHANGED <<socket, reading_, closed, failed, setting>> /\ ~closed
  BY <1>1, <1>3 DEF KernelRead, Reading, Quiet, IInv
<1> QED  BY <1>6, <1>9, <1>10, <1>13, <1>14, <1>15, <1>16, <1>17 DEF IInv

\* The read finds the end of the stream or an error.
LEMMA KernelEndStep ==
    ASSUME IInv, KernelEnd
    PROVE  IInv'
<1>1. Reading /\ ~closed
  BY DEF IInv, KernelEnd, Completed, EndSeen, Handling, Quiet
<1>2. Tail(reads) = <<>> /\ socket \in {"fin", "rst"}
  BY <1>1 DEF Reading, KernelEnd
<1>3. EndSeen'
  BY <1>1, <1>2 DEF KernelEnd, Complete, EndSeen, Reading
<1>4. UNCHANGED <<inputBuffer_, reading_, sent, taken, consumed, socket, closed, failed, setting>>
  BY DEF KernelEnd, bytes, Step
<1>5. InputConservation'
  <2>1. consumed \o content(inputBuffer_) = SubSeq(setting.stream, 1, taken)
    BY <1>1, AllCounted DEF IInv, OneReader, WholeLines, Reading
  <2>2. PICK how : completions' = <<[what |-> how, n |-> 0]>>
    BY <1>3 DEF EndSeen
  <2>3. uncounted' = <<>>
    BY <2>2 DEF uncounted, landed
  <2>4. (consumed \o content(inputBuffer_)) \o <<>> = consumed \o content(inputBuffer_)
    BY ContentType DEF IInv, WholeLines
  <2> QED  BY <1>4, <2>1, <2>3, <2>4 DEF InputConservation
<1> QED  BY <1>1, <1>3, <1>4, <1>5, SameBuffer DEF IInv, Counts

\* readHandler counts what has landed: hasWritten's assert holds.
LEMMA ReadHandlerStep ==
    ASSUME IInv, readHandler
    PROVE  IInv'
<1> DEFINE b == inputBuffer_
<1>1. PICK n \in Nat : Completed(n)
  BY DEF IInv, readHandler, Handles, Reading, EndSeen, Handling, Quiet
<1>2. /\ completions = <<Data(n)>> /\ n \in 0 .. writableBytes(b) /\ n <= Backlog /\ (KeepsRoom => n > 0)
      /\ Head(completions).n = n /\ Tail(completions) = <<>> /\ reads = <<>> /\ reading_ = TRUE
  BY <1>1 DEF Completed, Data
<1>3. writableBytes(b) \in Nat /\ Ordered(b) /\ ~closed /\ readableBytes(b) \in Nat
  BY <1>1 DEF IInv, Ordered, Buffers, writableBytes, readableBytes, Completed, Quiet
<1>4. hasWrittenAssert(b, n)
  BY <1>2, <1>3 DEF hasWrittenAssert
<1> DEFINE d == landed(b, n)
           e == hasWritten(b, d)
<1>5. d \in Seq(Byte) /\ Len(d) = n
  BY <1>2, <1>3, LandedType
<1>6. /\ inputBuffer_' = e /\ handling' = n /\ completions' = <<>>
      /\ UNCHANGED <<failed, reading_, reads, sent, taken, consumed, socket, closed, setting>>
  BY <1>2, <1>4 DEF readHandler, Handles, Step, bytes
<1>7. /\ Ordered(e) /\ content(e) = content(b) \o d /\ readableBytes(e) = readableBytes(b) + n
      /\ Len(e.buffer_) = Len(b.buffer_)
  <2> HIDE DEF d
  <2> QED  BY <1>3, <1>4, <1>5, HasWrittenOK
<1> HIDE DEF e
<1>8. Handling'
  BY <1>2, <1>6, InputAssumption DEF Handling, KeepsRoom
<1>9. Roomy(e)
  <2>1. e.readerIndex_ = b.readerIndex_
    BY <1>3 DEF e, hasWritten, Ordered, Buffers
  <2>2. readableBytes(e) = 0 => readableBytes(b) = 0
    BY <1>1, <1>3, <1>7
  <2> QED  BY <1>7, <2>1, <2>2 DEF Roomy, IInv
<1>10. InputConservation'
  <2>1. (consumed \o content(b)) \o d = SubSeq(setting.stream, 1, taken)
    BY <1>2, SomeLanded DEF IInv, InputConservation, OneReader
  <2>2. consumed \in Seq(Byte) /\ content(b) \in Seq(Byte)
    BY <1>3, ContentType DEF IInv, WholeLines
  <2>3. (consumed \o content(b)) \o d = consumed \o content(e)
    <3> HIDE DEF d
    <3> QED  BY <1>5, <1>7, <2>2, BytesAssociate
  <2> QED  BY <1>6, <1>7, <2>1, <2>2, <2>3, AllCountedNext
<1>11. InputBounded'
  BY <1>6, <1>7 DEF InputBounded, OneReader, LongestRest, LineEnds, IInv
<1> QED  BY <1>3, <1>6, <1>7, <1>8, <1>9, <1>10, <1>11 DEF IInv, Counts, WholeLines

\* readHandler at the end of the stream closes.
LEMMA ReadHandlerEndStep ==
    ASSUME IInv, readHandlerEnd
    PROVE  IInv'
<1>1. EndSeen /\ ~closed
  BY DEF IInv, readHandlerEnd, Handles, Reading, Completed, Data, Handling, Quiet
<1>2. Tail(completions) = <<>>
  BY <1>1 DEF EndSeen
<1>3. /\ completions' = <<>> /\ reading_' = FALSE /\ closed' = TRUE
      /\ UNCHANGED <<inputBuffer_, reads, handling, sent, taken, consumed, socket, failed, setting>>
  BY <1>1, <1>2 DEF readHandlerEnd, Handles, Step, bytes
<1>4. Quiet'
  BY <1>1, <1>3 DEF EndSeen, Quiet
<1>5. InputConservation'
  <2>1. consumed \o content(inputBuffer_) = SubSeq(setting.stream, 1, taken)
    BY <1>1, AllCounted DEF IInv, OneReader, WholeLines
  <2> QED  BY <1>3, <2>1, AllCountedNext DEF IInv, WholeLines
<1> QED  BY <1>3, <1>4, <1>5, SameBuffer DEF IInv, Counts

\* The application takes a line.
LEMMA TakeLineStep ==
    ASSUME IInv, takeLine
    PROVE  /\ IInv'
           /\ Len(consumed) <= Len(consumed') /\ Len(consumed') <= taken
           /\ consumed' = SubSeq(setting.stream, 1, Len(consumed'))
<1> DEFINE b == inputBuffer_
           n == line(b)
           e == retrieve(b, n)
           st == setting.stream
<1>1. Handling /\ ~closed /\ setting \in Settings /\ Ordered(b)
  BY DEF IInv, takeLine, Reading, Completed, EndSeen, Quiet
<1>2. /\ n \in Nat /\ n > 0 /\ n <= readableBytes(b) /\ content(b)[n] = LF
      /\ readableBytes(b) \in Nat
  <2>1. readableBytes(b) \in Nat
    BY <1>1 DEF readableBytes, Ordered, Buffers
  <2>2. n > 0
    BY DEF takeLine
  <2> QED  BY <1>1, <2>1, <2>2, LineOK
<1>3. /\ inputBuffer_' = e /\ consumed' = consumed \o peek(b, n)
      /\ UNCHANGED <<reading_, reads, completions, handling, sent, taken, socket, closed, failed, setting>>
  BY DEF takeLine, Step
<1> HIDE DEF n
<1>4. /\ Ordered(e) /\ content(e) = SubSeq(content(b), n + 1, Len(content(b)))
      /\ e.buffer_ = b.buffer_ /\ readableBytes(e) = readableBytes(b) - n
  BY <1>1, <1>2, RetrieveOK DEF retrieveAssert
<1>5. /\ content(b) \in Seq(Byte) /\ Len(content(b)) = readableBytes(b)
      /\ consumed \in Seq(Byte) /\ peek(b, n) = SubSeq(content(b), 1, n)
  BY <1>1, <1>2, ContentType, PeekOK DEF IInv, WholeLines
<1>6. /\ peek(b, n) \in Seq(Byte) /\ Len(peek(b, n)) = n /\ peek(b, n)[n] = LF
      /\ content(e) \in Seq(Byte) /\ peek(b, n) \o content(e) = content(b)
  <2>1. n \in 0 .. Len(content(b)) /\ Len(SubSeq(content(b), 1, n)) = n
        /\ SubSeq(content(b), 1, n)[n] = content(b)[n]
    BY <1>2, <1>5
  <2> QED  BY <1>2, <1>4, <1>5, <2>1, Split
<1>7. consumed' \o content(e) = SubSeq(st, 1, taken)
  <2>1. completions = <<>>
    BY <1>1 DEF Handling
  <2>2. consumed \o content(b) = SubSeq(st, 1, taken)
    BY <1>1, <1>5, <2>1, AllCounted DEF IInv, OneReader
  <2>3. (consumed \o peek(b, n)) \o content(e) = consumed \o (peek(b, n) \o content(e))
    BY <1>5, <1>6, BytesAssociate
  <2> QED  BY <1>3, <1>6, <2>2, <2>3
<1>8. /\ consumed' \in Seq(Byte) /\ Len(consumed') = Len(consumed) + n
      /\ consumed'[Len(consumed')] = LF
  <2>1. Len(consumed \o peek(b, n)) = Len(consumed) + n /\ Len(consumed) \in Nat
    BY <1>5, <1>6
  <2>2. (consumed \o peek(b, n))[Len(consumed) + n] = peek(b, n)[n]
    BY <1>2, <1>5, <1>6
  <2>3. consumed \o peek(b, n) \in Seq(Byte)
    BY <1>5, <1>6
  <2> QED  BY <1>3, <1>6, <2>1, <2>2, <2>3, Zenon
<1>9. InputConservation'
  BY <1>1, <1>3, <1>4, <1>7, <1>8, AllCountedNext DEF Handling
<1>10. Roomy(e)
  <2>1. readableBytes(e) = 0 => e.readerIndex_ = kCheapPrepend
    <3>1. ASSUME readableBytes(e) = 0 PROVE ~(n < readableBytes(b))
      BY <1>2, <1>4, <3>1
    <3> QED  BY <3>1 DEF retrieve, retrieveAll
  <2> QED  BY <1>4, <2>1 DEF IInv, Roomy
<1>11. Handling'
  <2>1. KeepsRoom => reading_
    BY <1>1, <1>2 DEF Handling
  <2> QED  BY <1>1, <1>3, <2>1 DEF Handling, KeepsRoom
<1>12. InputBounded'
  BY <1>3, <1>4 DEF IInv, InputBounded, OneReader, LongestRest, LineEnds
<1>13. WholeLines' /\ Counts'
  BY <1>3, <1>8 DEF IInv, WholeLines, Counts
<1>14. /\ Len(consumed) <= Len(consumed') /\ Len(consumed') <= taken
       /\ consumed' = SubSeq(setting.stream, 1, Len(consumed'))
  <2>1. st \in Seq(Byte) /\ taken \in 0 .. Len(st)
    BY <1>1, InputAssumption DEF IInv, Counts
  <2> DEFINE u == consumed'
  <2> HIDE DEF u
  <2>2. u \in Seq(Byte) /\ u \o content(e) = SubSeq(st, 1, taken)
    BY <1>7, <1>8 DEF u
  <2>3. Len(u) <= Len(u \o content(e)) /\ u = SubSeq(u \o content(e), 1, Len(u))
    BY <1>6, <2>2, Beginning
  <2>4. Len(SubSeq(st, 1, taken)) = taken
    BY <2>1
  <2>5. Len(u) \in 0 .. taken
    BY <2>1, <2>2, <2>3, <2>4
  <2>6. SubSeq(SubSeq(st, 1, taken), 1, Len(u)) = SubSeq(st, 1, Len(u))
    BY <2>1, <2>5
  <2>7. Len(consumed) <= Len(u) /\ Len(u) <= taken
    BY <1>2, <1>5, <1>8, <2>5 DEF u
  <2>8. u = SubSeq(st, 1, Len(u))
    BY <2>2, <2>3, <2>6
  <2> QED  BY <2>7, <2>8 DEF u
<1> QED  BY <1>1, <1>3, <1>4, <1>9, <1>10, <1>11, <1>12, <1>13, <1>14 DEF IInv

\* Making room keeps an empty buffer at its start and the vector as large.
LEMMA EnsureRoomy ==
    ASSUME NEW b, Ordered(b), Roomy(b), NEW len \in Nat
    PROVE  Roomy(ensureWritableBytes(b, len))
<1> DEFINE e == ensureWritableBytes(b, len)
<1>1. /\ b.buffer_ \in Seq(Byte) /\ b.readerIndex_ \in Nat /\ b.writerIndex_ \in Nat
      /\ Len(b.buffer_) \in Nat /\ kCheapPrepend \in Nat /\ kInitialSize \in Nat
      /\ b.writerIndex_ <= Len(b.buffer_)
  BY BufferAssumption DEF Ordered, Buffers
<1>2. readableBytes(e) = readableBytes(b)
  BY EnsureWritableOK
<1>3. CASE ~(writableBytes(b) < len)
  BY <1>3 DEF ensureWritableBytes
<1>4. CASE writableBytes(b) < len /\ mustGrow(b, len)
  <2> DEFINE g == [b EXCEPT !.buffer_ = resize(@, b.writerIndex_ + len)]
  <2>1. e = g
    BY <1>4 DEF ensureWritableBytes, makeSpace
  <2>2. g.readerIndex_ = b.readerIndex_
    BY DEF Ordered, Buffers
  <2>3. Len(g.buffer_) = b.writerIndex_ + len
    BY <1>4, GrowOK
  <2>4. b.writerIndex_ + len >= Len(b.buffer_)
    BY <1>1, <1>4 DEF writableBytes
  <2> HIDE DEF g, e
  <2>5. Len(e.buffer_) >= kCheapPrepend + kInitialSize
    BY <1>1, <2>1, <2>3, <2>4 DEF Roomy
  <2>6. Roomy(e)
    BY <1>2, <2>1, <2>2, <2>5 DEF Roomy
  <2> QED  BY <2>6 DEF e
<1>5. CASE writableBytes(b) < len /\ ~mustGrow(b, len)
  <2>1. e = compact(b)
    BY <1>5 DEF ensureWritableBytes, makeSpace
  <2>2. e.readerIndex_ = kCheapPrepend
    BY <2>1 DEF compact
  <2>3. Len(e.buffer_) = Len(b.buffer_)
    BY <1>1, <2>1, ContentType, CopyType DEF compact
  <2> QED  BY <2>2, <2>3 DEF Roomy
<1> QED  BY <1>3, <1>4, <1>5

\* The application pauses, with an empty buffer if it keeps room.
LEMMA StopReadStep ==
    ASSUME IInv, stopReadInLoop
    PROVE  IInv'
<1>1. Handling /\ ~closed
  BY DEF IInv, stopReadInLoop, MayPause, Reading, Completed, EndSeen, Quiet
<1>2. /\ UNCHANGED <<inputBuffer_, reads, completions, handling, sent, taken, consumed, socket, closed,
                      failed, setting>>
      /\ reading_' = FALSE /\ (KeepsRoom => readableBytes(inputBuffer_) = 0)
  BY DEF stopReadInLoop, MayPause, KeepsRoom, bytes, Step
<1>3. Handling'
  BY <1>1, <1>2 DEF Handling, KeepsRoom
<1> QED  BY <1>1, <1>2, <1>3, SameBuffer DEF IInv, Counts

\* The application resumes: if it keeps room the buffer is empty, and has some.
LEMMA StartReadStep ==
    ASSUME IInv, startReadInLoop
    PROVE  IInv'
<1> DEFINE b == inputBuffer_
<1>1. Quiet
  BY InputAssumption DEF IInv, startReadInLoop, MayResume, Reading, Completed, EndSeen, Handling
<1>2. /\ UNCHANGED <<inputBuffer_, completions, handling, sent, taken, consumed, socket, closed,
                      failed, setting>>
      /\ reading_' = TRUE /\ ~closed /\ reads' = Append(reads, asyncRead(b))
  BY DEF startReadInLoop, MayResume, bytes, Step
<1>3. reads' = <<asyncRead(b)>>
  BY <1>1, <1>2 DEF Quiet
<1>4. ASSUME KeepsRoom PROVE writableBytes(b) > 0
  <2>1. readableBytes(b) = 0 /\ b.readerIndex_ = kCheapPrepend
        /\ Len(b.buffer_) >= kCheapPrepend + kInitialSize
    BY <1>1, <1>2, <1>4 DEF IInv, Roomy, Quiet
  <2>2. b.readerIndex_ \in Nat /\ b.writerIndex_ \in Nat /\ Len(b.buffer_) \in Nat
    BY DEF IInv, Ordered, Buffers
  <2>3. kInitialSize \in Nat /\ kInitialSize > 0 /\ kCheapPrepend \in Nat
    BY BufferAssumption, InputAssumption
  <2> QED  BY <2>1, <2>2, <2>3 DEF readableBytes, writableBytes
<1>5. Reading'
  BY <1>1, <1>2, <1>3, <1>4 DEF Reading, Quiet, KeepsRoom, asyncRead, writableBytes
<1> QED  BY <1>2, <1>5, SameBuffer DEF IInv, Counts

\* readHandler makes room for as many bytes as it has just got, and reads on.
LEMMA RearmStep ==
    ASSUME IInv, readHandlerRearm
    PROVE  IInv'
<1> DEFINE b == inputBuffer_
           n == handling
           e == ensureWritableBytes(b, n)
<1>1. Handling /\ ~closed /\ setting \in Settings /\ Ordered(b)
  BY DEF IInv, readHandlerRearm, Reading, Completed, EndSeen, Quiet
<1>2. n \in Nat /\ (KeepsRoom => n > 0) /\ n <= Backlog /\ Backlog \in Nat
  BY <1>1, InputAssumption DEF Handling
<1>3. /\ UNCHANGED <<reading_, completions, sent, taken, consumed, socket, closed, setting>>
      /\ handling' = -1 /\ line(b) = 0
  BY DEF readHandlerRearm, bytes, Step
<1>4. CASE ~reading_
  <2>1. UNCHANGED <<inputBuffer_, reads, failed>> /\ reading_ = FALSE
    BY <1>4 DEF readHandlerRearm, IInv
  <2>2. Quiet'
    BY <1>1, <1>3, <2>1 DEF Handling, Quiet, KeepsRoom
  <2> QED  BY <1>1, <1>3, <2>1, <2>2, SameBuffer DEF IInv, Counts
<1>5. CASE reading_
  <2>1. /\ Ordered(e) /\ content(e) = content(b) /\ readableBytes(e) = readableBytes(b)
        /\ writableBytes(e) >= n /\ ensureWritableBytesAssert(b, n)
        /\ \/ Len(e.buffer_) = Len(b.buffer_)
           \/ Len(e.buffer_) < kCheapPrepend + readableBytes(b) + 2 * n
    BY <1>1, <1>2, EnsureWritableOK
  <2>2. inputBuffer_' = e /\ reads' = Append(reads, asyncRead(inputBuffer_')) /\ failed' = failed
    BY <1>5, <2>1 DEF readHandlerRearm
  <2>3. Roomy(e)
    BY <1>1, <1>2, EnsureRoomy DEF IInv
  <2> HIDE DEF e
  <2>4. reads' = <<asyncRead(inputBuffer_')>> /\ completions' = <<>>
    BY <1>1, <1>3, <2>2 DEF Handling
  <2>5. KeepsRoom => writableBytes(e) > 0
    BY <1>2, <2>1 DEF Ordered, Buffers, writableBytes
  <2>6. Reading'
    BY <1>3, <1>5, <2>2, <2>4, <2>5 DEF Reading, IInv, KeepsRoom, writableBytes
  <2>7. consumed \o content(b) = SubSeq(setting.stream, 1, taken)
    BY <1>1, AllCounted DEF IInv, OneReader, WholeLines, Handling
  <2>8. InputConservation'
    BY <1>3, <2>1, <2>2, <2>4, <2>7, AllCountedNext DEF IInv, WholeLines
  <2>9. InputBounded'
    <3> DEFINE limit == Max({kInitialSize, 2 * Backlog + LongestRest - 1})
    <3>1. readableBytes(b) <= LongestRest
      BY <1>1, <1>3, <2>7, RestIsShort DEF IInv
    <3>2. LongestRest \in Nat /\ limit \in Nat /\ 2 * Backlog + LongestRest - 1 <= limit
      BY <1>1, Limits
    <3>3. LongestRest' = LongestRest
      BY <1>3 DEF LongestRest, LineEnds
    <3>4. /\ readableBytes(b) \in Nat /\ Len(e.buffer_) \in Nat /\ kCheapPrepend \in Nat
          /\ Len(b.buffer_) \in Nat
      BY <1>1, <2>1, BufferAssumption DEF Ordered, Buffers, readableBytes
    <3>5. Len(b.buffer_) <= kCheapPrepend + limit
      BY DEF IInv, InputBounded, OneReader
    <3> HIDE DEF limit
    <3>6. Len(e.buffer_) <= kCheapPrepend + limit
      BY <1>2, <2>1, <3>1, <3>2, <3>4, <3>5
    <3> QED  BY <2>2, <3>3, <3>6 DEF InputBounded, limit
  <2> QED  BY <1>1, <1>3, <2>1, <2>2, <2>3, <2>6, <2>8, <2>9 DEF IInv, WholeLines, Counts
<1> QED  BY <1>4, <1>5

-----------------------------------------------------------------------------

LEMMA NextOK == IInv /\ [Next]_vars => IInv'
<1> SUFFICES ASSUME IInv, [Next]_vars PROVE IInv'
  OBVIOUS
<1>1. CASE UNCHANGED vars
  BY <1>1 DEF vars, IInv, Counts, WholeLines, Reading, Completed, EndSeen, Handling, Quiet,
              KeepsRoom, OneReader, InputConservation, uncounted, landed, InputBounded, LongestRest, LineEnds
<1>2. CASE Next
  BY <1>2, PeerStep, KernelReadStep, KernelEndStep, ReadHandlerStep, ReadHandlerEndStep,
     TakeLineStep, StopReadStep, RearmStep, StartReadStep DEF Next
<1> QED  BY <1>1, <1>2

\* With one reader there is at most one read, with room if the reader keeps it.
LEMMA PhaseReads ==
    ASSUME IInv, KeepsRoom
    PROVE  \A i \in 1 .. Len(reads) : reads[i].len > 0
<1>1. CASE Reading
  <2>1. reads = <<asyncRead(inputBuffer_)>> /\ asyncRead(inputBuffer_).len > 0
    BY <1>1 DEF asyncRead, Reading
  <2> QED  BY <2>1
<1>2. CASE ~Reading
  <2>1. reads = <<>>
    BY <1>2 DEF IInv, Completed, EndSeen, Handling, Quiet
  <2> QED  BY <2>1
<1> QED  BY <1>1, <1>2

-----------------------------------------------------------------------------
(* Types, for an application that pauses and resumes at any time as well:  *)
(* any number of reads, into windows the buffer may no longer have.        *)

Windows == {w \in [at : Nat, len : Nat, size : Nat] : w.at + w.len <= w.size}

Ends == [what : {"data", "fin", "rst"}, n : Nat]

TypedInv ==
    /\ setting \in Settings /\ Ordered(inputBuffer_) /\ Counts /\ consumed \in Seq(Byte)
    /\ reads \in Seq(Windows) /\ completions \in Seq(Ends) /\ handling \in Nat \cup {-1}
    /\ socket \in {"open", "fin", "rst"} /\ reading_ \in BOOLEAN /\ closed \in BOOLEAN
    /\ failed \in BOOLEAN

\* A queue keeps its type.
LEMMA QueueTypes ==
    ASSUME NEW S, NEW q \in Seq(S)
    PROVE  /\ q /= <<>> => Tail(q) \in Seq(S) /\ Head(q) \in S
           /\ \A x \in S : Append(q, x) \in Seq(S)
OBVIOUS

\* A read names memory of the vector.
LEMMA AsyncReadWithin ==
    ASSUME NEW b, Ordered(b)
    PROVE  asyncRead(b) \in Windows
<1>1. PICK w \in Nat, l \in Nat : w = b.writerIndex_ /\ l = Len(b.buffer_) /\ w <= l
  BY DEF Ordered, Buffers
<1>2. asyncRead(b) = [at |-> w, len |-> l - w, size |-> l]
  BY <1>1 DEF asyncRead, writableBytes
<1>3. l - w \in Nat /\ w + (l - w) <= l
  BY <1>1
<1> QED  BY <1>2, <1>3 DEF Windows

LEMMA TypedKernelRead ==
    ASSUME TypedInv, KernelRead
    PROVE  TypedInv'
<1> DEFINE b == inputBuffer_
           st == setting.stream
           w == Head(reads)
           T == {w.len, sent - taken}
<1>1. /\ UNCHANGED <<reading_, handling, sent, consumed, socket, closed, failed, setting>>
      /\ reads /= <<>>
  BY DEF KernelRead, Step
<1>2. w \in Windows /\ Tail(reads) \in Seq(Windows)
  BY <1>1, QueueTypes DEF TypedInv
<1>3. /\ st \in Seq(Byte) /\ Len(st) \in Nat /\ taken \in Nat /\ sent \in Nat
      /\ taken <= sent /\ sent <= Len(st) /\ w.len \in Nat /\ w.at \in Nat
  BY <1>2, InputAssumption DEF TypedInv, Counts, Windows
<1>4. PICK n \in 0 .. Min(T) :
         /\ inputBuffer_' = IF Len(b.buffer_) /= w.size THEN b
               ELSE [b EXCEPT !.buffer_ = copy(SubSeq(st, taken + 1, taken + n), @, w.at)]
         /\ taken' = taken + n /\ Complete("data", n)
  BY DEF KernelRead
<1>5. n \in Nat /\ n <= sent - taken
  <2>1. T \subseteq Nat /\ T /= {}
    BY <1>3
  <2>2. Min(T) \in T /\ \A y \in T : Min(T) <= y
    <3> HIDE DEF T
    <3> QED  BY <2>1, MinExists
  <2> QED  BY <1>3, <1>4, <2>1, <2>2
<1>6. Ordered(inputBuffer_')
  <2> DEFINE d == SubSeq(st, taken + 1, taken + n)
             mem == copy(d, b.buffer_, w.at)
  <2>1. d \in Seq(Byte)
    BY <1>3, <1>5
  <2>2. b.buffer_ \in Seq(Byte) /\ b \in Buffers
    BY DEF TypedInv, Ordered, Buffers
  <2>3. mem \in Seq(Byte) /\ Len(mem) = Len(b.buffer_)
    <3> HIDE DEF d
    <3> QED  BY <1>3, <2>1, <2>2, CopyType
  <2>4. inputBuffer_' = b \/ inputBuffer_' = [b EXCEPT !.buffer_ = mem]
    BY <1>4
  <2> HIDE DEF mem
  <2> QED  BY <2>2, <2>3, <2>4 DEF TypedInv, Ordered, Buffers
<1>7. reads' \in Seq(Windows) /\ completions' \in Seq(Ends)
  <2>1. [what |-> "data", n |-> n] \in Ends
    BY <1>5 DEF Ends
  <2> QED  BY <1>2, <1>4, <2>1, QueueTypes DEF Complete, TypedInv
<1>8. Counts'
  <2>1. taken' = taken + n /\ sent' = sent /\ setting' = setting
    BY <1>1, <1>4
  <2>2. sent - taken <= Backlog /\ Backlog \in Nat
    BY InputAssumption DEF TypedInv, Counts
  <2> HIDE DEF T, w
  <2> QED  BY <1>3, <1>5, <2>1, <2>2 DEF Counts
<1> QED  BY <1>1, <1>6, <1>7, <1>8 DEF TypedInv

LEMMA TypedReadHandler ==
    ASSUME TypedInv, readHandler
    PROVE  TypedInv'
<1> DEFINE b == inputBuffer_
           n == Head(completions).n
           d == landed(b, n)
<1>1. /\ UNCHANGED <<reading_, reads, sent, taken, consumed, socket, closed, setting>>
      /\ completions /= <<>> /\ completions' = Tail(completions)
  BY DEF readHandler, Handles, Step, bytes
<1>2. n \in Nat /\ completions' \in Seq(Ends)
  <2>1. Head(completions) \in Ends /\ completions' \in Seq(Ends)
    BY <1>1, QueueTypes DEF TypedInv
  <2> QED  BY <2>1 DEF Ends
<1>3. CASE ~hasWrittenAssert(b, n)
  <2>1. UNCHANGED <<inputBuffer_, handling>> /\ failed' = TRUE
    BY <1>3 DEF readHandler
  <2> QED  BY <1>1, <1>2, <2>1 DEF TypedInv, Counts
<1>4. CASE hasWrittenAssert(b, n)
  <2>1. inputBuffer_' = hasWritten(b, d) /\ handling' = n /\ failed' = failed
    BY <1>4 DEF readHandler
  <2>2. n \in 0 .. writableBytes(b)
    BY <1>2, <1>4 DEF hasWrittenAssert, TypedInv, Ordered, Buffers, writableBytes
  <2>3. d \in Seq(Byte) /\ Len(d) = n
    BY <2>2, LandedType DEF TypedInv
  <2>4. Ordered(inputBuffer_')
    <3> HIDE DEF d
    <3> QED  BY <1>4, <2>1, <2>3, HasWrittenOK DEF TypedInv
  <2> QED  BY <1>1, <1>2, <2>1, <2>4 DEF TypedInv, Counts
<1> QED  BY <1>3, <1>4

LEMMA TypedTakeLine ==
    ASSUME TypedInv, takeLine
    PROVE  TypedInv'
<1> DEFINE b == inputBuffer_
           n == line(b)
<1>1. /\ UNCHANGED <<reading_, reads, completions, handling, sent, taken, socket, closed, failed, setting>>
      /\ inputBuffer_' = retrieve(b, n) /\ consumed' = consumed \o peek(b, n)
  BY DEF takeLine, Step
<1>2. n \in Nat /\ n <= readableBytes(b)
  <2>1. n \in 0 .. readableBytes(b)
    BY LineOK DEF TypedInv
  <2>2. readableBytes(b) \in Nat
    BY DEF TypedInv, readableBytes, Ordered, Buffers
  <2> HIDE DEF n
  <2> QED  BY <2>1, <2>2
<1> HIDE DEF n
<1>3. Ordered(retrieve(b, n)) /\ peek(b, n) \in Seq(Byte)
  BY <1>2, RetrieveOK, PeekOK DEF TypedInv, retrieveAssert
<1>4. consumed' \in Seq(Byte)
  BY <1>1, <1>3 DEF TypedInv
<1> QED  BY <1>1, <1>3, <1>4 DEF TypedInv, Counts

LEMMA TypedRearm ==
    ASSUME TypedInv, readHandlerRearm
    PROVE  TypedInv'
<1> DEFINE b == inputBuffer_
<1>1. /\ UNCHANGED <<reading_, completions, sent, taken, consumed, socket, closed, setting>>
      /\ handling' = -1 /\ handling \in Nat
  BY DEF readHandlerRearm, Step, bytes, TypedInv
<1>2. CASE ~reading_
  <2>1. UNCHANGED <<inputBuffer_, reads, failed>>
    BY <1>2 DEF readHandlerRearm
  <2> QED  BY <1>1, <2>1 DEF TypedInv, Counts
<1>3. CASE reading_
  <2> DEFINE e == ensureWritableBytes(b, handling)
  <2>1. Ordered(e) /\ ensureWritableBytesAssert(b, handling)
    BY <1>1, EnsureWritableOK DEF TypedInv
  <2>2. inputBuffer_' = e /\ reads' = Append(reads, asyncRead(inputBuffer_')) /\ failed' = failed
    BY <1>3, <2>1 DEF readHandlerRearm
  <2> HIDE DEF e
  <2>3. reads' \in Seq(Windows)
    BY <2>1, <2>2, AsyncReadWithin, QueueTypes DEF TypedInv
  <2> QED  BY <1>1, <2>1, <2>2, <2>3 DEF TypedInv, Counts
<1> QED  BY <1>2, <1>3

\* Every step keeps the types.
LEMMA TypedNext == TypedInv /\ [Next]_vars => TypedInv'
<1> SUFFICES ASSUME TypedInv, [Next]_vars PROVE TypedInv'
  OBVIOUS
<1>1. CASE PeerSends
  BY <1>1, InputAssumption DEF PeerSends, Step, TypedInv, Counts
<1>2. CASE PeerEnds("fin") \/ PeerEnds("rst")
  BY <1>2 DEF PeerEnds, Step, bytes, TypedInv, Counts
<1>3. CASE KernelEnd
  <2>1. /\ UNCHANGED <<inputBuffer_, reading_, handling, sent, taken, consumed, socket, closed, failed,
                        setting>>
        /\ reads /= <<>> /\ socket \in {"fin", "rst"}
    BY <1>3 DEF KernelEnd, Step, bytes
  <2>2. [what |-> socket, n |-> 0] \in Ends
    BY <2>1 DEF Ends
  <2>3. reads' \in Seq(Windows) /\ completions' \in Seq(Ends)
    BY <1>3, <2>1, <2>2, QueueTypes DEF KernelEnd, Complete, TypedInv
  <2> QED  BY <2>1, <2>3 DEF TypedInv, Counts
<1>4. CASE readHandlerEnd
  <2>1. completions' \in Seq(Ends)
    BY <1>4, QueueTypes DEF readHandlerEnd, Handles, TypedInv
  <2> QED  BY <1>4, <2>1 DEF readHandlerEnd, Handles, Step, bytes, TypedInv, Counts
<1>5. CASE stopReadInLoop
  BY <1>5 DEF stopReadInLoop, Step, bytes, TypedInv, Counts
<1>6. CASE startReadInLoop
  <2>1. reads' \in Seq(Windows)
    BY <1>6, AsyncReadWithin, QueueTypes DEF startReadInLoop, TypedInv
  <2> QED  BY <1>6, <2>1 DEF startReadInLoop, Step, bytes, TypedInv, Counts
<1>7. CASE UNCHANGED vars
  BY <1>7 DEF vars, TypedInv, Counts
<1> QED
  BY <1>1, <1>2, <1>3, <1>4, <1>5, <1>6, <1>7, TypedKernelRead, TypedReadHandler, TypedTakeLine,
     TypedRearm DEF Next

LEMMA TypedInit == Init => TypedInv
<1> SUFFICES ASSUME Init PROVE TypedInv
  OBVIOUS
<1>1. Ordered(inputBuffer_)
  BY NewBufferOK, BufferAssumption DEF Init
<1>2. <<asyncRead(inputBuffer_)>> \in Seq(Windows) /\ <<>> \in Seq(Ends) /\ <<>> \in Seq(Byte)
  BY <1>1, AsyncReadWithin
<1>3. Len(setting.stream) \in Nat
  BY InputAssumption DEF Init
<1>4. Counts
  BY <1>3, InputAssumption DEF Init, Counts
<1> QED  BY <1>1, <1>2, <1>4 DEF Init, TypedInv

-----------------------------------------------------------------------------

\* The types hold throughout, and with one reader the invariant.
LEMMA Invariance == Spec => []TypedInv /\ [](OneReader => IInv)
<1>1. (OneReader => IInv) /\ [Next]_vars => (OneReader => IInv)'
  <2> SUFFICES ASSUME OneReader => IInv, [Next]_vars, OneReader' PROVE IInv'
    OBVIOUS
  <2>1. setting' = setting
    BY DEF Next, vars, PeerSends, PeerEnds, KernelRead, KernelEnd, readHandler, readHandlerEnd,
       Handles, takeLine, stopReadInLoop, readHandlerRearm, startReadInLoop, Step
  <2>2. IInv
    BY <2>1 DEF OneReader
  <2> QED  BY <2>2, NextOK
<1>2. Init => (OneReader => IInv)
  BY InitOK
<1> QED  BY <1>1, <1>2, TypedInit, TypedNext, PTL DEF Spec

\* Type correctness: the indices of inputBuffer_ stay in order and no more is
\* taken than was sent, two reads into the same window included.
THEOREM InputTyped == Spec => []TypeOK
<1>1. TypedInv => TypeOK
  <2>1. ASSUME NEW q \in Seq(Windows) PROVE q \in Seq([at : Nat, len : Nat, size : Nat])
    <3> DEFINE W == [at : Nat, len : Nat, size : Nat]
    <3>1. \A x \in Windows : x \in W
      BY DEF Windows
    <3> HIDE DEF W
    <3>2. \A i \in 1 .. Len(q) : q[i] \in W
      BY <3>1
    <3>3. q \in Seq(W)
      BY <3>2, LenProperties, SeqDef
    <3> QED  BY <3>3 DEF W
  <2> QED  BY <2>1 DEF TypedInv, TypeOK, Ordered, Counts, Ends
<1> QED  BY <1>1, Invariance, PTL

\* With one reader no byte is lost, repeated or overwritten between the kernel
\* and the application, wherever the stream is cut, the buffer moved and the
\* reading paused.
THEOREM InputIsConserved == Spec => []InputConservation
<1>1. (OneReader => IInv) => InputConservation
  BY DEF IInv, InputConservation
<1> QED  BY <1>1, Invariance, PTL

\* With one reader the asserts of hasWritten and ensureWritableBytes hold, and
\* no read is without room if it pauses only with an empty buffer.
THEOREM ReadsAlwaysFit == Spec => []ReadsFit
<1>1. (OneReader => IInv) => ReadsFit
  <2>1. KeepsRoom => OneReader
    BY DEF KeepsRoom, OneReader
  <2> QED  BY <2>1, PhaseReads DEF IInv, ReadsFit
<1> QED  BY <1>1, Invariance, PTL

\* With one reader inputBuffer_ stays within the longest incomplete line and
\* two backlogs.
THEOREM InputStaysBounded == Spec => []InputBounded
<1>1. (OneReader => IInv) => InputBounded
  BY DEF IInv, InputBounded
<1> QED  BY <1>1, Invariance, PTL

\* A byte from the peer is a message of the stream, a line that one reader takes
\* is a delivery, and nothing else shows.
LEMMA StepRefines == TypedInv /\ (OneReader => IInv) /\ [Next]_vars => [Stream!Next]_(Stream!vars)
<1> SUFFICES ASSUME TypedInv, OneReader => IInv, [Next]_vars PROVE [Stream!Next]_(Stream!vars)
  OBVIOUS
<1> DEFINE st == setting.stream
<1>0. /\ st \in Seq(Byte) /\ Len(st) \in Nat /\ sent \in 0 .. Len(st) /\ taken \in 0 .. sent
      /\ consumed \in Seq(Byte)
  BY InputAssumption DEF TypedInv, Counts
<1>1. CASE UNCHANGED <<sent, consumed, setting>>
  BY <1>1 DEF Stream!vars, OneReader
<1>2. CASE PeerSends
  <2> DEFINE m == <<st[sent + 1]>>
  <2>1. sent < Len(st) /\ sent' = sent + 1 /\ consumed' = consumed /\ setting' = setting
    BY <1>2 DEF PeerSends, Step
  <2>2. st[sent + 1] \in Byte
    BY <1>0, <2>1
  <2>3. SubSeq(st, 1, sent + 1) = SubSeq(st, 1, sent) \o m
    <3>1. 1 \in 1 .. Len(st) /\ sent + 1 \in 1 .. Len(st)
      BY <1>0, <2>1
    <3>2. SubSeq(st, 1, sent + 1) = SubSeq(st, 1, sent + 1 - 1) \o <<st[sent + 1]>>
      BY <1>0, <3>1, SubSeqRecursiveSecond
    <3>3. sent + 1 - 1 = sent
      BY <1>0
    <3> QED  BY <3>2, <3>3
  <2>4. Stream!Submit(m)
    BY <2>1, <2>3 DEF Stream!Submit, OneReader
  <2>5. m \in {<<x>> : x \in Byte}
    BY <2>2
  <2> HIDE DEF m
  <2> QED  BY <2>4, <2>5 DEF Stream!Next
<1>3. CASE takeLine /\ ~OneReader
  BY <1>3 DEF takeLine, Step, Stream!vars, OneReader
<1>4. CASE takeLine /\ OneReader
  <2>1. /\ Len(consumed) <= Len(consumed') /\ Len(consumed') <= taken
        /\ consumed' = SubSeq(st, 1, Len(consumed')) /\ consumed' \in Seq(Byte)
    BY <1>4, TakeLineStep DEF IInv, WholeLines
  <2>2. UNCHANGED <<sent, setting>>
    BY <1>4 DEF takeLine, Step
  <2> DEFINE n == Len(consumed')
  <2>3. n \in Nat /\ Len(SubSeq(st, 1, sent)) = sent /\ SubSeq(SubSeq(st, 1, sent), 1, n) = SubSeq(st, 1, n)
    BY <1>0, <2>1
  <2>4. n \in Len(consumed) .. Len(SubSeq(st, 1, sent))
    BY <1>0, <2>1, <2>3
  <2>5. consumed' = SubSeq(SubSeq(st, 1, sent), 1, n)
    BY <2>1, <2>3
  <2>6. Stream!Deliver
    BY <1>4, <2>2, <2>4, <2>5 DEF Stream!Deliver, OneReader
  <2> QED  BY <2>6 DEF Stream!Next
<1> QED
  BY <1>1, <1>2, <1>3, <1>4 DEF Next, vars, PeerEnds, KernelRead, KernelEnd, Complete, readHandler,
     readHandlerEnd, Handles, stopReadInLoop, readHandlerRearm, startReadInLoop, bytes, Step

\* The input path implements a stream of bytes from the peer to the application.
THEOREM InputRefinement == Spec => ImplementsByteStream
<1>1. Init => Stream!Init
  <2> SUFFICES ASSUME Init PROVE Stream!Init
    OBVIOUS
  <2>1. setting.stream \in Seq(Byte)
    BY InputAssumption DEF Init
  <2>2. SubSeq(setting.stream, 1, 0) = <<>>
    BY <2>1
  <2> QED  BY <2>2 DEF Init, Stream!Init
<1> QED
  BY <1>1, Invariance, StepRefines, PTL DEF Spec, ImplementsByteStream, Stream!Spec
=============================================================================

------------------------------ MODULE InputPath -----------------------------
(***************************************************************************)
(* How TcpConnection (net/TcpConnection.cpp) reads: async_read_some on the *)
(* writable bytes of inputBuffer_, and readHandler, which counts the bytes *)
(* in with hasWritten, calls the application, makes room for as many bytes *)
(* as it has just got and reads on.                                        *)
(*                                                                         *)
(* A read names memory, its window.  The application takes whole lines in  *)
(* the message callback, with findCRLF or findEOL and retrieveUntil; what  *)
(* is left in the buffer is the beginning of a line.                       *)
(***************************************************************************)
EXTENDS Buffer, FiniteSetsExt

CONSTANTS Settings,  \* the streams and the ways to read them
          Backlog,   \* bytes the kernel keeps for the connection
          MaxReads   \* bound on the reads of an application that pauses anyhow

CR == 1
LF == 2

\* How the application looks for the end of a line.
Finds == {"findCRLF", "findEOL"}

\* When it calls stopRead: never; in the message callback, with nothing left in
\* the buffer or with anything; or at any time in the loop's thread, and then
\* startRead too.
Pauses == {"never", "emptied", "inCallback", "anyTime"}

ASSUME InputAssumption ==
    /\ Settings \subseteq [stream : Seq(Byte), find : Finds, pauses : Pauses]
    /\ Backlog \in Nat \ {0} /\ MaxReads \in Nat \ {0}
    /\ kInitialSize > 0 /\ Base > LF

VARIABLES inputBuffer_,
          reading_,
          reads,        \* the windows of outstanding async_read_somes
          completions,  \* calls of readHandler queued in the loop
          handling,     \* bytes_transferred of the running readHandler, or -1
          sent, taken,  \* how much the peer has sent, and the kernel has copied
          consumed,     \* what the application has retrieved
          socket,       \* "open", or the peer has sent "fin" or "rst"
          closed,       \* handleClose has run
          failed,       \* an assert has failed: the process has aborted
          setting       \* the setting, which never changes

bytes == <<sent, taken, consumed>>
vars == <<inputBuffer_, reading_, reads, completions, handling, sent, taken, consumed, socket,
          closed, failed, setting>>

-----------------------------------------------------------------------------
(* Searching a Buffer: the offset from peek(), or -1 for NULL.             *)

first(hits) == IF hits = {} THEN -1 ELSE Min(hits)

findCRLF(b) ==
    first({p \in 0 .. readableBytes(b) - 2 : content(b)[p + 1] = CR /\ content(b)[p + 2] = LF})

findEOL(b) == first({p \in 0 .. readableBytes(b) - 1 : content(b)[p + 1] = LF})

\* The length of the first line with its end, or 0 if it is not all there.
line(b) ==
    CASE setting.find = "findCRLF" -> IF findCRLF(b) = -1 THEN 0 ELSE findCRLF(b) + 2
      [] setting.find = "findEOL" -> findEOL(b) + 1

-----------------------------------------------------------------------------

\* A read into the whole of what follows the reader.
asyncReadAtPeek(b) == [at |-> b.readerIndex_, len |-> writableBytes(b), size |-> Len(b.buffer_)]

\* async_read_some on everything writable in b.
asyncRead(b) == [at |-> b.writerIndex_, len |-> writableBytes(b), size |-> Len(b.buffer_)]

\* connectEstablished has called beginFirstRead.
Init ==
    /\ inputBuffer_ = newBuffer(kInitialSize)
    /\ reading_ = TRUE
    /\ reads = <<asyncRead(inputBuffer_)>>
    /\ completions = <<>> /\ handling = -1
    /\ sent = 0 /\ taken = 0 /\ consumed = <<>>
    /\ socket = "open" /\ closed = FALSE /\ failed = FALSE
    /\ setting \in Settings

Step == ~failed /\ UNCHANGED setting

PeerSends ==
    /\ Step /\ socket = "open"
    /\ sent < Len(setting.stream) /\ sent - taken < Backlog
    /\ sent' = sent + 1
    /\ UNCHANGED <<inputBuffer_, reading_, reads, completions, handling, taken, consumed, socket,
                   closed, failed>>

PeerEnds(how) ==
    /\ Step /\ socket = "open"
    /\ socket' = how
    /\ UNCHANGED <<inputBuffer_, reading_, reads, completions, handling, bytes, closed, failed>>

Complete(what, n) ==
    /\ completions' = Append(completions, [what |-> what, n |-> n])
    /\ reads' = Tail(reads)

\* The kernel copies some bytes to the window of the oldest read (none, and at
\* once, if it is empty), which may be memory that the vector has given up.
KernelRead ==
    /\ Step /\ reads /= <<>> /\ socket /= "rst"
    /\ LET w == Head(reads) IN
       \E n \in 0 .. Min({w.len, sent - taken}) :
          /\ n = 0 <=> w.len = 0
          /\ inputBuffer_' = IF Len(inputBuffer_.buffer_) /= w.size THEN inputBuffer_
                ELSE [inputBuffer_ EXCEPT !.buffer_ =
                         copy(SubSeq(setting.stream, taken + 1, taken + n), @, w.at)]
          /\ taken' = taken + n
          /\ Complete("data", n)
    /\ UNCHANGED <<reading_, handling, sent, consumed, socket, closed, failed>>

\* The read finds the end of the stream, or a connection that has been reset.
KernelEnd ==
    /\ Step /\ reads /= <<>>
    /\ socket = "rst" \/ (socket = "fin" /\ taken = sent /\ Head(reads).len > 0)
    /\ Complete(socket, 0)
    /\ UNCHANGED <<inputBuffer_, reading_, handling, bytes, socket, closed, failed>>

\* The n bytes at beginWrite().
landed(b, n) == [i \in 1 .. n |-> b.buffer_[b.writerIndex_ + i]]

Handles(whats) ==
    /\ Step /\ handling = -1 /\ completions /= <<>>
    /\ Head(completions).what \in whats
    /\ completions' = Tail(completions)

\* readHandler with data, up to the message callback.
readHandler ==
    /\ Handles({"data"})
    /\ LET n == Head(completions).n IN
       \/ /\ hasWrittenAssert(inputBuffer_, n)
          /\ inputBuffer_' = hasWritten(inputBuffer_, landed(inputBuffer_, n))
          /\ handling' = n
          /\ UNCHANGED failed
       \/ /\ ~hasWrittenAssert(inputBuffer_, n)
          /\ failed' = TRUE
          /\ UNCHANGED <<inputBuffer_, handling>>
    /\ UNCHANGED <<reading_, reads, bytes, socket, closed>>

\* In the message callback: the application retrieves a line.
takeLine ==
    /\ Step /\ handling >= 0 /\ line(inputBuffer_) > 0
    /\ consumed' = consumed \o peek(inputBuffer_, line(inputBuffer_))
    /\ inputBuffer_' = retrieve(inputBuffer_, line(inputBuffer_))
    /\ UNCHANGED <<reading_, reads, completions, handling, sent, taken, socket, closed, failed>>

\* When the application calls stopRead.
MayPause ==
    \/ setting.pauses = "emptied" /\ handling >= 0 /\ readableBytes(inputBuffer_) = 0
    \/ setting.pauses = "inCallback" /\ handling >= 0
    \/ setting.pauses = "anyTime"

\* TcpConnection::stopReadInLoop: an outstanding read goes on.
stopReadInLoop ==
    /\ Step /\ MayPause /\ reading_
    /\ reading_' = FALSE
    /\ UNCHANGED <<inputBuffer_, reads, completions, handling, bytes, socket, closed, failed>>

\* readHandlerRearm that makes no room.
readHandlerRearmNoRoom ==
    /\ Step /\ handling >= 0 /\ line(inputBuffer_) = 0
    /\ handling' = -1
    /\ reads' = IF reading_ THEN Append(reads, asyncRead(inputBuffer_)) ELSE reads
    /\ UNCHANGED <<inputBuffer_, reading_, completions, bytes, socket, closed, failed>>

\* readHandler after the message callback.
readHandlerRearm ==
    /\ Step /\ handling >= 0 /\ line(inputBuffer_) = 0
    /\ handling' = -1
    /\ \/ /\ ~reading_
          /\ UNCHANGED <<inputBuffer_, reads, failed>>
       \/ /\ reading_ /\ ensureWritableBytesAssert(inputBuffer_, handling)
          /\ inputBuffer_' = ensureWritableBytes(inputBuffer_, handling)
          /\ reads' = Append(reads, asyncRead(inputBuffer_'))
          /\ UNCHANGED failed
       \/ /\ reading_ /\ ~ensureWritableBytesAssert(inputBuffer_, handling)
          /\ failed' = TRUE
          /\ UNCHANGED <<inputBuffer_, reads>>
    /\ UNCHANGED <<reading_, completions, bytes, socket, closed>>

\* readHandler at the end: handleClose, after which reading_ is FALSE.  Its
\* assert fails for the end that a second read finds.
readHandlerEnd ==
    /\ Handles({"fin", "rst"})
    /\ \/ /\ ~closed
          /\ reading_' = FALSE /\ closed' = TRUE
          /\ UNCHANGED failed
       \/ /\ closed
          /\ failed' = TRUE
          /\ UNCHANGED <<reading_, closed>>
    /\ UNCHANGED <<inputBuffer_, reads, handling, bytes, socket>>

UnderWay == Len(reads) + Len(completions) + (IF handling >= 0 THEN 1 ELSE 0)

\* When the application calls startRead: not after DOWN.
MayResume ==
    /\ ~closed
    /\ \/ setting.pauses /= "anyTime" /\ handling = -1
       \/ setting.pauses = "anyTime" /\ UnderWay < MaxReads

\* startReadInLoop that relies on a read being outstanding.
startReadInLoopFlagOnly ==
    /\ Step /\ MayResume /\ ~reading_
    /\ reading_' = TRUE
    /\ UNCHANGED <<inputBuffer_, reads, completions, handling, bytes, socket, closed, failed>>

\* TcpConnection::startReadInLoop: a read into what is writable, if anything.
startReadInLoop ==
    /\ Step /\ MayResume /\ ~reading_
    /\ reading_' = TRUE
    /\ reads' = Append(reads, asyncRead(inputBuffer_))
    /\ UNCHANGED <<inputBuffer_, completions, handling, bytes, socket, closed, failed>>

Next ==
    \/ PeerSends \/ PeerEnds("fin") \/ PeerEnds("rst")
    \/ KernelRead \/ KernelEnd
    \/ readHandler \/ readHandlerEnd \/ takeLine \/ stopReadInLoop \/ readHandlerRearm
    \/ startReadInLoop

\* The kernel completes reads, the loop runs handlers, callbacks return, and
\* the application resumes what it has paused.
Fairness ==
    /\ WF_vars(KernelRead) /\ WF_vars(KernelEnd)
    /\ WF_vars(readHandler \/ readHandlerEnd) /\ WF_vars(takeLine) /\ WF_vars(readHandlerRearm)
    /\ WF_vars(startReadInLoop)

Spec == Init /\ [][Next]_vars /\ Fairness

-----------------------------------------------------------------------------

\* The types of the variables, and the order of the buffer's indices.
TypeOK ==
    /\ inputBuffer_ \in Buffers
    /\ inputBuffer_.readerIndex_ <= inputBuffer_.writerIndex_
    /\ inputBuffer_.writerIndex_ <= Len(inputBuffer_.buffer_)
    /\ reads \in Seq([at : Nat, len : Nat, size : Nat])
    /\ completions \in Seq([what : {"data", "fin", "rst"}, n : Nat])
    /\ handling \in Nat \cup {-1}
    /\ taken \in 0 .. sent /\ sent \in 0 .. Len(setting.stream)
    /\ consumed \in Seq(Byte)
    /\ socket \in {"open", "fin", "rst"}
    /\ reading_ \in BOOLEAN /\ closed \in BOOLEAN /\ failed \in BOOLEAN

\* The bytes that are in the buffer, and that readHandler has not counted yet.
uncounted ==
    IF completions /= <<>> THEN landed(inputBuffer_, completions[1].n) ELSE <<>>

\* The application calls stopRead in the message callback only, where no read
\* is outstanding, and startRead outside.  Else a second read may be started
\* into the window of the first (TcpConnection.cpp:158).
OneReader == setting.pauses /= "anyTime"

\* And it pauses only with nothing left in the buffer.  Else startReadInLoop,
\* which makes no room, may find none: the read completes at once with nothing,
\* and so do all the following, for ever.
KeepsRoom == setting.pauses \in {"never", "emptied"}

\* With one reader no byte is lost, repeated or overwritten between the kernel
\* and the application, wherever the stream is cut, the buffer grows or is
\* moved, and the reading is paused.
InputConservation ==
    OneReader =>
        consumed \o content(inputBuffer_) \o uncounted = SubSeq(setting.stream, 1, taken)

\* With one reader no read brings more than there is room for: the asserts of
\* hasWritten (Buffer.h:216) and ensureWritableBytes do not fail.  If the
\* application also pauses only with an empty buffer, every read has room, the
\* ones that startReadInLoop starts without making any included.
ReadsFit ==
    /\ OneReader => ~failed
    /\ KeepsRoom => \A i \in 1 .. Len(reads) : reads[i].len > 0

\* Where lines of the stream end.
LineEnds ==
    {k \in 1 .. Len(setting.stream) :
        /\ setting.stream[k] = LF
        /\ setting.find = "findCRLF" => k > 1 /\ setting.stream[k - 1] = CR}

\* The length of the longest beginning of a line that is not a line.
LongestRest ==
    Max({k \in 0 .. Len(setting.stream) :
            \E i \in 0 .. Len(setting.stream) - k : (i + 1 .. i + k) \cap LineEnds = {}})

\* With one reader the vector stays within twice what the kernel can hand over
\* at once and the line that is not complete: the room made for the next read
\* does not add up.
InputBounded ==
    OneReader => Len(inputBuffer_.buffer_)
        <= kCheapPrepend + Max({kInitialSize, 2 * Backlog + LongestRest - 1})

\* Every line that has arrived is given to an application that keeps room,
\* however long it is and wherever it was cut, unless the connection is reset.
LinesDelivered ==
    \A k \in 1 .. Max({Len(s.stream) : s \in Settings}) :
        (KeepsRoom /\ k \in LineEnds /\ sent >= k) ~> (Len(consumed) >= k \/ socket = "rst")

\* The stream of bytes from the peer to an application that is one reader.
Stream == INSTANCE ByteStream WITH
    Message <- {<<x>> : x \in Byte},
    submitted <- SubSeq(setting.stream, 1, sent),
    delivered <- IF OneReader THEN consumed ELSE <<>>

\* Refinement: one reader gets the beginning of what the peer has sent.
ImplementsByteStream == Stream!Spec
=============================================================================

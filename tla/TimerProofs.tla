---------------------------- MODULE TimerProofs -----------------------------
(***************************************************************************)
(* Proofs about TimerQueue, for every number of timers and every use of    *)
(* addTimer and cancel: in the loop, in callbacks and in another thread.   *)
(***************************************************************************)
EXTENDS TimerQueue, FiniteSetTheorems, TLAPS

\* No handler of t is in the queue q; exactly one is.
None(q, t) == \A i \in 1 .. Len(q) : q[i][1] /= t

One(q, t) == \E i \in 1 .. Len(q) : q[i][1] = t /\ \A j \in 1 .. Len(q) : q[j][1] = t => j = i

\* A handler in the queue: the timer, and whether it has expired.
Queueable == Timers \X BOOLEAN

-----------------------------------------------------------------------------
(* The loop's queue.                                                       *)

\* A handler is added at the end.
LEMMA AppendHandler ==
    ASSUME NEW q \in Seq(Queueable), NEW t \in Timers, NEW e \in BOOLEAN, NEW u
    PROVE  /\ Append(q, <<t, e>>) \in Seq(Queueable)
           /\ None(q, t) => One(Append(q, <<t, e>>), t)
           /\ u /= t /\ None(q, u) => None(Append(q, <<t, e>>), u)
           /\ u /= t /\ One(q, u) => One(Append(q, <<t, e>>), u)
<1> DEFINE a == Append(q, <<t, e>>)
<1>1. <<t, e>> \in Queueable /\ <<t, e>>[1] = t
  BY DEF Queueable
<1>2. /\ a \in Seq(Queueable) /\ Len(a) = Len(q) + 1 /\ Len(q) \in Nat
      /\ \A i \in 1 .. Len(q) : a[i] = q[i]
      /\ a[Len(q) + 1] = <<t, e>>
  BY <1>1
<1> HIDE DEF a
<1>3. None(q, t) => One(a, t)
  BY <1>1, <1>2 DEF None, One
<1>4. u /= t /\ None(q, u) => None(a, u)
  BY <1>1, <1>2 DEF None
<1>5. ASSUME u /= t, One(q, u) PROVE One(a, u)
  <2>1. PICK k \in 1 .. Len(q) : q[k][1] = u /\ \A j \in 1 .. Len(q) : q[j][1] = u => j = k
    BY <1>5 DEF One
  <2>2. k \in 1 .. Len(a) /\ a[k][1] = u
    BY <1>2, <2>1
  <2>3. \A j \in 1 .. Len(a) : a[j][1] = u => j = k
    BY <1>1, <1>2, <1>5, <2>1
  <2> QED  BY <2>2, <2>3 DEF One
<1> QED  BY <1>2, <1>3, <1>4, <1>5 DEF a

\* Handlers of other timers are added at the end.
LEMMA ConcatHandlers ==
    ASSUME NEW q \in Seq(Queueable), NEW s \in Seq(Queueable), NEW u, None(s, u)
    PROVE  /\ q \o s \in Seq(Queueable)
           /\ None(q, u) => None(q \o s, u)
           /\ One(q, u) => One(q \o s, u)
<1> DEFINE a == q \o s
<1>1. /\ a \in Seq(Queueable) /\ Len(a) = Len(q) + Len(s) /\ Len(q) \in Nat /\ Len(s) \in Nat
      /\ \A i \in 1 .. Len(q) : a[i] = q[i]
      /\ \A i \in 1 .. Len(a) : i > Len(q) => a[i] = s[i - Len(q)]
  OBVIOUS
<1> HIDE DEF a
<1>2. \A i \in 1 .. Len(a) : i > Len(q) => a[i][1] /= u
  <2> TAKE i \in 1 .. Len(a)
  <2> HAVE i > Len(q)
  <2>1. i - Len(q) \in 1 .. Len(s)
    BY <1>1
  <2> QED  BY <1>1, <2>1 DEF None
<1>3. None(q, u) => None(a, u)
  BY <1>1, <1>2 DEF None
<1>4. ASSUME One(q, u) PROVE One(a, u)
  <2>1. PICK k \in 1 .. Len(q) : q[k][1] = u /\ \A j \in 1 .. Len(q) : q[j][1] = u => j = k
    BY <1>4 DEF One
  <2>2. k \in 1 .. Len(a) /\ a[k][1] = u
    BY <1>1, <2>1
  <2>3. \A j \in 1 .. Len(a) : a[j][1] = u => j = k
    BY <1>1, <1>2, <2>1
  <2> QED  BY <2>2, <2>3 DEF One
<1> QED  BY <1>1, <1>3, <1>4 DEF a

\* The head of the queue is taken.
LEMMA TakeHandler ==
    ASSUME NEW q \in Seq(Queueable), q /= <<>>, NEW u
    PROVE  /\ Tail(q) \in Seq(Queueable) /\ Head(q) \in Queueable
           /\ None(q, u) => None(Tail(q), u)
           /\ One(q, u) /\ Head(q)[1] = u => None(Tail(q), u)
           /\ One(q, u) /\ Head(q)[1] /= u => One(Tail(q), u)
           /\ None(q, u) => Head(q)[1] /= u
<1> DEFINE a == Tail(q)
<1>1. /\ a \in Seq(Queueable) /\ Head(q) \in Queueable /\ Head(q) = q[1]
      /\ Len(q) \in Nat /\ Len(q) >= 1 /\ Len(a) = Len(q) - 1
      /\ \A i \in 1 .. Len(a) : a[i] = q[i + 1]
  OBVIOUS
<1> HIDE DEF a
<1>2. None(q, u) => None(a, u) /\ Head(q)[1] /= u
  BY <1>1 DEF None
<1>3. ASSUME One(q, u) PROVE (Head(q)[1] = u => None(a, u)) /\ (Head(q)[1] /= u => One(a, u))
  <2>1. PICK k \in 1 .. Len(q) : q[k][1] = u /\ \A j \in 1 .. Len(q) : q[j][1] = u => j = k
    BY <1>3 DEF One
  <2>2. Head(q)[1] = u => k = 1
    BY <1>1, <2>1
  <2>3. \A i \in 1 .. Len(a) : i + 1 \in 1 .. Len(q)
    BY <1>1
  <2>4. \A i \in 1 .. Len(a) : a[i][1] = u => i + 1 = k
    BY <1>1, <2>1, <2>3
  <2>5. Head(q)[1] = u => None(a, u)
    BY <1>1, <2>2, <2>4 DEF None
  <2>6. Head(q)[1] /= u => One(a, u)
    <3> SUFFICES ASSUME Head(q)[1] /= u PROVE One(a, u)
      OBVIOUS
    <3>1. k - 1 \in 1 .. Len(a) /\ (k - 1) + 1 = k
      BY <1>1, <2>1
    <3>2. a[k - 1][1] = u
      BY <1>1, <2>1, <3>1
    <3>3. \A j \in 1 .. Len(a) : a[j][1] = u => j = k - 1
      BY <1>1, <2>4, <3>1
    <3> QED  BY <3>1, <3>2, <3>3 DEF One
  <2> QED  BY <2>5, <2>6
<1> QED  BY <1>1, <1>2, <1>3 DEF a

\* None and One say what Handlers counts.
LEMMA Counted ==
    ASSUME NEW t
    PROVE  /\ Handlers(t) = {} <=> None(queue, t)
           /\ One(queue, t) => \E i \in 1 .. Len(queue) : Handlers(t) = {i}
BY DEF Handlers, None, One

\* SetToSeq makes a sequence of a set of handlers.
LEMMA SequenceOf ==
    ASSUME NEW D \in SUBSET Timers
    PROVE  LET S == {<<t, FALSE>> : t \in D} IN
           SetToSeq(S) \in Seq(S)
<1> DEFINE S == {<<t, FALSE>> : t \in D}
<1>1. IsFiniteSet(Timers)
  BY FS_Interval, TimerAssumption DEF Timers
<1>2. IsFiniteSet(D)
  BY <1>1, FS_Subset
<1>3. [t \in D |-> <<t, FALSE>>] \in Surjection(D, S)
  BY DEF Surjection
<1>4. IsFiniteSet(S)
  BY <1>2, <1>3, FS_Surjection
<1> HIDE DEF S
<1>5. Cardinality(S) \in Nat /\ ExistsBijection(1 .. Cardinality(S), S)
  BY <1>4, FS_CardinalityType
<1>6. \E f \in [1 .. Cardinality(S) -> S] : IsInjective(f)
  BY <1>5 DEF ExistsBijection, Bijection, Injection
<1>7. SetToSeq(S) \in [1 .. Cardinality(S) -> S]
  BY <1>6 DEF SetToSeq
<1>8. SetToSeq(S) \in Seq(S)
  BY <1>5, <1>7
<1> QED  BY <1>8 DEF S

\* asio's abort of the wait of a timer that is cancelled.
LEMMA AbortOK ==
    ASSUME NEW q \in Seq(Queueable), NEW t \in Timers, NEW u, u /= t
    PROVE  /\ Abort(t, q) \in Seq(Queueable)
           /\ None(q, u) => None(Abort(t, q), u)
           /\ One(q, u) => One(Abort(t, q), u)
BY AppendHandler DEF Abort

\* What the end of a step does with the waits: those of living timers stay, and
\* only handlers of dead timers are queued.
LEMMA ReleaseOK ==
    ASSUME NEW q \in Seq(Queueable), NEW w \in SUBSET Timers, Release(w, q)
    PROVE  /\ queue' \in Seq(Queueable)
           /\ waiting' \subseteq Alive'
           /\ \A u \in Alive' : /\ None(q, u) => None(queue', u)
                                /\ One(q, u) => One(queue', u)
                                /\ u \in waiting' <=> u \in w
<1> DEFINE D == w \ Alive'
           S == {<<t, FALSE>> : t \in D}
           s == SetToSeq(S)
<1>1. s \in Seq(S)
  <2>1. D \in SUBSET Timers
    OBVIOUS
  <2> HIDE DEF D
  <2> QED  BY <2>1, SequenceOf
<1>2. queue' = q \o s /\ waiting' = w \cap Alive'
  BY DEF Release
<1>3. Len(s) \in Nat /\ \A i \in 1 .. Len(s) : s[i] \in S
  <2> HIDE DEF s, S
  <2> QED  BY <1>1
<1>4. \A x \in S : x \in Queueable /\ x[1] \notin Alive'
  <2> TAKE x \in S
  <2>1. PICK t \in D : x = <<t, FALSE>>
    OBVIOUS
  <2>2. x[1] = t /\ t \in Timers /\ t \notin Alive'
    BY <2>1
  <2> QED  BY <2>1, <2>2 DEF Queueable
<1> HIDE DEF s, S
<1>5. s \in Seq(Queueable)
  <2>1. S \subseteq Queueable
    BY <1>4
  <2> QED  BY <1>1, <2>1
<1>6. \A u \in Alive' : None(s, u)
  BY <1>3, <1>4 DEF None
<1>7. q \o s \in Seq(Queueable)
  BY <1>5
<1>8. \A u \in Alive' : (None(q, u) => None(q \o s, u)) /\ (One(q, u) => One(q \o s, u))
  BY <1>5, <1>6, ConcatHandlers
<1> QED  BY <1>2, <1>7, <1>8

-----------------------------------------------------------------------------
(* The inductive invariant.                                                *)

Risky == {<<"thread", "add">>, <<"thread", "cancel">>, <<"own", "cancel">>}

Places ==
    /\ setting \in Settings
    /\ timerQueue_ \subseteq Timers /\ queue \in Seq(Queueable)
    /\ at \in {"idle", "locked", "callback"}
    /\ deadTimer \in Timers \cup {0} /\ (at = "idle" <=> deadTimer = 0)
    /\ timerToKill \in Timers \cup {0}
    /\ call \in {"none", "adding", "cancel", "cancelling", "cancelled"}
    /\ timerToKill /= 0 <=> call \in {"cancel", "cancelling", "cancelled"}

\* A timer's wait ends with the timer.
WaitsLive == waiting \subseteq Alive

\* A timer that cancel has returned for, or is about to, is not in the map.
Erased ==
    /\ cancelled \cap timerQueue_ = {}
    /\ call = "cancelled" => timerToKill \notin timerQueue_

\* A timer in the map that nobody is busy with has one wait or one handler...
Watched == \A t \in timerQueue_ \ {deadTimer, timerToKill} :
    IF t \in waiting THEN None(queue, t) ELSE One(queue, t)

\* ... and the one that handleTimer is busy with has neither, so that setting it
\* again gives it one.  A cancel in progress is what may disturb this.
Handled ==
    deadTimer \in timerQueue_ \ {timerToKill} => deadTimer \notin waiting /\ None(queue, deadTimer)

\* What a use without risk keeps: handleTimer finds the timer it has locked.
Found ==
    setting \cap Risky = {} =>
        call = "none" /\ fault = "none" /\ (deadTimer /= 0 => deadTimer \in timerQueue_)

IInv == Places /\ WaitsLive /\ Erased /\ Watched /\ Handled /\ Found

\* Only whole timers are waited for.
LEMMA WaitsType == Places /\ WaitsLive => waiting \subseteq Timers
BY DEF Places, WaitsLive, Alive

LEMMA InitOK == Init => IInv
<1> SUFFICES ASSUME Init PROVE IInv
  OBVIOUS
<1>1. <<>> \in Seq(Queueable)
  OBVIOUS
<1>2. 0 \notin Timers
  BY DEF Timers
<1> QED  BY <1>1, <1>2 DEF Init, IInv, Places, WaitsLive, Erased, Watched, Handled, Found

\* expire: the wait becomes a handler.
LEMMA ExpireStep ==
    ASSUME IInv, NEW t \in Timers, expire(t)
    PROVE  IInv'
<1> USE DEF IInv
<1>1. /\ t \in waiting /\ waiting' = waiting \ {t} /\ queue' = Append(queue, <<t, TRUE>>)
      /\ UNCHANGED <<timerQueue_, at, deadTimer, call, timerToKill, cancelled, fault, setting>>
  BY DEF expire, Step, loop, thread
<1>2. queue \in Seq(Queueable)
  BY DEF Places
<1>3. queue' \in Seq(Queueable) /\ (None(queue, t) => One(queue', t))
  BY <1>1, <1>2, AppendHandler
<1>4. \A u : u /= t => (None(queue, u) => None(queue', u)) /\ (One(queue, u) => One(queue', u))
  BY <1>1, <1>2, AppendHandler
<1>5. Places' /\ WaitsLive' /\ Erased' /\ Found'
  BY <1>1, <1>3 DEF Places, WaitsLive, Alive, Erased, Found
<1>6. Watched'
  BY <1>1, <1>3, <1>4 DEF Watched
<1>7. Handled'
  BY <1>1, <1>4 DEF Handled
<1> QED  BY <1>5, <1>6, <1>7

\* handleTimer locks the weak_ptr: the one handler of the timer has been taken.
LEMMA LockStep ==
    ASSUME IInv, handleTimerLock
    PROVE  IInv'
<1> USE DEF IInv
<1> DEFINE t == Head(queue)[1]
<1>1. /\ queue /= <<>> /\ queue' = Tail(queue) /\ deadTimer = 0 /\ fault' = fault
      /\ UNCHANGED <<timerQueue_, waiting, call, timerToKill, cancelled, setting>>
  BY DEF handleTimerLock, Step, thread, Places
<1>2. queue \in Seq(Queueable) /\ 0 \notin Timers
  BY DEF Places, Timers
<1>3. queue' \in Seq(Queueable) /\ Head(queue) \in Queueable /\ ~None(queue, t)
  BY <1>1, <1>2, TakeHandler
<1>4. \A u : /\ None(queue, u) => None(queue', u)
             /\ One(queue, u) /\ t = u => None(queue', u)
             /\ One(queue, u) /\ t /= u => One(queue', u)
  BY <1>1, <1>2, TakeHandler
<1>5. t \in Timers
  BY <1>3 DEF Queueable
<1>6. \/ t \in Alive /\ at' = "locked" /\ deadTimer' = t
      \/ t \notin Alive /\ at' = at /\ deadTimer' = deadTimer
  BY DEF handleTimerLock, loop
<1> HIDE DEF t
<1>7. t \notin Alive => t \notin timerQueue_
  BY DEF Alive
<1>8. Places' /\ WaitsLive' /\ Erased'
  BY <1>1, <1>2, <1>3, <1>5, <1>6 DEF Places, WaitsLive, Erased, Alive
<1>9. Watched'
  <2> SUFFICES ASSUME NEW u \in timerQueue_, u /= deadTimer', u /= timerToKill
               PROVE  IF u \in waiting THEN None(queue', u) ELSE One(queue', u)
    BY <1>1 DEF Watched
  <2>1. u /= t /\ u /= deadTimer
    BY <1>1, <1>2, <1>6, <1>7 DEF Places
  <2> QED  BY <1>4, <2>1 DEF Watched
<1>10. Handled'
  <2> SUFFICES ASSUME deadTimer' \in timerQueue_, deadTimer' /= timerToKill
               PROVE  deadTimer' \notin waiting /\ None(queue', deadTimer')
    BY <1>1 DEF Handled
  <2>1. deadTimer' = t /\ t /= deadTimer
    BY <1>1, <1>2, <1>6 DEF Places
  <2>2. IF t \in waiting THEN None(queue, t) ELSE One(queue, t)
    BY <2>1 DEF Watched
  <2> QED  BY <1>3, <1>4, <2>1, <2>2
<1>11. Found'
  BY <1>1, <1>6 DEF Found, Places, Alive
<1> QED  BY <1>8, <1>9, <1>10, <1>11

\* A step that fails changes nothing else, and is not taken by a use without risk.
LEMMA FailStep ==
    ASSUME IInv, NEW f, Fail(f), UNCHANGED setting, setting \cap Risky /= {}
    PROVE  IInv'
BY DEF IInv, Fail, loop, thread, Places, WaitsLive, Alive, Erased, Watched, Handled, Found

\* What the end of handleTimer, of cancel and of erasure have in common: some
\* timer x, which is busy or cancelled, is taken out of the map or not, waits
\* are ended or begun for x only, and pointers are released.
LEMMA EndStep ==
    ASSUME IInv, NEW x \in Timers, NEW w \in SUBSET Timers, NEW q \in Seq(Queueable), Release(w, q),
           Places', Erased', Found',
           timerQueue_' \subseteq timerQueue_,
           w \ {x} = waiting \ {x},
           \A u : u /= x => (None(queue, u) => None(q, u)) /\ (One(queue, u) => One(q, u)),
           deadTimer' \in {deadTimer, 0}, timerToKill' \in {timerToKill, 0},
           deadTimer' = 0 => x = deadTimer \/ deadTimer = 0,
           timerToKill' = 0 => timerToKill \notin timerQueue_',
           x \in timerQueue_' => x \in w /\ None(q, x) /\ x /= deadTimer'
    PROVE  IInv'
<1> USE DEF IInv
<1>1. /\ queue' \in Seq(Queueable) /\ waiting' \subseteq Alive'
      /\ \A u \in Alive' : /\ None(q, u) => None(queue', u)
                           /\ One(q, u) => One(queue', u)
                           /\ u \in waiting' <=> u \in w
  BY ReleaseOK
<1>2. timerQueue_' \subseteq Alive'
  BY DEF Alive
<1>3. WaitsLive'
  BY <1>1 DEF WaitsLive
<1>4. Watched'
  <2> SUFFICES ASSUME NEW u \in timerQueue_', u /= deadTimer', u /= timerToKill'
               PROVE  IF u \in waiting' THEN None(queue', u) ELSE One(queue', u)
    BY DEF Watched
  <2>1. CASE u = x
    BY <1>1, <1>2, <2>1
  <2>2. CASE u /= x
    <3>1. u /= deadTimer /\ u /= timerToKill /\ u \in timerQueue_
      BY <2>2, TimerAssumption DEF Places, Timers
    <3>2. IF u \in waiting THEN None(queue, u) ELSE One(queue, u)
      BY <3>1 DEF Watched
    <3>3. u \in waiting' <=> u \in waiting
      BY <1>1, <1>2, <2>2
    <3> QED  BY <1>1, <1>2, <2>2, <3>2, <3>3
  <2> QED  BY <2>1, <2>2
<1>5. Handled'
  <2> SUFFICES ASSUME deadTimer' \in timerQueue_', deadTimer' /= timerToKill'
               PROVE  deadTimer' \notin waiting' /\ None(queue', deadTimer')
    BY DEF Handled
  <2>1. deadTimer' = deadTimer /\ deadTimer' /= x
    BY DEF Places, Timers
  <2>2. deadTimer \in timerQueue_ /\ deadTimer /= timerToKill
    BY <2>1
  <2>3. deadTimer \notin waiting /\ None(queue, deadTimer)
    BY <2>2 DEF Handled
  <2> QED  BY <1>1, <1>2, <2>1, <2>3
<1> QED  BY <1>3, <1>4, <1>5

\* find: the assert holds for a use without risk, and an error erases the timer.
LEMMA FindStep ==
    ASSUME IInv, handleTimerFind
    PROVE  IInv'
<1> USE DEF IInv
<1>1. /\ setting' = setting /\ deadTimer \in Timers /\ 0 \notin Timers /\ queue \in Seq(Queueable)
      /\ deadTimer /= 0 /\ waiting \subseteq Timers
  BY WaitsType DEF handleTimerFind, Step, Places, Timers
<1>2. CASE deadTimer \notin timerQueue_ /\ Fail("findAssert")
  BY <1>1, <1>2, FailStep DEF Found
<1>3. CASE Locked /\ Fail("race")
  BY <1>1, <1>3, FailStep DEF Found, Locked
<1>4. CASE /\ deadTimer \in timerQueue_ /\ ~error /\ at' = "callback"
           /\ UNCHANGED <<timerQueue_, periodic, waiting, queue, deadTimer, error, thread,
                          cancelled, fault>>
  BY <1>1, <1>4 DEF thread, Places, WaitsLive, Alive, Erased, Watched, Handled, Found
<1>5. CASE /\ deadTimer \in timerQueue_ /\ error
           /\ timerQueue_' = timerQueue_ \ {deadTimer}
           /\ at' = "idle" /\ deadTimer' = 0
           /\ UNCHANGED <<periodic, error, thread, cancelled, fault>>
           /\ Release(waiting \ {deadTimer}, Abort(deadTimer, queue))
  <2>1. /\ Abort(deadTimer, queue) \in Seq(Queueable)
        /\ \A u : u /= deadTimer => /\ None(queue, u) => None(Abort(deadTimer, queue), u)
                                    /\ One(queue, u) => One(Abort(deadTimer, queue), u)
    BY <1>1, AbortOK
  <2>2. waiting \ {deadTimer} \in SUBSET Timers
    BY <1>1
  <2>3. queue' \in Seq(Queueable)
    BY <1>5, <2>1, <2>2, ReleaseOK
  <2>4. Places' /\ Erased' /\ Found'
    BY <1>1, <1>5, <2>3 DEF thread, Places, Erased, Found
  <2>5. timerToKill' = 0 => timerToKill \notin timerQueue_'
    BY <1>1, <1>5 DEF thread, Places
  <2>6. timerToKill' \in {timerToKill, 0} /\ deadTimer \notin timerQueue_'
    BY <1>5 DEF thread
  <2> QED  BY <1>1, <1>5, <2>1, <2>2, <2>4, <2>5, <2>6, EndStep
<1> QED  BY <1>2, <1>3, <1>4, <1>5 DEF handleTimerFind

\* The end of handleTimer: the timer is erased or set again.
LEMMA EndOfCallbackStep ==
    ASSUME IInv, handleTimerEnd
    PROVE  IInv'
<1> USE DEF IInv
<1>1. /\ setting' = setting /\ deadTimer \in Timers /\ 0 \notin Timers /\ queue \in Seq(Queueable)
      /\ deadTimer /= 0 /\ waiting \in SUBSET Timers /\ waiting \cup {deadTimer} \in SUBSET Timers
  BY WaitsType DEF handleTimerEnd, Step, Places, Timers
<1>2. CASE deadTimer \notin timerQueue_ /\ \E f : Fail(f)
  BY <1>1, <1>2, FailStep DEF Found
<1>3. CASE Locked /\ Fail("race")
  BY <1>1, <1>3, FailStep DEF Found, Locked
<1>4. ASSUME NEW w \in SUBSET Timers,
             at' = "idle", deadTimer' = 0, UNCHANGED <<periodic, error, thread, cancelled, fault>>,
             Release(w, queue),
             timerQueue_' = timerQueue_ \ {deadTimer} \/ timerQueue_' = timerQueue_
      PROVE  Places' /\ Erased' /\ Found' /\ timerToKill' = timerToKill
             /\ (timerToKill' = 0 => timerToKill \notin timerQueue_')
  <2>1. queue' \in Seq(Queueable)
    BY <1>1, <1>4, ReleaseOK
  <2> QED  BY <1>1, <1>4, <2>1 DEF thread, Places, Erased, Found
<1>5. CASE /\ timerQueue_' = timerQueue_ \ {deadTimer}
           /\ at' = "idle" /\ deadTimer' = 0
           /\ UNCHANGED <<periodic, error, thread, cancelled, fault>>
           /\ Release(waiting, queue)
  BY <1>1, <1>4, <1>5, EndStep
<1>6. CASE /\ at' = "idle" /\ deadTimer' = 0
           /\ UNCHANGED <<timerQueue_, periodic, error, thread, cancelled, fault>>
           /\ Release(waiting \cup {deadTimer}, queue)
  <2>1. CASE deadTimer \in timerQueue_ \ {timerToKill}
    <3>1. None(queue, deadTimer)
      BY <2>1 DEF Handled
    <3> QED  BY <1>1, <1>4, <1>6, <3>1, EndStep
  <2>2. CASE deadTimer \notin timerQueue_
    BY <1>1, <1>4, <1>6, <2>2, EndStep
  <2>3. CASE deadTimer = timerToKill
    <3>1. /\ queue' \in Seq(Queueable) /\ waiting' \subseteq Alive'
          /\ \A u \in Alive' : /\ None(queue, u) => None(queue', u)
                               /\ One(queue, u) => One(queue', u)
                               /\ u \in waiting' <=> u \in waiting \cup {deadTimer}
      BY <1>1, <1>6, ReleaseOK
    <3>2. timerQueue_' \subseteq Alive'
      BY DEF Alive
    <3>3. Places' /\ Erased' /\ Found' /\ timerToKill' = timerToKill
      BY <1>1, <1>4, <1>6
    <3>4. Watched'
      <4> SUFFICES ASSUME NEW u \in timerQueue_, u /= timerToKill
                   PROVE  IF u \in waiting' THEN None(queue', u) ELSE One(queue', u)
        BY <1>6, <3>3 DEF Watched
      <4>1. IF u \in waiting THEN None(queue, u) ELSE One(queue, u)
        BY <2>3 DEF Watched
      <4>2. u \in Alive' /\ (u \in waiting' <=> u \in waiting)
        BY <1>6, <2>3, <3>1, <3>2
      <4> QED  BY <3>1, <4>1, <4>2
    <3>5. Handled' /\ WaitsLive'
      BY <1>1, <1>6, <3>1 DEF Handled, WaitsLive, Places
    <3> QED  BY <3>3, <3>4, <3>5
  <2> QED  BY <2>1, <2>2, <2>3
<1> QED  BY <1>2, <1>3, <1>5, <1>6 DEF handleTimerEnd, setAgain, eraseOneShot

\* A new timer has one wait and no handler.
LEMMA InsertStep ==
    ASSUME IInv, NEW t \in Free, NEW every \in BOOLEAN, insert(t, every), UNCHANGED setting,
           call' = call \/ (call = "none" /\ call' = "adding" /\ <<"thread", "add">> \in setting)
    PROVE  IInv'
<1> USE DEF IInv
<1>1. /\ t \in Timers /\ t \notin timerQueue_ /\ t \notin waiting /\ t /= deadTimer /\ t /= timerToKill
      /\ None(queue, t)
  BY Counted DEF Free, Alive, Timers
<1>2. /\ timerQueue_' = timerQueue_ \cup {t} /\ waiting' = waiting \cup {t}
      /\ cancelled' = cancelled \ {t}
      /\ UNCHANGED <<queue, at, deadTimer, timerToKill, fault>>
  BY DEF insert, loop
<1>3. Places' /\ WaitsLive' /\ Erased'
  BY <1>1, <1>2 DEF Places, WaitsLive, Alive, Erased
<1>4. Watched'
  BY <1>1, <1>2 DEF Watched
<1>5. Handled'
  BY <1>1, <1>2 DEF Handled
<1>6. Found'
  BY <1>2 DEF Found, Risky
<1> QED  BY <1>3, <1>4, <1>5, <1>6

\* cancel in the loop's thread; without risk it is not that of the timer that
\* is being handled.
LEMMA CancelStep ==
    ASSUME IInv, NEW t \in Timers, cancel(t)
    PROVE  IInv'
<1> USE DEF IInv
<1>1. /\ setting' = setting /\ t \in timerQueue_ /\ timerQueue_' = timerQueue_ \ {t}
      /\ cancelled' = cancelled \cup {t} /\ Release(waiting \ {t}, Abort(t, queue))
      /\ UNCHANGED <<at, deadTimer, error, call, timerToKill, fault>>
  BY DEF cancel, MayCall, Step, loop, thread
<1>2. setting \cap Risky = {} => t /= deadTimer
  <2>1. PICK use \in setting : use[2] = "cancel" /\ (use[1] = "own" <=> t = deadTimer)
    BY DEF cancel
  <2>2. use \in Uses
    BY TimerAssumption DEF Places
  <2>3. use[1] = "own" => use = <<"own", "cancel">>
    BY <2>1, <2>2 DEF Uses
  <2> QED  BY <2>1, <2>3 DEF Risky
<1>3. queue \in Seq(Queueable) /\ waiting \ {t} \in SUBSET Timers
  BY WaitsType DEF Places
<1>4. /\ Abort(t, queue) \in Seq(Queueable)
      /\ \A u : u /= t => /\ None(queue, u) => None(Abort(t, queue), u)
                          /\ One(queue, u) => One(Abort(t, queue), u)
  BY <1>3, AbortOK
<1>5. queue' \in Seq(Queueable)
  BY <1>1, <1>3, <1>4, ReleaseOK
<1>6. Places' /\ Erased' /\ Found'
  BY <1>1, <1>2, <1>5 DEF Places, Erased, Found
<1>7. (timerToKill' = 0 => timerToKill \notin timerQueue_') /\ (deadTimer' = 0 => deadTimer = 0)
  BY <1>1 DEF Places, Timers
<1> QED  BY <1>1, <1>3, <1>4, <1>6, <1>7, EndStep

\* cancel in another thread, step by step.
LEMMA ThreadCancelStep ==
    ASSUME IInv, threadAdded \/ threadCancelLock \/ threadCancelWait \/ threadCancelErase
    PROVE  IInv'
<1> USE DEF IInv
<1>1. CASE threadAdded
  BY <1>1 DEF threadAdded, Step, loop, Places, WaitsLive, Alive, Erased, Watched, Handled, Found
<1>2. CASE threadCancelLock
  <2>1. /\ timerToKill' \in Alive /\ call = "none" /\ timerToKill = 0 /\ call' = "cancel"
        /\ <<"thread", "cancel">> \in setting
        /\ UNCHANGED <<timerQueue_, waiting, queue, at, deadTimer, cancelled, fault, setting>>
    BY <1>2 DEF threadCancelLock, Step, loop, Places
  <2>2. timerToKill' \in Timers /\ 0 \notin Timers
    BY <2>1 DEF Alive, Places, Timers
  <2>3. Places' /\ WaitsLive' /\ Erased' /\ Found'
    BY <2>1, <2>2 DEF Places, WaitsLive, Alive, Erased, Found, Risky
  <2>4. Watched' /\ Handled'
    BY <2>1, <2>2 DEF Watched, Handled, Places
  <2> QED  BY <2>3, <2>4
<1>3. CASE threadCancelWait
  <2>1. /\ timerToKill \in Timers /\ call = "cancel" /\ call' = "cancelling"
        /\ waiting' = waiting \ {timerToKill} /\ queue' = Abort(timerToKill, queue)
        /\ UNCHANGED <<timerQueue_, at, deadTimer, timerToKill, cancelled, fault, setting>>
    BY <1>3 DEF threadCancelWait, Step, loop, Places
  <2>2. /\ queue' \in Seq(Queueable)
        /\ \A u : u /= timerToKill => /\ None(queue, u) => None(queue', u)
                                      /\ One(queue, u) => One(queue', u)
    BY <2>1, AbortOK DEF Places
  <2>3. Places' /\ WaitsLive' /\ Erased' /\ Found'
    BY <2>1, <2>2 DEF Places, WaitsLive, Alive, Erased, Found
  <2>4. Watched' /\ Handled'
    BY <2>1, <2>2 DEF Watched, Handled
  <2> QED  BY <2>3, <2>4
<1>4. CASE threadCancelErase
  <2>1. /\ call = "cancelling" /\ call' = "cancelled" /\ timerQueue_' = timerQueue_ \ {timerToKill}
        /\ UNCHANGED <<waiting, queue, at, deadTimer, timerToKill, cancelled, fault, setting>>
    BY <1>4 DEF threadCancelErase, Step, loop
  <2>2. Places' /\ WaitsLive' /\ Erased' /\ Found'
    BY <2>1 DEF Places, WaitsLive, Alive, Erased, Found
  <2>3. Watched' /\ Handled'
    BY <2>1 DEF Watched, Handled
  <2> QED  BY <2>2, <2>3
<1> QED  BY <1>1, <1>2, <1>3, <1>4

\* The last step of cancel in another thread: its pointer goes.
LEMMA ThreadCancelEndStep ==
    ASSUME IInv, threadCancelEnd
    PROVE  IInv'
<1> USE DEF IInv
<1>1. /\ call = "cancelled" /\ call' = "none" /\ timerToKill' = 0 /\ timerToKill \in Timers
      /\ cancelled' = cancelled \cup {timerToKill} /\ Release(waiting, queue)
      /\ UNCHANGED <<timerQueue_, at, deadTimer, error, fault, setting>>
      /\ timerToKill \notin timerQueue_
  BY DEF threadCancelEnd, Step, loop, Places, Erased
<1>2. queue \in Seq(Queueable) /\ waiting \in SUBSET Timers
  BY WaitsType DEF Places
<1>3. queue' \in Seq(Queueable)
  BY <1>1, <1>2, ReleaseOK
<1>4. Places' /\ Erased' /\ Found'
  BY <1>1, <1>3 DEF Places, Erased, Found
<1> QED  BY <1>1, <1>2, <1>4, EndStep

\* Every step keeps the invariant.
LEMMA NextOK == IInv /\ [Next]_vars => IInv'
<1> SUFFICES ASSUME IInv, [Next]_vars PROVE IInv'
  OBVIOUS
<1>1. CASE \E t \in Timers : expire(t) \/ cancel(t)
  BY <1>1, ExpireStep, CancelStep
<1>2. CASE handleTimer
  BY <1>2, LockStep, FindStep, EndOfCallbackStep DEF handleTimer
<1>3. CASE addTimer
  BY <1>3, InsertStep DEF addTimer, MayCall, Step
<1>4. CASE threadAdd
  BY <1>4, InsertStep DEF threadAdd, Step
<1>5. CASE threadCancelLock \/ threadStep
  BY <1>5, ThreadCancelStep, ThreadCancelEndStep DEF threadStep
<1>6. CASE UNCHANGED vars
  BY <1>6 DEF vars, IInv, Places, WaitsLive, Alive, Erased, Watched, Handled, Found
<1> QED  BY <1>1, <1>2, <1>3, <1>4, <1>5, <1>6 DEF Next

\* The invariant holds for ever.
LEMMA Invariance == Spec => []IInv
BY InitOK, NextOK, PTL DEF Spec

\* Used in the loop's own thread and not on the timer whose callback is running,
\* the queue fails no assert and erases nothing twice: handleTimer finds the
\* timer it has locked.
THEOREM LoopUseNeverFails == Spec => []LoopUseIsSafe
<1>1. IInv => LoopUseIsSafe
  BY DEF IInv, Found, LoopUseIsSafe, Risky
<1> QED  BY <1>1, Invariance, PTL

\* Every timer in the map that nobody is busy with has exactly one wait or one
\* queued handler, however the queue is used.
THEOREM TimersStayArmed == Spec => []Armed
<1>1. IInv => Armed
  <2> SUFFICES ASSUME IInv, NEW t \in timerQueue_ \ {deadTimer, timerToKill}
               PROVE  IF t \in waiting THEN Handlers(t) = {}
                      ELSE \E i \in 1 .. Len(queue) : Handlers(t) = {i}
    BY DEF Armed
  <2>1. IF t \in waiting THEN None(queue, t) ELSE One(queue, t)
    BY DEF IInv, Watched
  <2> QED  BY <2>1, Counted
<1> QED  BY <1>1, Invariance, PTL

\* No callback is called after cancel has returned, in whatever thread, although
\* the handler may have been queued before.
THEOREM CancelSilences == Spec => SilentAfterCancel
<1>1. IInv /\ [Next]_vars => [at = "locked" /\ at' = "callback" => deadTimer \notin cancelled]_vars
  <2> SUFFICES ASSUME IInv, Next, at = "locked", at' = "callback" PROVE deadTimer \notin cancelled
    OBVIOUS
  <2>1. handleTimerFind
    BY DEF Next, expire, cancel, handleTimer, handleTimerLock, handleTimerEnd, addTimer, MayCall,
           insert, threadAdd, threadCancelLock, threadStep, threadAdded, threadCancelWait,
           threadCancelErase, threadCancelEnd, loop
  <2>2. deadTimer \in timerQueue_
    BY <2>1 DEF handleTimerFind, Fail, loop
  <2> QED  BY <2>2 DEF IInv, Erased
<1> QED  BY <1>1, Invariance, PTL DEF Spec, SilentAfterCancel
=============================================================================

----------------------------- MODULE TimerQueue -----------------------------
(***************************************************************************)
(* The TimerQueue of an EventLoop (base/TimerQueue.cpp): addTimer and      *)
(* cancel, in any thread and under mutex_, and handleTimer, in the loop's  *)
(* thread and without it.                                                  *)
(*                                                                         *)
(* A timer lives as long as timerQueue_, a running handleTimer or a        *)
(* running cancel holds a shared_ptr to it; handlers hold a weak_ptr.  A   *)
(* timer's number is used again when nothing refers to it any more.        *)
(* handleTimer is three steps: the weak_ptr is locked, the timer is found  *)
(* and its callback called, and the timer is erased or set again; cancel   *)
(* in another thread is four.                                              *)
(***************************************************************************)
EXTENDS Naturals, SequencesExt

CONSTANTS Settings,  \* the ways in which the queue is used
          MaxTimers  \* bound on the timers that exist together

\* Where addTimer and cancel are called: in a functor of the loop, in a timer's
\* callback (where "own" is to cancel that very timer) and in another thread.
Uses == ({"loop", "callback", "thread"} \X {"add", "cancel"}) \cup {<<"own", "cancel">>}

ASSUME TimerAssumption == Settings \subseteq SUBSET Uses /\ MaxTimers \in Nat

Timers == 1 .. MaxTimers

VARIABLES
    timerQueue_, \* the timers in the map
    periodic,    \* timers whose interval is not 0
    waiting,     \* timers whose async_wait is outstanding
    queue,       \* handlers queued in the loop: <<timer, expired (not aborted)>>
    at,          \* where the loop is: "idle", "locked" or "callback"
    deadTimer,   \* the timer of the running handleTimer, or 0
    error,       \* the running handleTimer was given an error
    call,        \* where the other thread is
    timerToKill, \* the timer of its cancel, or 0
    cancelled,   \* timers for which cancel has returned
    fault,       \* what has ended the process, or "none"
    setting      \* the setting, which never changes

loop == <<at, deadTimer, error>>
thread == <<call, timerToKill>>
vars == <<timerQueue_, periodic, waiting, queue, at, deadTimer, error, call, timerToKill,
          cancelled, fault, setting>>

Init ==
    /\ timerQueue_ = {} /\ periodic = {} /\ waiting = {} /\ queue = <<>>
    /\ at = "idle" /\ deadTimer = 0 /\ error = FALSE
    /\ call = "none" /\ timerToKill = 0
    /\ cancelled = {} /\ fault = "none"
    /\ setting \in Settings

Step == fault = "none" /\ UNCHANGED setting

Fail(f) ==
    /\ fault' = f
    /\ UNCHANGED <<timerQueue_, periodic, waiting, queue, loop, thread, cancelled>>

\* Timers to which there is a shared_ptr.
Alive == timerQueue_ \cup ({deadTimer, timerToKill} \ {0})

\* The places of t's handlers in the loop's queue.
Handlers(t) == {i \in 1 .. Len(queue) : queue[i][1] = t}

Free == {t \in Timers \ (Alive \cup waiting) : Handlers(t) = {}}

\* The end of a step that leaves the waits w and the queue q: the waits of
\* timers that have been destroyed are aborted.
Release(w, q) ==
    /\ waiting' = w \cap Alive'
    /\ queue' = q \o SetToSeq({<<t, FALSE>> : t \in w \ Alive'})

Abort(t, q) == IF t \in waiting THEN Append(q, <<t, FALSE>>) ELSE q

\* The other thread holds mutex_.
Locked == call \in {"adding", "cancelling"}

-----------------------------------------------------------------------------
(* handleTimer.                                                            *)

\* The time of t has come.
expire(t) ==
    /\ Step /\ t \in waiting
    /\ waiting' = waiting \ {t}
    /\ queue' = Append(queue, <<t, TRUE>>)
    /\ UNCHANGED <<timerQueue_, periodic, loop, thread, cancelled, fault>>

\* The weak_ptr is locked; for a timer that is gone nothing is left to do.
handleTimerLock ==
    /\ Step /\ at = "idle" /\ queue /= <<>>
    /\ LET t == Head(queue)[1] IN
       \/ /\ t \in Alive
          /\ at' = "locked" /\ deadTimer' = t /\ error' = ~Head(queue)[2]
       \/ /\ t \notin Alive
          /\ UNCHANGED loop
    /\ queue' = Tail(queue)
    /\ UNCHANGED <<timerQueue_, periodic, waiting, thread, cancelled, fault>>

\* handleTimer that takes the timer out before it calls it.
handleTimerFindErasing ==
    /\ Step /\ at = "locked"
    /\ at' = "callback"
    /\ timerQueue_' = timerQueue_ \ {deadTimer}
    /\ UNCHANGED <<periodic, waiting, queue, deadTimer, error, thread, cancelled, fault>>

\* find, its assert, and the callback; or the erasure after an error.
handleTimerFind ==
    /\ Step /\ at = "locked"
    /\ \/ deadTimer \notin timerQueue_ /\ Fail("findAssert")
       \/ Locked /\ Fail("race")
       \/ /\ deadTimer \in timerQueue_ /\ ~error
          /\ at' = "callback"
          /\ UNCHANGED <<timerQueue_, periodic, waiting, queue, deadTimer, error, thread,
                         cancelled, fault>>
       \/ /\ deadTimer \in timerQueue_ /\ error
          /\ timerQueue_' = timerQueue_ \ {deadTimer}
          /\ at' = "idle" /\ deadTimer' = 0
          /\ UNCHANGED <<periodic, error, thread, cancelled, fault>>
          /\ Release(waiting \ {deadTimer}, Abort(deadTimer, queue))

\* A one-shot timer is left in the map.
eraseOneShotNever ==
    /\ deadTimer \in timerQueue_
    /\ at' = "idle" /\ deadTimer' = 0
    /\ UNCHANGED <<timerQueue_, periodic, error, thread, cancelled, fault>>
    /\ Release(waiting, queue)

\* A one-shot timer is erased at the iterator found before the callback.
eraseOneShot ==
    \/ deadTimer \notin timerQueue_ /\ Fail("invalidIterator")
    \/ Locked /\ Fail("race")
    \/ /\ deadTimer \in timerQueue_
       /\ timerQueue_' = timerQueue_ \ {deadTimer}
       /\ at' = "idle" /\ deadTimer' = 0
       /\ UNCHANGED <<periodic, error, thread, cancelled, fault>>
       /\ Release(waiting, queue)

\* A periodic timer is set again.  If it has been cancelled meanwhile, the
\* callback was destroyed while it ran, which may or may not have been noticed.
setAgain ==
    \/ deadTimer \notin timerQueue_ /\ Fail("callbackDestroyed")
    \/ /\ at' = "idle" /\ deadTimer' = 0
       /\ UNCHANGED <<timerQueue_, periodic, error, thread, cancelled, fault>>
       /\ Release(waiting \cup {deadTimer}, queue)

\* handleTimer after the callback.
handleTimerEnd ==
    /\ Step /\ at = "callback"
    /\ IF deadTimer \in periodic THEN setAgain ELSE eraseOneShot

-----------------------------------------------------------------------------
(* addTimer and cancel in the loop's thread.                               *)

MayCall(use) ==
    /\ Step /\ use \in setting /\ ~Locked
    /\ CASE at = "idle" -> use[1] = "loop"
         [] at = "callback" -> use[1] \in {"callback", "own"}
         [] at = "locked" -> FALSE

insert(t, every) ==
    /\ timerQueue_' = timerQueue_ \cup {t}
    /\ periodic' = IF every THEN periodic \cup {t} ELSE periodic \ {t}
    /\ waiting' = waiting \cup {t}
    /\ cancelled' = cancelled \ {t}
    /\ UNCHANGED <<queue, loop, timerToKill, fault>>

\* runAfter and runEvery.
addTimer ==
    /\ \E site \in {"loop", "callback"} : MayCall(<<site, "add">>)
    /\ \E t \in Free, every \in BOOLEAN : insert(t, every)
    /\ UNCHANGED call

\* cancel that leaves the timer in the map.
cancelWaitOnly(t) ==
    /\ \E use \in setting : MayCall(use) /\ use[2] = "cancel" /\ (use[1] = "own" <=> t = deadTimer)
    /\ t \in timerQueue_
    /\ cancelled' = cancelled \cup {t}
    /\ waiting' = waiting \ {t} /\ queue' = Abort(t, queue)
    /\ UNCHANGED <<timerQueue_, periodic, loop, thread, fault>>

cancel(t) ==
    /\ \E use \in setting : MayCall(use) /\ use[2] = "cancel" /\ (use[1] = "own" <=> t = deadTimer)
    /\ t \in timerQueue_
    /\ timerQueue_' = timerQueue_ \ {t}
    /\ cancelled' = cancelled \cup {t}
    /\ UNCHANGED <<periodic, loop, thread, fault>>
    /\ Release(waiting \ {t}, Abort(t, queue))

-----------------------------------------------------------------------------
(* The same in another thread.                                             *)

threadAdd ==
    /\ Step /\ call = "none" /\ <<"thread", "add">> \in setting
    /\ call' = "adding"
    /\ \E t \in Free, every \in BOOLEAN : insert(t, every)

threadAdded ==
    /\ Step /\ call = "adding"
    /\ call' = "none"
    /\ UNCHANGED <<timerQueue_, periodic, waiting, queue, loop, timerToKill, cancelled, fault>>

\* cancel: the weak_ptr is locked...
threadCancelLock ==
    /\ Step /\ call = "none" /\ <<"thread", "cancel">> \in setting
    /\ timerToKill' \in Alive
    /\ call' = "cancel"
    /\ UNCHANGED <<timerQueue_, periodic, waiting, queue, loop, cancelled, fault>>

\* ... under mutex_ its wait is cancelled...
threadCancelWait ==
    /\ Step /\ call = "cancel"
    /\ call' = "cancelling"
    /\ waiting' = waiting \ {timerToKill}
    /\ queue' = Abort(timerToKill, queue)
    /\ UNCHANGED <<timerQueue_, periodic, loop, timerToKill, cancelled, fault>>

\* ... and it is erased, if it is still there...
threadCancelErase ==
    /\ Step /\ call = "cancelling"
    /\ call' = "cancelled"
    /\ timerQueue_' = timerQueue_ \ {timerToKill}
    /\ UNCHANGED <<periodic, waiting, queue, loop, timerToKill, cancelled, fault>>

\* ... and the pointer goes.
threadCancelEnd ==
    /\ Step /\ call = "cancelled"
    /\ call' = "none"
    /\ timerToKill' = 0
    /\ cancelled' = cancelled \cup {timerToKill}
    /\ UNCHANGED <<timerQueue_, periodic, loop, fault>>
    /\ Release(waiting, queue)

handleTimer == handleTimerLock \/ handleTimerFind \/ handleTimerEnd

threadStep == threadAdded \/ threadCancelWait \/ threadCancelErase \/ threadCancelEnd

Next ==
    \/ \E t \in Timers : expire(t) \/ cancel(t)
    \/ handleTimer
    \/ addTimer
    \/ threadAdd \/ threadCancelLock \/ threadStep

\* Time passes, the loop runs its handlers, callbacks return, and a thread
\* inside a call goes on.
Fairness ==
    /\ \A t \in Timers : WF_vars(expire(t))
    /\ WF_vars(handleTimer)
    /\ WF_vars(threadStep)

Spec == Init /\ [][Next]_vars /\ Fairness

-----------------------------------------------------------------------------

\* Used in the loop's own thread, and not to cancel a timer inside its own
\* callback, the queue fails no assert and erases nothing twice.
LoopUseIsSafe ==
    (setting \cap {<<"thread", "add">>, <<"thread", "cancel">>, <<"own", "cancel">>} = {})
        => fault = "none"

\* A timer in the queue that is not being handled or cancelled has exactly one
\* wait, outstanding or with its handler queued: it neither sleeps for ever nor
\* fires twice.
Armed ==
    fault = "none" => \A t \in timerQueue_ \ {deadTimer, timerToKill} :
        IF t \in waiting THEN Handlers(t) = {} ELSE \E i \in 1 .. Len(queue) : Handlers(t) = {i}

\* Once cancel has returned, in any thread, the callback is not called any more,
\* even if the timer had expired and its handler was queued.
SilentAfterCancel ==
    [][at = "locked" /\ at' = "callback" => deadTimer \notin cancelled]_vars

\* Every timer is called, a periodic one again and again, until it is cancelled.
Fires ==
    \A t \in Timers : (t \in timerQueue_)
        ~> (t \notin timerQueue_ \/ (at = "callback" /\ deadTimer = t) \/ fault /= "none")

\* cancel is "thread safe" (TimerQueue.h:29): the assert in handleTimer
\* (TimerQueue.cpp:32) does not fail because of one in another thread.
CancelIsThreadSafe == fault /= "findAssert"
=============================================================================

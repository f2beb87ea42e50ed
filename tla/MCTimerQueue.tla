---------------------------- MODULE MCTimerQueue ----------------------------
(* Who uses the timer queue in the runs. *)
EXTENDS TimerQueue

LoopUses == {"loop", "callback"} \X {"add", "cancel"}

\* In the loop's thread only, and from everywhere.
MCSettings == {LoopUses, Uses}

CancelInThread == {{<<"loop", "add">>, <<"thread", "cancel">>}}
=============================================================================

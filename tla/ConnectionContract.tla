------------------------- MODULE ConnectionContract -------------------------
(***************************************************************************)
(* What the owner of a connection and the application rely on: the         *)
(* connection callback says UP once, then DOWN once; messages arrive only  *)
(* between the two; the object goes away only after DOWN and never under a *)
(* message callback.                                                       *)
(***************************************************************************)
VARIABLES phase,     \* "new", "up", "down" or "gone"
          inMessage  \* a message callback is running

vars == <<phase, inMessage>>

Init == phase = "new" /\ inMessage = FALSE

Up == phase = "new" /\ phase' = "up" /\ UNCHANGED inMessage

BeginMessage == phase = "up" /\ ~inMessage /\ inMessage' = TRUE /\ UNCHANGED phase

EndMessage == inMessage /\ inMessage' = FALSE /\ UNCHANGED phase

\* DOWN; the object may go away with it.
Down ==
    /\ phase = "up"
    /\ phase' = "down" \/ (phase' = "gone" /\ ~inMessage)
    /\ UNCHANGED inMessage

Gone == phase = "down" /\ ~inMessage' /\ phase' = "gone" /\ UNCHANGED inMessage

Next == Up \/ BeginMessage \/ EndMessage \/ Down \/ Gone

Spec == Init /\ [][Next]_vars
=============================================================================

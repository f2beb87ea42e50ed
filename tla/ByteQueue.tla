----------------------------- MODULE ByteQueue ------------------------------
(***************************************************************************)
(* What base/Buffer.h promises its users: a sequence of bytes written at   *)
(* the back and read at the front, on which bytes can also be put back in  *)
(* front (prepend) or withdrawn from the back (unwrite).  Capacity,        *)
(* indices and the moving of bytes inside the vector are invisible.        *)
(***************************************************************************)
EXTENDS Naturals, Sequences

CONSTANT Payload  \* the byte strings users append and prepend

VARIABLES queue,  \* the readable bytes, oldest first
          result  \* the string returned by the last call

vars == <<queue, result>>

Init == queue = <<>> /\ result = <<>>

PushBack(d) == queue' = queue \o d /\ result' = <<>>

PushFront(d) == queue' = d \o queue /\ result' = <<>>

PopFront(n) ==
    /\ n <= Len(queue)
    /\ result' = SubSeq(queue, 1, n)
    /\ queue' = SubSeq(queue, n + 1, Len(queue))

PopBack(n) ==
    /\ n <= Len(queue)
    /\ queue' = SubSeq(queue, 1, Len(queue) - n)
    /\ result' = <<>>

Clear == queue' = <<>> /\ result' = <<>>

\* swap with a buffer that holds d.
Exchange(d) == queue' = d /\ result' = <<>>

\* A call that only concerns capacity.
Invisible == queue' = queue /\ result' = <<>>

Next ==
    \/ \E d \in Payload : PushBack(d) \/ PushFront(d) \/ Exchange(d)
    \/ \E n \in 0 .. Len(queue) : PopFront(n) \/ PopBack(n)
    \/ Clear
    \/ Invisible

Spec == Init /\ [][Next]_vars
=============================================================================

----------------------------- MODULE ByteStream -----------------------------
(***************************************************************************)
(* A stream of bytes: what is submitted is delivered once and in order.    *)
(* Some of it may never be (the peer may reset the connection), and none   *)
(* is invented.                                                            *)
(***************************************************************************)
EXTENDS Naturals, Sequences

CONSTANT Message

VARIABLES submitted,  \* all the bytes put into the stream, in order
          delivered   \* all the bytes taken out of it, in order

vars == <<submitted, delivered>>

Init == submitted = <<>> /\ delivered = <<>>

Submit(m) == submitted' = submitted \o m /\ delivered' = delivered

\* The next bytes are taken.
Deliver ==
    /\ \E n \in Len(delivered) .. Len(submitted) : delivered' = SubSeq(submitted, 1, n)
    /\ submitted' = submitted

Next == Deliver \/ \E m \in Message : Submit(m)

Spec == Init /\ [][Next]_vars
=============================================================================

---------------------------- MODULE MCBufferSpec ----------------------------
(* A small Buffer for TLC: every string of one or two bits. *)
EXTENDS BufferSpec

MCPayload == UNION {[1 .. n -> Byte] : n \in 1 .. MaxLen}
=============================================================================

---------------------------- MODULE MCOutputPath ----------------------------
(* Small instances of the output path for TLC: messages of up to two bits. *)
EXTENDS OutputPath

MCMessage == {<<>>, <<1>>, <<0, 1>>}
=============================================================================

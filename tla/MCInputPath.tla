---------------------------- MODULE MCInputPath -----------------------------
(* Streams for TLC: short and long lines, line ends that are almost there, *)
(* and a short stream for the application that pauses at any time.         *)
EXTENDS InputPath

Streams == {<<0, 1, 2, 0, 0, 1, 1, 2, 0, 1, 2, 1, 2, 0>>,
            <<0, 0, 0, 0, 0, 0, 0, 1, 2, 2, 1, 0, 2>>}

MCSettings ==
    [stream : Streams, find : Finds, pauses : Pauses \ {"anyTime"}]
        \cup [stream : {<<0, 1, 2, 0>>}, find : {"findCRLF"}, pauses : {"anyTime"}]
=============================================================================

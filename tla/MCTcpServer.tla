---------------------------- MODULE MCTcpServer -----------------------------
(* The servers of the run. *)
EXTENDS TcpServer

\* A server of its own loop, of one loop and of two loops, each left to run, met
\* by a failing accept, an early or a later reset, and destroyed idle or busy
\* with or without connections that are shut down.
ServerSettings ==
    [threads : 0 .. MaxThreads,
     events : {{"acceptFails"}, {"resetEarly"}, {"resets"}, {"resets", "shutsDown"},
               {"shutsDown", "endsIdle"}, {"endsBusy"}, {"shutsDown", "endsBusy"}}]
=============================================================================

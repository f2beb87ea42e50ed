---------------------------- MODULE MCConnection ----------------------------
(* The owners, the applications and the events of the runs. *)
EXTENDS ConnectionLifecycle

Setting(owner, uses, careful, events) ==
    [owner |-> owner, uses |-> uses, careful |-> careful, events |-> events]

\* Answering, pausing in the message callback and resuming later in the loop.
Answering == {<<"message", "send">>, <<"loop", "send">>,
              <<"message", "stopRead">>, <<"loop", "startRead">>}

\* shutdown from the loop's thread, wherever it is.
GracefulUses == Answering \cup {<<s, "shutdown">> : s \in {"up", "message", "loop"}}

\* forceClose, but only from the message callback.
CarefulUses == Answering \cup {<<"message", "forceClose">>}

\* Each owner with an application, and events, that the code is made for.
CarefulSettings ==
    {Setting("serverPool", CarefulUses, TRUE, {"fin", "rst"}),
     Setting("client", CarefulUses, TRUE, {"fin", "rst"}),
     Setting("serverLoop", GracefulUses, TRUE, {"fin"}),
     Setting("serverLoop", Answering, TRUE, {"fin", "serverEnds"})}

\* Pausing and resuming where two reads may come of it.
Overlapping == {<<s, "stopRead">> : s \in Sites \ {"message"}}
                   \cup {<<s, "startRead">> : s \in {"message", "thread"}}

\* Every call from everywhere, with and without those.
AnySettings ==
    {Setting(o, uses, FALSE, {"fin", "rst", "serverEnds"}) :
        o \in Owners, uses \in {Sites \X Calls, (Sites \X Calls) \ Overlapping}}

\* A server with a pool whose application closes from a thread of its own.
ForceCloseInThread == {Setting("serverPool", {<<"thread", "forceClose">>}, TRUE, {"fin"})}
=============================================================================

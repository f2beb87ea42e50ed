---------------------------- MODULE MCConnector -----------------------------
(* The applications and the servers of the runs. *)
EXTENDS Connector

Setting(retrying, uses, servers, resets) ==
    [retry_ |-> retrying, uses |-> uses, servers |-> servers, resets |-> resets]

\* Connects once, from any thread; leaves only from inside a callback.
RetryUses == {<<"thread", "connect">>, <<"loop", "connect">>, <<"thread", "disconnect">>,
              <<"callback", "disconnect">>, <<"callback", "stop">>}

\* Connects once and may stop from anywhere.
StopUses == {<<"thread", "connect">>} \cup {<<s, "stop">> : s \in Sites}

\* Retrying or not with a server that comes and goes, and perhaps resets, and
\* stopping at any time with one that refuses.
CarefulSettings ==
    {Setting(r, RetryUses, {"up", "down"}, x) : r \in BOOLEAN, x \in BOOLEAN}
        \cup {Setting(TRUE, StopUses, {"down"}, FALSE)}

StopAnyTime == {Setting(TRUE, StopUses, {"up"}, FALSE)}
=============================================================================

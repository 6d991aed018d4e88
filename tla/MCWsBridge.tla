----------------------------- MODULE MCWsBridge -----------------------------
(* Instances of WsBridge for TLC. *)
EXTENDS WsBridge, TLC

\* Two data frames either way, pings, closes from every side, a failing upstream,
\* a socket that stops taking bytes with every direction queued behind it.
Traffic ==
    [inputs |-> {"DATA", "PING", "CLOSE", "UPSTREAM", "UP_EOF", "UP_RESET", "UP_BROKEN",
                 "CONTROL", "STALL"},
     client |-> 2, upstream |-> 2]

\* Every way for a side to end, with the keep-alive on: a Close, an EOF, a rejected
\* frame, a silent death, an upstream that blocks, a socket that stalls for a while.
Endings ==
    [inputs |-> {"DATA", "CLOSE", "BAD", "GARBLED", "EOF", "DEAD", "STALL", "WS_ERROR",
                 "UPSTREAM", "UP_EOF", "UP_FULL", "KEEPALIVE"},
     client |-> 1, upstream |-> 1]

BothScenarios == {Traffic, Endings}
=============================================================================

------------------------------ MODULE H2Server ------------------------------
(***************************************************************************)
(* A tunnelled HTTP/2 connection of the Rust server from its HTTP/1        *)
(* request on: the handshake (Handshake), hyper's upgrade, which comes     *)
(* later or fails, and then serve_h2_with_config, with the reaper of       *)
(* IdleReaper if there is an idle timeout.                                 *)
(***************************************************************************)
EXTENDS Handshake, IdleReaper

CONSTANTS
    Tokens,       \* what the lines of a header are made of
    Requests,     \* upgrade requests: [upgrade, connection, key, protocol, origin]
    Selections,   \* what the application's selector may return
    Configs       \* [allow_implicit_codec, allowed_origins, idle_timeout: BOOLEAN]

Headers == Seq(Seq(Tokens) \cup {Opaque})

ASSUME HeadersAssumption ==
    /\ Absent \notin Tokens
    /\ \A r \in Requests : {r.upgrade, r.connection, r.protocol, r.origin} \subseteq Headers

VARIABLES
    config,      \* AcceptOptions, and whether ServeConfig has an idle timeout
    phase,       \* "http", "rejected", "upgrading", "failed", "serving"
    handshake    \* [request, selection, response], from the answer to the upgrade

server_vars == <<config, phase, handshake>>
all_vars == <<server_vars, vars>>

NoHandshake == [request |-> Absent, selection |-> Absent, response |-> Absent]

ServerInit ==
    /\ Init
    /\ config \in Configs
    /\ phase = "http"
    /\ handshake = NoHandshake

\* accept, accept_with or accept_with_options: the response goes out, and a future
\* for the upgraded connection is kept.
Accept(r, selection) ==
    LET response == accept_with_options(r, selection, config) IN
    /\ phase = "http"
    /\ handshake' = [request |-> r, selection |-> selection, response |-> response]
    /\ phase' = IF response.status = 101 THEN "upgrading" ELSE "rejected"
    /\ UNCHANGED <<config, vars>>

\* hyper hands the connection over, and serve_h2_with_config starts.
Upgraded ==
    /\ phase = "upgrading"
    /\ phase' = "serving"
    /\ handshake' = NoHandshake
    /\ UNCHANGED <<config, vars>>

\* WebSocketError::Upgrade
UpgradeFails ==
    /\ phase = "upgrading"
    /\ phase' = "failed"
    /\ UNCHANGED <<config, handshake, vars>>

\* Without an idle timeout the connection is only awaited.
reaps == config.idle_timeout

\* A step of the connection that is served.
Serving(A) == phase = "serving" /\ A /\ UNCHANGED server_vars

ServerNext ==
    \/ \E r \in Requests, s \in Selections : Accept(r, s)
    \/ Upgraded \/ UpgradeFails
    \/ Serving(Hyper)
    \/ reaps /\ Serving(Reaper)

ServerSpec == ServerInit /\ [][ServerNext]_all_vars

\* Time passes and the task is polled when it was woken.
Fairness ==
    /\ WF_all_vars(reaps /\ Serving(Look)) /\ WF_all_vars(reaps /\ Serving(Changed))
    /\ WF_all_vars(reaps /\ Serving(SleepEnds)) /\ WF_all_vars(reaps /\ Serving(Tick))

FairSpec == ServerSpec /\ Fairness

-----------------------------------------------------------------------------
(* Properties *)

\* Whatever the selector returns, the protocol echoed is one the client offered, up to
\* case, and none if it offered none: "Never echo a subprotocol the client did not
\* offer" (accept_with_options, offered_protocols).
EchoWasOffered ==
    phase = "upgrading" /\ handshake.response.protocol # Absent =>
        \E i \in DOMAIN handshake.request.protocol :
            \E t \in Range(handshake.request.protocol[i]) :
                eq_ignore_ascii_case(t, handshake.response.protocol)

\* Some line of a header has the word among its tokens.
Mentions(lines, word) ==
    \E i \in DOMAIN lines : lines[i] # Opaque /\ \E t \in Range(lines[i]) : t[1] = word

\* A connection is upgraded only if the request is a WebSocket upgrade (it asks for
\* websocket in Upgrade and for the upgrade in Connection, and has a key: is_upgrade_request),
\* from an origin on the allowlist, if there is one, and if the server knows what will be
\* spoken: the default protocol, the one selected, or any if implicit codecs are allowed.
UpgradedByPolicy ==
    phase = "upgrading" =>
        /\ Mentions(handshake.request.upgrade, "websocket")
        /\ Mentions(handshake.request.connection, "upgrade")
        /\ handshake.request.key
        /\ config.allowed_origins # Absent =>
              /\ handshake.request.origin # <<>>
              /\ \E a \in config.allowed_origins :
                    eq_ignore_ascii_case(Head(handshake.request.origin)[1], a)
        /\ \/ config.allow_implicit_codec
           \/ /\ handshake.response.protocol # Absent
              /\ handshake.response.protocol[1] \in
                    {DEFAULT_SUBPROTOCOL}
                    \cup (IF handshake.selection = Absent THEN {} ELSE {handshake.selection[1]})

\* A connection with an idle timeout that has no open stream from some time on is
\* reaped (wait_idle, serve_h2_with_config).
IdleIsReaped ==
    config.idle_timeout /\ <>(phase = "serving") /\ <>[](open = 0) => <>(conn # "serving")
=============================================================================

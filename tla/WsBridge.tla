------------------------------ MODULE WsBridge ------------------------------
(***************************************************************************)
(* The WebSocket bridge of the Rust server (wslay.rs): bytes are pumped    *)
(* between a WebSocket client and an upstream byte stream by four          *)
(* directions that share one wslay context and one writer: ws (WebSocket   *)
(* to upstream), peer (upstream to WebSocket), control (frames the         *)
(* application injects) and keepalive.  The first direction to finish      *)
(* tears the others down.                                                  *)
(*                                                                         *)
(* All directions run in one task and interleave at awaits: a step is one  *)
(* synchronous section, and a direction whose outbound bytes are not       *)
(* written yet stands in the queue of the (fair) writer lock.  What wslay  *)
(* produces in a section is taken from `outbound` in that section, so its  *)
(* own queues are empty between steps.  A data frame is its number.        *)
(***************************************************************************)
EXTENDS Integers, Sequences, FiniteSets

CONSTANTS
    Scenarios,     \* what the environment may do: kinds of event, see EventKinds,
                   \* and bounds on the data frames and chunks of the two sides
    MaxControl,    \* bound: control frames the client and the application send
    MaxBatch,      \* bound: frames that arrive in one read
    Interval,      \* KeepAlive::interval, in ticks
    Timeout        \* KeepAlive::timeout, in ticks

\* "DATA", "PING", "CLOSE", "BAD" (a frame wslay's event layer rejects),
\* "GARBLED" (one its frame layer rejects), "EOF" and "DEAD" (no frame and no
\* EOF ever again) come from the client; "STALL" and "WS_ERROR" befall its
\* socket; "UPSTREAM", "UP_EOF", "UP_RESET", "UP_FULL" (it stops reading for a
\* while) and "UP_BROKEN" (writes fail) are the upstream; "CONTROL" is the
\* application; "KEEPALIVE" says that the bridge is configured with one.
EventKinds ==
    {"DATA", "PING", "CLOSE", "BAD", "GARBLED", "EOF", "DEAD", "STALL", "WS_ERROR",
     "UPSTREAM", "UP_EOF", "UP_RESET", "UP_FULL", "UP_BROKEN", "CONTROL", "KEEPALIVE"}

ASSUME BridgeAssumption ==
    /\ \A sc \in Scenarios : sc \in [inputs : SUBSET EventKinds, client : Nat, upstream : Nat]
    /\ MaxControl \in Nat
    /\ MaxBatch \in Nat \ {0} /\ Interval \in Nat \ {0} /\ Timeout \in Nat \ {0}

VARIABLES
    scenario,     \* the one of this behaviour
    \* the client and its socket
    client,       \* "up", "closing" (it sent a Close), "gone" (EOF), "dead"
    client_sent,  \* data frames it sent
    client_ctl,   \* control frames it sent
    ws_in,        \* its frames, not yet read by the bridge
    ws_out,       \* the frames the bridge wrote, see written
    unanswered,   \* the last Ping it wrote has not been answered
    stalled,      \* the socket takes no bytes
    \* the upstream
    upstream,     \* "open", "eof", "reset"
    up_sent, up_read,
    up_got,       \* the data it was written
    up_taking,    \* "yes", "full" (a write waits), "broken" (a write fails)
    \* the application
    app_ctl,      \* control frames it injected
    \* the wslay context and Shared
    ctx,          \* flags of the context
    inbound,      \* frames read from the socket and not consumed by wslay
    \* the directions
    pc,
    out,          \* outbound frames a direction took and has not written
    finish,       \* why a direction will end once its frames are written
    to_peer,      \* decoded data the ws direction has not written
    after,        \* what the ws direction does once it wrote to_peer
    lock,         \* the queue of the writer lock; its head is writing
    \* keep-alive
    idle,         \* ticks since last_activity
    active,       \* last_activity is later than pinged_at
    waited,       \* ticks since pinged_at
    ended         \* why the bridge ended, or "running"

Inputs == scenario.inputs
MaxClientData == scenario.client
MaxUpstream == scenario.upstream

client_vars == <<scenario, client, client_sent, client_ctl>>
socket_vars == <<ws_out, unanswered, stalled>>
up_vars == <<upstream, up_sent, up_taking>>
wslay_vars == <<ctx, inbound>>
dir_vars == <<pc, out, finish, lock>>
ws_vars == <<to_peer, after>>
time_vars == <<idle, active, waited>>
vars == <<client_vars, ws_in, socket_vars, up_vars, up_read, up_got, app_ctl, wslay_vars,
          dir_vars, ws_vars, time_vars, ended>>

Directions == {"ws", "peer", "control", "keepalive"}
\* A Close frame is named by what it is for: BridgeConfig::close, error_close,
\* KeepAlive::close, WsControl::close, wslay's echo and wslay's own closes.
CloseOps == {"normal", "error", "timeout", "control", "echo", "protocol"}
Frames == [op : {"data", "ping", "pong"} \union CloseOps, n : 0..MaxUpstream]
ClientFrames == [op : {"data", "ping", "pong", "close", "bad", "garbled"}, n : 0..MaxClientData]
Flags == {"CLOSE_QUEUED", "CLOSE_RECEIVED", "READ_DISABLED"}
EndReasons == {"peer_close", "normal", "error", "timeout", "abnormal"}

\* Type invariant of the bridge.
TypeOK ==
    /\ scenario \in Scenarios
    /\ client \in {"up", "closing", "gone", "dead"}
    /\ client_sent \in 0..MaxClientData /\ client_ctl \in Nat
    /\ ws_in \in Seq(ClientFrames) /\ ws_out \in Seq(Frames)
    /\ stalled \in BOOLEAN /\ unanswered \in BOOLEAN
    /\ upstream \in {"open", "eof", "reset"}
    /\ up_sent \in 0..MaxUpstream /\ up_read \in 0..MaxUpstream
    /\ up_got \in Seq(1..MaxClientData)
    /\ up_taking \in {"yes", "full", "broken"}
    /\ app_ctl \in Nat
    /\ ctx \subseteq Flags /\ inbound \in Nat
    /\ pc \in [Directions -> {"ready", "writing", "to_peer", "waiting"}]
    /\ out \in [Directions -> Seq(Frames)]
    /\ finish \in [Directions -> EndReasons \union {"none"}]
    /\ to_peer \in Seq(1..MaxClientData)
    /\ after \in [out : Seq(Frames), finish : EndReasons \union {"none"}]
    /\ lock \in Seq(Directions)
    /\ idle \in 0..Interval /\ active \in BOOLEAN /\ waited \in 0..Timeout
    /\ ended \in EndReasons \union {"running"}

Init ==
    /\ scenario \in Scenarios
    /\ client = "up" /\ client_sent = 0 /\ client_ctl = 0
    /\ ws_in = <<>> /\ ws_out = <<>> /\ stalled = FALSE /\ unanswered = FALSE
    /\ upstream = "open" /\ up_sent = 0 /\ up_read = 0 /\ up_got = <<>> /\ up_taking = "yes"
    /\ app_ctl = 0
    /\ ctx = {} /\ inbound = 0
    /\ pc = [d \in Directions |-> "ready"]
    /\ out = [d \in Directions |-> <<>>]
    /\ finish = [d \in Directions |-> "none"]
    /\ to_peer = <<>> /\ after = [out |-> <<>>, finish |-> "none"]
    /\ lock = <<>>
    /\ idle = 0 /\ active = TRUE /\ waited = 0
    /\ ended = "running"

Frame(op) == [op |-> op, n |-> 0]
Data(k) == [op |-> "data", n |-> k]
Ops(s) == {s[i].op : i \in DOMAIN s}
Places(s, op) == {i \in DOMAIN s : s[i].op = op}
Rank(i, at) == Cardinality({j \in at : j <= i})

\* The numbers of the data frames of s, in their order.
Numbers(s) ==
    LET at == Places(s, "data") IN
    [k \in 1..Cardinality(at) |-> s[CHOOSE i \in at : Rank(i, at) = k].n]

-----------------------------------------------------------------------------
(* wslay *)

\* Faulty: messages are accepted after a Close.
queue_always(f) == <<f>>

\* wslay_event_queue_msg, wslay_event_queue_close and wslay_event_send: the
\* frame goes to `outbound` unless a Close was queued before.
queue(f) == IF "CLOSE_QUEUED" \in ctx THEN <<>> ELSE <<f>>

queued(op) == IF op \in CloseOps THEN {"CLOSE_QUEUED"} ELSE {}

\* How much of the batch b wslay_event_recv consumes: it stops at a Close and
\* at a frame it rejects.
parsed(b) ==
    LET stops == {i \in DOMAIN b : b[i].op \in {"close", "bad", "garbled"}} IN
    CASE "READ_DISABLED" \in ctx -> <<>>
      [] "READ_DISABLED" \notin ctx /\ stops = {} -> b
      [] OTHER -> SubSeq(b, 1, CHOOSE i \in stops : \A j \in stops : i <= j)

\* The replies it queues.  Once a Close is queued wslay sends no other control
\* frame, the pongs queued in the same call included.
replies(p) ==
    IF "CLOSE_QUEUED" \in ctx THEN <<>>
    ELSE IF "close" \in Ops(p) THEN <<Frame("echo")>>
    ELSE IF Ops(p) \cap {"bad", "garbled"} # {} THEN <<Frame("protocol")>>
    ELSE [i \in 1..Cardinality(Places(p, "ping")) |-> Frame("pong")]

recv_flags(p) ==
    (IF "close" \in Ops(p) THEN {"CLOSE_RECEIVED", "CLOSE_QUEUED", "READ_DISABLED"} ELSE {})
    \union (IF Ops(p) \cap {"bad", "garbled"} # {} THEN {"CLOSE_QUEUED", "READ_DISABLED"} ELSE {})

\* Why the ws direction ends after this call, if it does: a Close was received,
\* or wslay_event_recv failed.  A frame that the event layer rejects is neither.
ws_finish(p) ==
    IF "close" \in Ops(p) THEN "peer_close"
    ELSE IF "garbled" \in Ops(p) THEN "abnormal" ELSE "none"

-----------------------------------------------------------------------------
(* Writing and ending *)

\* The bridge ends: select! drops the other directions with what they hold.
end(reason) ==
    /\ ended' = reason
    /\ UNCHANGED dir_vars

\* Direction d writes the frames fs, then ends for fin or goes on in state next.
write_then(d, fs, fin, next) ==
    \/ /\ fs # <<>>
       /\ out' = [out EXCEPT ![d] = fs]
       /\ finish' = [finish EXCEPT ![d] = fin]
       /\ pc' = [pc EXCEPT ![d] = "writing"]
       /\ lock' = Append(lock, d)
       /\ UNCHANGED ended
    \/ /\ fs = <<>> /\ fin = "none"
       /\ pc' = [pc EXCEPT ![d] = next]
       /\ UNCHANGED <<out, finish, lock, ended>>
    \/ /\ fs = <<>> /\ fin # "none"
       /\ end(fin)

\* Faulty: the keep-alive does not wait for an answer.
resumes_ready(d) == "ready"

\* Where direction d goes on after a write: the keep-alive waits for an answer.
resumes(d) == IF d = "keepalive" THEN "waiting" ELSE "ready"

\* pinged_at = now
note_ping == active' = FALSE /\ waited' = 0 /\ UNCHANGED idle

\* The record of what was written leaves out the Pings before a Close, of which
\* the keep-alive sends any number.
written(f) == IF f.op = "ping" /\ Ops(ws_out) \cap CloseOps = {} THEN ws_out ELSE Append(ws_out, f)

\* The holder of the lock writes a frame; with the last one it releases the
\* lock and goes on.
WriteFrame(d) ==
    /\ ended = "running"
    /\ lock # <<>> /\ Head(lock) = d
    /\ ~stalled
    /\ ws_out' = written(Head(out[d]))
    /\ unanswered' = (unanswered \/ Head(out[d]).op = "ping")
    /\ out' = [out EXCEPT ![d] = Tail(@)]
    /\ \/ /\ Len(out[d]) > 1
          /\ UNCHANGED <<pc, lock, ended, time_vars>>
       \/ /\ Len(out[d]) = 1
          /\ lock' = Tail(lock)
          /\ pc' = [pc EXCEPT ![d] = resumes(d)]
          /\ ended' = IF finish[d] = "none" THEN "running" ELSE finish[d]
          /\ \/ d = "keepalive" /\ note_ping
             \/ d # "keepalive" /\ UNCHANGED time_vars
    /\ UNCHANGED <<client_vars, ws_in, stalled, up_vars, up_read, up_got, app_ctl, wslay_vars,
                   finish, ws_vars>>

\* The write fails: an error, unless the direction was ending anyway and
\* ignores it.
WriteFails(d) ==
    /\ "WS_ERROR" \in Inputs
    /\ ended = "running"
    /\ lock # <<>> /\ Head(lock) = d
    /\ end(IF finish[d] \in {"normal", "error", "timeout"} THEN finish[d] ELSE "abnormal")
    /\ UNCHANGED <<client_vars, ws_in, socket_vars, up_vars, up_read, up_got, app_ctl,
                   wslay_vars, ws_vars, time_vars>>

-----------------------------------------------------------------------------
(* WebSocket to upstream *)

\* Faulty: what follows the data does not wait for the data.
peer_write_detached(data, fs, fin) ==
    /\ to_peer' = data
    /\ after' = [out |-> fs, finish |-> fin]
    /\ write_then("ws", fs, fin, "ready")

\* The data is written upstream first, then the replies; then the end.
forward(data, fs, fin) ==
    \/ /\ data # <<>>
       /\ to_peer' = data
       /\ after' = [out |-> fs, finish |-> fin]
       /\ pc' = [pc EXCEPT !["ws"] = "to_peer"]
       /\ UNCHANGED <<out, finish, lock, ended>>
    \/ /\ data = <<>>
       /\ UNCHANGED ws_vars
       /\ write_then("ws", fs, fin, "ready")

\* A read of n frames: feed wslay, take what it decoded and what it replies.
WsRead(n) ==
    /\ ended = "running" /\ pc["ws"] = "ready"
    /\ n <= Len(ws_in)
    /\ ws_in' = SubSeq(ws_in, n + 1, Len(ws_in))
    /\ idle' = 0 /\ active' = TRUE
    /\ LET b == SubSeq(ws_in, 1, n)
           p == parsed(b) IN
       /\ inbound' = inbound + (Len(b) - Len(p))
       /\ ctx' = ctx \union recv_flags(p)
       /\ forward(Numbers(p), replies(p), ws_finish(p))
    /\ UNCHANGED <<client_vars, socket_vars, up_vars, up_read, up_got, app_ctl, waited>>

\* The read returns 0 bytes, or an error.
WsEof ==
    /\ ended = "running" /\ pc["ws"] = "ready"
    /\ client = "gone" /\ ws_in = <<>>
    /\ end("abnormal")
    /\ UNCHANGED <<client_vars, ws_in, socket_vars, up_vars, up_read, up_got, app_ctl,
                   wslay_vars, ws_vars, time_vars>>

\* peer_write.write_all makes progress; when it is done the replies follow.
PeerWrite ==
    /\ ended = "running" /\ pc["ws"] = "to_peer"
    /\ up_taking = "yes"
    /\ up_got' = Append(up_got, Head(to_peer))
    /\ to_peer' = Tail(to_peer)
    /\ \/ /\ Len(to_peer) > 1
          /\ UNCHANGED <<dir_vars, ended>>
       \/ /\ Len(to_peer) = 1
          /\ write_then("ws", after.out, after.finish, "ready")
    /\ UNCHANGED <<client_vars, ws_in, socket_vars, up_vars, up_read, app_ctl, wslay_vars,
                   after, time_vars>>

\* peer_write.write_all fails: the replies it took are dropped, an error Close
\* is queued.
PeerWriteFails ==
    /\ ended = "running" /\ pc["ws"] = "to_peer"
    /\ up_taking = "broken"
    /\ ctx' = ctx \union queued("error")
    /\ write_then("ws", queue(Frame("error")), "error", "ready")
    /\ to_peer' = <<>>
    /\ UNCHANGED <<client_vars, ws_in, socket_vars, up_vars, up_read, up_got, app_ctl, inbound,
                   after, time_vars>>

-----------------------------------------------------------------------------
(* Upstream to WebSocket *)

PeerRead ==
    /\ ended = "running" /\ pc["peer"] = "ready"
    /\ up_read < up_sent
    /\ up_read' = up_read + 1
    /\ write_then("peer", queue(Data(up_read + 1)), "none", "ready")
    /\ UNCHANGED <<client_vars, ws_in, socket_vars, up_vars, up_got, app_ctl, wslay_vars,
                   ws_vars, time_vars>>

close_for(u) == IF u = "eof" THEN "normal" ELSE "error"

\* The upstream ended (its data was read) or failed (some of it may be lost).
PeerReadEnds ==
    /\ ended = "running" /\ pc["peer"] = "ready"
    /\ upstream = "reset" \/ (upstream = "eof" /\ up_read = up_sent)
    /\ LET cf == close_for(upstream) IN
       /\ ctx' = ctx \union queued(cf)
       /\ write_then("peer", queue(Frame(cf)), cf, "ready")
    /\ UNCHANGED <<client_vars, ws_in, socket_vars, up_vars, up_read, up_got, app_ctl, inbound,
                   ws_vars, time_vars>>

-----------------------------------------------------------------------------
(* Control frames of the application *)

Control(op) ==
    /\ "CONTROL" \in Inputs
    /\ ended = "running" /\ pc["control"] = "ready"
    /\ app_ctl < MaxControl
    /\ app_ctl' = app_ctl + 1
    /\ ctx' = ctx \union queued(op)
    /\ write_then("control", queue(Frame(op)), "none", "ready")
    /\ UNCHANGED <<client_vars, ws_in, socket_vars, up_vars, up_read, up_got, inbound, ws_vars,
                   time_vars>>

-----------------------------------------------------------------------------
(* Keep-alive *)

\* Idle for an interval: send a Ping.
KeepalivePing ==
    /\ "KEEPALIVE" \in Inputs
    /\ ended = "running" /\ pc["keepalive"] = "ready"
    /\ idle = Interval
    /\ write_then("keepalive", queue(Frame("ping")), "none", "waiting")
    /\ \/ queue(Frame("ping")) = <<>> /\ note_ping
       \/ queue(Frame("ping")) # <<>> /\ UNCHANGED time_vars
    /\ UNCHANGED <<client_vars, ws_in, socket_vars, up_vars, up_read, up_got, app_ctl,
                   wslay_vars, ws_vars>>

\* The timeout of the Ping is over and a frame came.
KeepaliveAnswered ==
    /\ ended = "running" /\ pc["keepalive"] = "waiting"
    /\ waited = Timeout /\ active
    /\ pc' = [pc EXCEPT !["keepalive"] = "ready"]
    /\ UNCHANGED <<client_vars, ws_in, socket_vars, up_vars, up_read, up_got, app_ctl,
                   wslay_vars, out, finish, lock, ws_vars, time_vars, ended>>

\* It is over and no frame came: close.
KeepaliveExpires ==
    /\ ended = "running" /\ pc["keepalive"] = "waiting"
    /\ waited = Timeout /\ ~active
    /\ ctx' = ctx \union queued("timeout")
    /\ write_then("keepalive", queue(Frame("timeout")), "timeout", "ready")
    /\ UNCHANGED <<client_vars, ws_in, socket_vars, up_vars, up_read, up_got, app_ctl, inbound,
                   ws_vars, time_vars>>

\* A tick is long compared with a poll: what can be read is read first.
Tick ==
    /\ "KEEPALIVE" \in Inputs
    /\ ended = "running"
    /\ ~(pc["ws"] = "ready" /\ ws_in # <<>>)
    /\ idle' = IF idle < Interval THEN idle + 1 ELSE idle
    /\ waited' = IF waited < Timeout THEN waited + 1 ELSE waited
    /\ <<idle', waited'>> # <<idle, waited>>
    /\ UNCHANGED <<client_vars, ws_in, socket_vars, up_vars, up_read, up_got, app_ctl,
                   wslay_vars, dir_vars, ws_vars, active, ended>>

-----------------------------------------------------------------------------
(* The client, its socket and the upstream *)

bridge_vars == <<ws_out, up_read, up_got, app_ctl, wslay_vars, dir_vars, ws_vars, time_vars,
                 ended>>

ClientData ==
    /\ "DATA" \in Inputs /\ client = "up" /\ client_sent < MaxClientData
    /\ client_sent' = client_sent + 1
    /\ ws_in' = Append(ws_in, Data(client_sent + 1))
    /\ UNCHANGED <<scenario, bridge_vars, unanswered, stalled, up_vars, client, client_ctl>>

ClientPing ==
    /\ "PING" \in Inputs /\ client = "up" /\ client_ctl < MaxControl
    /\ client_ctl' = client_ctl + 1
    /\ ws_in' = Append(ws_in, Frame("ping"))
    /\ UNCHANGED <<scenario, bridge_vars, unanswered, stalled, up_vars, client, client_sent>>

\* The answer to a Ping, which the client's platform sends on its own.
ClientPong ==
    /\ client = "up"
    /\ unanswered
    /\ unanswered' = FALSE
    /\ ws_in' = Append(ws_in, Frame("pong"))
    /\ UNCHANGED <<bridge_vars, stalled, up_vars, client_vars>>

ClientCloses ==
    /\ "CLOSE" \in Inputs /\ client = "up"
    /\ client' = "closing"
    /\ ws_in' = Append(ws_in, Frame("close"))
    /\ UNCHANGED <<scenario, bridge_vars, unanswered, stalled, up_vars, client_sent, client_ctl>>

ClientErrs(op) ==
    /\ (op = "bad" /\ "BAD" \in Inputs) \/ (op = "garbled" /\ "GARBLED" \in Inputs)
    /\ client = "up" /\ client_ctl < MaxControl
    /\ client_ctl' = client_ctl + 1
    /\ ws_in' = Append(ws_in, Frame(op))
    /\ UNCHANGED <<scenario, bridge_vars, unanswered, stalled, up_vars, client, client_sent>>

ClientGoes ==
    /\ "EOF" \in Inputs /\ client \in {"up", "closing"}
    /\ client' = "gone"
    /\ UNCHANGED <<scenario, bridge_vars, unanswered, ws_in, stalled, up_vars, client_sent, client_ctl>>

ClientDies ==
    /\ "DEAD" \in Inputs /\ client = "up"
    /\ client' = "dead"
    /\ UNCHANGED <<scenario, bridge_vars, unanswered, ws_in, stalled, up_vars, client_sent, client_ctl>>

\* The socket stops taking bytes; it takes them again if someone reads them.
SocketStalls ==
    /\ "STALL" \in Inputs /\ ~stalled
    /\ stalled' = TRUE
    /\ UNCHANGED <<bridge_vars, unanswered, ws_in, up_vars, client_vars>>

SocketDrains ==
    /\ stalled /\ client # "dead"
    /\ stalled' = FALSE
    /\ UNCHANGED <<bridge_vars, unanswered, ws_in, up_vars, client_vars>>

UpstreamSends ==
    /\ "UPSTREAM" \in Inputs /\ upstream = "open" /\ up_sent < MaxUpstream
    /\ up_sent' = up_sent + 1
    /\ UNCHANGED <<bridge_vars, unanswered, client_vars, ws_in, stalled, upstream, up_taking>>

UpstreamEnds(how) ==
    /\ (how = "eof" /\ "UP_EOF" \in Inputs) \/ (how = "reset" /\ "UP_RESET" \in Inputs)
    /\ upstream = "open"
    /\ upstream' = how
    /\ UNCHANGED <<bridge_vars, unanswered, client_vars, ws_in, stalled, up_sent, up_taking>>

UpstreamTakes(how) ==
    /\ \/ how = "full" /\ "UP_FULL" \in Inputs /\ up_taking = "yes"
       \/ how = "yes" /\ up_taking = "full"
       \/ how = "broken" /\ "UP_BROKEN" \in Inputs /\ up_taking # "broken"
    /\ up_taking' = how
    /\ UNCHANGED <<bridge_vars, unanswered, client_vars, ws_in, stalled, upstream, up_sent>>

\* What happens to a bridge that has ended is of no interest.
Environment ==
    /\ ended = "running"
    /\ \/ ClientData \/ ClientPing \/ ClientPong \/ ClientCloses \/ ClientGoes \/ ClientDies
       \/ \E op \in {"bad", "garbled"} : ClientErrs(op)
       \/ SocketStalls \/ SocketDrains
       \/ UpstreamSends
       \/ \E how \in {"eof", "reset"} : UpstreamEnds(how)
       \/ \E how \in {"yes", "full", "broken"} : UpstreamTakes(how)

WsToPeer == (\E n \in 1..MaxBatch : WsRead(n)) \/ WsEof \/ PeerWrite \/ PeerWriteFails
PeerToWs == PeerRead \/ PeerReadEnds
Keepalive == KeepalivePing \/ KeepaliveAnswered \/ KeepaliveExpires

Bridge ==
    \/ WsToPeer \/ PeerToWs \/ Keepalive
    \/ \E op \in {"ping", "pong", "control"} : Control(op)
    \/ \E d \in Directions : WriteFrame(d) \/ WriteFails(d)

Next == Bridge \/ Environment \/ Tick

Spec == Init /\ [][Next]_vars

\* The executor polls each direction and the writer, and time passes.  Nothing
\* is assumed of the client, its socket, the upstream or the application.
Fairness ==
    /\ WF_vars(WsToPeer) /\ WF_vars(PeerToWs) /\ WF_vars(Keepalive) /\ WF_vars(Tick)
    /\ \A d \in Directions : WF_vars(WriteFrame(d))

FairSpec == Spec /\ Fairness

-----------------------------------------------------------------------------
(* Properties *)

\* What the client receives ends with a Close of this kind, or of any kind.
closed_with(op) == op \in Ops(ws_out)
closed == Ops(ws_out) \cap CloseOps # {}

\* The bridge as a pair of byte streams.  Upstream, the stream is complete when
\* the bridge reports the client's Close; downstream, when the client receives
\* the Close of a clean end.
Tunnel ==
    INSTANCE ByteTunnel WITH
        up_sent <- client_sent,
        up_got <- up_got,
        up_end <- IF ended = "running" THEN "open"
                  ELSE IF ended = "peer_close" THEN "complete" ELSE "cut",
        down_sent <- up_sent,
        down_got <- Numbers(ws_out),
        down_end <- IF closed_with("normal") THEN "complete"
                    ELSE IF closed \/ ended # "running" THEN "cut" ELSE "open"

\* The bridge implements the byte tunnel: data is forwarded in order and once,
\* whatever the directions interleave with it, none follows a Close, and an end
\* that looks clean is one (bridge_with).
ImplementsTunnel == Tunnel!Spec

\* Neither data nor a second Close follows a Close on the WebSocket: the
\* directions take their frames from one context and write them later, each in
\* its turn (wslay.rs: outbound is taken before the lock).  A pong may follow: the
\* ws direction holds it while it writes upstream, and takes its turn then.  (With
\* the types of the state.)
CloseIsLast ==
    /\ TypeOK
    /\ \A i, j \in DOMAIN ws_out :
          ws_out[i].op \in CloseOps /\ i < j => ws_out[j].op = "pong"

\* When either side ends, or dies without a word, the bridge ends: it is not
\* leaked ("so a silently-dead peer can't leak the bridge").  The client's socket
\* may stall meanwhile, but not for ever: the keep-alive writes its Ping behind
\* the lock of a blocked write, and its timeout starts after that.
OneSideEnds ==
    <>[]~stalled => (client # "up" \/ upstream # "open" ~> ended # "running")

=============================================================================

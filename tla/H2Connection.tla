---------------------------- MODULE H2Connection ----------------------------
(***************************************************************************)
(* The HTTP/2 connection of the Rust client (connection.rs): request       *)
(* streams multiplexed over one byte transport, the callers of request(),  *)
(* the body pumps that upload under flow control, the response bodies read *)
(* by the application, and the peer's frames dispatched by the read loop.  *)
(*                                                                         *)
(* The client is single threaded: a step of this specification is one      *)
(* synchronous section of the code, from one await to the next (the read   *)
(* loop dispatches one frame per step, and a pump sends one DATA frame per *)
(* step, which allows more interleavings than the executor does).  The     *)
(* peer is the environment; Inputs selects the kinds of event a run lets   *)
(* the environment produce.                                                *)
(***************************************************************************)
EXTENDS SendWindow, FiniteSets

CONSTANTS
    Requests,               \* callers of request(), one call each
    MaxStreamId,            \* bound: the last stream id this run may allocate
    Inputs,                 \* kinds of environment event, see EventKinds
    SPEC_INITIAL_WINDOW,    \* initial connection and stream send window
    DEFAULT_MAX_FRAME_SIZE, \* the peer's frame limit before its SETTINGS
    MIN_FRAME_SIZE,         \* smallest legal SETTINGS_MAX_FRAME_SIZE
    MAX_FRAME_SIZE,         \* largest legal SETTINGS_MAX_FRAME_SIZE
    MAX_WINDOW,             \* largest legal SETTINGS_INITIAL_WINDOW_SIZE
    UNLIMITED,              \* u32::MAX, max_concurrent_streams before SETTINGS
    MAX_HEADER_BLOCK_SIZE,  \* cap on HEADERS + CONTINUATION bytes
    WindowSizes,            \* SETTINGS_INITIAL_WINDOW_SIZE values the peer sends
    FrameSizes,             \* SETTINGS_MAX_FRAME_SIZE values the peer sends
    StreamLimits,           \* SETTINGS_MAX_CONCURRENT_STREAMS values it sends
    Increments,             \* WINDOW_UPDATE increments the peer sends
    DataSizes,              \* DATA payloads the peer sends
    ChunkSizes,             \* chunks the application uploads
    FragmentSizes,          \* header block fragments the peer sends
    PromisedIds,            \* even stream ids the peer promises
    MaxGrant,               \* bound: WINDOW_UPDATE credit per window
    MaxUpload,              \* bound: bytes uploaded per stream
    MaxDownload,            \* bound: DATA bytes the peer sends per stream
    MaxPings,               \* bound: calls of ping()
    None                    \* an absent Option

\* What a run may let the environment do.  "CANCEL": the application drops the
\* future of request(); "ROGUE": the peer breaks the order of frames on a
\* stream (DATA before HEADERS, anything after END_STREAM, an interim response
\* with END_STREAM); "MALFORMED": it sends what the decoders reject; the others
\* are frames, frame features and application calls.
EventKinds ==
    {"UPLOAD", "CANCEL", "PADDING", "ROGUE", "RST_STREAM", "GOAWAY", "PING",
     "SETTINGS", "WINDOW_UPDATE", "ZERO_UPDATE", "HEADERS", "DATA",
     "CONTINUATION", "PUSH_PROMISE", "MALFORMED", "CLOSE", "TRANSPORT"}

ASSUME ConstantsAssumption ==
    /\ MaxStreamId \in Nat /\ MaxGrant \in Nat /\ MaxUpload \in Nat
    /\ MaxDownload \in Nat /\ MaxPings \in Nat
    /\ Inputs \subseteq EventKinds
    /\ SPEC_INITIAL_WINDOW \in Nat
    /\ MIN_FRAME_SIZE \in Nat \ {0} /\ MAX_FRAME_SIZE \in Nat
    /\ DEFAULT_MAX_FRAME_SIZE \in MIN_FRAME_SIZE..MAX_FRAME_SIZE
    /\ MAX_WINDOW \in Nat /\ UNLIMITED \in Nat
    /\ MAX_HEADER_BLOCK_SIZE \in Nat
    /\ WindowSizes \subseteq Nat /\ FrameSizes \subseteq Nat
    /\ StreamLimits \subseteq Nat
    /\ Increments \subseteq Nat \ {0} /\ ChunkSizes \subseteq Nat \ {0}
    /\ DataSizes \subseteq Nat /\ FragmentSizes \subseteq Nat
    /\ PromisedIds \subseteq Nat

VARIABLES
    \* ConnState
    streams,              \* the ids in the streams map
    next_stream_id,
    conn_send_window,
    remote,               \* the peer's settings
    pending_header_block,
    pings,                \* per ping: unused, pending (in the map) or its result
    ping_counter,
    slot_waiters,         \* requests parked for a concurrent-stream slot
    closed,
    goaway_received,
    highest_promised,
    \* StreamState, kept (frozen) after the stream left the map; each flag is
    \* the set of the streams that have it
    got_head,
    local_closed,
    remote_closed,
    send_window,
    head,                 \* the oneshot channel that carries the response head
    \* RecvState, shared by the stream and its ResponseBody
    buffered,
    ended,
    recv_error,
    recv_waker,
    \* tasks
    req,                  \* where each call of request() is
    stream_of,            \* the stream it opened, or 0
    pump,                 \* where each body pump is
    chunk_left,           \* bytes of the pump's current chunk not yet sent
    body,                 \* where the reader of each ResponseBody is
    reading,              \* the read loop is running
    \* what went over the wire, for the properties
    fed,                  \* request body bytes the application produced
    sent,                 \* DATA bytes sent
    end_sent,             \* streams on which END_STREAM was sent
    rst_sent,             \* streams on which RST_STREAM was sent
    granted,              \* credit of the WINDOW_UPDATEs received
    conn_sent,
    conn_granted,
    rx,                   \* flow-controlled bytes of the DATA received
    returned              \* bytes returned on the connection receive window

conn_vars == <<next_stream_id, remote, pending_header_block, ping_counter,
               goaway_received, highest_promised>>
recv_vars == <<buffered, ended, recv_error, recv_waker>>
stream_vars == <<streams, got_head, local_closed, remote_closed, send_window, head,
                 recv_vars>>
req_vars == <<req, stream_of>>
task_vars == <<req_vars, chunk_left, reading>>
upload_ledger == <<fed, sent, end_sent, granted, conn_sent, conn_granted>>
download_ledger == <<rx, returned>>
vars == <<conn_vars, stream_vars, task_vars, upload_ledger, download_ledger,
          conn_send_window, pings, slot_waiters, closed, pump, body, rst_sent>>

-----------------------------------------------------------------------------
(* State *)

StreamIds == {i \in 1..MaxStreamId : i % 2 = 1}

RemoteSettings ==
    [initial_window_size : Nat,
     max_frame_size : MIN_FRAME_SIZE..MAX_FRAME_SIZE,
     max_concurrent_streams : Nat]

\* end_stream of a PUSH_PROMISE is always FALSE; promised_stream_id of a
\* response block is None in the code and 0 here.
HeaderBlocks ==
    [stream_id : StreamIds, kind : {"response", "push"}, end_stream : BOOLEAN,
     promised_stream_id : Nat, size : Nat]

PingStates == {"unused", "pending", "ok", "err"}
HeadStates == {"none", "open", "ok", "err", "dropped"}
RequestStates == {"idle", "parked", "waiting", "done", "failed", "cancelled"}
PumpStates == {"none", "chunk", "window", "parked", "done"}
BodyStates == {"none", "held", "parked", "failed", "eof", "dropped"}

ConnTypeOK ==
    /\ next_stream_id \in {n \in Nat : n % 2 = 1}
    /\ conn_send_window \in SendWindows(StreamIds)
    /\ remote \in RemoteSettings
    /\ pending_header_block \in HeaderBlocks \cup {None}
    /\ pings \in [1..MaxPings -> PingStates]
    /\ ping_counter \in 0..MaxPings
    /\ slot_waiters \subseteq Requests
    /\ closed \in BOOLEAN
    /\ goaway_received \in BOOLEAN
    /\ highest_promised \in Nat

StreamTypeOK ==
    /\ streams \subseteq StreamIds
    /\ got_head \subseteq StreamIds
    /\ local_closed \subseteq StreamIds
    /\ remote_closed \subseteq StreamIds
    /\ send_window \in [StreamIds -> SendWindows(StreamIds)]
    /\ head \in [StreamIds -> HeadStates]
    /\ buffered \in [StreamIds -> Nat]
    /\ ended \subseteq StreamIds
    /\ recv_error \subseteq StreamIds
    /\ recv_waker \subseteq StreamIds

TaskTypeOK ==
    /\ req \in [Requests -> RequestStates]
    /\ stream_of \in [Requests -> StreamIds \cup {0}]
    /\ pump \in [StreamIds -> PumpStates]
    /\ chunk_left \in [StreamIds -> Nat]
    /\ body \in [StreamIds -> BodyStates]
    /\ reading \in BOOLEAN

LedgerTypeOK ==
    /\ fed \in [StreamIds -> Nat]
    /\ sent \in [StreamIds -> Nat]
    /\ end_sent \subseteq StreamIds
    /\ rst_sent \subseteq StreamIds
    /\ granted \in [StreamIds -> Nat]
    /\ conn_sent \in Nat
    /\ conn_granted \in Nat
    /\ rx \in [StreamIds -> Nat]
    /\ returned \in [StreamIds -> Nat]

\* The type invariant.
TypeOK == ConnTypeOK /\ StreamTypeOK /\ TaskTypeOK /\ LedgerTypeOK

\* connect(): the preface, SETTINGS and first WINDOW_UPDATE are queued before
\* the handle exists, so nothing can overtake them; they carry no state.
Init ==
    /\ streams = {}
    /\ next_stream_id = 1
    /\ conn_send_window = new(SPEC_INITIAL_WINDOW)
    /\ remote = [initial_window_size |-> SPEC_INITIAL_WINDOW,
                 max_frame_size |-> DEFAULT_MAX_FRAME_SIZE,
                 max_concurrent_streams |-> UNLIMITED]
    /\ pending_header_block = None
    /\ pings = [p \in 1..MaxPings |-> "unused"]
    /\ ping_counter = 0
    /\ slot_waiters = {}
    /\ closed = FALSE
    /\ goaway_received = FALSE
    /\ highest_promised = 0
    /\ got_head = {}
    /\ local_closed = {}
    /\ remote_closed = {}
    /\ send_window = [i \in StreamIds |-> new(0)]
    /\ head = [i \in StreamIds |-> "none"]
    /\ buffered = [i \in StreamIds |-> 0]
    /\ ended = {}
    /\ recv_error = {}
    /\ recv_waker = {}
    /\ req = [r \in Requests |-> "idle"]
    /\ stream_of = [r \in Requests |-> 0]
    /\ pump = [i \in StreamIds |-> "none"]
    /\ chunk_left = [i \in StreamIds |-> 0]
    /\ body = [i \in StreamIds |-> "none"]
    /\ reading = TRUE
    /\ fed = [i \in StreamIds |-> 0]
    /\ sent = [i \in StreamIds |-> 0]
    /\ end_sent = {}
    /\ rst_sent = {}
    /\ granted = [i \in StreamIds |-> 0]
    /\ conn_sent = 0
    /\ conn_granted = 0
    /\ rx = [i \in StreamIds |-> 0]
    /\ returned = [i \in StreamIds |-> 0]

-----------------------------------------------------------------------------
(* What the handlers share *)

\* A drained waker makes its pump runnable again.
WakePumps ==
    pump' = [i \in StreamIds |->
        IF /\ pump[i] = "parked"
           /\ \/ i \in send_window[i].wakers \ send_window'[i].wakers
              \/ i \in conn_send_window.wakers \ conn_send_window'.wakers
        THEN "window" ELSE pump[i]]

\* A waker taken from the RecvState makes the reader of the body runnable.
WakeReaders ==
    body' = [i \in StreamIds |->
        IF body[i] = "parked" /\ i \in recv_waker \ recv_waker' THEN "held" ELSE body[i]]

\* Faulty: the body of a failed stream just ends, and its reader sleeps on.
fail_body_as_end(F) ==
    /\ ended' = ended \cup F
    /\ UNCHANGED <<buffered, recv_error, recv_waker>>

\* Faulty: the body of a failed stream is not told.
fail_body_untold(F) == UNCHANGED recv_vars

\* The part of StreamState::fail that the ResponseBody sees: an error after
\* what is buffered.
fail_body(F) ==
    /\ recv_error' = recv_error \cup F
    /\ ended' = ended \cup F
    /\ recv_waker' = recv_waker \ F
    /\ UNCHANGED buffered

\* StreamState::fail on every stream of F, which leave the map; windows is the
\* send windows as they stand when the handler gets there.
fail(F, windows) ==
    /\ streams' = streams \ F
    /\ send_window' = [i \in StreamIds |-> IF i \in F THEN close(windows[i])
                                                      ELSE windows[i]]
    /\ head' = [i \in StreamIds |-> IF i \in F \ got_head THEN "err" ELSE head[i]]
    /\ got_head' = got_head \cup F
    /\ fail_body(F)
    /\ UNCHANGED <<local_closed, remote_closed>>

\* Faulty: forgets the parked requests and the pings.
destroy_streams_only(windows) ==
    IF closed
    THEN UNCHANGED <<closed, conn_send_window, stream_vars, pings, slot_waiters>>
    ELSE /\ closed' = TRUE
         /\ conn_send_window' = close(conn_send_window)
         /\ fail(streams, windows)
         /\ UNCHANGED <<pings, slot_waiters>>

\* Tear the connection down, once.  Its callers wake the pumps and the readers.
destroy(windows) ==
    IF closed
    THEN UNCHANGED <<closed, conn_send_window, stream_vars, pings, slot_waiters>>
    ELSE /\ closed' = TRUE
         /\ conn_send_window' = close(conn_send_window)
         /\ fail(streams, windows)
         /\ pings' = [p \in 1..MaxPings |-> IF pings[p] = "pending" THEN "err" ELSE pings[p]]
         /\ slot_waiters' = {}

\* A frame is rejected: send GOAWAY (unless already closed), tear down, and
\* leave on_bytes and the read loop.
connection_error(windows) ==
    /\ destroy(windows)
    /\ reading' = FALSE
    /\ WakePumps
    /\ WakeReaders
    /\ UNCHANGED <<req_vars, chunk_left, upload_ledger, download_ledger, rst_sent>>

\* RST_STREAM goes out even for a stream that is not in the map.
reset_stream(id) ==
    /\ rst_sent' = IF closed THEN rst_sent ELSE rst_sent \cup {id}
    /\ fail(streams \cap {id}, send_window)
    /\ slot_waiters' = {}
    /\ UNCHANGED conn_send_window
    /\ WakePumps

\* Faulty: nobody hears of the free slot.
retire_without_wake(id, heads) ==
    LET retired == id \in streams /\ id \in local_closed' /\ id \in remote_closed'
    IN  /\ streams' = IF retired THEN streams \ {id} ELSE streams
        /\ UNCHANGED slot_waiters
        /\ head' = heads

\* Faulty: looks at the flags before this END_STREAM is recorded.
retire_too_early(id, heads) ==
    LET retired == id \in streams /\ id \in local_closed /\ id \in remote_closed
    IN  /\ streams' = IF retired THEN streams \ {id} ELSE streams
        /\ slot_waiters' = IF retired THEN {} ELSE slot_waiters
        /\ head' = heads

\* Called after END_STREAM of either side, once local_closed', remote_closed'
\* and heads (the head channels) account for it.  A stream dropped before its
\* head arrived drops the sender of its head channel.
retire_if_fully_closed(id, heads) ==
    LET retired == id \in streams /\ id \in local_closed' /\ id \in remote_closed'
    IN  /\ streams' = IF retired THEN streams \ {id} ELSE streams
        /\ slot_waiters' = IF retired THEN {} ELSE slot_waiters
        /\ head' = IF retired /\ heads[id] = "open" THEN [heads EXCEPT ![id] = "dropped"]
                                                    ELSE heads

\* Faulty: the bytes of a stream that left the map are not returned.
replenish_live_stream(id, n) ==
    returned' = [returned EXCEPT ![id] = IF closed \/ id \notin streams THEN @ ELSE @ + n]

\* ResponseBody::replenish, for bytes of stream id.  Nothing is sent once closed.
replenish_recv_window(id, n) ==
    returned' = [returned EXCEPT ![id] = IF closed THEN @ ELSE @ + n]

active_streams == Cardinality(streams)

\* Faulty: one stream too many.
can_open_one_more == active_streams <= remote.max_concurrent_streams

can_open_stream == active_streams < remote.max_concurrent_streams

-----------------------------------------------------------------------------
(* request() *)

\* A call starts, or a parked call was woken and checks again.
Runnable(r) == req[r] = "idle" \/ (req[r] = "parked" /\ r \notin slot_waiters)

RequestRefused(r) ==
    /\ Runnable(r)
    /\ closed \/ goaway_received
    /\ req' = [req EXCEPT ![r] = "failed"]
    /\ UNCHANGED <<conn_vars, stream_vars, stream_of, chunk_left, reading, upload_ledger,
                   download_ledger, conn_send_window, pings, slot_waiters, closed, pump, body,
                   rst_sent>>

RequestParks(r) ==
    /\ Runnable(r)
    /\ ~closed /\ ~goaway_received /\ ~can_open_stream
    /\ slot_waiters' = slot_waiters \cup {r}
    /\ req' = [req EXCEPT ![r] = "parked"]
    /\ UNCHANGED <<conn_vars, stream_vars, stream_of, chunk_left, reading, upload_ledger,
                   download_ledger, conn_send_window, pings, closed, pump, body, rst_sent>>

\* The check passes and, with no await in between, the stream is reserved and
\* its HEADERS sent; a body gets a pump.
RequestOpens(r, has_body) ==
    LET id == next_stream_id IN
    /\ Runnable(r)
    /\ ~closed /\ ~goaway_received /\ can_open_stream
    /\ id <= MaxStreamId
    /\ next_stream_id' = id + 2
    /\ streams' = streams \cup {id}
    /\ local_closed' = IF has_body THEN local_closed ELSE local_closed \cup {id}
    /\ send_window' = [send_window EXCEPT ![id] = new(remote.initial_window_size)]
    /\ head' = [head EXCEPT ![id] = "open"]
    /\ req' = [req EXCEPT ![r] = "waiting"]
    /\ stream_of' = [stream_of EXCEPT ![r] = id]
    /\ pump' = [pump EXCEPT ![id] = IF has_body THEN "chunk" ELSE "none"]
    /\ end_sent' = IF has_body THEN end_sent ELSE end_sent \cup {id}
    /\ UNCHANGED <<remote, pending_header_block, ping_counter, goaway_received,
                   highest_promised, got_head, remote_closed, recv_vars, chunk_left, reading,
                   fed, sent, granted, conn_sent, conn_granted, download_ledger,
                   conn_send_window, pings, slot_waiters, closed, body, rst_sent>>

\* head_rx resolves: the response, the stream's error, or a dropped sender.
RequestResumes(r) ==
    LET id == stream_of[r] IN
    /\ req[r] = "waiting"
    /\ head[id] \in {"ok", "err", "dropped"}
    /\ IF head[id] = "ok"
       THEN /\ req' = [req EXCEPT ![r] = "done"]
            /\ body' = [body EXCEPT ![id] = "held"]
       ELSE /\ req' = [req EXCEPT ![r] = "failed"]
            /\ UNCHANGED body
    /\ UNCHANGED <<conn_vars, stream_vars, stream_of, chunk_left, reading, upload_ledger,
                   download_ledger, conn_send_window, pings, slot_waiters, closed, pump,
                   rst_sent>>

\* The application drops the future of request(): no code runs, a parked
\* sender stays in slot_waiters and an opened stream stays in the map.
RequestCancelled(r) ==
    /\ "CANCEL" \in Inputs
    /\ req[r] \in {"parked", "waiting"}
    /\ req' = [req EXCEPT ![r] = "cancelled"]
    /\ UNCHANGED <<conn_vars, stream_vars, stream_of, chunk_left, reading, upload_ledger,
                   download_ledger, conn_send_window, pings, slot_waiters, closed, pump, body,
                   rst_sent>>

-----------------------------------------------------------------------------
(* pump_body and pump_chunk *)

\* The body stream yields a chunk (an empty one is skipped).
PumpTakesChunk(id, n) ==
    /\ pump[id] = "chunk"
    /\ fed[id] + n <= MaxUpload
    /\ chunk_left' = [chunk_left EXCEPT ![id] = n]
    /\ fed' = [fed EXCEPT ![id] = @ + n]
    /\ pump' = [pump EXCEPT ![id] = "window"]
    /\ UNCHANGED <<conn_vars, stream_vars, req_vars, reading, sent, end_sent, granted,
                   conn_sent, conn_granted, download_ledger, conn_send_window, pings,
                   slot_waiters, closed, body, rst_sent>>

\* The body stream ends: half-close the stream if it is still in the map.
PumpFinishes(id) ==
    /\ pump[id] = "chunk"
    /\ pump' = [pump EXCEPT ![id] = "done"]
    /\ end_sent' = IF id \in streams THEN end_sent \cup {id} ELSE end_sent
    /\ local_closed' = IF id \in streams THEN local_closed \cup {id} ELSE local_closed
    /\ UNCHANGED remote_closed
    /\ retire_if_fully_closed(id, head)
    /\ UNCHANGED <<conn_vars, got_head, send_window, recv_vars, task_vars, fed, sent, granted,
                   conn_sent, conn_granted, download_ledger, conn_send_window, pings, closed,
                   body, rst_sent>>

\* Faulty: a pump looks only at the connection.
ConnectionGone(id) == closed

\* The upload was torn down: no END_STREAM.
StreamGone(id) == closed \/ id \notin streams \/ send_window[id].closed

PumpAborts(id) ==
    /\ pump[id] = "window"
    /\ StreamGone(id)
    /\ pump' = [pump EXCEPT ![id] = "done"]
    /\ UNCHANGED <<conn_vars, stream_vars, task_vars, upload_ledger, download_ledger,
                   conn_send_window, pings, slot_waiters, closed, body, rst_sent>>

\* A window is exhausted: park a waker on each one that is.
PumpParks(id) ==
    /\ pump[id] = "window"
    /\ ~StreamGone(id)
    /\ ~is_ready(conn_send_window) \/ ~is_ready(send_window[id])
    /\ conn_send_window' = IF is_ready(conn_send_window) THEN conn_send_window
                           ELSE register_waker(conn_send_window, id)
    /\ send_window' = IF is_ready(send_window[id]) THEN send_window
                      ELSE [send_window EXCEPT ![id] = register_waker(send_window[id], id)]
    /\ pump' = [pump EXCEPT ![id] = "parked"]
    /\ UNCHANGED <<conn_vars, streams, got_head, local_closed, remote_closed, head, recv_vars,
                   task_vars, upload_ledger, download_ledger, pings, slot_waiters, closed,
                   body, rst_sent>>

Least(a, b) == IF a <= b THEN a ELSE b

\* Faulty: the connection window is not consulted.
grant_of_stream(id) ==
    Least(chunk_left[id], Least(send_window[id].available, remote.max_frame_size))

\* Faulty: a whole frame, whatever is left of the chunk.
grant_of_frame(id) == remote.max_frame_size

grant(id) ==
    Least(Least(chunk_left[id], conn_send_window.available),
          Least(send_window[id].available, remote.max_frame_size))

\* Faulty: one frame per chunk.
pump_after_frame(id, n) == "chunk"

\* The pump sends the rest of its chunk before it asks for the next.
pump_after(id, n) == IF chunk_left[id] = n THEN "chunk" ELSE "window"

\* Both windows are positive: send one DATA frame.
PumpSends(id) ==
    LET n == grant(id) IN
    /\ pump[id] = "window"
    /\ ~StreamGone(id)
    /\ is_ready(conn_send_window) /\ is_ready(send_window[id])
    /\ conn_send_window' = consume(conn_send_window, n)
    /\ send_window' = [send_window EXCEPT ![id] = consume(send_window[id], n)]
    /\ chunk_left' = [chunk_left EXCEPT ![id] = @ - n]
    /\ pump' = [pump EXCEPT ![id] = pump_after(id, n)]
    /\ sent' = [sent EXCEPT ![id] = @ + n]
    /\ conn_sent' = conn_sent + n
    /\ UNCHANGED <<conn_vars, streams, got_head, local_closed, remote_closed, head, recv_vars,
                   req_vars, reading, fed, end_sent, granted, conn_granted, download_ledger,
                   pings, slot_waiters, closed, body, rst_sent>>

-----------------------------------------------------------------------------
(* ResponseBody: poll_next and drop *)

\* A chunk is delivered and its bytes go back to the receive windows.  Chunk
\* boundaries are abstracted to any part of what is buffered.
ReadChunk(id, n) ==
    /\ body[id] = "held"
    /\ n <= buffered[id]
    /\ buffered' = [buffered EXCEPT ![id] = @ - n]
    /\ replenish_recv_window(id, n)
    /\ UNCHANGED <<conn_vars, streams, got_head, local_closed, remote_closed, send_window,
                   head, ended, recv_error, recv_waker, task_vars, upload_ledger, rx,
                   conn_send_window, pings, slot_waiters, closed, pump, body, rst_sent>>

\* The queue is empty: the error (taken), then the end, else park the waker.
ReadTail(id) ==
    /\ body[id] = "held"
    /\ buffered[id] = 0
    /\ \/ /\ id \in recv_error
          /\ recv_error' = recv_error \ {id}
          /\ body' = [body EXCEPT ![id] = "failed"]
          /\ UNCHANGED recv_waker
       \/ /\ id \notin recv_error /\ id \in ended
          /\ body' = [body EXCEPT ![id] = "eof"]
          /\ UNCHANGED <<recv_error, recv_waker>>
       \/ /\ id \notin recv_error /\ id \notin ended
          /\ recv_waker' = recv_waker \cup {id}
          /\ body' = [body EXCEPT ![id] = "parked"]
          /\ UNCHANGED recv_error
    /\ UNCHANGED <<conn_vars, streams, got_head, local_closed, remote_closed, send_window,
                   head, buffered, ended, task_vars, upload_ledger, download_ledger,
                   conn_send_window, pings, slot_waiters, closed, pump, rst_sent>>

\* Dropping the body returns what is still buffered and cancels the stream if
\* it has not ended.
DropBody(id) ==
    /\ body[id] \in {"held", "parked", "failed", "eof"}
    /\ body' = [body EXCEPT ![id] = "dropped"]
    /\ replenish_recv_window(id, buffered[id])
    /\ IF id \in ended
       THEN UNCHANGED <<stream_vars, conn_send_window, slot_waiters, pump, rst_sent>>
       ELSE reset_stream(id)
    /\ UNCHANGED <<conn_vars, task_vars, upload_ledger, rx, pings, closed>>

-----------------------------------------------------------------------------
(* ping() and close() *)

Ping ==
    /\ "PING" \in Inputs
    /\ ~closed
    /\ ping_counter < MaxPings
    /\ ping_counter' = ping_counter + 1
    /\ pings' = [pings EXCEPT ![ping_counter + 1] = "pending"]
    /\ UNCHANGED <<next_stream_id, remote, pending_header_block, goaway_received,
                   highest_promised, stream_vars, task_vars, upload_ledger, download_ledger,
                   conn_send_window, slot_waiters, closed, pump, body, rst_sent>>

Close ==
    /\ "CLOSE" \in Inputs
    /\ ~closed
    /\ destroy(send_window)            \* after a GOAWAY
    /\ WakePumps
    /\ WakeReaders
    /\ UNCHANGED <<conn_vars, task_vars, upload_ledger, download_ledger, rst_sent>>

-----------------------------------------------------------------------------
(* dispatch(): one frame of the peer.  SETTINGS acks, PING requests (answered *)
(* at once) and PRIORITY change no state and are left out.                    *)

\* The read loop is up and the frame is not an interrupted header block.
Dispatching == reading /\ pending_header_block = None

\* The order of frames that a conforming peer keeps on a stream it knows.
PeerMaySendData(id) ==
    id \in streams /\ "ROGUE" \notin Inputs => id \in got_head \ remote_closed

PeerMaySendHeaders(id, end_stream) ==
    id \in streams /\ "ROGUE" \notin Inputs =>
        id \notin remote_closed /\ (id \in got_head => end_stream)

RecvSettings(iw, mfs, mcs) ==
    LET windows == IF iw = None THEN send_window
                   ELSE [i \in StreamIds |->
                            IF i \in streams
                            THEN adjust(send_window[i], iw - remote.initial_window_size)
                            ELSE send_window[i]]
        settings(f, l) ==
            [initial_window_size |-> IF iw = None THEN remote.initial_window_size ELSE iw,
             max_frame_size |-> IF f = None THEN remote.max_frame_size ELSE f,
             max_concurrent_streams |->
                IF l = None THEN remote.max_concurrent_streams ELSE l]
        bad_window == iw # None /\ iw > MAX_WINDOW
        bad_frame == mfs # None /\ mfs \notin MIN_FRAME_SIZE..MAX_FRAME_SIZE
    IN
    /\ Dispatching
    /\ \/ /\ bad_window
          /\ connection_error(send_window)
          /\ UNCHANGED remote
       \/ /\ ~bad_window /\ bad_frame
          /\ connection_error(windows)
          /\ remote' = settings(None, None)
       \/ /\ ~bad_window /\ ~bad_frame
          /\ remote' = settings(mfs, mcs)
          /\ send_window' = windows
          /\ slot_waiters' = IF mcs = None THEN slot_waiters ELSE {}
          /\ UNCHANGED <<streams, got_head, local_closed, remote_closed, head, recv_vars,
                         conn_send_window, closed, pings, task_vars, upload_ledger, download_ledger, body, rst_sent>>
          /\ WakePumps
    /\ UNCHANGED <<next_stream_id, pending_header_block, ping_counter, goaway_received,
                   highest_promised>>

\* A complete response block: the final head (an interim one is ignored), or
\* trailers once the head arrived.
receive_headers(id, end_stream, interim) ==
    LET final == id \in streams /\ ~interim
        ends == id \in streams /\ end_stream
        heads == IF final /\ id \notin got_head THEN [head EXCEPT ![id] = "ok"] ELSE head
    IN  /\ got_head' = IF final THEN got_head \cup {id} ELSE got_head
        /\ remote_closed' = IF ends THEN remote_closed \cup {id} ELSE remote_closed
        /\ UNCHANGED local_closed
        /\ ended' = IF ends /\ final THEN ended \cup {id} ELSE ended
        /\ recv_waker' = IF ends /\ final /\ id \notin ended THEN recv_waker \ {id}
                                                            ELSE recv_waker
        /\ UNCHANGED <<buffered, recv_error>>
        /\ IF end_stream THEN retire_if_fully_closed(id, heads)
                         ELSE head' = heads /\ UNCHANGED <<streams, slot_waiters>>

\* The fragments of pb are decoded; the decoder may reject them.
complete_header_block(pb) ==
    \/ /\ "MALFORMED" \in Inputs
       /\ connection_error(send_window)
       /\ UNCHANGED highest_promised
    \/ /\ pb.kind = "response"
       /\ \E interim \in BOOLEAN :
            /\ interim => pb.stream_id \notin got_head
            /\ interim /\ pb.end_stream => "ROGUE" \in Inputs
            /\ receive_headers(pb.stream_id, pb.end_stream, interim)
       /\ UNCHANGED <<highest_promised, send_window, conn_send_window, closed, pings,
                      task_vars, upload_ledger, download_ledger, pump, rst_sent>>
       /\ WakeReaders
    \/ /\ pb.kind = "push"      \* refused with RST_STREAM
       /\ highest_promised' = IF pb.promised_stream_id > highest_promised
                              THEN pb.promised_stream_id ELSE highest_promised
       /\ UNCHANGED <<stream_vars, conn_send_window, closed, pings, slot_waiters, pump, body,
                      task_vars, upload_ledger, download_ledger, rst_sent>>

\* Faulty: off by one.
guard_exclusive(pb) == pb.size <= MAX_HEADER_BLOCK_SIZE + 1

guard_header_block_size(pb) == pb.size <= MAX_HEADER_BLOCK_SIZE

\* The end of the HEADERS, PUSH_PROMISE and CONTINUATION handlers.
AcceptFragment(pb, end_headers) ==
    /\ \/ /\ ~guard_header_block_size(pb)
          /\ pending_header_block' = pb
          /\ connection_error(send_window)
          /\ UNCHANGED highest_promised
       \/ /\ guard_header_block_size(pb) /\ ~end_headers
          /\ pending_header_block' = pb
          /\ UNCHANGED <<highest_promised, stream_vars, conn_send_window, closed, pings,
                         slot_waiters, pump, body, task_vars, upload_ledger,
                         download_ledger, rst_sent>>
       \/ /\ guard_header_block_size(pb) /\ end_headers
          /\ pending_header_block' = None
          /\ complete_header_block(pb)
    /\ UNCHANGED <<next_stream_id, remote, ping_counter, goaway_received>>

RecvHeaders(id, size, end_stream, end_headers) ==
    /\ "HEADERS" \in Inputs
    /\ Dispatching
    /\ PeerMaySendHeaders(id, end_stream)
    /\ end_headers \/ "CONTINUATION" \in Inputs
    /\ AcceptFragment([stream_id |-> id, kind |-> "response", end_stream |-> end_stream,
                       promised_stream_id |-> 0, size |-> size], end_headers)

RecvPushPromise(id, promised, size, end_headers) ==
    /\ "PUSH_PROMISE" \in Inputs
    /\ Dispatching
    /\ end_headers \/ "CONTINUATION" \in Inputs
    /\ AcceptFragment([stream_id |-> id, kind |-> "push", end_stream |-> FALSE,
                       promised_stream_id |-> promised, size |-> size], end_headers)

RecvContinuation(id, size, end_headers) ==
    /\ reading
    /\ pending_header_block # None
    /\ pending_header_block.stream_id = id
    /\ LET pb == pending_header_block IN
       AcceptFragment([stream_id |-> id, kind |-> pb.kind, end_stream |-> pb.end_stream,
                       promised_stream_id |-> pb.promised_stream_id,
                       size |-> pb.size + size], end_headers)

RecvData(id, n, pad, end_stream) ==
    LET known == id \in streams
        accepted == known /\ id \notin recv_error /\ id \notin ended
    IN
    /\ "DATA" \in Inputs
    /\ Dispatching
    /\ PeerMaySendData(id)
    /\ rx[id] + n + pad <= MaxDownload
    /\ rx' = [rx EXCEPT ![id] = @ + n + pad]
    /\ buffered' = IF accepted THEN [buffered EXCEPT ![id] = @ + n] ELSE buffered
    /\ recv_waker' = IF known THEN recv_waker \ {id} ELSE recv_waker
    /\ IF known THEN UNCHANGED returned ELSE replenish_recv_window(id, n)
    /\ IF known /\ end_stream
       THEN /\ ended' = ended \cup {id}
            /\ remote_closed' = remote_closed \cup {id}
       ELSE UNCHANGED <<ended, remote_closed>>
    /\ UNCHANGED local_closed
    /\ IF end_stream THEN retire_if_fully_closed(id, head)
                     ELSE UNCHANGED <<streams, slot_waiters, head>>
    /\ UNCHANGED <<conn_vars, got_head, send_window, recv_error, task_vars, upload_ledger,
                   conn_send_window, pings, closed, pump, rst_sent>>
    /\ WakeReaders

\* The stream is removed and failed; nobody tells the slot waiters.
RecvRstStream(id) ==
    /\ "RST_STREAM" \in Inputs
    /\ Dispatching
    /\ id \in streams
    /\ fail({id}, send_window)
    /\ UNCHANGED <<conn_vars, task_vars, upload_ledger, download_ledger, conn_send_window,
                   pings, slot_waiters, closed, rst_sent>>
    /\ WakePumps
    /\ WakeReaders

RecvConnWindowUpdate(n) ==
    /\ "WINDOW_UPDATE" \in Inputs
    /\ Dispatching
    /\ conn_granted + n <= MaxGrant
    /\ conn_send_window' = update(conn_send_window, n)
    /\ conn_granted' = conn_granted + n
    /\ UNCHANGED <<conn_vars, stream_vars, task_vars, fed, sent, end_sent, granted, conn_sent,
                   download_ledger, pings, slot_waiters, closed, body, rst_sent>>
    /\ WakePumps

RecvWindowUpdate(id, n) ==
    /\ "WINDOW_UPDATE" \in Inputs
    /\ Dispatching
    /\ id \in streams
    /\ granted[id] + n <= MaxGrant
    /\ send_window' = [send_window EXCEPT ![id] = update(send_window[id], n)]
    /\ granted' = [granted EXCEPT ![id] = @ + n]
    /\ UNCHANGED <<conn_vars, streams, got_head, local_closed, remote_closed, head, recv_vars,
                   task_vars, fed, sent, end_sent, conn_sent, conn_granted, download_ledger,
                   conn_send_window, pings, slot_waiters, closed, body, rst_sent>>
    /\ WakePumps

\* A zero increment resets the stream, in the map or not.
RecvZeroWindowUpdate(id) ==
    /\ "ZERO_UPDATE" \in Inputs
    /\ Dispatching
    /\ id < next_stream_id \/ "ROGUE" \in Inputs
    /\ reset_stream(id)
    /\ WakeReaders
    /\ UNCHANGED <<conn_vars, task_vars, upload_ledger, download_ledger, pings, closed>>

RecvPingAck(p) ==
    /\ Dispatching
    /\ pings[p] = "pending"
    /\ pings' = [pings EXCEPT ![p] = "ok"]
    /\ UNCHANGED <<conn_vars, stream_vars, task_vars, upload_ledger, download_ledger,
                   conn_send_window, slot_waiters, closed, pump, body, rst_sent>>

\* The streams above last_stream_id fail, parked requests are woken to be
\* refused, and an error code tears the connection down.
RecvGoaway(last_stream_id, error) ==
    /\ "GOAWAY" \in Inputs
    /\ Dispatching
    /\ goaway_received' = TRUE
    /\ IF error /\ ~closed
       THEN destroy(send_window)
       ELSE /\ fail({i \in streams : i > last_stream_id}, send_window)
            /\ slot_waiters' = {}
            /\ UNCHANGED <<closed, conn_send_window, pings>>
    /\ UNCHANGED <<next_stream_id, remote, pending_header_block, ping_counter,
                   highest_promised, task_vars, upload_ledger, download_ledger, rst_sent>>
    /\ WakePumps
    /\ WakeReaders

\* Everything else that is a connection error: bytes the frame decoder
\* rejects, a frame other than CONTINUATION while a header block is pending, a
\* CONTINUATION for another stream or none, WINDOW_UPDATE(0) on stream 0.
RecvProtocolError ==
    /\ "MALFORMED" \in Inputs
    /\ reading
    /\ connection_error(send_window)
    /\ UNCHANGED conn_vars

-----------------------------------------------------------------------------
(* drive(): the read and write loops *)

DropPumps == pump' = [i \in StreamIds |-> IF pump[i] = "none" THEN "none" ELSE "done"]

\* The transport ends: the read loop tears down and returns.
ReadEof ==
    /\ "TRANSPORT" \in Inputs
    /\ reading
    /\ reading' = FALSE
    /\ destroy(send_window)
    /\ UNCHANGED <<conn_vars, req_vars, chunk_left, upload_ledger, download_ledger, rst_sent>>
    /\ WakePumps
    /\ WakeReaders

\* A write fails: tear down; the write loop returns and the driver with it.
WriteFails ==
    /\ "TRANSPORT" \in Inputs
    /\ ~closed
    /\ destroy(send_window)
    /\ reading' = FALSE
    /\ DropPumps
    /\ UNCHANGED <<conn_vars, req_vars, chunk_left, upload_ledger, download_ledger, rst_sent>>
    /\ WakeReaders

\* After a chunk that left the connection closed, the read loop returns.
ReadLoopEnds ==
    /\ reading /\ closed
    /\ reading' = FALSE
    /\ UNCHANGED <<conn_vars, stream_vars, req_vars, chunk_left, upload_ledger, download_ledger,
                   conn_send_window, pings, slot_waiters, closed, pump, body, rst_sent>>

\* The write loop drained the frames queued before the teardown: the driver
\* returns, dropping the read loop and the pumps wherever they are.
DriverEnds ==
    /\ closed
    /\ reading \/ \E i \in StreamIds : pump[i] \notin {"none", "done"}
    /\ reading' = FALSE
    /\ DropPumps
    /\ UNCHANGED <<conn_vars, stream_vars, req_vars, chunk_left, upload_ledger, download_ledger,
                   conn_send_window, pings, slot_waiters, closed, body, rst_sent>>

-----------------------------------------------------------------------------
(* Specification *)

OrNone(S) == IF "SETTINGS" \in Inputs THEN S \cup {None} ELSE {}

Application ==
    \/ \E r \in Requests :
        \/ RequestRefused(r)
        \/ RequestParks(r)
        \/ RequestOpens(r, FALSE)
        \/ "UPLOAD" \in Inputs /\ RequestOpens(r, TRUE)
        \/ RequestResumes(r)
        \/ RequestCancelled(r)
    \/ \E id \in StreamIds :
        \/ \E n \in ChunkSizes : PumpTakesChunk(id, n)
        \/ PumpFinishes(id)
        \/ \E n \in 1..MaxDownload : ReadChunk(id, n)
        \/ ReadTail(id)
        \/ DropBody(id)
    \/ Ping
    \/ Close

Driver ==
    \/ \E id \in StreamIds : PumpAborts(id) \/ PumpParks(id) \/ PumpSends(id)
    \/ ReadEof
    \/ WriteFails
    \/ ReadLoopEnds
    \/ DriverEnds

Peer ==
    \/ \E iw \in OrNone(WindowSizes), mfs \in OrNone(FrameSizes),
          mcs \in OrNone(StreamLimits) : RecvSettings(iw, mfs, mcs)
    \/ \E id \in StreamIds :
        \/ \E size \in FragmentSizes, end_headers \in BOOLEAN :
            \/ \E end_stream \in BOOLEAN : RecvHeaders(id, size, end_stream, end_headers)
            \/ \E promised \in PromisedIds : RecvPushPromise(id, promised, size, end_headers)
            \/ RecvContinuation(id, size, end_headers)
        \/ \E n \in DataSizes, pad \in {0, 1}, end_stream \in BOOLEAN :
            /\ pad = 0 \/ "PADDING" \in Inputs
            /\ RecvData(id, n, pad, end_stream)
        \/ RecvRstStream(id)
        \/ \E n \in Increments : RecvWindowUpdate(id, n)
        \/ RecvZeroWindowUpdate(id)
    \/ \E n \in Increments : RecvConnWindowUpdate(n)
    \/ \E p \in 1..MaxPings : RecvPingAck(p)
    \/ \E last \in StreamIds \cup {0}, error \in BOOLEAN : RecvGoaway(last, error)
    \/ RecvProtocolError

Next == Application \/ Driver \/ Peer

Spec == Init /\ [][Next]_vars

\* Tasks whose executor polls them once they are runnable: woken callers, and
\* pumps and the read loop on the driver.  The application's own moves (new
\* requests, reading, dropping, feeding a body) and the peer are not fair.
Fairness ==
    /\ \A r \in Requests :
        /\ WF_vars(req[r] = "parked" /\ RequestRefused(r))
        /\ WF_vars(RequestResumes(r))
    /\ \A i \in StreamIds : WF_vars(PumpAborts(i) \/ PumpParks(i) \/ PumpSends(i))

FairSpec == Spec /\ Fairness

-----------------------------------------------------------------------------
(* Upload: flow control and termination of the body *)

\* The DATA sent on the connection never exceeds the credit the peer granted,
\* whatever pumps share the window (pump_chunk, SendWindow::consume).
ConnectionCredit == conn_sent <= SPEC_INITIAL_WINDOW + conn_granted

\* A DATA frame fits the credit its stream has when it is sent, even after the
\* peer shrank SETTINGS_INITIAL_WINDOW_SIZE below what was already sent
\* (apply_remote_settings, SendWindow::adjust).
StreamCredit ==
    [][\A i \in StreamIds : sent'[i] > sent[i] =>
            sent'[i] <= remote.initial_window_size + granted[i]]_vars

\* A stream is half-closed only after the whole body was sent: an upload cut
\* short by a reset or a teardown never looks complete (pump_body, pump_chunk).
EndStreamMeansComplete == \A i \in StreamIds : i \in end_sent => sent[i] = fed[i]

\* No DATA after our END_STREAM or RST_STREAM, nor once closed.
NoDataAfterEnd ==
    [][\A i \in StreamIds : sent'[i] # sent[i] =>
            i \notin end_sent \cup rst_sent /\ ~closed]_vars

\* No lost wake-up for credit: a parked pump has a waker on a window that is
\* exhausted, so whatever makes both windows ready, or closes the connection,
\* wakes it (pump_chunk's poll_fn, SendWindow::wake).
PumpHasWaker ==
    \A i \in StreamIds : pump[i] = "parked" =>
        /\ ~closed
        /\ \/ i \in conn_send_window.wakers /\ ~is_ready(conn_send_window)
           \/ i \in send_window[i].wakers /\ ~is_ready(send_window[i])

-----------------------------------------------------------------------------
(* Requests and slots *)

\* A caller waiting for its head has a stream in the map, or its channel is
\* resolved already: no path that removes a stream forgets the caller.  A
\* caller parked for a slot is never left behind by a teardown or a GOAWAY.
RequestHasWaker ==
    \A r \in Requests :
        /\ req[r] = "waiting" /\ head[stream_of[r]] = "open" => stream_of[r] \in streams
        /\ req[r] = "parked" /\ r \in slot_waiters => ~closed /\ ~goaway_received

\* "request parks until a slot frees": a request is parked with no wake-up on
\* its way only while every slot of the peer's limit is taken.
ParkedMeansFull ==
    \A r \in Requests : req[r] = "parked" /\ r \in slot_waiters => ~can_open_stream

\* "woken waiters can't over-allocate": a step that opens a stream leaves no
\* more streams open than the peer allows, and none is opened after a GOAWAY
\* or a teardown, however long the caller was parked.
AdmissionRespected ==
    [][streams' \ streams # {} =>
            /\ Cardinality(streams') <= remote.max_concurrent_streams
            /\ ~goaway_received /\ ~closed]_vars

\* A stream both of whose directions ended has left the map, so it holds no slot.
FinishedStreamsLeave ==
    streams \cap local_closed \cap remote_closed = {}

\* A stream is reset by us at most while it is in the map: a body dropped
\* after its stream died does not reset it again (StreamState::fail).
ResetsAreForLiveStreams ==
    [][rst_sent' \ rst_sent \subseteq streams]_vars

-----------------------------------------------------------------------------
(* Download *)

\* A response body that ends without an error is complete: the peer sent its
\* END_STREAM (ResponseBody::poll_next, StreamState::fail).
EofMeansComplete == \A i \in StreamIds : body[i] = "eof" => i \in remote_closed

\* A reader that is parked has its waker in place, nothing to read, and a
\* stream in the map that will still end or fail.
ReaderHasWaker ==
    \A i \in StreamIds : body[i] = "parked" =>
        /\ i \in streams
        /\ i \in recv_waker /\ i \notin ended /\ i \notin recv_error /\ buffered[i] = 0

\* Received bytes that nobody has returned to the connection window yet.
Unread(i) == IF body[i] = "dropped" THEN 0 ELSE buffered[i]

\* Somebody can still read or drop the bytes buffered for stream i.
HasConsumer(i) ==
    \/ body[i] \in {"held", "parked"}
    \/ \E r \in Requests : req[r] = "waiting" /\ stream_of[r] = i /\ head[i] = "ok"

\* "an abandoned/retired stream can't leak it": while the connection is open,
\* each DATA byte received was returned on the connection window, or is
\* buffered where a consumer will return it.
RecvWindowConserved ==
    ~closed => \A i \in StreamIds :
        /\ rx[i] = returned[i] + Unread(i)
        /\ Unread(i) > 0 => HasConsumer(i)

-----------------------------------------------------------------------------
(* Teardown and header blocks *)

\* Once closed, nothing is left that waits for the connection: no stream, no
\* parked request, no unresolved head or ping, no parked pump.
ClosedIsQuiescent ==
    closed => /\ streams = {} /\ slot_waiters = {}
              /\ \A p \in 1..MaxPings : pings[p] # "pending"
              /\ \A i \in StreamIds : head[i] # "open" /\ pump[i] # "parked"

\* An open connection never holds more header block than its cap, however the
\* peer cuts the block into CONTINUATION frames.
PendingBlockBounded ==
    pending_header_block # None /\ ~closed =>
        pending_header_block.size <= MAX_HEADER_BLOCK_SIZE

-----------------------------------------------------------------------------
(* Liveness *)

\* A caller whose stream is gone is told, and a caller parked on a connection
\* that closed or is going away is refused.
RequestsSettle ==
    \A r \in Requests :
        /\ (req[r] = "waiting" /\ stream_of[r] \notin streams)
                ~> req[r] \in {"done", "failed", "cancelled"}
        /\ (req[r] = "parked" /\ (closed \/ goaway_received))
                ~> req[r] \in {"failed", "cancelled"}

\* An upload does not stall while there is credit: the pump finishes its chunk,
\* or runs one of its windows dry.
UploadProgress ==
    \A i \in StreamIds :
        pump[i] \in {"window", "parked"} ~>
            \/ pump[i] \notin {"window", "parked"}
            \/ conn_send_window.available <= 0
            \/ send_window[i].available <= 0
=============================================================================

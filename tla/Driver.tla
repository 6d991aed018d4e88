------------------------------- MODULE Driver -------------------------------
(***************************************************************************)
(* The driver of a connection of the Rust client (drive in connection.rs): *)
(* the read loop, which takes chunks of octets, however the transport cuts *)
(* them, and dispatches the frames in them; the write loop, which writes   *)
(* what was queued; and the ways a connection ends.                        *)
(*                                                                         *)
(* The peer's frames are for no stream of the client's: what frames do to  *)
(* a request is the subject of H2Connection.  Here it is what becomes of   *)
(* the octets, in both directions.  Header blocks are taken to decode      *)
(* (Hpack has them).                                                       *)
(***************************************************************************)
EXTENDS FrameCodec

CONSTANTS
    MAX_FRAME_SIZE_RANGE,    \* the values SETTINGS_MAX_FRAME_SIZE may have
    DEFAULT_MAX_FRAME_SIZE,  \* of the remote settings, before a SETTINGS
    MAX_HEADER_BLOCK_SIZE,   \* octets of a header block
    SPEC_INITIAL_WINDOW,     \* the connection window before a WINDOW_UPDATE
    Scenarios,               \* [options, wire]: ConnectOptions, and what the peer sends, a
                             \* sequence of [meant, octets]
    ChunkSizes,              \* octets of a chunk, besides all that is left
    BlockSizes,              \* octets of the header block of a request
    MaxPings,                \* bound: calls of ping
    MaxStreamId,             \* bound: the last stream opened
    Inputs                   \* "CLOSE", "EOF", "WRITE_ERROR": what may happen

ASSUME DriverAssumption ==
    /\ FRAME_HEADER_SIZE \in Nat \ {0}
    /\ MAX_FRAME_SIZE_RANGE \subseteq 1..MAX_LENGTH /\ DEFAULT_MAX_FRAME_SIZE \in MAX_FRAME_SIZE_RANGE
    /\ MAX_HEADER_BLOCK_SIZE \in Nat /\ SPEC_INITIAL_WINDOW \in Nat
    /\ MaxPings \in Nat /\ MaxStreamId \in Ids
    /\ BlockSizes \subseteq Nat \ {0} /\ ChunkSizes \subseteq Nat
    /\ Inputs \subseteq {"CLOSE", "EOF", "WRITE_ERROR"}

\* What the peer sends is a sequence of frames, with the words that their types have.
ASSUME ScenarioAssumption ==
    \A sc \in Scenarios :
        /\ sc.options \in [header_table_size : Nat, enable_push : BOOLEAN, initial_window_size : Nat,
                           max_frame_size : Nat, connection_window_size : Nat]
        /\ sc.options.connection_window_size < 2 * HIGH_BIT
        /\ sc.wire \in Seq(Range(sc.wire))
        /\ \A i \in DOMAIN sc.wire :
            LET w == sc.wire[i].octets IN
            /\ w \in WireFrames
            /\ w.type \in {"PING", "PUSH_PROMISE"} => Len(w.words) > 0

VARIABLES
    options,    \* [header_table_size, enable_push, initial_window_size,
                \*  max_frame_size, connection_window_size]
    wire,       \* what the peer sends, in all
    unread,     \* octets of it that the transport has not handed over
    decoder,    \* FrameDecoder: [read, held], frames taken and octets of `pending`
    conn,       \* ConnState: [closed, going_away, block, promised, max_frame_size,
                \*  next_stream_id, ping_counter]
    log,        \* frames dispatched
    out,        \* frames in the outbound channel, serialised
    writing,    \* the one that writer.send holds, or None
    written,    \* those the transport took
    queued,     \* the frames that were put in the channel, as they were meant
    driver,     \* "running", or the future of drive is done: "ended", or "failed" when
                \* the transport refused a frame
    reading,    \* the read loop has not ended
    cause       \* how the connection was closed, or None

write_vars == <<out, writing, written, driver>>
vars == <<options, wire, unread, decoder, conn, log, write_vars, queued, reading, cause>>

-----------------------------------------------------------------------------
(* ConnState.  State s is what a call works on: [conn, log, out, queued, cause]  *)
(* and err, the error that dispatch returned or None.                            *)

State == [conn |-> conn, log |-> log, out |-> out, queued |-> queued, cause |-> cause, err |-> None]

Becomes(s) ==
    /\ conn' = s.conn /\ log' = s.log
    /\ out' = s.out /\ queued' = s.queued /\ cause' = s.cause

\* send_frame, write_raw: nothing is queued once the connection is closed.
send_frame(s, f) ==
    IF s.conn.closed THEN s
    ELSE [s EXCEPT !.out = Append(@, serialize_frame(f)), !.queued = Append(@, f)]

\* destroy.  The sender is dropped, so the write loop ends when the channel is empty.
destroy(s, why) ==
    IF s.conn.closed THEN s ELSE [s EXCEPT !.conn.closed = TRUE, !.cause = why]

\* The wire values of the error codes that appear here.
ErrorCode == [NO_ERROR |-> 0, PROTOCOL_ERROR |-> 1, FLOW_CONTROL_ERROR |-> 3, FRAME_SIZE_ERROR |-> 6,
              REFUSED_STREAM |-> 7, ENHANCE_YOUR_CALM |-> 11]

code_word(code) == word32(ErrorCode[code])

goaway(s, code) ==
    [type |-> "GOAWAY", last |-> s.conn.promised, code |-> code_word(code), data |-> 0]

\* connection_error
connection_error(s, code) == destroy(send_frame(s, goaway(s, code)), code)

fail(s, code) == [s EXCEPT !.err = code]

\* apply_remote_settings
apply_remote_settings(s, v) ==
    IF v[4] # None /\ v[4][1] = 1 THEN fail(s, "FLOW_CONTROL_ERROR")
    ELSE IF v[5] = None THEN s
    ELSE IF v[5][1] = 0 /\ v[5][2] \in MAX_FRAME_SIZE_RANGE
    THEN [s EXCEPT !.conn.max_frame_size = v[5][2]]
    ELSE fail(s, "PROTOCOL_ERROR")

\* reset_stream, of a stream that is not there.
reset_stream(s, stream, code) ==
    send_frame(s, [type |-> "RST_STREAM", stream |-> stream, code |-> code_word(code)])

\* complete_header_block: a response for no stream is dropped, a push is refused.
complete_header_block(s) ==
    LET promised == s.conn.block.promised
        t == [s EXCEPT !.conn.block = None] IN
    IF promised = None THEN t
    ELSE reset_stream([t EXCEPT !.conn.promised = IF promised > @ THEN promised ELSE @],
                      promised, "REFUSED_STREAM")

\* The block so far, its size checked (guard_header_block_size), and completed by the
\* frame that ends it.
header_block(s, b, end_headers) ==
    LET t == [s EXCEPT !.conn.block = b] IN
    IF b.size > MAX_HEADER_BLOCK_SIZE THEN fail(t, "ENHANCE_YOUR_CALM")
    ELSE IF end_headers THEN complete_header_block(t) ELSE t

\* The match of dispatch.  What only a stream of the client's would notice is left
\* out: RST_STREAM, PRIORITY, acknowledgements, WINDOW_UPDATE with an increment.
handle(s, f) ==
    CASE f.type = "SETTINGS" /\ ~f.ack ->
            LET t == apply_remote_settings(s, f.settings) IN
            IF t.err # None THEN t
            ELSE send_frame(t, [type |-> "SETTINGS", ack |-> TRUE, settings |-> NoSettings])
      [] f.type = "HEADERS" ->
            header_block(s, [stream |-> f.stream, promised |-> None, size |-> f.data], f.end_headers)
      [] f.type = "PUSH_PROMISE" ->
            header_block(s, [stream |-> f.stream, promised |-> f.promised, size |-> f.data], f.end_headers)
      [] f.type = "CONTINUATION" ->
            IF s.conn.block # None /\ s.conn.block.stream = f.stream
            THEN header_block(s, [s.conn.block EXCEPT !.size = @ + f.data], f.end_headers)
            ELSE fail(s, "PROTOCOL_ERROR")
      [] f.type = "DATA" /\ f.data > 0 ->
            send_frame(s, [type |-> "WINDOW_UPDATE", stream |-> 0, increment |-> f.data])
      [] f.type = "WINDOW_UPDATE" /\ f.increment = 0 ->
            IF f.stream = 0 THEN fail(s, "PROTOCOL_ERROR") ELSE reset_stream(s, f.stream, "PROTOCOL_ERROR")
      [] f.type = "PING" /\ ~f.ack -> send_frame(s, [f EXCEPT !.ack = TRUE])
      [] f.type = "GOAWAY" ->
            LET t == [s EXCEPT !.conn.going_away = TRUE] IN
            IF f.code # word32(0) THEN destroy(t, "GOAWAY") ELSE t
      [] OTHER -> s

\* dispatch.  Once it has failed, the loop around it does nothing more.
dispatch(s, f) ==
    IF s.err # None THEN s
    ELSE LET t == [s EXCEPT !.log = Append(@, f)] IN
         IF s.conn.block # None /\ f.type # "CONTINUATION" THEN fail(t, "PROTOCOL_ERROR")
         ELSE handle(t, f)

\* The loop of on_bytes: an error ends it, a GOAWAY that closes the connection does not.
dispatch_all(s, frames) ==
    LET t[n \in 0..Len(frames)] == IF n = 0 THEN s ELSE dispatch(t[n - 1], frames[n]) IN
    t[Len(frames)]

\* on_bytes, given what push returned.
on_bytes(s, r) ==
    LET t == dispatch_all(s, r.frames) IN
    IF r.error # None THEN connection_error(s, r.error)
    ELSE IF t.err # None THEN connection_error(t, t.err)
    ELSE t

-----------------------------------------------------------------------------
(* The driver *)

Octets == [i \in DOMAIN wire |-> wire[i].octets]

Running == driver = "running"

\* The read loop takes a chunk, however long, and ends if the connection is closed.
\* An empty one only makes it look at that.
ReadChunk(n) ==
    LET r == push(SubSeq(Octets, decoder.read + 1, Len(wire)), decoder.held + n, options.max_frame_size)
        s == IF n = 0 THEN State ELSE on_bytes(State, r) IN
    /\ Running /\ reading /\ n <= unread
    /\ unread' = unread - n
    /\ decoder' = IF n = 0 THEN decoder ELSE [read |-> decoder.read + r.read, held |-> r.held]
    /\ Becomes(s)
    /\ reading' = ~s.conn.closed
    /\ UNCHANGED <<options, wire, writing, written, driver>>

\* The transport ends, at any point of the stream.
ReadEof ==
    /\ "EOF" \in Inputs /\ Running /\ reading
    /\ Becomes(destroy(State, "EOF"))
    /\ reading' = FALSE
    /\ UNCHANGED <<options, wire, unread, decoder, writing, written, driver>>

\* The write loop takes a frame from the channel and gives it to the transport.
TakeFrame ==
    /\ Running /\ writing = None /\ out # <<>>
    /\ writing' = Head(out) /\ out' = Tail(out)
    /\ UNCHANGED <<options, wire, unread, decoder, conn, log, written, driver, queued, reading, cause>>

WriteDone ==
    /\ Running /\ writing # None
    /\ written' = Append(written, writing) /\ writing' = None
    /\ UNCHANGED <<options, wire, unread, decoder, conn, log, out, driver, queued, reading, cause>>

\* The transport fails: the write loop, and with it the driver, ends.
WriteFails ==
    /\ "WRITE_ERROR" \in Inputs /\ Running /\ writing # None
    /\ Becomes(destroy(State, "WRITE_ERROR"))
    /\ writing' = None /\ driver' = "failed"
    /\ UNCHANGED <<options, wire, unread, decoder, written, reading>>

\* Faulty: the driver ends as soon as the connection is closed.
may_end_early == conn.closed

\* Faulty: the driver also waits for the read loop.
may_end_with_reader == conn.closed /\ out = <<>> /\ writing = None /\ ~reading

\* The channel is empty and its sender is dropped.
may_end == conn.closed /\ out = <<>> /\ writing = None

DriverEnds ==
    /\ Running /\ may_end
    /\ driver' = "ended"
    /\ UNCHANGED <<options, wire, unread, decoder, conn, log, out, writing, written, queued, reading, cause>>

-----------------------------------------------------------------------------
(* The application *)

\* A call that only changes what State has.
Call(s) == Becomes(s) /\ UNCHANGED <<options, wire, unread, decoder, writing, written, driver, reading>>

\* Faulty: every CONTINUATION ends the block.
pieces_closed(id, n, max) ==
    [k \in 1..(n + max - 1) \div max |->
        LET size == IF k * max <= n THEN max ELSE n - (k - 1) * max IN
        IF k = 1 THEN [type |-> "HEADERS", stream |-> id, data |-> size, end_stream |-> TRUE,
                       end_headers |-> n <= max, priority |-> None]
        ELSE [type |-> "CONTINUATION", stream |-> id, data |-> size, end_headers |-> TRUE]]

\* The frames of send_headers, for a block of n octets.
pieces(id, n, max) ==
    [k \in 1..(n + max - 1) \div max |->
        LET size == IF k * max <= n THEN max ELSE n - (k - 1) * max IN
        IF k = 1 THEN [type |-> "HEADERS", stream |-> id, data |-> size, end_stream |-> TRUE,
                       end_headers |-> n <= max, priority |-> None]
        ELSE [type |-> "CONTINUATION", stream |-> id, data |-> size, end_headers |-> k * max >= n]]

\* send_frame of one after the other; nothing closes the connection between them.
send_frames(s, fs) ==
    IF s.conn.closed THEN s
    ELSE [s EXCEPT !.out = @ \o [i \in DOMAIN fs |-> serialize_frame(fs[i])], !.queued = @ \o fs]

\* request(), without a body, up to its first await; the peer sets no limit on streams.
Request(n) ==
    /\ ~conn.closed /\ ~conn.going_away /\ conn.next_stream_id <= MaxStreamId
    /\ LET s == [State EXCEPT !.conn.next_stream_id = @ + 2] IN
       Call(send_frames(s, pieces(conn.next_stream_id, n, conn.max_frame_size)))

\* ping(), up to its await.  The counter is a u32, in the last octets of the frame.
Ping ==
    /\ ~conn.closed /\ conn.ping_counter < MaxPings
    /\ LET s == [State EXCEPT !.conn.ping_counter = @ + 1] IN
       Call(send_frame(s, [type |-> "PING", ack |-> FALSE, opaque |-> word32(s.conn.ping_counter)]))

\* close()
Close ==
    /\ "CLOSE" \in Inputs /\ ~conn.closed
    /\ Call(destroy(send_frame(State, goaway(State, "NO_ERROR")), "NO_ERROR"))

-----------------------------------------------------------------------------

Preface == [type |-> "PREFACE"]

\* None is none of the values it stands beside.
ASSUME NoneAssumption ==
    /\ None \notin BOOLEAN \cup Nat \cup Words \cup WireForms(Types) \cup {Preface}
    /\ \A code \in DOMAIN ErrorCode : None # code /\ None # Error(code)

\* What connect queues, besides the preface.  The options that are usize are cut to u32.
Opening(o) ==
    LET grow == o.connection_window_size - SPEC_INITIAL_WINDOW IN
    <<[type |-> "SETTINGS", ack |-> FALSE,
       settings |-> <<word32(o.header_table_size), o.enable_push, None,
                      word32(o.initial_window_size), word32(o.max_frame_size), None>>]>>
    \o IF grow > 0 THEN <<[type |-> "WINDOW_UPDATE", stream |-> 0, increment |-> grow]>> ELSE <<>>

\* connect
Init ==
    /\ \E sc \in Scenarios : options = sc.options /\ wire = sc.wire
    /\ unread = octets(Octets, Len(wire))
    /\ decoder = [read |-> 0, held |-> 0]
    /\ conn = [closed |-> FALSE, going_away |-> FALSE, block |-> None, promised |-> 0,
               max_frame_size |-> DEFAULT_MAX_FRAME_SIZE, next_stream_id |-> 1, ping_counter |-> 0]
    /\ queued = <<Preface>> \o Opening(options)
    /\ out = [i \in DOMAIN queued |-> IF i = 1 THEN Preface ELSE serialize_frame(queued[i])]
    /\ log = <<>> /\ writing = None /\ written = <<>>
    /\ driver = "running" /\ reading = TRUE /\ cause = None

Write == TakeFrame \/ WriteDone \/ DriverEnds

Next ==
    \/ \E n \in ChunkSizes \cup {unread} : ReadChunk(n)
    \/ ReadEof
    \/ Write \/ WriteFails
    \/ Ping \/ Close
    \/ \E n \in BlockSizes : Request(n)

Spec == Init /\ [][Next]_vars

\* The transport takes, or refuses, what the write loop gives it.
FairSpec == Spec /\ WF_vars(Write)

-----------------------------------------------------------------------------
(* Properties *)

TypeOK ==
    /\ unread \in Nat /\ decoder.read \in 0..Len(wire) /\ decoder.held \in Nat
    /\ conn.max_frame_size \in MAX_FRAME_SIZE_RANGE
    /\ conn.block # None => conn.block.size \in Nat
    /\ driver \in {"running", "ended", "failed"} /\ reading \in BOOLEAN
    /\ cause \in DOMAIN ErrorCode \cup {None, "GOAWAY", "EOF", "WRITE_ERROR"}

Arrived == octets(Octets, Len(wire)) - unread

\* The first frame that is a connection error, or one past the end.
FirstBad ==
    LET bad == {i \in DOMAIN wire : IsError(wire[i].meant)} \cup {Len(wire) + 1} IN
    CHOOSE i \in bad : \A j \in bad : i <= j

\* What the peer meant by its first n frames.
Meant(n) ==
    LET m == IF n < FirstBad THEN n ELSE FirstBad - 1 IN
    present([i \in DOMAIN wire |-> wire[i].meant], m)

\* However the octets are cut into chunks, frames are dispatched in order and as the
\* peer meant them: all that have arrived in full while the connection is open, and it
\* is open only until the header of a frame that is too long, or the whole of one that
\* is a connection error, has arrived (push, parse_payload, on_bytes).
\* Once it is closed, what was dispatched is some first part of what was meant: the
\* frames that share a chunk with a bad one are dropped with it, so how much depends on
\* the chunks.  A PRIORITY of the wrong length is an error of its stream only: it is
\* meant as no frame, and nothing here asks that it should close the connection, as it
\* does.
DispatchedAsMeant ==
    LET n == complete(Octets, Arrived) IN
    /\ IsPrefix(log, Meant(Len(wire)))
    /\ ~conn.closed =>
        /\ n < FirstBad /\ log = Meant(n)
        /\ FirstBad \in DOMAIN wire /\ Octets[FirstBad].length > options.max_frame_size =>
              Arrived < octets(Octets, FirstBad - 1) + FRAME_HEADER_SIZE
        /\ decoder.held = Arrived - octets(Octets, n)

\* The decoder never holds as much as a header and the largest payload it accepts,
\* whatever length a header announces (push).  (With the types of the state.)
BufferBounded == TypeOK /\ decoder.held < FRAME_HEADER_SIZE + options.max_frame_size

\* What the transport has taken, is taking and will take.
Outbound == written \o (IF writing = None THEN <<>> ELSE <<writing>>) \o out

\* A frame without the high bit of its increment.
Masked(f) == IF f.type = "WINDOW_UPDATE" THEN [f EXCEPT !.increment = @ % HIGH_BIT] ELSE f

\* The peer reads the frames that were queued, in their order: after the preface a
\* SETTINGS frame, and a header block in adjacent frames up to one that ends it
\* (send_frame, serialize_frame, send_headers, the write loop).  One frame may lose
\* something: the third, with which connect asks for a larger connection window, is read
\* without the high bit of an increment above 2^31 - 1.
PeerReadsAsQueued ==
    /\ driver # "failed" =>
        /\ Len(Outbound) = Len(queued)
        /\ \A i \in 2..Len(queued) :
              /\ parse_payload(Outbound[i]) = Masked(queued[i])
              /\ Masked(queued[i]) = queued[i] \/ i = 3
    /\ Len(written) >= 2 => written[1] = Preface /\ written[2].type = "SETTINGS"
    /\ \A i \in 2..Len(queued) :
        (queued[i].type = "CONTINUATION") <=>
            /\ queued[i - 1].type \in {"HEADERS", "CONTINUATION"}
            /\ ~queued[i - 1].end_headers

\* Unless the transport failed, a driver that ended has written all that was queued,
\* and last of all, if the client ended the connection, a GOAWAY with its reason
\* (connection_error, close, destroy, the write loop).
GoawayIsWritten ==
    driver = "ended" =>
        /\ Len(written) = Len(queued)
        /\ cause \in DOMAIN ErrorCode =>
            LET f == parse_payload(Last(written)) IN f.type = "GOAWAY" /\ f.code = code_word(cause)

\* A connection that is closed, in whatever way, ends its driver (destroy, drive).
ClosedDriverEnds == conn.closed ~> driver # "running"
=============================================================================

# Verification of h2ts

h2ts carries HTTP/2 over a WebSocket: a client (Rust and TypeScript) speaks
HTTP/2 with prior knowledge over any byte transport, and a server (Rust and Go)
accepts the WebSocket and hands its bytes to an HTTP/2 server or an upstream TCP
connection. This directory holds TLA+ models of the parts that carry state, the
TLC configurations that check them on small instances, and TLAPS proofs.

## The system's parts

| part | source | state it keeps | operations | hard behaviour |
|---|---|---|---|---|
| client connection (Rust) | `rust/crates/h2ts-client/src/connection.rs` | streams map, stream and connection windows, peer settings, pending header block, pings, slot waiters, teardown flags | `request`, `ping`, `close`, reading and dropping a `ResponseBody`, `pump_body`, `dispatch` of each frame, the read/write/task loops of `drive` | tasks interleave at every await; wake-ups; two flow-control windows per pump; one-sided closes; teardown from five places |
| send window (Rust) | `.../flow.rs` | credit, parked wakers, closed | `update`, `adjust`, `consume`, `register_waker`, `close` | negative credit, lost wake-ups |
| connection pool (Rust) | `.../pool.rs` | connections, `opening`, waiters | `request`, `open_one`, `close` | single-flight open, cancellation, stale choice of connection |
| frame codec, HPACK (Rust) | `.../frames.rs`, `.../hpack/` | partial frame; dynamic tables | `FrameDecoder::push`, `parse_payload`; encode, decode | re-chunking, padding, table synchronisation |
| WebSocket bridge (Rust) | `rust/crates/h2ts-server/src/wslay.rs` | wslay context, inbound/outbound buffers, last activity | four concurrent directions: ws to peer, peer to ws, control, keep-alive | one context shared across awaits, close handshake, time-outs |
| idle reaper (Rust) | `.../idle.rs` | open-stream count | `enter`, guard drop, `wait_idle` | activity racing the deadline |
| handshake (Rust, Go) | `.../handshake.rs`, `go/server/handshake.go` | none | `accept`, `accept_with`, `accept_with_options`; hyper's upgrade comes later or fails | subprotocol selection, case, several header lines |
| server connection (Go) | `go/server/conn.go`, `serve.go` | frame state, close state, deadlines | `Read`, `Write`, `Close` | control frames inside reads, concurrent writes |
| client connection (TypeScript) | `typescript/client/src/connection.ts`, `stream.ts`, `flow.ts` | as the Rust client | as the Rust client | promise scheduling in place of wakers |

The client connection calls the send windows and the codec; the pool calls the
connection through `PoolConnection`; the connection and the bridge meet only as
bytes. The application drives `request`, bodies and `close`; the peer drives
`dispatch`.

What makes each part correct:

* connection: DATA within the peer's credit; END_STREAM only after a whole body;
  no DATA on a stream that ended; every parked task has someone to wake it; the
  peer's stream limit respected; finished streams leave the map; a truncated
  response never looks complete; received bytes return to the windows; teardown
  leaves nobody waiting; the header block is bounded.
* pool: at most one open in flight and at most `max_connections` connections;
  every waiting request is woken when an open ends.
* bridge: bytes arrive once, in order, on either side; at most one Close frame;
  a live peer is not closed by the keep-alive, a dead one is.
* idle reaper: a connection with an open stream is never reaped, an idle one is.
* codec and HPACK: decoding does not depend on how the bytes were cut; what is
  buffered is bounded; every entry of the peer's dynamic table is in the same place
  in the decoder's; what is encoded reads back the same.
* driver: the peer reads what was queued, in order; a GOAWAY is written before the
  driver ends, and a closed connection ends its driver.
* handshake: only an offered protocol is echoed, and only what the policy admits is
  upgraded.

## Modules

| module | models | how |
|---|---|---|
| `SendWindow` | `flow.rs` | a window is a record; each method is an operator that returns the new window. Draining `wakers` is waking the tasks. |
| `H2Connection` | `connection.rs` | variables are the fields of `ConnState`, `StreamState` and `RecvState` (a boolean field of a stream is the set of streams that have it), the program counters of the tasks (`req`, `pump`, `body`, `reading`) and a ledger of what crossed the wire. |
| `H2Pool` | `pool.rs` | `PoolState` and the program counter of each `request()`; a connection is its status, stream limit and load. |
| `FrameCodec` | `frames.rs` | operators: `serialize_frame`, `parse_payload` and `FrameDecoder::push` on frames whose octets are counted. |
| `Driver` | `drive`, `connect`, `on_bytes` and the replies of `dispatch` in `connection.rs` | the octets unread, the decoder's buffer, the outbound channel, the frame at the transport, and what was written. |
| `HpackCoding` | `hpack/mod.rs`, `hpack/huffman.rs`, `decode_utf8` | operators: prefix integers, strings and the Huffman code, with every width a constant. |
| `Hpack` | `HpackDecoder`, `HpackEncoder`, `complete_header_block` | the decoder's dynamic table next to the one that the peer's encoder (external) keeps. |
| `IdleReaper` | `idle.rs`, the `select!` of `serve_h2_with_config` | the watch channel (value, seen or not), the guards, the loop of `wait_idle` and a clock. |
| `Handshake` | `handshake.rs` | operators: from the lines and tokens of the headers to 101 or a rejection. |
| `H2Server` | `accept*` and `serve_h2_with_config` | composes `Handshake`, hyper's upgrade and `IdleReaper`. |
| `ByteTunnel` | - | abstract: two byte streams in opposite directions, in order and without gaps, that end complete or say that they were cut. |
| `WsBridge` | `bridge_with` in `wslay.rs` | the four directions as program counters over one wslay context, the queue of the writer lock, the keep-alive's clock. It implements `ByteTunnel`. |
| `MCH2Connection`, `MCH2Pool`, `MCWsBridge`, `MCH2Server`, `MCHpack`, `MCDriver` | - | the instances for TLC; callers of `request()`, and streams, are symmetric. |
| `Iteration` | - | induction and recursion stated for sets and functions: the lemmas that the proofs about loops share. |
| `H2ConnectionProofs` | - | types and the connection window; who waits for what and who wakes it; slots; the bound of the header block. |
| `H2BodyProofs` | - | the ledgers of the pumps and of the stream windows; response bodies: their ends, their readers, the receive window, resets. |
| `H2PoolProofs` | - | the pool's cap and its single open in flight; where requests are routed. |
| `H2ServerProofs` | - | the decision of the handshake, the count of the idle reaper. |
| `WsBridgeProofs` | - | the order of what the bridge writes, and its refinement of `ByteTunnel`. |
| `DriverProofs` | - | frames read back as written; the decoder's buffer, what is dispatched, what the peer reads. |
| `HpackProofs` | - | integers, strings and requests read back; the dynamic table's bound and its step with the peer's. |

An action of `H2Connection` is one synchronous section of the code, from one
await to the next; the client is single threaded (`Rc<RefCell<..>>`), so such a
section is atomic. `request()` is `RequestRefused`, `RequestParks`,
`RequestOpens` (the check and the reservation have no await between them) and
`RequestResumes`; dropping its future is `RequestCancelled`, which runs no code.
`pump_body`/`pump_chunk` are `PumpTakesChunk`, `PumpParks`, `PumpSends` (one
frame), `PumpAborts` and `PumpFinishes`. `ResponseBody` is `ReadChunk`,
`ReadTail` (error, end or park) and `DropBody`. Each `Recv...` action is a branch
of `dispatch`, with the handlers' helpers under their own names (`fail`,
`destroy`, `reset_stream`, `retire_if_fully_closed`, `complete_header_block`,
...). `drive` is `ReadEof`, `WriteFails`, `ReadLoopEnds` and `DriverEnds`.

Abstractions: header contents, trailers and frame bytes are left out (a header
block is its size, kind and flags; a rejected block is a choice under
"MALFORMED"); a body chunk boundary is any split of the buffered bytes; the
outbound queue is left out (what is queued before the teardown is written, which
`Driver` checks); PING requests, SETTINGS acks and PRIORITY change no state. `Inputs`
selects what the environment does in a run: it never changes what the client does. With
"ROGUE" absent the peer keeps the order of frames on a stream that RFC 9113 requires.

**`H2Pool`.** One step is one turn of `H2Pool::request` to its next await:
`Request` (prune, choose, issue, or `open_one`), `Resume` (a waiter is polled
after the open ended), `OpenSucceeds` and `OpenFails` (the opener is polled after
the factory), `Close`. `conns` only grows at its end, so it is the set of the
numbers of its connections. What a connection answers (`is_closed`,
`can_open_stream`, the outcome of `request`) is translated from
`connection.rs`; when it connects, dies, goes away or learns its limit is up to
the environment.

**`FrameCodec` and `Driver`.** A frame on the wire is its header, the octet count of
its payload and the fields the payload begins with, so a wrong length, pad length or
reserved bit can be written down and a payload cannot. A scenario gives the peer's
frames each with what it means by them; `ReadChunk(n)` hands over the next n octets and
runs `push`, `on_bytes` and `dispatch` as one section, `TakeFrame` and `WriteDone` are
the two halves of the write loop, `Request`, `Ping` and `Close` what the application
queues. The peer's frames are for no stream of the client's: what they do to streams is
in `H2Connection`, and each module leaves out what the other has. A 32-bit word is its high
bit and the other 31, so that masking a reserved bit in reading is a projection; a weight
and the opaque data of a PING are numbers in the same form. In writing, `word31`, `u24` and
`octet` cut off what a field of 31, 24 or 8 bits cannot hold, as the masks and casts of
`serialize_frame` do; `HIGH_BIT` and `MAX_LENGTH` are the widths. `connect` may queue an
increment that loses its high bit so, and a scenario of the run does. The loops of the code
are functions of the number of turns (`dispatch_all`) or of the number of frames (`present`,
`send_frames`). `ScenarioAssumption` says that a scenario is options and a sequence of
frames with the words their types have, `NoneAssumption` that the mark of an absent value is
no value.

**`HpackCoding` and `Hpack`.** A representation is its kind, the octets of its prefix
integer and its strings. The peer's encoder keeps its own table by the rules of RFC 7541
and chooses among all legal representations of a field (`PeerIndexed`, `PeerLiteral`,
`PeerIncremental`, `PeerResize`), or breaks a rule. `PeerBad` sends what `decode`
looks for (`BadReps`): an index of 0 or behind both tables, a size above the announced one,
an integer that is cut off or too long, a string that is cut off or no Huffman code. Three
things RFC 7541 forbids are not looked for: a size update after a field and one that is
owed and left out (both under the input "LATE"; `peer.owes`, `peer.remiss`), and an integer
within the limit of `read_integer`'s loop that is wider than a word and wraps (`PeerWide`,
`peer.wraps`; possible where `usize` has 32 bits). `complete_header_block` decodes the block
for a stream that may be gone. The decoder starts with the size the client announces, the
peer with the default of 4096 until it signals another. `EncodeRequest` and `DecodeString`
check the stateless codings over all small inputs. Whether a literal is "without indexing"
or "never indexed" is not told apart, as `decode` does not. `groups` is the loop of
`write_integer`: what is left after each turn, and the first turn at which that fits in an
octet. `converted` is what `read_string` makes of the two strings of a field; `peer.lossy`
records that it changed one that went into the table. The assumptions on the constants are
facts of the tables and of the arithmetic: `HuffmanAssumption` (no code begins another, EOS
is ones), `TextAssumption` (the static table and the strings of a request are UTF-8, and
lower case keeps that), `RangeAssumption` (sizes, indices and lengths are within a word and
within what `read_integer` accepts) and `PowersAssumption` (2^0 = 1 and 2^(n+1) = 2 * 2^n,
which the provers do not know of the operator ^). `BadDataAssumption` says of the bad
Huffman data of a scenario that it is none: bits that are the code of no text.

**`Handshake` and `H2Server`.** A token is a word and its spelling; the code compares
words and echoes spellings. Only the first line of a header is read, as `headers().get`
does. The offered protocols are the non-empty tokens of that line, each at its place in it,
and the first of some of them is the one at the least place; `HeadersAssumption` says that
a header is a sequence of lines and a readable line a sequence of tokens. After a 101,
`Upgraded` starts `serve_h2_with_config`; without an idle timeout the reaper's steps are not
taken.

**`IdleReaper`.** `RequestArrives`, `ResponseStarts` and `StreamDropped` follow a
guard from `call` to the drop of the body, in hyper's own tasks; `Look`,
`Changed` and `SleepEnds` are the sections of `wait_idle`. `SleepEnds` may be taken
when a change is ready too: `tokio::select!` is not `biased` there.

**`WsBridge`.** `WsRead`, `PeerWrite`, `PeerWriteFails` and `WsEof` are the
direction from the WebSocket, `PeerRead` and `PeerReadEnds` the one from the
upstream, `Control` and the `Keepalive...` actions the other two. What a section
takes from `outbound` it holds in `out[d]` until `WriteFrame` writes it, in the
order in which the directions queued for the lock (tokio's mutex is fair). The
wslay context is the flags that `wslay_event.c` tests: Close queued, Close
received, reading disabled. A frame is its opcode (a Close, what it is for) and
data its number; the data of a batch or of what was written is `Numbers`, which finds the
k-th data frame by its rank among the data frames; a read delivers whole frames; hooks and
payloads are left out. A scenario, chosen in the initial state, says what the environment
may do. The upstream stream is complete when the bridge reports the client's Close, the
downstream one when the client is sent the Close of a clean end.

Every module with state has a type invariant `TypeOK`; a run checks it by itself for
`H2Connection`, as a conjunct of `CountExact`, `CloseIsLast`, `TableBounded` and
`BufferBounded` for the modules of these, and `H2PoolProofs` proves that of `H2Pool`.

The definitions marked "Faulty" are plausible mistakes in the code they stand
before. Each one, put in the place of the correct definition, makes TLC refute
the property `PROJECT.json` pairs it with, which shows that the run can see it.

## Runs

Deadlock checking is off in all of them: the system may stop when every request
has settled and the peer is silent, or when a bridge has ended.

| run | bounds | checks |
|---|---|---|
| `upload` | 2 requests with bodies of at most one chunk of 3 bytes, windows of 2, frames of 2, initial window moved between 0 and 2, 1 byte of credit per update | types, connection and stream credit, end of the body, no DATA after the end or a reset, no lost wake-up for credit; with fair pumps, uploads progress while there is credit |
| `slots` | 3 callers, limits 0, 1, 2, cancellation, GOAWAY, resets by a zero increment | parked callers have a waker and a reason, the limit is respected, finished streams leave the map |
| `download` | 2 responses of at most 2 bytes, resets, GOAWAY, uploads still running | truncated is never complete, readers have wakers, the receive window is conserved, no reset of a dead stream |
| `header_blocks` | fragments of 1 and 2 bytes, a cap of 2, pushes, malformed frames, frames in any order, a ping, a request parked for a slot, close, EOF, write failure, GOAWAY, bad SETTINGS | an open connection never holds more header block than the cap; nothing waits for a closed connection; no caller is stranded, whatever the peer's order of frames, and with fair callers each is told |
| `pool` | 3 callers, 3 connections, a cap of 2, limits 0 and 1, waiters that give up, failed opens, lost and going-away connections, close | the cap holds, counting the open in flight; nothing is routed to a dead connection; a waiter has an opener; every caller is served or told |
| `bridge` | two scenarios. Traffic: 2 data frames each way, 1 ping, 1 injected control frame, reads of at most 2 frames, every end of the upstream. Endings: one data frame each way, keep-alive of one tick, rejected frames, EOF, silent death, a blocked upstream, a stalled socket, failing writes | the bridge implements `ByteTunnel`; neither data nor a second Close follows a Close; the bridge ends when a side does, unless the socket stalls for ever |
| `server` | every combination of header lines (split over lines, not ASCII, other case), 4 answers of the selector, 8 configurations; 3 streams, a timeout of 2 ticks | only what was offered is echoed; only a WebSocket upgrade (`Upgrade`, `Connection` and key) that the policy admits is upgraded; the count is exact, no change is missed, an idle connection is reaped |
| `hpack` | blocks of at most 2 fields and 1 size update, in any place; 3 insertions into tables of 2, 5 (the default) and 7; integers of up to one octet too many, bad indices and sizes by 1 and 2 too large (`Excess`), integers that wrap a word of 4 bits; every request of 2 of 24 fields; every bit string of one or two octets of 3 bits | the table is bounded and in step with the peer's; a block without a representation that `decode` refuses gives the fields meant (or is refused, of a peer that owes a size update), one with such a representation is refused; requests and strings survive coding |
| `driver` | 18 scenarios of up to 4 frames, which have every frame type, padding, reserved bits, unknown types and each kind of bad frame; chunks of 0, 1, 12 octets or all; a request in 1 to 3 frames, a ping, close, EOF, a write error | an open connection has dispatched all that arrived, a closed one a first part of it; the buffer is bounded; the peer reads what was queued (an increment that does not fit, masked); the GOAWAY is written, the driver ends |

The bounds are the smallest that let two actors compete for each resource: two
pumps on one connection window that holds less than one body; three callers for
one slot, so that one parked caller can be cancelled and another left; a header
cap that two fragments overrun and one does not; a third caller for the pool, to be
overtaken by another waiter; two data frames, so that a second one can be lost,
doubled or reordered, and a read of two frames, so that a Close can come with data.
For HPACK every width is scaled down (groups of 2 bits, octets of 3, prefixes of 1 and
2, an overhead of 1), so that small numbers cross each boundary: the table holds two
entries of three, indices and lengths need continuation octets, three groups hold more
than a word, and the size announced lies below and above the default. `HIGH_BIT` is 2^29
in the run, as the integers of TLC have 32 bits; what matters of it is that identifiers and
lengths are smaller and that the window of one scenario is larger. Chunks of 1 octet and of 12, alternating, cut a
9-octet header at every place.

Three runs expect a violation; each shows a disagreement between the code and what
it says of itself (details and quotations under "findings" in `PROJECT.json`):

* `slot_left_parked`: a peer's RST_STREAM frees a slot, and nobody wakes the
  request that is parked for it;
* `cancelled_request`: a request whose future is dropped after its stream was
  opened leaks connection receive window;
* `pool_opener_dropped`: when the caller that opens a connection is dropped, the
  others wait for ever.

Seen in the models while writing them, of less weight or without a run of their own:

* connection: the padding of DATA frames leaks receive window too; a response that
  arrived whole is reported as an error if its stream is reset before the body is read
  (connection.rs:411); a pump that waits for connection credit is not woken when its own
  stream is torn down (connection.rs:1184); WINDOW_UPDATE has no check of the 2^31-1 limit
  (connection.rs:672); the WINDOW_UPDATE of `connect` is masked to 31 bits, so that a
  `connection_window_size` more than 2^31-1 above the default asks for less than it says
  (and for an increment of 0, a protocol error, if it is 2^31 above). `PeerReadsAsQueued`
  excepts that frame and no other. Nothing stops stream ids at 2^31-1; the model stops
  there (`MaxStreamId`).
* codec: a malformed PRIORITY makes an error that errors.rs:76-77 calls stream-scoped
  ("RST_STREAM"), but `on_bytes` ends the connection with any error (`DispatchedAsMeant`
  takes such a frame for none and does not ask that the connection be closed); the frames
  before a bad one in the same chunk are dropped with it, though they are dispatched when
  they come in a chunk of their own (frames.rs:546-547 "returns whatever complete frames are
  now available").
* HPACK: `insert` counts the octets of the text after the lossy conversion to UTF-8
  (hpack/mod.rs:140, 222). A response with a Latin-1 value that the peer puts in its table
  therefore costs more here than there; the decoder evicts earlier, and later references
  fail or mean another field. `InSync` and `DecodedAsSent` hold up to that (`peer.lossy`);
  without the exception TLC shows it in one block. `decode` accepts a size update after a
  field (hpack/mod.rs:289, against RFC 7541 4.2) and acts on it in its place, and does not
  ask for one that is owed; the fields stay right, or a reference fails. On wasm32
  `read_integer` wraps an integer of five continuation octets and may take it for a valid
  index (hpack/mod.rs:90).
* web transport: `drive` drops its writer without closing it, so that `poll_close`
  (web.rs:176) is never called and the socket stays open until the server closes it.
* pool: a caller that waited for an open parks on a connection that other waiters filled,
  though the pool may open another (pool.rs:119); a connection that is going away is chosen
  as long as it has a free slot (pool.rs:99).
* server: the selector's spelling of a protocol is echoed, not the client's; only the first
  line of `Connection` and `Sec-WebSocket-Protocol` is read; a connection is reaped
  although a stream has just opened.
* bridge: the keep-alive closes a client whose Pong is unread because the upstream takes no
  data, and does not close one that dies with a full socket, since its Ping waits for the
  writer lock; if the upstream write fails for data that came with a Close, no Close is sent
  back (wslay.rs:500); after a frame that wslay's event layer rejects, what is read is kept
  and never consumed (wslay.rs:487); a Pong may follow a Close on the wire.

**Fairness.** `FairSpec` assumes weak fairness of what an executor polls once it
was woken: a parked caller that must be refused, a caller whose head channel
resolved, and the pumps (`run_tasks` polls every registered pump). Nothing is
assumed of the application (new requests, reading, feeding a body), of the peer
or of the transport. In `H2Pool` a woken waiter is polled and every open ends one way
or the other; a factory that hangs is outside the claim. In `Driver` only the write loop
is fair: the transport takes or refuses each frame, and the loop is polled; the peer may
fall silent and the read loop wait for ever. In `H2Server` and
`WsBridge` time passes and the task is polled when something is ready, and a tick is
long compared with a poll: a change, or a frame that can be read, is seen before the
next tick. In `WsBridge` the holder of the lock writes as long as the socket takes
bytes; that it does is assumed of no client.

## Proofs

The theorems hold for every value of the constants that satisfies the named assumption of
the module (`ConstantsAssumption`, `HeadersAssumption`, `BridgeAssumption`, ...: counts are
naturals, bounds and increments are not zero, the default frame size is legal): any number
of requests, streams, callers, connections and scenarios, any window, frame, chunk and
batch size, and every selection of `Inputs` unless a hypothesis excludes one. TLC checked
each inductive invariant on the instances above (of that of the driver all but the types of
the queued frames, whose sets TLC cannot compare with a frame). Every safety invariant and
every action property that a passing run checks is stated by a theorem, and so is the
refinement.

**Connection, sending** (`H2ConnectionProofs`, `H2BodyProofs`).

* `TypeCorrect`: `TypeOK` needs one more fact to be inductive. The grant of a pump
  is a natural number only because a window that is ready and not closed is
  positive, and `pump_chunk` asks whether the stream window is closed but not
  whether the connection window is. `ConnLedger` supplies it: the connection
  window is closed only if the connection is; it equals the credit granted less
  the bytes sent; it is not negative. `ConnectionCreditHolds` is its consequence.
* `LifeInvariant` strengthens `PumpHasWaker` to `LifeInv`: ids not yet allocated
  are untouched (`Fresh`), an unresolved head channel belongs to a stream in the
  map that has not seen its head (`OpenHeads`), a running pump has not ended its
  stream, which is in the map or has its window closed (`PumpedStreams`: this is
  why `destroy`, which closes only the windows of streams in the map, reaches
  every pump), and a closed connection holds nothing (`ClosedIsEmpty`).
  `PumpHasWakerHolds`, `RequestHasWakerHolds` and `ClosedIsQuiescentHolds` follow.
* `ParkedMeansFullHolds`: from `SlotsFull`, the waiters are drained by whatever frees a
  slot. A peer's RST_STREAM frees one and drains nobody (the run `slot_left_parked`), so
  the theorem assumes that none comes; it covers every other way a stream ends.
* `AdmissionRespectedHolds` (an action property): the check of a request and its
  reservation are one step, so that a woken caller cannot over-allocate; the sets of
  streams are finite because ids are.
* `PendingBlockBoundedHolds`: each handler that adds to the block checks its size.
* `EndStreamMeansCompleteHolds`: from `ChunkLedger`, every byte of a body is sent
  or in the pump's current chunk, and the pump ends the stream with none left.
* `StreamCreditHolds`: from `StreamLedger`, the window of a stream in the map is
  the initial window plus the credit granted less the bytes sent, through every
  change of SETTINGS_INITIAL_WINDOW_SIZE.

**Connection, receiving** (`H2BodyProofs`). `DownloadStep` describes what each step
does to the bodies; the invariants are shown against it.

* `EofMeansCompleteHolds` and `FinishedStreamsLeaveHolds`, for every peer, "ROGUE"
  included, from `BodyInv`: a stream belongs to one request, whose body is not read before
  its head was taken (`Owners`), ids not yet allocated have no body (`FreshBodies`), and a
  body that ended without an error to report was ended by the peer (`EndsMean`).
* `ReaderHasWakerHolds` needs the peer's order of frames ("ROGUE" excluded): an interim
  response with END_STREAM closes the stream and not its body, and strands the reader.
  `OrderlyInv` says that a stream that left the map has ended its body, and that in the map
  the peer's end and the end of the body are one.
* `RecvWindowConservedHolds`, from `BytesHeld`: a byte that was not returned is buffered
  behind a head that arrived, with a caller who waits for it or a body that is not used up.
  Excluded are "PADDING" and "CANCEL", where the code leaks (the run `cancelled_request`).
* `ResetsAreForLiveStreamsHolds` and `NoDataAfterEndHolds` (action properties) rest on
  `ResetInv`, a stream that was reset is not in the map. WINDOW_UPDATE(0) for any stream is
  answered by a reset, of streams that are not in the map too: the first theorem excludes
  that input, the second only a peer that sends it for a stream not opened yet.

**Pool** (`H2PoolProofs`). `WithinCapHolds` and `WaiterHasOpenerHolds` (under the assumption
that no opener is dropped, which `pool_opener_dropped` shows to be needed). `PoolInv` adds
to the types that a caller is opening only under the flag, that the pool has room for the
open in flight, and that conns are numbers already given out, so that pushing a connection
adds one. `RoutedToOpenHolds` (an action property) follows each way a request is issued: on
a connection retained in the same turn, or on the newest one, tested again after the open.

**Server** (`H2ServerProofs`). `EchoWasOfferedHolds` and `UpgradedByPolicyHolds` follow the
decision of `accept_with_options` through its branches for arbitrary headers, selections
and configurations; a header that `header_lists` finds a word in has it in some line
(`ListedIsMentioned`); what the selector returns is compared with the offer in one place, the
fallback takes from the offer by construction. `CountExactHolds`: the guards are a finite
set and every step adds or removes one with the count, so the saturating subtraction never
saturates. `NoMissedChangeHolds` uses it.

**Bridge** (`WsBridgeProofs`). Four invariants, each used by the next:

* `TypeInv`: the types, `Turns` (a direction is writing exactly when it has frames, and
  then stands in the queue once; a Close is taken alone) and `Holding` (what the ws
  direction holds back while it writes upstream).
* `Order`: while no Close is queued in the context, none is written or in hand; behind one,
  on the wire or in the queue, there are pongs at most. `CloseIsLastHolds` is part of it.
* `Downward`: the data written to the client is numbered from 1; the peer direction has the
  next number in hand, or nothing is missing while no Close is queued; the Close of a clean
  end comes when all was written.
* `Upward`: what was written upstream is numbered from 1, what was decoded and what is
  unread continue it while nothing failed, no data follows the client's Close, and the end
  `peer_close` is decided only by the ws direction.

`ImplementsTunnelHolds` maps every step to a step of `ByteTunnel` or to a stutter, under
these invariants; the hard cases are a frame that ends the bridge as it is written (both
streams may end in one step) and a read that takes data and a Close together. The lemmas
on `Places`, `Rank` and `Numbers` say how the data frames of a sequence are counted when it
grows or is cut; they are proved from the least element of a set of naturals, in place of
an induction over sequences.

**Loops** (`Iteration`). The library's theorems on induction and on recursive definitions
take operators, which the provers cannot instantiate. `Iteration` states what is needed of
them for sets and functions: a nonempty set of naturals has a least element (`LeastNat`);
a set that has 0 and with each number the next has all (`UpTo`, `GreatestUpTo`); a function
that takes one step from each number to the next exists (`IterateExists`), so that the
recursive functions of the models, which are such functions by definition, satisfy their
equations. A loop is then proved by an invariant of its turns, as a set of numbers.

**Driver and codec** (`DriverProofs`).

* `CodecRoundTrip`: for each type of frame, `parse_payload` of what `serialize_frame` writes
  is the frame, if its ids and increments have 31 bits and its length 24 (`Frames`); an
  increment of the connection window above that (`Growths`) is read without its high bit.
  That everything queued is one of these is part of the invariant (`Queueable`). The
  parameters of a SETTINGS frame are followed through `setting_pairs`, which leaves out the
  absent ones, and back.
* `InvHolds` proves the inductive invariant `Inv`, in four parts. `DecoderInv`: as long as
  the connection is read, what is held and what is unread are the octets of the frames not
  yet taken, those taken were acceptable, and what is held is less than the next frame, or
  less than a header if that is too long (`Position`; this is what makes `push` independent
  of the chunks before). `LogInv`: what was dispatched is what the frames taken mean.
  `QueueInv`: what was written, is being written and waits is what was queued (`Linked`),
  header blocks are unbroken (`Framed`), and the reason for ending is the last frame queued
  (`Explained`); each is carried through `dispatch_all` by induction over the frames of a
  chunk. `DriverInv`: a driver that ended has an empty queue and a closed connection.
* `BufferBoundedHolds`, `PeerReadsAsQueuedHolds` and `GoawayIsWrittenHolds` follow, the last
  two with `CodecRoundTrip`. `PeerReadsAsQueuedHolds` holds for every
  `connection_window_size`: a frame that is masked can only be the third.
  `DispatchedAsMeantHolds` assumes `MeantAsRead`: each frame of a scenario, by itself, is
  meant as it is read, a PRIORITY of the wrong length as no frame. That is a fact of the
  scenarios, which holds of those that TLC checks; the theorem says what cutting and joining
  frames can then change: how many of the frames that share a chunk with a bad one are
  dispatched, and nothing else.

**HPACK** (`HpackProofs`).

* `IntegersReadBack`: after each octet, the value read so far plus what was left to write,
  times the weight of the next group, is the number; the bounds on the word and on the
  groups show that neither the modulo nor the limit of the loop takes effect. It covers the
  longer forms that a peer may use.
* `HuffmanExact`: at each bit of the walk, the bits so far are the codes of the symbols
  found and the path from the root (soundness). Along each code the walk stays inside the
  tree, as no code begins another (completeness), and along the beginning of EOS too, so
  that the padding is what remains. `StringsExactHolds` is its consequence.
* `TableBoundedHolds` from `TableInv`: `evict`, `insert` and `apply_max_size` all keep the
  newest entries that fit, as `table_size` of a table is the sum over its two halves.
* `InSyncHolds` and `DecodedAsSentHolds` from `SyncInv`, which speaks of what decoding the
  block so far would give. As long as the peer sent nothing of `BadReps` and `WideReps` and no
  entry was changed by the conversion, decoding gives the fields meant and a decoder in step
  with the peer (`Follows`, `InStep`), wherever the size updates are; once the peer sent one
  of `BadReps`, an error (`BadFails`, one lemma for each kind of them). Each representation
  of the peer is one turn of `decode` more. The sizes need not be equal: the decoder may keep
  more than the peer (`FitBegins`), or, before a peer that owes a size update has sent it or
  after it used its table without, less (`Ahead`). The two tables then agree as far as both
  go, which is why a reference is read right or refused.
* `RequestSurvivesHolds` by induction over the fields: each of the three forms that
  `encode_field` chooses reads back, by the theorems on integers and Huffman codes, and the
  encoder never changes the table.

**Only model-checked.** The liveness properties, as fairness and ENABLED are out of the
prover's reach: `UploadProgress`, `RequestsSettle` (of the connection and of the pool),
`OneSideEnds`, `IdleIsReaped`, `ClosedDriverEnds`.

## Plan

What could follow: `GoConn` (the `net.Conn` of the Go server: control frames inside reads,
the close handshake, deadlines), `TsConnection` where it differs from the Rust client (slot
admission, body back-pressure), `WsByteStream` with its buffers, and an abstract request
life cycle refined by `H2Connection`.

## Not modelled

The contents of the Huffman and static tables, which are constants of the models; the hash
of the WebSocket key; the proxy's command line; browser glue in `web.rs` and
`transport/websocket.ts`; conformance and interop harnesses; the parser of the
vendored wslay, of which `WsBridge` keeps the queueing rules and the flags; so far the Go
server and the TypeScript client, which are second implementations of the same protocols.

----------------------------- MODULE FrameCodec -----------------------------
(***************************************************************************)
(* The HTTP/2 frame codec of the Rust client (frames.rs), as operators.    *)
(*                                                                         *)
(* Octets are counted, not listed.  A frame on the wire is its header and  *)
(* the fields that its payload begins with:                                *)
(*   [type, flags, stream, length, pad, words, pairs]                      *)
(* `length` octets of payload, of which `pad` is the first one where the   *)
(* PADDED flag says so, `words` the 32-bit words that the type puts in     *)
(* front, and `pairs` the identifiers and values of a SETTINGS frame; what *)
(* is left of `length` is data.  A 32-bit word is <<high bit, the other    *)
(* 31 bits>>; the octet of a weight is <<0, number>>, and of the opaque    *)
(* data of a PING only the last four octets are kept, as a word.           *)
(***************************************************************************)
EXTENDS Integers, Sequences, SequencesExt

CONSTANTS
    FRAME_HEADER_SIZE,   \* octets of a frame header (9)
    MAX_LENGTH,          \* the largest payload that 24 bits can announce (0xff_ffff)
    HIGH_BIT,            \* the high bit of a u32 (0x8000_0000)
    None                 \* an absent SETTINGS parameter or priority

ASSUME CodecAssumption ==
    MAX_LENGTH \in Nat /\ HIGH_BIT \in Nat /\ 256 <= MAX_LENGTH /\ MAX_LENGTH < HIGH_BIT

Types == {"DATA", "HEADERS", "PRIORITY", "RST_STREAM", "SETTINGS", "PUSH_PROMISE", "PING",
          "GOAWAY", "WINDOW_UPDATE", "CONTINUATION"}

\* The flag bits.  END_STREAM and ACK are the same bit.
END_STREAM == 1
ACK == 1
END_HEADERS == 4
PADDED == 8
PRIORITY == 32

SettingIds == 1..6
NoSettings == [id \in SettingIds |-> None]

\* What 31 bits can say: stream identifiers, and increments of a window.
Ids == 0..HIGH_BIT - 1

\* Reading & 0x7fff_ffff
mask31(word) == word[2]

\* Writing: u32, u32 with & 0x7fff_ffff, u24 and `as u8`.  What does not fit is cut off.
word32(v) == <<(v \div HIGH_BIT) % 2, v % HIGH_BIT>>
word31(v) == <<0, v % HIGH_BIT>>
u24(n) == n % (MAX_LENGTH + 1)
octet(v) == <<0, v % 256>>

\* The words and the frames that octets can spell.
Words == {0, 1} \X Ids
WireForms(types) ==
    [type : types, flags : SUBSET Nat, stream : Words, length : 0..MAX_LENGTH, pad : Nat,
     words : Seq(Words), pairs : Seq(Nat \X Words)]
WireFrames == WireForms(STRING)

-----------------------------------------------------------------------------
(* Writing *)

flag(b, bit) == IF b THEN {bit} ELSE {}

\* The word of a priority: the dependency with the exclusive bit, and the weight less 1.
priority_words(p) ==
    <<<<IF p.exclusive THEN 1 ELSE 0, p.dependency % HIGH_BIT>>, octet(p.weight - 1)>>

Wire(type, flags, stream, length, words, pairs) ==
    [type |-> type, flags |-> flags, stream |-> word31(stream), length |-> u24(length),
     pad |-> 0, words |-> words, pairs |-> pairs]

\* The parameters present, by identifier; enable_push as 0 or 1.
setting_pairs(settings) ==
    LET all == [id \in SettingIds |->
                  IF settings[id] = None THEN <<>>
                  ELSE <<<<id, IF id = 2 THEN word32(IF settings[id] THEN 1 ELSE 0) ELSE settings[id]>>>>] IN
    FlattenSeq(all)

\* serialize_frame and encode_body.  An error code and the value of a parameter are u32
\* words already.
serialize_frame(f) ==
    CASE f.type = "DATA" -> Wire(f.type, flag(f.end_stream, END_STREAM), f.stream, f.data, <<>>, <<>>)
      [] f.type = "HEADERS" ->
            LET p == f.priority # None IN
            Wire(f.type, flag(f.end_headers, END_HEADERS) \cup flag(f.end_stream, END_STREAM)
                            \cup flag(p, PRIORITY),
                 f.stream, f.data + (IF p THEN 5 ELSE 0),
                 IF p THEN priority_words(f.priority) ELSE <<>>, <<>>)
      [] f.type = "PRIORITY" -> Wire(f.type, {}, f.stream, 5, priority_words(f.priority), <<>>)
      [] f.type = "RST_STREAM" -> Wire(f.type, {}, f.stream, 4, <<f.code>>, <<>>)
      [] f.type = "SETTINGS" ->
            LET pairs == setting_pairs(f.settings) IN
            Wire(f.type, flag(f.ack, ACK), 0, 6 * Len(pairs), <<>>, pairs)
      [] f.type = "PUSH_PROMISE" ->
            Wire(f.type, flag(f.end_headers, END_HEADERS), f.stream, 4 + f.data,
                 <<word31(f.promised)>>, <<>>)
      [] f.type = "PING" -> Wire(f.type, flag(f.ack, ACK), 0, 8, <<f.opaque>>, <<>>)
      [] f.type = "GOAWAY" -> Wire(f.type, {}, 0, 8 + f.data, <<word31(f.last), f.code>>, <<>>)
      [] f.type = "WINDOW_UPDATE" -> Wire(f.type, {}, f.stream, 4, <<word31(f.increment)>>, <<>>)
      [] f.type = "CONTINUATION" ->
            Wire(f.type, flag(f.end_headers, END_HEADERS), f.stream, f.data, <<>>, <<>>)

-----------------------------------------------------------------------------
(* Reading *)

Error(code) == [error |-> code]
IsError(f) == f # None /\ "error" \in DOMAIN f

\* Faulty: the octet of the pad length is not counted.
fragment_length_unpadded(w) ==
    w.length - (IF w.type = "HEADERS" /\ PRIORITY \in w.flags THEN 5
                ELSE IF w.type = "PUSH_PROMISE" THEN 4 ELSE 0)
             - (IF PADDED \in w.flags THEN w.pad ELSE 0)

\* Octets of data or header block left when the pad length, the fixed fields and
\* the padding are taken off; negative if they do not fit (read_padded, and the
\* checks of HEADERS and PUSH_PROMISE).
fragment_length(w) ==
    LET fixed == CASE w.type = "HEADERS" /\ PRIORITY \in w.flags -> 5
                   [] w.type = "PUSH_PROMISE" -> 4
                   [] OTHER -> 0 IN
    w.length - fixed - (IF PADDED \in w.flags THEN 1 + w.pad ELSE 0)

\* The payload lengths that a type allows.
length_ok(w) ==
    CASE w.type = "PRIORITY" -> w.length = 5
      [] w.type \in {"RST_STREAM", "WINDOW_UPDATE"} -> w.length = 4
      [] w.type = "SETTINGS" -> w.length % 6 = 0 /\ (ACK \in w.flags => w.length = 0)
      [] w.type = "PING" -> w.length = 8
      [] w.type = "GOAWAY" -> w.length >= 8
      [] OTHER -> TRUE

\* The last of several values of a parameter counts; unknown ones are ignored.
read_settings(pairs) ==
    [id \in SettingIds |->
        LET at == {i \in DOMAIN pairs : pairs[i][1] = id}
            value == pairs[CHOOSE i \in at : \A j \in at : j <= i][2] IN
        IF at = {} THEN None ELSE IF id = 2 THEN value # <<0, 0>> ELSE value]

read_priority(words) ==
    [dependency |-> mask31(words[1]), exclusive |-> words[1][1] = 1, weight |-> mask31(words[2]) + 1]

\* parse_payload: a frame, None for an unknown type, or an error.
parse_payload(w) ==
    LET stream == mask31(w.stream)
        n == fragment_length(w) IN
    IF w.type \notin Types THEN None
    ELSE IF ~length_ok(w) THEN Error("FRAME_SIZE_ERROR")
    ELSE IF w.type \in {"DATA", "HEADERS", "PUSH_PROMISE"} /\ n < 0 THEN Error("PROTOCOL_ERROR")
    ELSE CASE w.type = "DATA" ->
                [type |-> w.type, stream |-> stream, data |-> n, end_stream |-> END_STREAM \in w.flags]
           [] w.type = "HEADERS" ->
                [type |-> w.type, stream |-> stream, data |-> n,
                 end_stream |-> END_STREAM \in w.flags, end_headers |-> END_HEADERS \in w.flags,
                 priority |-> IF PRIORITY \in w.flags THEN read_priority(w.words) ELSE None]
           [] w.type = "PRIORITY" ->
                [type |-> w.type, stream |-> stream, priority |-> read_priority(w.words)]
           [] w.type = "RST_STREAM" -> [type |-> w.type, stream |-> stream, code |-> w.words[1]]
           [] w.type = "SETTINGS" ->
                [type |-> w.type, ack |-> ACK \in w.flags, settings |-> read_settings(w.pairs)]
           [] w.type = "PUSH_PROMISE" ->
                [type |-> w.type, stream |-> stream, promised |-> mask31(w.words[1]), data |-> n,
                 end_headers |-> END_HEADERS \in w.flags]
           [] w.type = "PING" -> [type |-> w.type, ack |-> ACK \in w.flags, opaque |-> w.words[1]]
           [] w.type = "GOAWAY" ->
                [type |-> w.type, last |-> mask31(w.words[1]), code |-> w.words[2], data |-> w.length - 8]
           [] w.type = "WINDOW_UPDATE" ->
                [type |-> w.type, stream |-> stream, increment |-> mask31(w.words[1])]
           [] w.type = "CONTINUATION" ->
                [type |-> w.type, stream |-> stream, data |-> w.length,
                 end_headers |-> END_HEADERS \in w.flags]

\* Octets of a frame.
frame_size(w) == FRAME_HEADER_SIZE + w.length

\* Octets of the first k frames.
octets(frames, k) ==
    LET sum[n \in 0..Len(frames)] == IF n = 0 THEN 0 ELSE sum[n - 1] + frame_size(frames[n]) IN sum[k]

\* The frames that are complete in `held` octets.
complete(frames, held) ==
    LET ks == {k \in 0..Len(frames) : octets(frames, k) <= held} IN
    CHOOSE k \in ks : \A j \in ks : j <= k

\* Faulty: the length is looked at only when the frame is complete.
error_at_complete(frames, k, held, max_frame_size) ==
    LET w == frames[k + 1] IN
    IF held - octets(frames, k) < frame_size(w) THEN None
    ELSE IF w.length > max_frame_size THEN Error("FRAME_SIZE_ERROR")
    ELSE IF IsError(parse_payload(w)) THEN parse_payload(w) ELSE None

\* The error of frame k + 1, met when its header is there (too long) or when it is
\* complete; None if there is none yet.
error_at(frames, k, held, max_frame_size) ==
    LET w == frames[k + 1]
        left == held - octets(frames, k)
        f == parse_payload(w) IN
    CASE left >= FRAME_HEADER_SIZE /\ w.length > max_frame_size -> Error("FRAME_SIZE_ERROR")
      [] w.length <= max_frame_size /\ left >= frame_size(w) /\ IsError(f) -> f
      [] OTHER -> None

\* Those of the first n that are of a known type: what parse_payload ignores is not
\* pushed.
present(fs, n) ==
    LET kept[k \in 0..Len(fs)] ==
          IF k = 0 THEN <<>> ELSE IF fs[k] = None THEN kept[k - 1] ELSE Append(kept[k - 1], fs[k]) IN
    kept[n]

\* FrameDecoder::push, with `held` octets of `frames` in the buffer: the error, if
\* there is one among the frames looked at, which drops those before it; else the
\* frames to dispatch and the octets that stay.
push(frames, held, max_frame_size) ==
    LET n == complete(frames, held)
        looked == 0..(IF n < Len(frames) THEN n ELSE n - 1)
        bad == {k \in looked : error_at(frames, k, held, max_frame_size) # None}
        parsed == [k \in 1..n |-> parse_payload(frames[k])] IN
    IF bad # {}
    THEN [error |-> error_at(frames, CHOOSE k \in bad : \A j \in bad : k <= j, held, max_frame_size).error,
          frames |-> <<>>, read |-> 0, held |-> 0]
    ELSE [error |-> None, frames |-> present(parsed, n),
          read |-> n, held |-> held - octets(frames, n)]
=============================================================================

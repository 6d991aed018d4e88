------------------------------- MODULE Hpack -------------------------------
(***************************************************************************)
(* Header compression in the Rust client: the decoder with its dynamic     *)
(* table, fed by complete_header_block of connection.rs, and the stateless *)
(* encoder.  The peer's encoder is external: it keeps a table of its own   *)
(* by the rules of RFC 7541 and refers to the entries by their place.  The *)
(* decoder never sees that table; a reference means the same field to both *)
(* only if the entry is in the same place in the decoder's own.            *)
(*                                                                         *)
(* A representation is its kind, the octets of its integer and, where it   *)
(* has them, its literal name and value.                                   *)
(***************************************************************************)
EXTENDS HpackCoding

CONSTANTS
    STATIC_TABLE,         \* sequence of fields
    ENTRY_OVERHEAD,       \* octets an entry costs besides its strings (32)
    DEFAULT_TABLE_SIZE,   \* size of the peer's table before our SETTINGS (4096)
    PrefixBits,           \* bits of the prefix integer, for each kind
    Fields,               \* the fields of responses: [name, value]
    RequestFields,        \* the fields of requests
    LOWER,                \* to_ascii_lowercase, of an octet
    TableSizes,           \* sizes: ConnectOptions::header_table_size, size updates
    HuffmanData,          \* Huffman-coded data a peer may send
    BadData,              \* Huffman-coded data that is the code of no text
    Excess,               \* how far beyond its limit a bad integer may be
    Inputs,               \* kinds of event, see EventKinds
    MaxFields,            \* bound: fields of a header block
    MaxUpdates,           \* bound: size updates of a header block
    MaxInserts            \* bound: entries the peer adds to its table

\* "RESIZE": the peer changes the size of its table; "LATE": it breaks the rules of
\* RFC 7541 4.2 on size updates, which decode does not look at (an update after a
\* field, none where one is owed); "INVALID": it sends what nobody may send and
\* decode looks for, or an integer wider than a word; "LONG": it writes integers with
\* more octets than needed; "STRING": it sends one Huffman-coded string; "REQUEST":
\* the client encodes a request.
EventKinds == {"RESIZE", "LATE", "INVALID", "LONG", "STRING", "REQUEST"}

Kinds == {"indexed", "incremental", "resize", "literal"}

Texts == Seq(Nat)
Headers == Seq([name : Texts, value : Texts])

ASSUME HpackAssumption ==
    /\ ENTRY_OVERHEAD \in Nat \ {0}
    /\ TableSizes \subseteq Nat /\ DEFAULT_TABLE_SIZE \in Nat
    /\ PrefixBits \in [Kinds -> 1..WORD_BITS]
    /\ STATIC_TABLE \in Headers
    /\ Fields \subseteq [name : Texts, value : Texts]
    /\ HuffmanData \subseteq Seq({0, 1})
    /\ MaxFields \in Nat /\ MaxInserts \in Nat /\ MaxUpdates \in Nat /\ Excess \subseteq Nat
    /\ Inputs \subseteq EventKinds
    /\ Err \notin [name : Texts, value : Texts]

\* The static table and the strings of a request are UTF-8, in lower case too.
UTF8 == DOMAIN HUFFMAN_CODES \ BAD_OCTETS
ASSUME TextAssumption ==
    /\ \A i \in DOMAIN STATIC_TABLE :
        /\ STATIC_TABLE[i].name \in Seq(Nat \ BAD_OCTETS)
        /\ STATIC_TABLE[i].value \in Seq(Nat \ BAD_OCTETS)
    /\ RequestFields \subseteq [name : Seq(UTF8), value : Seq(UTF8)]
    /\ LOWER \in [DOMAIN HUFFMAN_CODES -> DOMAIN HUFFMAN_CODES] /\ \A o \in UTF8 : LOWER[o] \in UTF8

\* The sizes and indices that occur are within a word and what read_integer accepts.
Readable(n) == n < 2^WORD_BITS /\ n < 2^(GROUP_BITS * MAX_GROUPS)
ASSUME RangeAssumption ==
    /\ Readable(Len(STATIC_TABLE) + MaxInserts + 1)
    /\ \A n \in TableSizes : Readable(n + 1)
    /\ \A e \in Excess :
        /\ Readable(Len(STATIC_TABLE) + MaxInserts + 1 + e)
        /\ \A n \in TableSizes : Readable(n + 1 + e)
    /\ \A f \in Fields \cup RequestFields : Readable(Len(f.name)) /\ Readable(Len(f.value))

\* The texts whose codes, followed by less than an octet of ones, are the bits.
Means(bits) ==
    {text \in BoundedSeq(DOMAIN HUFFMAN_CODES, Len(bits)) :
        LET n == Len(bits_of(text)) IN
        /\ n <= Len(bits) /\ Len(bits) - n < OCTET_BITS
        /\ bits = bits_of(text) \o ones(Len(bits) - n)}

ASSUME BadDataAssumption == BadData \subseteq Seq({0, 1}) /\ \A bits \in BadData : Means(bits) = {}

VARIABLES
    peer,      \* the peer's encoder: [dynamic, max_size, owes, remiss, lossy, wraps]
    decoder,   \* HpackDecoder: [dynamic, size, max_size, protocol_max]
    block,     \* representations the peer put in the current header block
    sent,      \* the fields they stand for
    got,       \* what the last block gave its stream; Err if nothing
    inserts,   \* entries the peer has added so far
    valid,     \* the peer has sent nothing of BadReps or WideReps
    failed,    \* decode returned an error: the connection is torn down
    message    \* a request or a string that was coded, and what was read of it

vars == <<peer, decoder, block, sent, got, inserts, valid, failed, message>>

NoMessage == [kind |-> "none", sent |-> Err, got |-> Err]

-----------------------------------------------------------------------------
(* The decoder *)

\* What read_string makes of a field's strings.
converted(f) == [name |-> decode_utf8(f.name), value |-> decode_utf8(f.value)]

entry_size(f) == Len(f.name) + Len(f.value) + ENTRY_OVERHEAD

\* Octets of the entries of a table.
table_size(t) ==
    LET sum[n \in 0..Len(t)] == IF n = 0 THEN 0 ELSE sum[n - 1] + entry_size(t[n]) IN sum[Len(t)]

Oldest(t, n) == SubSeq(t, Len(t) - n + 1, Len(t))
AllButOldest(t, n) == SubSeq(t, 1, Len(t) - n)

\* Faulty: stops one entry early.
evict_less(d, limit) ==
    LET left(n) == d.size - table_size(Oldest(d.dynamic, n))
        n == CHOOSE n \in 0..Len(d.dynamic) :
                /\ n = Len(d.dynamic) \/ left(n + 1) <= limit
                /\ \A m \in 0..n - 1 : left(m + 1) > limit IN
    [d EXCEPT !.dynamic = AllButOldest(@, n), !.size = left(n)]

\* Pops the oldest entry while `size` exceeds the limit and there is one.
evict(d, limit) ==
    LET left(n) == d.size - table_size(Oldest(d.dynamic, n))
        n == CHOOSE n \in 0..Len(d.dynamic) :
                /\ n = Len(d.dynamic) \/ left(n) <= limit
                /\ \A m \in 0..n - 1 : left(m) > limit IN
    [d EXCEPT !.dynamic = AllButOldest(@, n), !.size = left(n)]

\* HpackDecoder::insert.  An entry larger than the table empties it.
insert(d, f) ==
    LET e == evict(d, d.max_size - entry_size(f)) IN
    IF entry_size(f) <= d.max_size
    THEN [e EXCEPT !.dynamic = <<f>> \o @, !.size = @ + entry_size(f)]
    ELSE [e EXCEPT !.dynamic = <<>>, !.size = 0]

\* apply_max_size, for n within protocol_max.
apply_max_size(d, n) == evict([d EXCEPT !.max_size = n], n)

\* The indices that entry_at finds.
indices(dynamic) == 1..(Len(STATIC_TABLE) + Len(dynamic))

\* HpackDecoder::entry_at
entry_at(dynamic, i) ==
    IF i <= Len(STATIC_TABLE) THEN STATIC_TABLE[i] ELSE dynamic[i - Len(STATIC_TABLE)]

\* The field of a literal, or Err: its name is a reference, or spelt out after 0.
literal_field(dynamic, r, i) ==
    LET name == IF i = 0 THEN read_string(r.name)
                ELSE IF i \in indices(dynamic) THEN entry_at(dynamic, i).name ELSE Err
        value == read_string(r.value) IN
    IF name = Err \/ value = Err THEN Err ELSE [name |-> name, value |-> value]

\* One turn of the loop of decode: state s is the decoder, the headers so far, and
\* whether an error was returned.
decode_one(s, r) ==
    LET i == read_integer(r.int, PrefixBits[r.kind])
        error == [s EXCEPT !.error = TRUE] IN
    IF s.error THEN s
    ELSE IF i = Err THEN error
    ELSE CASE r.kind = "indexed" ->
                IF i \in indices(s.d.dynamic)
                THEN [s EXCEPT !.headers = Append(@, entry_at(s.d.dynamic, i))] ELSE error
           [] r.kind = "resize" ->
                IF i <= s.d.protocol_max THEN [s EXCEPT !.d = apply_max_size(@, i)] ELSE error
           [] OTHER ->
                LET f == literal_field(s.d.dynamic, r, i) IN
                IF f = Err THEN error
                ELSE [s EXCEPT !.headers = Append(@, f),
                               !.d = IF r.kind = "incremental" THEN insert(@, f) ELSE @]

\* HpackDecoder::decode.  What was done before an error stays done.
decode(d, reps) ==
    LET s[n \in 0..Len(reps)] ==
            IF n = 0 THEN [d |-> d, headers |-> <<>>, error |-> FALSE]
            ELSE decode_one(s[n - 1], reps[n]) IN
    s[Len(reps)]

\* HpackDecoder::new, called by connect with the size it announces in SETTINGS.
new_decoder(n) == [dynamic |-> <<>>, size |-> 0, max_size |-> n, protocol_max |-> n]

-----------------------------------------------------------------------------
(* The encoder of the client *)

NoString == raw_string(<<>>)

Rep(kind, i) ==
    [kind |-> kind, int |-> write_integer(i, PrefixBits[kind]), name |-> NoString, value |-> NoString]

\* static_maps: the first place of a name, and the place of a pair.
named(name) == {i \in DOMAIN STATIC_TABLE : STATIC_TABLE[i].name = name}
name_to_index(name) == {i \in named(name) : \A j \in named(name) : i <= j}
pair_to_index(f) == {i \in DOMAIN STATIC_TABLE : STATIC_TABLE[i] = f}

lowercase(f) == [f EXCEPT !.name = [i \in DOMAIN @ |-> LOWER[@[i]]]]

\* Faulty: a name that is in the static table counts as a match.
encode_field_by_name(h) ==
    LET f == lowercase(h) IN
    IF name_to_index(f.name) # {} THEN Rep("indexed", CHOOSE i \in name_to_index(f.name) : TRUE)
    ELSE [Rep("literal", 0) EXCEPT !.name = write_string(f.name), !.value = write_string(f.value)]

\* The body of the loop of HpackEncoder::encode.  A header that must never be
\* indexed is written as the same kind of literal, with another flag.
encode_field(h) ==
    LET f == lowercase(h) IN
    IF pair_to_index(f) # {} THEN Rep("indexed", CHOOSE i \in pair_to_index(f) : TRUE)
    ELSE IF name_to_index(f.name) # {}
    THEN [Rep("literal", CHOOSE i \in name_to_index(f.name) : TRUE)
            EXCEPT !.value = write_string(f.value)]
    ELSE [Rep("literal", 0) EXCEPT !.name = write_string(f.name), !.value = write_string(f.value)]

\* HpackEncoder::encode
encode(headers) == [i \in DOMAIN headers |-> encode_field(headers[i])]

-----------------------------------------------------------------------------
(* The peer's encoder, as RFC 7541 has it *)

\* The newest entries that fit (RFC 7541 4.2 to 4.4).
fit(t, n) ==
    LET sizes == {k \in 0..Len(t) : table_size(SubSeq(t, 1, k)) <= n} IN
    SubSeq(t, 1, CHOOSE k \in sizes : \A j \in sizes : j <= k)

\* Building a block changes nothing on the client's side.
Building ==
    /\ ~failed /\ valid /\ message = NoMessage
    /\ got' = Err
    /\ UNCHANGED <<decoder, failed, message>>

\* Adds a representation of field f.  Before it there must be a size update, if the
\* peer owes one.
Emit(r, f) ==
    /\ Building
    /\ ~peer.owes \/ "LATE" \in Inputs
    /\ Len(sent) < MaxFields
    /\ block' = Append(block, r)
    /\ sent' = Append(sent, f)

\* The integer with k octets more than it needs, if it has continuation octets.
lengthen(octets, k) ==
    IF Len(octets) = 1 \/ k = 0 THEN octets
    ELSE [octets EXCEPT ![Len(octets)] = @ + GROUP] \o [i \in 1..k |-> IF i < k THEN GROUP ELSE 0]

Slack(octets) == IF "LONG" \in Inputs THEN {0, MAX_GROUPS + 1 - Len(octets)} \cap Nat ELSE {0}

PeerIndexed(i) ==
    \E k \in Slack(Rep("indexed", i).int) :
        /\ Emit([Rep("indexed", i) EXCEPT !.int = lengthen(@, k)], entry_at(peer.dynamic, i))
        /\ peer' = [peer EXCEPT !.remiss = @ \/ peer.owes]
        /\ UNCHANGED <<inserts, valid>>

\* The literal of f whose name is in place i, or spelt out if i is 0.
LiteralRep(kind, f, i) ==
    [Rep(kind, i) EXCEPT !.value = raw_string(f.value),
                         !.name = IF i = 0 THEN raw_string(f.name) ELSE NoString]

NameIs(i, f) == i \in {0} \cup {j \in indices(peer.dynamic) : entry_at(peer.dynamic, j).name = f.name}

PeerLiteral(f, i) ==
    /\ NameIs(i, f)
    /\ Emit(LiteralRep("literal", f, i), f)
    /\ peer' = [peer EXCEPT !.remiss = @ \/ peer.owes]
    /\ UNCHANGED <<inserts, valid>>

PeerIncremental(f, i) ==
    /\ inserts < MaxInserts /\ NameIs(i, f)
    /\ Emit(LiteralRep("incremental", f, i), f)
    /\ peer' = [peer EXCEPT !.dynamic = fit(<<f>> \o @, peer.max_size),
                            !.remiss = @ \/ peer.owes, !.lossy = @ \/ converted(f) # f]
    /\ inserts' = inserts + 1
    /\ UNCHANGED valid

\* A size update; its place is before the fields of a block.
PeerResize(n) ==
    /\ "RESIZE" \in Inputs \/ peer.owes
    /\ Building
    /\ sent = <<>> \/ "LATE" \in Inputs
    /\ Len(block) - Len(sent) < MaxUpdates /\ n <= decoder.protocol_max
    /\ block' = Append(block, Rep("resize", n))
    /\ peer' = [peer EXCEPT !.dynamic = fit(@, n), !.max_size = n, !.owes = FALSE]
    /\ UNCHANGED <<sent, inserts, valid>>

\* Strings that are longer than what is left of the block, or the code of no text.
BadStrings ==
    {[NoString EXCEPT !.length = write_integer(1 + e, STRING_PREFIX)] : e \in Excess} \cup
    {[huffman |-> TRUE, length |-> write_integer(Len(bits) \div OCTET_BITS, STRING_PREFIX),
      octets |-> bits] : bits \in BadData}

\* Representations of legal integers that have continuation octets.
Continued ==
    {r \in {Rep(kind, Len(STATIC_TABLE)) : kind \in Kinds \ {"resize"}}
            \cup {Rep("resize", decoder.protocol_max)} : Len(r.int) > 1}

\* What no peer may send and decode looks for: an index of 0 or, at that point of the
\* block, behind both tables, a size above the announced one, an integer the block
\* ends in or with too many octets, a bad string.
BadReps ==
    LET held == decode(decoder, block).d.dynamic IN
    {Rep("indexed", 0)}
    \cup {Rep(kind, Len(STATIC_TABLE) + Len(held) + 1 + e) :
            kind \in Kinds \ {"resize"}, e \in Excess}
    \cup {Rep("resize", decoder.protocol_max + 1 + e) : e \in Excess}
    \cup {[r EXCEPT !.int = Front(@)] : r \in Continued}
    \cup {[r EXCEPT !.int = lengthen(@, MAX_GROUPS + 2 - Len(@))] : r \in Continued}
    \cup {[Rep(kind, 0) EXCEPT !.name = w] : kind \in {"incremental", "literal"}, w \in BadStrings}
    \cup {[Rep(kind, 0) EXCEPT !.value = w] : kind \in {"incremental", "literal"}, w \in BadStrings}

\* Integers that read_integer accepts and a word does not hold (where usize has 32 bits).
WideReps ==
    {Rep(kind, i) : kind \in Kinds,
                    i \in {n \in {2^WORD_BITS + e : e \in Excess} : n < 2^(GROUP_BITS * MAX_GROUPS)}}

\* Adds a representation no peer may send.
Misuse(r) ==
    /\ "INVALID" \in Inputs
    /\ Building
    /\ Len(sent) < MaxFields
    /\ block' = Append(block, r)
    /\ valid' = FALSE
    /\ UNCHANGED <<sent, inserts>>

PeerBad(r) == Misuse(r) /\ UNCHANGED peer
PeerWide(r) == Misuse(r) /\ peer' = [peer EXCEPT !.wraps = TRUE]

-----------------------------------------------------------------------------
(* The connection *)

\* Faulty: the block of a stream that is gone is skipped.
complete_header_block_known(known) ==
    LET s == IF known THEN decode(decoder, block)
             ELSE [d |-> decoder, headers |-> <<>>, error |-> FALSE] IN
    /\ block # <<>> /\ ~failed
    /\ decoder' = s.d
    /\ failed' = s.error
    /\ got' = IF known /\ ~s.error THEN s.headers ELSE Err
    /\ block' = <<>> /\ sent' = <<>>
    /\ UNCHANGED <<peer, inserts, valid, message>>

\* complete_header_block, with the stream in the map or not: the block is decoded
\* first.  An error ends the connection.
complete_header_block(known) ==
    LET s == decode(decoder, block) IN
    /\ block # <<>> /\ ~failed
    /\ decoder' = s.d
    /\ failed' = s.error
    /\ got' = IF known /\ ~s.error THEN s.headers ELSE Err
    /\ block' = <<>> /\ sent' = <<>>
    /\ UNCHANGED <<peer, inserts, valid, message>>

\* A request is encoded.  The encoder shares nothing with the decoder, so only a
\* connection without responses is looked at; the peer reads as `decode` does.
EncodeRequest(headers) ==
    /\ "REQUEST" \in Inputs
    /\ block = <<>> /\ inserts = 0 /\ ~failed /\ message = NoMessage /\ got = Err
    /\ LET s == decode(new_decoder(DEFAULT_TABLE_SIZE), encode(headers)) IN
       message' = [kind |-> "request", sent |-> headers, got |-> IF s.error THEN Err ELSE s.headers]
    /\ UNCHANGED <<peer, decoder, block, sent, got, inserts, valid, failed>>

\* A Huffman-coded string arrives.
DecodeString(bits) ==
    /\ "STRING" \in Inputs
    /\ block = <<>> /\ inserts = 0 /\ ~failed /\ message = NoMessage /\ got = Err
    /\ message' = [kind |-> "string", sent |-> bits, got |-> huffman_decode(bits)]
    /\ UNCHANGED <<peer, decoder, block, sent, got, inserts, valid, failed>>

Init ==
    /\ \E n \in TableSizes :
        /\ decoder = new_decoder(n)
        /\ peer = [dynamic |-> <<>>, max_size |-> DEFAULT_TABLE_SIZE,
                   owes |-> n < DEFAULT_TABLE_SIZE, remiss |-> FALSE,
                   lossy |-> FALSE, wraps |-> FALSE]
    /\ block = <<>> /\ sent = <<>> /\ got = Err
    /\ inserts = 0 /\ valid = TRUE /\ failed = FALSE
    /\ message = NoMessage

Peer ==
    \/ \E i \in indices(peer.dynamic) : PeerIndexed(i)
    \/ \E f \in Fields, i \in {0} \cup indices(peer.dynamic) :
          PeerLiteral(f, i) \/ PeerIncremental(f, i)
    \/ \E n \in TableSizes : PeerResize(n)
    \/ \E r \in BadReps : PeerBad(r)
    \/ \E r \in WideReps : PeerWide(r)
    \/ \E bits \in HuffmanData : DecodeString(bits)

Next ==
    \/ Peer
    \/ \E known \in BOOLEAN : complete_header_block(known)
    \/ \E headers \in BoundedSeq(RequestFields, 2) : EncodeRequest(headers)

Spec == Init /\ [][Next]_vars

-----------------------------------------------------------------------------
(* Properties *)

Strings == [huffman : BOOLEAN, length : Seq(Nat), octets : Seq(Nat)]
TypeOK ==
    /\ peer \in [dynamic : Headers, max_size : Nat, owes : BOOLEAN, remiss : BOOLEAN,
                lossy : BOOLEAN, wraps : BOOLEAN]
    /\ decoder \in [dynamic : Headers, size : Nat, max_size : Nat, protocol_max : TableSizes]
    /\ block \in Seq([kind : Kinds, int : Seq(Nat), name : Strings, value : Strings])
    /\ sent \in Headers /\ got \in Headers \cup {Err}
    /\ inserts \in 0..MaxInserts
    /\ valid \in BOOLEAN /\ failed \in BOOLEAN

\* The decoder's count of octets is that of its entries, and they fit in the size
\* the peer chose, which is within the size the client announced: what a peer may
\* make the client keep is bounded, over any sequence of insertions and updates
\* (insert, apply_max_size).  (With the types of the state.)
TableBounded ==
    /\ TypeOK
    /\ decoder.size = table_size(decoder.dynamic)
    /\ decoder.size <= decoder.max_size /\ decoder.max_size <= decoder.protocol_max

\* Between blocks, every entry of the peer's table is in the same place in the
\* decoder's: the streams the blocks were for may be gone, entries may be larger
\* than the table, size updates may come after fields, and the decoder may keep more
\* when the client announced more than the peer uses.  The table of a peer that did
\* not shrink it to what the client announced may hold more, but an entry the decoder
\* has is in the peer's place.  Nothing is said once a field with octets that are not
\* UTF-8 was inserted: insert counts the octets of the converted text (read_string,
\* insert).
InSync ==
    block = <<>> /\ valid /\ ~peer.lossy =>
        IF peer.remiss THEN failed \/ IsPrefix(decoder.dynamic, peer.dynamic)
        ELSE IsPrefix(peer.dynamic, decoder.dynamic)

\* The block of a peer that sends nothing of BadReps and WideReps is accepted and gives
\* its stream, if that is still there, the fields the peer meant.  That is so of a
\* size update after a field too, which RFC 7541 4.2 forbids and decode accepts.  A
\* peer that left out the update it owes is read right or refused.  A block with one
\* of BadReps is refused.  Nothing is said of a block with an integer that is wider
\* than a word, which read_integer wraps (on wasm32), nor once a field with octets
\* that are not UTF-8 was inserted (decode, read_integer, insert).
DecodedAsSent ==
    [][block # <<>> /\ block' = <<>> =>
          \/ ~valid /\ (failed' \/ peer.wraps)
          \/ valid /\ peer.lossy
          \/ valid /\ failed' /\ peer.remiss
          \/ valid /\ ~failed' /\ got' \in {Err, [i \in DOMAIN sent |-> converted(sent[i])]}]_vars

\* What the client encodes, a decoder reads back, names in lower case (encode,
\* write_string, huffman_encode, write_integer).
RequestSurvives ==
    message.kind = "request" =>
        message.got = [i \in DOMAIN message.sent |-> lowercase(message.sent[i])]

\* huffman_decode accepts exactly the codes of a text followed by less than an octet
\* of ones, and returns that text.
StringsExact ==
    message.kind = "string" =>
        IF message.got = Err THEN Means(message.sent) = {} ELSE message.got \in Means(message.sent)
=============================================================================

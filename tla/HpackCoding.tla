---------------------------- MODULE HpackCoding ----------------------------
(***************************************************************************)
(* The codings of HPACK in the Rust client: prefix integers and strings    *)
(* (hpack/mod.rs) and the Huffman code (hpack/huffman.rs), as operators.   *)
(* A text is a sequence of octets, an octet of a text a member of the      *)
(* domain of HUFFMAN_CODES; Huffman-coded data is a sequence of bits whose *)
(* length is a multiple of OCTET_BITS.  All widths are constants, so that  *)
(* small instances reach every boundary.                                   *)
(***************************************************************************)
EXTENDS Integers, Sequences, SequencesExt

CONSTANTS
    GROUP_BITS,     \* bits in a continuation octet of an integer (7)
    MAX_GROUPS,     \* continuation octets that read_integer accepts (6)
    WORD_BITS,      \* width of usize
    STRING_PREFIX,  \* bits of the prefix of a string's length (7)
    OCTET_BITS,     \* bits in an octet of Huffman-coded data (8)
    HUFFMAN_CODES,  \* the code of each octet: a sequence of bits
    HUFFMAN_EOS,    \* the code of the end-of-string symbol: ones
    BAD_OCTETS,     \* octets that are not UTF-8 wherever they stand
    REPLACEMENT,    \* U+FFFD in UTF-8, which the lossy conversion puts there
    Err             \* what a reader returns when it fails (COMPRESSION_ERROR)

ASSUME CodingAssumption ==
    /\ {GROUP_BITS, MAX_GROUPS, WORD_BITS, STRING_PREFIX, OCTET_BITS} \subseteq Nat \ {0}
    /\ GROUP_BITS <= WORD_BITS /\ STRING_PREFIX <= WORD_BITS
    /\ BAD_OCTETS \subseteq DOMAIN HUFFMAN_CODES /\ REPLACEMENT \in Seq(Nat)
    /\ Err \notin Nat /\ Err \notin Seq(Nat)

\* The table of huffman_table.rs: no code is the beginning of another, and that of
\* the end of a string is ones, at least an octet of them.
ASSUME HuffmanAssumption ==
    /\ DOMAIN HUFFMAN_CODES \subseteq Nat
    /\ HUFFMAN_CODES \in [DOMAIN HUFFMAN_CODES -> Seq({0, 1}) \ {<<>>}]
    /\ \A a, b \in DOMAIN HUFFMAN_CODES : IsPrefix(HUFFMAN_CODES[a], HUFFMAN_CODES[b]) => a = b
    /\ HUFFMAN_EOS \in Seq({1}) /\ Len(HUFFMAN_EOS) >= OCTET_BITS
    /\ \A a \in DOMAIN HUFFMAN_CODES : ~IsPrefix(HUFFMAN_CODES[a], HUFFMAN_EOS)

\* What is used of powers, over the exponents that occur.
ASSUME PowersAssumption ==
    /\ 2^0 = 1
    /\ \A n \in 0..(WORD_BITS + GROUP_BITS * MAX_GROUPS) : 2^n \in Nat \ {0} /\ 2^(n + 1) = 2 * 2^n

-----------------------------------------------------------------------------
(* Prefix integers *)

GROUP == 2^GROUP_BITS

\* The octets after the prefix: the least significant bits first, all but the
\* last with the high bit set.  After i turns of the loop, left[i] is still to write.
groups(rest) ==
    LET left[i \in 0..rest] == IF i = 0 THEN rest ELSE left[i - 1] \div GROUP
        last == CHOOSE i \in 0..rest : left[i] < GROUP /\ \A j \in 0..i - 1 : left[j] >= GROUP IN
    [i \in 1..last + 1 |-> IF i <= last THEN GROUP + (left[i - 1] % GROUP) ELSE left[last]]

\* write_integer
write_integer(value, bits) ==
    LET max == 2^bits - 1 IN
    IF value < max THEN <<value>> ELSE <<max>> \o groups(value - max)

\* (byte & 0x7f) << shift in a usize, as the release build computes it: the shift
\* is taken modulo the width and bits that do not fit are lost.
shifted(octet, i) ==
    ((octet % GROUP) * 2^((GROUP_BITS * (i - 1)) % WORD_BITS)) % 2^WORD_BITS

\* Faulty: a size check that rejects the longest integer it should accept.
overflows_early(n) == n >= MAX_GROUPS

\* shift > 42, after n continuation octets.
overflows(n) == n > MAX_GROUPS

\* read_integer: the value or Err.  The loop stops at the first octet without the
\* high bit, and fails after MAX_GROUPS octets or if there is no such octet.
read_integer(octets, bits) ==
    LET max == 2^bits - 1
        rest == Tail(octets)
        ends == {i \in DOMAIN rest : rest[i] < GROUP}
        last == CHOOSE i \in ends : \A j \in ends : i <= j
        value[i \in 0..Len(rest)] ==
            IF i = 0 THEN max ELSE (value[i - 1] + shifted(rest[i], i)) % 2^WORD_BITS IN
    IF octets[1] < max THEN octets[1]
    ELSE IF ends # {} /\ ~overflows(last) THEN value[last] ELSE Err

-----------------------------------------------------------------------------
(* The Huffman code *)

\* The codes of the octets of a text, one after the other.
bits_of(text) == FlattenSeq([i \in DOMAIN text |-> HUFFMAN_CODES[text[i]]])

\* encoded_bit_length(..).div_ceil(8)
encoded_octets(text) == (Len(bits_of(text)) + OCTET_BITS - 1) \div OCTET_BITS

ones(n) == [i \in 1..n |-> 1]

\* huffman_encode: the last octet is padded with ones.
huffman_encode(text) ==
    bits_of(text) \o ones(encoded_octets(text) * OCTET_BITS - Len(bits_of(text)))

\* huffman_shorter
huffman_shorter(text) == encoded_octets(text) < Len(text)

\* One bit of huffman_decode.  `partial` is the path from the root of the trie: a
\* node of the trie is a proper prefix of a code.
walk(s, b) ==
    LET path == Append(s.partial, b)
        symbols == {sym \in DOMAIN HUFFMAN_CODES : HUFFMAN_CODES[sym] = path}
        inner == \E code \in Range(HUFFMAN_CODES) \cup {HUFFMAN_EOS} : IsStrictPrefix(path, code) IN
    IF s.error THEN s
    ELSE IF symbols # {}
         THEN [s EXCEPT !.out = Append(@, CHOOSE sym \in symbols : TRUE), !.partial = <<>>]
    ELSE IF inner THEN [s EXCEPT !.partial = path]
    ELSE [s EXCEPT !.error = TRUE]

\* Faulty: any number of ones may follow the last symbol.
bad_padding_long(partial) == \E i \in DOMAIN partial : partial[i] = 0

\* What is left must be less than an octet of ones.
bad_padding(partial) ==
    Len(partial) >= OCTET_BITS \/ \E i \in DOMAIN partial : partial[i] = 0

\* huffman_decode
huffman_decode(bits) ==
    LET s[n \in 0..Len(bits)] ==
            IF n = 0 THEN [out |-> <<>>, partial |-> <<>>, error |-> FALSE]
            ELSE walk(s[n - 1], bits[n])
        end == s[Len(bits)] IN
    IF end.error \/ bad_padding(end.partial) THEN Err ELSE end.out

-----------------------------------------------------------------------------
(* Strings *)

\* decode_utf8: lossy, every octet that is not UTF-8 becomes a replacement.
decode_utf8(text) ==
    FlattenSeq([i \in DOMAIN text |-> IF text[i] \in BAD_OCTETS THEN REPLACEMENT ELSE <<text[i]>>])

\* A string on the wire: its length and its octets, Huffman-coded or not.
raw_string(text) ==
    [huffman |-> FALSE, length |-> write_integer(Len(text), STRING_PREFIX), octets |-> text]

huffman_string(text) ==
    [huffman |-> TRUE, length |-> write_integer(encoded_octets(text), STRING_PREFIX),
     octets |-> huffman_encode(text)]

\* write_string
write_string(text) == IF huffman_shorter(text) THEN huffman_string(text) ELSE raw_string(text)

\* Octets that follow the length.
remaining(w) == IF w.huffman THEN Len(w.octets) \div OCTET_BITS ELSE Len(w.octets)

\* read_string
read_string(w) ==
    LET n == read_integer(w.length, STRING_PREFIX)
        text == IF w.huffman THEN huffman_decode(w.octets) ELSE w.octets IN
    IF n = Err \/ n > remaining(w) \/ text = Err THEN Err ELSE decode_utf8(text)
=============================================================================

------------------------------ MODULE MCHpack ------------------------------
(* Values of the constants of Hpack that a configuration cannot write. *)
EXTENDS Hpack

\* Octets of a text: a letter, a small and a capital letter, and one that is not
\* UTF-8.
MCCodes == (0 :> <<0>>) @@ (1 :> <<1, 0>>) @@ (2 :> <<1, 1, 0>>) @@ (3 :> <<1, 1, 1, 0>>)
MCEos == <<1, 1, 1, 1>>
MCLower == (0 :> 0) @@ (1 :> 1) @@ (2 :> 1) @@ (3 :> 3)
MCReplacement == <<4, 4, 4>>

field(n, v) == [name |-> n, value |-> v]
MCStatic == <<field(<<1>>, <<>>), field(<<1>>, <<0>>)>>
MCPrefix == [indexed |-> 2, incremental |-> 1, resize |-> 2, literal |-> 1]

\* Entries of 2, 3 and 4 octets; the last one becomes larger when it is converted.
MCFields == {field(<<1>>, <<>>), field(<<0>>, <<1>>), field(<<0, 0>>, <<3>>)}

MCRequestFields ==
    {field(n, v) : n \in {<<0>>, <<1>>, <<2>>, <<0, 2>>},
                   v \in {<<>>, <<0>>, <<0, 0>>, <<2, 2, 2>>, <<0, 0, 0, 1>>, <<1, 0, 0, 0, 0, 0, 0>>}}

\* An octet of ones, and the end-of-string symbol.
MCBadData == {<<1, 1, 1>>, <<0, 0, 1, 1, 1, 1>>}

MCHuffmanData == [1..3 -> {0, 1}] \cup [1..6 -> {0, 1}]
=============================================================================

----------------------------- MODULE Handshake -----------------------------
(***************************************************************************)
(* The WebSocket handshake of the Rust server (handshake.rs), as           *)
(* operators: from the headers of a request, the protocol that the         *)
(* application selects and the options, the decision to answer 101 or to   *)
(* reject.                                                                 *)
(*                                                                         *)
(* A token is <<word, spelling>>: eq_ignore_ascii_case compares the words, *)
(* the bytes on the wire are the spelling.  A header is the sequence of    *)
(* its lines, a line the sequence of its tokens, or Opaque if it is not    *)
(* ASCII.  The key is there or not; its hash is left out.                  *)
(***************************************************************************)
EXTENDS Integers, Sequences, FiniteSetsExt, Functions

CONSTANTS
    DEFAULT_SUBPROTOCOL,   \* the word "h2ts"
    Empty,                 \* the word of an empty token
    Opaque,                \* a line that to_str refuses
    Absent                 \* an Option that is None

eq_ignore_ascii_case(t, u) == t[1] = u[1]

\* headers().get(..).to_str(): the first line only.
first_line(lines) == IF lines = <<>> \/ Head(lines) = Opaque THEN <<>> ELSE Head(lines)

\* header_lists
header_lists(lines, word) == \E i \in DOMAIN first_line(lines) : first_line(lines)[i][1] = word

\* Faulty: the key is taken for the whole request to upgrade.
is_upgrade_request_by_key(r) == r.key

\* is_upgrade_request
is_upgrade_request(r) ==
    /\ header_lists(r.upgrade, "websocket")
    /\ header_lists(r.connection, "upgrade")
    /\ r.key

\* offered_protocols: the tokens that are not empty, at their places in the line.
offered_protocols(r) ==
    LET line == first_line(r.protocol) IN
    Restrict(line, {i \in DOMAIN line : line[i][1] # Empty})

\* Where `offered` has the same token but for case.
same(offered, t) == {i \in DOMAIN offered : eq_ignore_ascii_case(offered[i], t)}

\* Iterator::find, and first.
first(offered, places) == offered[Min(places)]

Reject(error) == [status |-> error]
Switch(protocol) == [status |-> 101, protocol |-> protocol]

\* fallback_subprotocol
fallback_subprotocol(offered, allow_implicit_codec) ==
    LET h2ts == same(offered, <<DEFAULT_SUBPROTOCOL, "">>) IN
    CASE h2ts # {} -> Switch(first(offered, h2ts))
      [] h2ts = {} /\ allow_implicit_codec ->
            Switch(IF DOMAIN offered = {} THEN Absent ELSE first(offered, DOMAIN offered))
      [] OTHER -> Reject(400)

\* The allowlist, if there is one, has the origin of the request: the whole line, one
\* token here.
origin_ok(r, allowed) ==
    \/ allowed = Absent
    \/ /\ first_line(r.origin) # <<>>
       /\ \E a \in allowed : eq_ignore_ascii_case(Head(first_line(r.origin)), a)

\* Faulty: a selection is taken as it is.
selected_unchecked(offered, selection) == selection # Absent

\* A selection counts if it was offered.
selected(offered, selection) == selection # Absent /\ same(offered, selection) # {}

\* accept_with_options, with the status that rejection_response gives an error.
accept_with_options(r, selection, options) ==
    LET offered == offered_protocols(r) IN
    CASE ~is_upgrade_request(r) -> Reject(426)
      [] is_upgrade_request(r) /\ ~origin_ok(r, options.allowed_origins) -> Reject(403)
      [] OTHER -> IF selected(offered, selection) THEN Switch(selection)
                  ELSE fallback_subprotocol(offered, options.allow_implicit_codec)
=============================================================================

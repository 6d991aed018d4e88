----------------------------- MODULE ByteTunnel -----------------------------
(***************************************************************************)
(* What a bridge promises: two byte streams in opposite directions, each   *)
(* delivered in order, once and without gaps, until it ends.  A stream     *)
(* that ends "complete" delivered everything that was sent; one that is    *)
(* "cut" may have lost a tail, and says so.                                *)
(***************************************************************************)
EXTENDS Integers, Sequences

VARIABLES
    up_sent, up_got, up_end,       \* WebSocket client to upstream
    down_sent, down_got, down_end  \* upstream to WebSocket client

up == <<up_sent, up_got, up_end>>
down == <<down_sent, down_got, down_end>>

Init ==
    /\ up_sent = 0 /\ up_got = <<>> /\ up_end = "open"
    /\ down_sent = 0 /\ down_got = <<>> /\ down_end = "open"

Send(sent, got, ending) ==
    /\ ending # "complete"
    /\ sent' = sent + 1
    /\ UNCHANGED <<got, ending>>

Deliver(sent, got, ending) ==
    /\ ending = "open"
    /\ Len(got) < sent
    /\ got' = Append(got, Len(got) + 1)
    /\ UNCHANGED <<sent, ending>>

\* A stream ends, perhaps with the delivery of one more unit; it is complete
\* only if all of it was delivered.
End(sent, got, ending) ==
    /\ ending = "open"
    /\ \/ got' = got
       \/ Len(got) < sent /\ got' = Append(got, Len(got) + 1)
    /\ \/ ending' = "cut"
       \/ ending' = "complete" /\ Len(got') = sent
    /\ UNCHANGED sent

EndsUp == End(up_sent, up_got, up_end)
EndsDown == End(down_sent, down_got, down_end)

Next ==
    \/ Send(up_sent, up_got, up_end) /\ UNCHANGED down
    \/ Send(down_sent, down_got, down_end) /\ UNCHANGED up
    \/ Deliver(up_sent, up_got, up_end) /\ UNCHANGED down
    \/ Deliver(down_sent, down_got, down_end) /\ UNCHANGED up
    \/ EndsUp /\ UNCHANGED down
    \/ EndsDown /\ UNCHANGED up
    \/ EndsUp /\ EndsDown

Spec == Init /\ [][Next]_<<up, down>>
=============================================================================

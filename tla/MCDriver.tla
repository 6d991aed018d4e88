------------------------------ MODULE MCDriver ------------------------------
(* Values of the constants of Driver that a configuration cannot write. *)
EXTENDS Driver

data(n, end) == [type |-> "DATA", stream |-> 2, data |-> n, end_stream |-> end]
priority == [dependency |-> 4, exclusive |-> TRUE, weight |-> 1]
headers(n, end, p) ==
    [type |-> "HEADERS", stream |-> 2, data |-> n, end_stream |-> TRUE, end_headers |-> end, priority |-> p]
continuation(n, end) == [type |-> "CONTINUATION", stream |-> 2, data |-> n, end_headers |-> end]
promise(id, n) ==
    [type |-> "PUSH_PROMISE", stream |-> 2, promised |-> id, data |-> n, end_headers |-> TRUE]
settings(id, v) == [type |-> "SETTINGS", ack |-> FALSE, settings |-> [NoSettings EXCEPT ![id] = v]]
ping(ack) == [type |-> "PING", ack |-> ack, opaque |-> word32(7)]
peer_goaway(code) == [type |-> "GOAWAY", last |-> 0, code |-> word32(code), data |-> 1]
window(stream, n) == [type |-> "WINDOW_UPDATE", stream |-> stream, increment |-> n]
rst == [type |-> "RST_STREAM", stream |-> 2, code |-> <<1, 1>>]
reprioritise == [type |-> "PRIORITY", stream |-> 2, priority |-> priority]

\* A frame as the codec writes it, and in other ways that mean the same.
plain(f) == [meant |-> f, octets |-> serialize_frame(f)]
padded(f, n) ==
    LET w == serialize_frame(f) IN
    [meant |-> f, octets |-> [w EXCEPT !.flags = @ \cup {PADDED}, !.pad = n, !.length = @ + 1 + n]]
reserved(f) == [meant |-> f, octets |-> [serialize_frame(f) EXCEPT !.stream[1] = 1, !.words[1][1] = 1]]
repeated ==
    [meant |-> settings(2, TRUE),
     octets |-> Wire("SETTINGS", {}, 0, 18, <<>>, <<<<2, <<0, 0>>>>, <<9, <<0, 1>>>>, <<2, <<0, 5>>>>>>)]
unknown == [meant |-> None, octets |-> Wire("ALTSVC", {1}, 2, 3, <<>>, <<>>)]

\* A PRIORITY of the wrong length is an error of its stream.
resized_priority(n) == [meant |-> None, octets |-> [serialize_frame(reprioritise) EXCEPT !.length = n]]

\* Frames that must be refused.
resized(f, n, code) == [meant |-> Error(code), octets |-> [serialize_frame(f) EXCEPT !.length = n]]
overpadded(f, n) ==
    [meant |-> Error("PROTOCOL_ERROR"),
     octets |-> [serialize_frame(f) EXCEPT !.flags = @ \cup {PADDED}, !.pad = n]]

MCWires ==
    {<<plain(settings(5, word32(6))), padded(data(2, FALSE), 1), plain(ping(FALSE))>>,
     <<repeated, reserved(window(2, 3)), plain(data(0, TRUE))>>,
     <<padded(headers(2, FALSE, priority), 2), plain(continuation(1, TRUE)), plain(peer_goaway(2)),
       plain(ping(FALSE))>>,
     <<plain(peer_goaway(2)), plain(continuation(1, TRUE)), plain(ping(FALSE))>>,
     <<padded(promise(4, 2), 0), reserved(window(2, 0)), unknown, plain(rst)>>,
     <<plain(promise(6, 2)), plain(promise(4, 2)), plain(window(0, 0))>>,
     <<plain(reprioritise), plain(peer_goaway(0)), plain(ping(TRUE))>>,
     <<plain(ping(FALSE)), resized_priority(4), plain(ping(FALSE))>>,
     <<plain(data(1, FALSE)), resized(data(1, FALSE), 19, "FRAME_SIZE_ERROR")>>,
     <<plain(headers(2, FALSE, None)), plain(data(1, FALSE))>>,
     <<plain(headers(6, FALSE, None)), plain(continuation(3, TRUE)), plain(continuation(3, TRUE))>>,
     <<plain(settings(4, <<1, 0>>))>>,
     <<plain(settings(5, word32(2)))>>,
     <<overpadded(data(2, FALSE), 2)>>,
     <<overpadded(promise(4, 1), 1)>>,
     <<resized(settings(3, word32(1)), 5, "FRAME_SIZE_ERROR")>>,
     <<resized(headers(0, TRUE, priority), 4, "PROTOCOL_ERROR")>>}

Options(n) ==
    [header_table_size |-> 4, enable_push |-> TRUE, initial_window_size |-> 2, max_frame_size |-> 18,
     connection_window_size |-> n]

\* A larger connection window is asked for, or not, or one with too large an increment.
MCScenarios ==
    {[options |-> Options(5), wire |-> w] : w \in MCWires}
    \cup {[options |-> Options(n), wire |-> <<plain(settings(4, <<1, 0>>))>>] :
             n \in {3, HIGH_BIT + 3, 2 * HIGH_BIT - 1}}
=============================================================================

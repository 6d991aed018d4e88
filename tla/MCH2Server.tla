----------------------------- MODULE MCH2Server -----------------------------
(* Values of the constants of H2Server that a configuration cannot write. *)
EXTENDS H2Server

token(w) == <<w, w>>
capital(w) == <<w, "capital">>
line(w) == <<token(w)>>

MCWords == {"websocket", "upgrade", "keep-alive", Empty, "chat", "h2ts", "app", "other"}
MCTokens == {token(w) : w \in MCWords} \cup {capital(w) : w \in MCWords}

MCRequests ==
    [upgrade : {<<>>, <<line("websocket")>>},
     connection : {<<line("keep-alive")>>, <<<<token("keep-alive"), capital("upgrade")>>>>,
                   <<line("keep-alive"), line("upgrade")>>},
     key : BOOLEAN,
     protocol : {<<>>, <<Opaque>>, <<<<token(Empty), token("chat")>>>>, <<<<token("chat"), capital("h2ts")>>>>,
                 <<line("chat"), line("h2ts")>>},
     origin : {<<>>, <<Opaque>>, <<<<capital("app")>>>>, <<line("other")>>}]

MCSelections == {Absent, token("chat"), capital("chat"), token("other")}

MCConfigs ==
    [allow_implicit_codec : BOOLEAN, allowed_origins : {Absent, {token("app")}}, idle_timeout : BOOLEAN]
=============================================================================

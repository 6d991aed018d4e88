--------------------------- MODULE H2ServerProofs ---------------------------
(***************************************************************************)
(* Proofs about a tunnelled connection of the Rust server: what the        *)
(* handshake lets through, for every header, selector and option, and the  *)
(* count that the idle reaper relies on, for every number of streams.      *)
(***************************************************************************)
EXTENDS H2Server, Iteration, FiniteSetTheorems, TLAPS

USE IdleAssumption, HeadersAssumption

-----------------------------------------------------------------------------
(* The handshake *)

\* A nonempty set of naturals has a least element, which Min picks.
LEMMA MinOfNats == ASSUME NEW S \in SUBSET Nat, S # {} PROVE Min(S) \in S
BY LeastNat DEF Min

\* The line that a header is read from is its first, or nothing.
LEMMA FirstLine ==
    ASSUME NEW lines \in Headers
    PROVE  /\ first_line(lines) \in Seq(Tokens)
           /\ first_line(lines) # <<>> => 1 \in DOMAIN lines /\ first_line(lines) = lines[1]
BY DEF Headers, first_line

\* What is offered stands in the first line of the request.
LEMMA Offered ==
    ASSUME NEW r \in Requests
    PROVE  LET offered == offered_protocols(r) IN
           /\ DOMAIN offered \subseteq Nat
           /\ \A i \in DOMAIN offered :
                /\ offered[i] \in Tokens
                /\ offered[i] # Absent
                /\ 1 \in DOMAIN r.protocol
                /\ offered[i] \in Range(r.protocol[1])
<1> DEFINE line == first_line(r.protocol)
           offered == offered_protocols(r)
<1>1. r.protocol \in Headers
  BY HeadersAssumption
<1>2. /\ line \in Seq(Tokens)
      /\ line # <<>> => 1 \in DOMAIN r.protocol /\ line = r.protocol[1]
  BY <1>1, FirstLine
<1>3. /\ DOMAIN offered \subseteq DOMAIN line
      /\ \A i \in DOMAIN offered : offered[i] = line[i]
  BY DEF offered_protocols, Restrict
<1>4. DOMAIN line \subseteq Nat /\ \A i \in DOMAIN line : line[i] \in Tokens /\ line # <<>>
  BY <1>2
<1>5. \A i \in DOMAIN line : line[i] \in Range(line)
  BY DEF Range
<1> HIDE DEF line, offered
<1>6. /\ DOMAIN offered \subseteq Nat
      /\ \A i \in DOMAIN offered :
            /\ offered[i] \in Tokens /\ offered[i] # Absent /\ 1 \in DOMAIN r.protocol
            /\ offered[i] \in Range(r.protocol[1])
  BY <1>2, <1>3, <1>4, <1>5, HeadersAssumption
<1> QED BY <1>6 DEF offered

\* Where a client offers the default protocol.
DefaultPlaces(offered) == same(offered, <<DEFAULT_SUBPROTOCOL, "">>)

LEMMA Fallback ==
    ASSUME NEW offered, NEW implicit, NEW response,
           response = fallback_subprotocol(offered, implicit), response.status = 101
    PROVE  \/ /\ DefaultPlaces(offered) # {}
              /\ response.protocol = first(offered, DefaultPlaces(offered))
           \/ /\ implicit /\ DOMAIN offered = {}
              /\ response.protocol = Absent
           \/ /\ implicit /\ DOMAIN offered # {}
              /\ response.protocol = first(offered, DOMAIN offered)
<1>1. Reject(400).status # 101
  BY DEF Reject
<1>2. \A p : Switch(p).protocol = p
  BY DEF Switch
<1>3. CASE DefaultPlaces(offered) # {}
  <2>1. response = Switch(first(offered, DefaultPlaces(offered)))
    BY <1>3 DEF fallback_subprotocol, DefaultPlaces
  <2> QED BY <1>2, <1>3, <2>1
<1>4. CASE DefaultPlaces(offered) = {} /\ implicit
  <2>1. response = Switch(IF DOMAIN offered = {} THEN Absent ELSE first(offered, DOMAIN offered))
    BY <1>4 DEF fallback_subprotocol, DefaultPlaces
  <2>2. CASE DOMAIN offered = {}
    BY <1>2, <1>4, <2>1, <2>2
  <2>3. CASE DOMAIN offered # {}
    <3>1. response = Switch(first(offered, DOMAIN offered))
      BY <2>1, <2>3
    <3> QED BY <1>2, <1>4, <2>3, <3>1
  <2> QED BY <2>2, <2>3
<1>5. CASE DefaultPlaces(offered) = {} /\ ~implicit
  <2>1. response = Reject(400)
    BY <1>5 DEF fallback_subprotocol, DefaultPlaces
  <2> QED BY <1>1, <2>1
<1> QED BY <1>3, <1>4, <1>5

\* Everything a 101 says: the request was an upgrade from an origin that is allowed, and
\* the protocol is the selection or the fallback.
LEMMA Accepted ==
    ASSUME NEW r, NEW selection, NEW options, NEW response, NEW offered,
           response = accept_with_options(r, selection, options), response.status = 101,
           offered = offered_protocols(r)
    PROVE  /\ is_upgrade_request(r)
           /\ origin_ok(r, options.allowed_origins)
           /\ \/ response.protocol = selection /\ selected(offered, selection)
              \/ /\ DefaultPlaces(offered) # {}
                 /\ response.protocol = first(offered, DefaultPlaces(offered))
              \/ /\ options.allow_implicit_codec /\ DOMAIN offered = {}
                 /\ response.protocol = Absent
              \/ /\ options.allow_implicit_codec /\ DOMAIN offered # {}
                 /\ response.protocol = first(offered, DOMAIN offered)
<1>1. \A e \in {403, 426} : Reject(e).status # 101
  BY DEF Reject
<1>2. is_upgrade_request(r) /\ origin_ok(r, options.allowed_origins)
  BY <1>1 DEF accept_with_options
<1>3. response = IF selected(offered, selection) THEN Switch(selection)
                 ELSE fallback_subprotocol(offered, options.allow_implicit_codec)
  BY <1>2 DEF accept_with_options
<1>4. CASE selected(offered, selection)
  BY <1>2, <1>3, <1>4 DEF Switch
<1>5. CASE ~selected(offered, selection)
  <2>1. response = fallback_subprotocol(offered, options.allow_implicit_codec)
    BY <1>3, <1>5
  <2> QED BY <1>2, <2>1, Fallback
<1> QED BY <1>4, <1>5

\* Steps after the answer leave it alone, or forget it.
LEMMA OnlyAcceptAnswers ==
    ASSUME [ServerNext]_all_vars, phase' = "upgrading"
    PROVE  \/ phase = "upgrading" /\ UNCHANGED <<handshake, config>>
           \/ \E r \in Requests, s \in Selections : Accept(r, s)
<1>1. CASE UNCHANGED all_vars
  BY <1>1 DEF all_vars, server_vars
<1>2. CASE Upgraded \/ UpgradeFails
  BY <1>2 DEF Upgraded, UpgradeFails
<1>3. ASSUME UNCHANGED server_vars
      PROVE  phase = "upgrading" /\ UNCHANGED <<handshake, config>>
  BY <1>3 DEF server_vars
<1> QED BY <1>1, <1>2, <1>3 DEF ServerNext, Serving

\* The answer of a step that accepts is the handshake of the request.
LEMMA AcceptAnswers ==
    ASSUME NEW r, NEW s, Accept(r, s), phase' = "upgrading"
    PROVE  LET response == accept_with_options(r, s, config) IN
           /\ handshake'.request = r /\ handshake'.selection = s
           /\ handshake'.response = response /\ response.status = 101
           /\ UNCHANGED config
BY DEF Accept

\* Whatever the selector returns, the protocol echoed is one the client offered, up to
\* case (offered_protocols, fallback_subprotocol, accept_with_options).
THEOREM EchoWasOfferedHolds == ServerSpec => []EchoWasOffered
<1>1. ServerInit => EchoWasOffered
  BY DEF ServerInit, EchoWasOffered
<1>2. ASSUME NEW r \in Requests, NEW s \in Selections, Accept(r, s), phase' = "upgrading"
      PROVE  EchoWasOffered'
  <2> DEFINE offered == offered_protocols(r)
             protocol == accept_with_options(r, s, config).protocol
             h2ts == DefaultPlaces(offered)
  <2>0. /\ handshake'.request = r
        /\ handshake'.response = accept_with_options(r, s, config)
        /\ accept_with_options(r, s, config).status = 101
    BY <1>2, AcceptAnswers
  <2>1. \/ protocol = s /\ selected(offered, s)
        \/ h2ts # {} /\ protocol = first(offered, h2ts)
        \/ protocol = Absent
        \/ DOMAIN offered # {} /\ protocol = first(offered, DOMAIN offered)
    BY <2>0, Accepted
  <2>2. /\ DOMAIN offered \subseteq Nat
        /\ \A i \in DOMAIN offered : /\ 1 \in DOMAIN r.protocol
                                     /\ offered[i] \in Range(r.protocol[1])
    BY Offered
  <2> HIDE DEF offered, protocol
  <2>3. h2ts \subseteq DOMAIN offered
    BY DEF DefaultPlaces, same
  <2>4. protocol # Absent => \E i \in DOMAIN offered : eq_ignore_ascii_case(offered[i], protocol)
    <3>1. CASE protocol = s /\ selected(offered, s)
      BY <3>1 DEF selected, same
    <3>2. ASSUME NEW S \in SUBSET DOMAIN offered, S # {}, protocol = first(offered, S)
          PROVE  \E i \in DOMAIN offered : eq_ignore_ascii_case(offered[i], protocol)
      <4>1. Min(S) \in S
        BY <2>2, <3>2, MinOfNats
      <4> QED BY <3>2, <4>1 DEF first, eq_ignore_ascii_case
    <3>3. CASE h2ts # {} /\ protocol = first(offered, h2ts)
      BY <2>3, <3>2, <3>3
    <3>4. CASE DOMAIN offered # {} /\ protocol = first(offered, DOMAIN offered)
      BY <3>2, <3>4
    <3> QED BY <2>1, <3>1, <3>3, <3>4
  <2>5. handshake'.response.protocol = protocol
    BY <2>0 DEF protocol
  <2> QED BY <2>0, <2>2, <2>4, <2>5 DEF EchoWasOffered
<1>3. EchoWasOffered /\ [ServerNext]_all_vars => EchoWasOffered'
  <2> SUFFICES ASSUME EchoWasOffered, [ServerNext]_all_vars, phase' = "upgrading"
               PROVE  EchoWasOffered'
    BY DEF EchoWasOffered
  <2>1. CASE phase = "upgrading" /\ UNCHANGED handshake
    BY <2>1 DEF EchoWasOffered
  <2> QED BY <1>2, <2>1, OnlyAcceptAnswers
<1> QED BY <1>1, <1>3, PTL DEF ServerSpec

\* What header_lists finds, the header mentions.
LEMMA ListedIsMentioned ==
    ASSUME NEW lines \in Headers, NEW word, header_lists(lines, word)
    PROVE  Mentions(lines, word)
<1>1. PICK i \in DOMAIN first_line(lines) : first_line(lines)[i][1] = word
  BY DEF header_lists
<1>2. lines # <<>> /\ lines[1] # Opaque /\ first_line(lines) = lines[1]
  BY <1>1 DEF first_line, Headers
<1>3. 1 \in DOMAIN lines
  BY <1>2 DEF Headers
<1>4. lines[1][i] \in Range(lines[1])
  BY <1>1, <1>2 DEF Range
<1> QED BY <1>1, <1>2, <1>3, <1>4 DEF Mentions

\* A connection is upgraded only for a WebSocket upgrade (Upgrade, Connection and key) from
\* an origin on the allowlist, and only if the server knows what will be spoken
\* (is_upgrade_request, accept_with_options).
THEOREM UpgradedByPolicyHolds == ServerSpec => []UpgradedByPolicy
<1>1. ServerInit => UpgradedByPolicy
  BY DEF ServerInit, UpgradedByPolicy
<1>2. ASSUME NEW r \in Requests, NEW s \in Selections, Accept(r, s), phase' = "upgrading"
      PROVE  UpgradedByPolicy'
  <2> DEFINE offered == offered_protocols(r)
             protocol == accept_with_options(r, s, config).protocol
             h2ts == DefaultPlaces(offered)
  <2>0. /\ handshake'.request = r /\ handshake'.selection = s
        /\ handshake'.response = accept_with_options(r, s, config)
        /\ accept_with_options(r, s, config).status = 101
        /\ UNCHANGED config
    BY <1>2, AcceptAnswers
  <2>1. /\ is_upgrade_request(r)
        /\ origin_ok(r, config.allowed_origins)
        /\ \/ protocol = s /\ selected(offered, s)
           \/ h2ts # {} /\ protocol = first(offered, h2ts)
           \/ config.allow_implicit_codec
    BY <2>0, Accepted
  <2>2. /\ header_lists(r.upgrade, "websocket") /\ header_lists(r.connection, "upgrade")
        /\ r.key
    BY <2>1 DEF is_upgrade_request
  <2>6. Mentions(r.upgrade, "websocket") /\ Mentions(r.connection, "upgrade")
    <3>1. r.upgrade \in Headers /\ r.connection \in Headers
      BY HeadersAssumption
    <3> QED BY <2>2, <3>1, ListedIsMentioned
  <2>3. config.allowed_origins # Absent =>
          /\ r.origin # <<>>
          /\ \E a \in config.allowed_origins : eq_ignore_ascii_case(Head(r.origin)[1], a)
    <3> SUFFICES ASSUME config.allowed_origins # Absent
                 PROVE  /\ r.origin # <<>>
                        /\ \E a \in config.allowed_origins :
                              eq_ignore_ascii_case(Head(r.origin)[1], a)
      OBVIOUS
    <3>1. r.origin \in Headers
      BY HeadersAssumption
    <3>2. /\ first_line(r.origin) # <<>>
          /\ \E a \in config.allowed_origins :
                eq_ignore_ascii_case(Head(first_line(r.origin)), a)
      BY <2>1 DEF origin_ok
    <3>3. r.origin # <<>> /\ first_line(r.origin) = Head(r.origin)
      BY <3>2 DEF first_line
    <3>4. first_line(r.origin) \in Seq(Tokens)
      BY <3>1, FirstLine
    <3>5. Head(first_line(r.origin)) = first_line(r.origin)[1]
      BY <3>2, <3>4
    <3> QED BY <3>2, <3>3, <3>5
  <2>4. \/ config.allow_implicit_codec
        \/ /\ protocol # Absent
           /\ protocol[1] \in {DEFAULT_SUBPROTOCOL} \cup (IF s = Absent THEN {} ELSE {s[1]})
    <3>1. CASE protocol = s /\ selected(offered, s)
      BY <3>1 DEF selected
    <3>2. CASE h2ts # {} /\ protocol = first(offered, h2ts)
      <4>1. /\ DOMAIN offered \subseteq Nat
            /\ \A i \in DOMAIN offered : offered[i] # Absent
        BY Offered
      <4>2. h2ts \subseteq DOMAIN offered /\ \A i \in h2ts : offered[i][1] = DEFAULT_SUBPROTOCOL
        BY DEF DefaultPlaces, same, eq_ignore_ascii_case
      <4> HIDE DEF h2ts, offered, protocol
      <4>3. Min(h2ts) \in h2ts
        BY <3>2, <4>1, <4>2, MinOfNats
      <4> QED BY <3>2, <4>1, <4>2, <4>3 DEF first
    <3> QED BY <2>1, <3>1, <3>2
  <2> HIDE DEF protocol
  <2>5. handshake'.response.protocol = protocol
    BY <2>0 DEF protocol
  <2> QED BY <2>0, <2>2, <2>3, <2>4, <2>5, <2>6 DEF UpgradedByPolicy
<1>3. UpgradedByPolicy /\ [ServerNext]_all_vars => UpgradedByPolicy'
  <2> SUFFICES ASSUME UpgradedByPolicy, [ServerNext]_all_vars, phase' = "upgrading"
               PROVE  UpgradedByPolicy'
    BY DEF UpgradedByPolicy
  <2>1. CASE phase = "upgrading" /\ UNCHANGED <<handshake, config>>
    BY <2>1 DEF UpgradedByPolicy
  <2> QED BY <1>2, <2>1, OnlyAcceptAnswers
<1> QED BY <1>1, <1>3, PTL DEF ServerSpec

-----------------------------------------------------------------------------
(* The idle reaper *)

LEMMA GuardedFinite ==
    /\ IsFiniteSet(Guarded) /\ Cardinality(Guarded) \in Nat
    /\ IsFiniteSet(Guarded') /\ Cardinality(Guarded') \in Nat
<1>1. Guarded \subseteq Streams /\ Guarded' \subseteq Streams
  BY DEF Guarded
<1>2. IsFiniteSet(Guarded) /\ IsFiniteSet(Guarded')
  BY <1>1, FS_Subset, IdleAssumption
<1> QED BY <1>2, FS_CardinalityType

LEMMA HyperCounts == ASSUME CountExact, Hyper PROVE CountExact'
<1>0. /\ open \in Nat /\ open = Cardinality(Guarded)
      /\ stream \in [Streams -> {"new", "handling", "body", "closed"}]
  BY DEF CountExact, TypeOK
<1>1. ASSUME NEW s \in Streams, RequestArrives(s) PROVE CountExact'
  <2>1. Guarded' = Guarded \cup {s} /\ s \notin Guarded
    BY <1>0, <1>1 DEF RequestArrives, Guarded
  <2>2. Cardinality(Guarded') = Cardinality(Guarded) + 1
    BY <2>1, GuardedFinite, FS_AddElement
  <2>3. TypeOK'
    <3>1. stream' \in [Streams -> {"new", "handling", "body", "closed"}]
      BY <1>0, <1>1 DEF RequestArrives
    <3>2. open' \in Nat /\ UNCHANGED <<wait, slept, conn>>
      BY <1>0, <1>1 DEF RequestArrives, enter
    <3>3. seen' \in BOOLEAN
      BY <1>1, Zenon DEF RequestArrives, enter
    <3> QED BY <3>1, <3>2, <3>3 DEF CountExact, TypeOK
  <2> QED BY <1>0, <1>1, <2>2, <2>3 DEF RequestArrives, enter, CountExact
<1>2. ASSUME NEW s \in Streams, ResponseStarts(s) PROVE CountExact'
  <2>1. Guarded' = Guarded
    BY <1>0, <1>2 DEF ResponseStarts, Guarded
  <2>2. TypeOK'
    BY <1>2 DEF ResponseStarts, move_guard, CountExact, TypeOK
  <2> QED BY <1>2, <2>1, <2>2 DEF ResponseStarts, move_guard, CountExact
<1>3. ASSUME NEW s \in Streams, StreamDropped(s) PROVE CountExact'
  <2>1. Guarded' = Guarded \ {s} /\ s \in Guarded
    BY <1>0, <1>3 DEF StreamDropped, Guarded
  <2>2. Cardinality(Guarded') = Cardinality(Guarded) - 1
    BY <2>1, GuardedFinite, FS_RemoveElement
  <2>3. Cardinality(Guarded') \in Nat
    BY GuardedFinite
  <2>4. open' = Cardinality(Guarded')
    BY <1>0, <1>3, <2>2, <2>3 DEF StreamDropped, drop_guard
  <2>5. TypeOK'
    BY <1>3, <2>3, <2>4 DEF StreamDropped, drop_guard, CountExact, TypeOK
  <2> QED BY <2>4, <2>5 DEF CountExact
<1>4. CASE ConnectionEnds
  <2>1. Guarded' = {}
    BY <1>4 DEF ConnectionEnds, Guarded
  <2>2. Cardinality(Guarded') = 0
    BY <2>1, FS_EmptySet
  <2>3. open' = 0
    BY <1>0, <1>4 DEF ConnectionEnds, drop_guard
  <2>4. TypeOK'
    <3>1. stream' \in [Streams -> {"new", "handling", "body", "closed"}]
      BY <1>0, <1>4 DEF ConnectionEnds
    <3>2. open' \in Nat /\ conn' = "ended" /\ UNCHANGED <<wait, slept>>
      BY <1>4, <2>3 DEF ConnectionEnds
    <3>3. seen' \in BOOLEAN
      BY <1>4, Zenon DEF ConnectionEnds, drop_guard
    <3> QED BY <3>1, <3>2, <3>3 DEF CountExact, TypeOK
  <2> QED BY <2>2, <2>3, <2>4 DEF CountExact
<1> QED BY <1>1, <1>2, <1>3, <1>4 DEF Hyper

LEMMA ReaperCounts == ASSUME CountExact, Reaper PROVE CountExact'
<1>1. UNCHANGED <<stream, open>>
  BY DEF Reaper, Look, Changed, SleepEnds, Tick
<1>2. Guarded' = Guarded
  BY <1>1 DEF Guarded
<1>3. TypeOK'
  <2>1. slept' \in 0..Idle
    BY DEF Reaper, Look, Changed, SleepEnds, Tick, CountExact, TypeOK
  <2>2. /\ seen' \in BOOLEAN
        /\ wait' \in {"look", "busy", "sleeping", "returned"}
        /\ conn' \in {"serving", "draining", "ended"}
    BY DEF Reaper, Look, branch, Changed, SleepEnds, Tick, CountExact, TypeOK
  <2> QED BY <1>1, <2>1, <2>2 DEF CountExact, TypeOK
<1> QED BY <1>1, <1>2, <1>3 DEF CountExact

\* A step of the server is a step of the connection, or leaves it alone.
LEMMA ServerStep == ASSUME [ServerNext]_all_vars PROVE Hyper \/ Reaper \/ UNCHANGED vars
BY DEF ServerNext, Accept, Upgraded, UpgradeFails, Serving, all_vars

\* "an exact count of open HTTP/2 streams", for every number of streams: no order of
\* arrivals, answers, drops and the end of the connection loses or repeats a guard, and
\* the saturating subtraction never saturates (StreamCounter, StreamGuard::drop,
\* TrackedService::call).
THEOREM CountExactHolds == ServerSpec => []CountExact
<1>1. ServerInit => CountExact
  <2> SUFFICES ASSUME ServerInit PROVE CountExact OBVIOUS
  <2>1. Guarded = {}
    BY DEF ServerInit, Init, Guarded
  <2>2. Cardinality(Guarded) = 0
    BY <2>1, FS_EmptySet
  <2> QED BY <2>2 DEF ServerInit, Init, CountExact, TypeOK
<1>2. CountExact /\ UNCHANGED vars => CountExact'
  BY DEF vars, CountExact, TypeOK, Guarded
<1>3. CountExact /\ [ServerNext]_all_vars => CountExact'
  BY <1>2, ServerStep, HyperCounts, ReaperCounts
<1> QED BY <1>1, <1>3, PTL DEF ServerSpec

\* wait_idle never sleeps through a change of the count, nor waits for one that has
\* happened (wait_idle's borrow_and_update and changed).
THEOREM NoMissedChangeHolds == ServerSpec => []NoMissedChange
<1>1. ServerInit => NoMissedChange
  BY DEF ServerInit, Init, NoMissedChange
<1>2. ASSUME CountExact, NoMissedChange, Hyper \/ Reaper \/ UNCHANGED vars
      PROVE  NoMissedChange'
  <2>1. CASE Hyper
    BY <1>2, <2>1 DEF Hyper, RequestArrives, enter, ResponseStarts, move_guard, StreamDropped,
       ConnectionEnds, drop_guard, NoMissedChange
  <2>2. CASE Reaper
    BY <1>2, <2>2 DEF Reaper, Look, branch, Changed, SleepEnds, Tick, NoMissedChange
  <2>3. CASE UNCHANGED vars
    BY <1>2, <2>3 DEF vars, NoMissedChange
  <2> QED BY <1>2, <2>1, <2>2, <2>3
<1>3. CountExact /\ NoMissedChange /\ [ServerNext]_all_vars => NoMissedChange'
  BY <1>2, ServerStep
<1> QED BY <1>1, <1>3, CountExactHolds, PTL DEF ServerSpec
=============================================================================

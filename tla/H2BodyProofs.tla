---------------------------- MODULE H2BodyProofs ----------------------------
(***************************************************************************)
(* Proofs about the bodies of H2Connection.  Requests: an upload stays     *)
(* within the credit of its stream, and END_STREAM means that all of it    *)
(* was sent.  Responses: a body that ends is complete, a parked reader     *)
(* will be woken, received bytes return to the connection window, and what *)
(* was reset stays reset.                                                  *)
(***************************************************************************)
EXTENDS H2ConnectionProofs

USE ConstantsAssumption

-----------------------------------------------------------------------------
(* The body pumps *)

\* The bytes of a body are sent or in the pump's current chunk; the pump asks
\* for the next chunk, and ends the stream, with nothing left over.
ChunkLedger ==
    /\ end_sent \subseteq Opened
    /\ \A i \in StreamIds :
        /\ fed[i] = sent[i] + chunk_left[i]
        /\ pump[i] \in {"none", "chunk"} => chunk_left[i] = 0
        /\ i \in end_sent => chunk_left[i] = 0 /\ ~Pumping(i)

\* The window of a stream in the map is what the peer granted less what was
\* sent, and follows every change of SETTINGS_INITIAL_WINDOW_SIZE.
StreamLedger ==
    /\ \A i \in streams :
        send_window[i].available = remote.initial_window_size + granted[i] - sent[i]
    /\ \A i \in StreamIds \ Opened : sent[i] = 0 /\ granted[i] = 0

-----------------------------------------------------------------------------
(* EndStreamMeansComplete *)

LEMMA ChunkLedgerInit == Init => ChunkLedger
BY DEF Init, ChunkLedger, Pumping

\* Steps that neither start a stream nor move bytes: a pump may be woken or
\* dropped.
LEMMA ChunkLedgerQuiet ==
    ASSUME ChunkLedger, UNCHANGED <<next_stream_id, end_sent, fed, sent, chunk_left>>,
           \A i \in StreamIds : \/ pump'[i] = pump[i]
                                \/ Pumping(i) /\ pump'[i] \in {"window", "parked", "done"}
                                \/ pump'[i] = "done"
    PROVE  ChunkLedger'
BY DEF ChunkLedger, Pumping, Opened

LEMMA ChunkLedgerStep ==
    ASSUME TypeOK, ConnLedger, LifeInv, ChunkLedger, [Next]_vars PROVE ChunkLedger'
<1>1. ASSUME UNCHANGED <<next_stream_id, upload_ledger, chunk_left>>, WakePumps \/ DropPumps
      PROVE  ChunkLedger'
  <2>1. \A i \in StreamIds : \/ pump'[i] = pump[i]
                             \/ Pumping(i) /\ pump'[i] \in {"window", "parked", "done"}
                             \/ pump'[i] = "done"
    BY <1>1 DEF WakePumps, DropPumps, Pumping
  <2> QED BY <1>1, <2>1, ChunkLedgerQuiet DEF upload_ledger
<1>2. ASSUME UNCHANGED <<next_stream_id, upload_ledger, chunk_left, pump>>
      PROVE  ChunkLedger'
  BY <1>2, ChunkLedgerQuiet DEF upload_ledger
<1>3. CASE Application
  <2>1. ASSUME NEW r \in Requests,
               \/ RequestRefused(r) \/ RequestParks(r)
               \/ RequestResumes(r) \/ RequestCancelled(r)
        PROVE  ChunkLedger'
    BY <1>2, <2>1 DEF RequestRefused, RequestParks, RequestResumes, RequestCancelled, conn_vars
  <2>2. ASSUME NEW r \in Requests, NEW has_body \in BOOLEAN, RequestOpens(r, has_body)
        PROVE  ChunkLedger'
    <3> DEFINE id == next_stream_id
    <3>1. /\ id \in StreamIds \ Opened
          /\ Opened' = Opened \cup {id}
      BY <2>2 DEF RequestOpens, TypeOK, ConnTypeOK, StreamIds, Opened
    <3>2. /\ pump[id] = "none" /\ id \notin end_sent
      BY <3>1 DEF LifeInv, Fresh, ChunkLedger
    <3>3. \A i \in StreamIds : i # id => pump'[i] = pump[i]
      BY <2>2 DEF RequestOpens, TypeOK, TaskTypeOK
    <3>4. /\ pump'[id] = (IF has_body THEN "chunk" ELSE "none")
          /\ end_sent' = (IF has_body THEN end_sent ELSE end_sent \cup {id})
          /\ UNCHANGED <<fed, sent, chunk_left>>
      BY <2>2, <3>1 DEF RequestOpens, TypeOK, TaskTypeOK
    <3> HIDE DEF id
    <3> QED BY <3>1, <3>2, <3>3, <3>4 DEF ChunkLedger, Pumping
  <2>3. ASSUME NEW id \in StreamIds, NEW n \in ChunkSizes, PumpTakesChunk(id, n)
        PROVE  ChunkLedger'
    BY <2>3 DEF PumpTakesChunk, ChunkLedger, Pumping, Opened, conn_vars, TypeOK, TaskTypeOK,
       LedgerTypeOK
  <2>4. ASSUME NEW id \in StreamIds, PumpFinishes(id) PROVE ChunkLedger'
    <3>1. streams \subseteq Opened /\ Opened' = Opened
      BY <2>4 DEF PumpFinishes, LifeInv, Fresh, Opened, conn_vars
    <3> QED BY <2>4, <3>1 DEF PumpFinishes, ChunkLedger, Pumping, task_vars, TypeOK, TaskTypeOK
  <2>5. ASSUME NEW id \in StreamIds,
               (\E n \in 1..MaxDownload : ReadChunk(id, n)) \/ ReadTail(id)
        PROVE  ChunkLedger'
    BY <1>2, <2>5 DEF ReadChunk, ReadTail, conn_vars, task_vars
  <2>6. ASSUME NEW id \in StreamIds, DropBody(id) PROVE ChunkLedger'
    BY <1>1, <1>2, <2>6 DEF DropBody, reset_stream, conn_vars, task_vars
  <2>7. CASE Ping
    BY <1>2, <2>7 DEF Ping, task_vars
  <2>8. CASE Close
    BY <1>1, <2>8 DEF Close, conn_vars, task_vars
  <2> QED BY <1>3, <2>1, <2>2, <2>3, <2>4, <2>5, <2>6, <2>7, <2>8 DEF Application
<1>4. CASE Driver
  <2>1. ASSUME NEW id \in StreamIds, PumpAborts(id) \/ PumpParks(id) PROVE ChunkLedger'
    <3>1. \A i \in StreamIds : \/ pump'[i] = pump[i]
                               \/ Pumping(i) /\ pump'[i] \in {"window", "parked", "done"}
      BY <2>1 DEF PumpAborts, PumpParks, Pumping, TypeOK, TaskTypeOK
    <3> QED BY <2>1, <3>1, ChunkLedgerQuiet DEF PumpAborts, PumpParks, conn_vars, task_vars,
               upload_ledger
  <2>2. ASSUME NEW id \in StreamIds, PumpSends(id) PROVE ChunkLedger'
    <3>1. grant(id) \in Nat /\ grant(id) <= chunk_left[id]
      BY <2>2, GrantBounds DEF PumpSends
    <3>2. /\ UNCHANGED <<next_stream_id, fed, end_sent>>
          /\ pump[id] = "window"
          /\ chunk_left' = [chunk_left EXCEPT ![id] = @ - grant(id)]
          /\ sent' = [sent EXCEPT ![id] = @ + grant(id)]
          /\ pump' = [pump EXCEPT ![id] = IF chunk_left[id] = grant(id) THEN "chunk"
                                                                        ELSE "window"]
      BY <2>2 DEF PumpSends, pump_after, conn_vars
    <3> QED BY <3>1, <3>2 DEF ChunkLedger, Pumping, Opened, TypeOK, TaskTypeOK, LedgerTypeOK
  <2>3. CASE ReadEof \/ WriteFails \/ DriverEnds
    BY <1>1, <2>3 DEF ReadEof, WriteFails, DriverEnds, conn_vars
  <2>4. CASE ReadLoopEnds
    BY <1>2, <2>4 DEF ReadLoopEnds, conn_vars
  <2> QED BY <1>4, <2>1, <2>2, <2>3, <2>4 DEF Driver
<1>5. CASE Peer
  <2>1. ASSUME NEW iw, NEW mfs, NEW mcs, RecvSettings(iw, mfs, mcs) PROVE ChunkLedger'
    BY <1>1, <2>1 DEF RecvSettings, connection_error, task_vars
  <2>2. ASSUME NEW pb, NEW end_headers, AcceptFragment(pb, end_headers) PROVE ChunkLedger'
    BY <1>1, <1>2, <2>2 DEF AcceptFragment, complete_header_block, connection_error, task_vars
  <2>3. ASSUME NEW id \in StreamIds, NEW size, NEW end_headers,
               \/ \E end_stream \in BOOLEAN : RecvHeaders(id, size, end_stream, end_headers)
               \/ \E promised \in PromisedIds :
                    RecvPushPromise(id, promised, size, end_headers)
               \/ RecvContinuation(id, size, end_headers)
        PROVE  ChunkLedger'
    BY <2>2, <2>3 DEF RecvHeaders, RecvPushPromise, RecvContinuation
  <2>4. ASSUME NEW id, NEW n, NEW pad, NEW end_stream, RecvData(id, n, pad, end_stream)
        PROVE  ChunkLedger'
    BY <1>2, <2>4 DEF RecvData, conn_vars, task_vars
  <2>5. ASSUME NEW id, RecvRstStream(id) \/ RecvZeroWindowUpdate(id) PROVE ChunkLedger'
    BY <1>1, <2>5 DEF RecvRstStream, RecvZeroWindowUpdate, reset_stream, conn_vars, task_vars
  <2>6. ASSUME NEW id, NEW n, RecvWindowUpdate(id, n) \/ RecvConnWindowUpdate(n)
        PROVE  ChunkLedger'
    <3>1. /\ UNCHANGED <<next_stream_id, end_sent, fed, sent, chunk_left>> /\ WakePumps
      BY <2>6 DEF RecvWindowUpdate, RecvConnWindowUpdate, conn_vars, task_vars
    <3>2. \A i \in StreamIds : \/ pump'[i] = pump[i]
                               \/ Pumping(i) /\ pump'[i] \in {"window", "parked", "done"}
      BY <3>1 DEF WakePumps, Pumping
    <3> QED BY <3>1, <3>2, ChunkLedgerQuiet
  <2>7. ASSUME NEW p, RecvPingAck(p) PROVE ChunkLedger'
    BY <1>2, <2>7 DEF RecvPingAck, conn_vars, task_vars
  <2>8. ASSUME NEW last, NEW error, RecvGoaway(last, error) PROVE ChunkLedger'
    BY <1>1, <2>8 DEF RecvGoaway, task_vars
  <2>9. CASE RecvProtocolError
    BY <1>1, <2>9 DEF RecvProtocolError, connection_error, conn_vars
  <2> QED BY <1>5, <2>1, <2>3, <2>4, <2>5, <2>6, <2>7, <2>8, <2>9 DEF Peer
<1>6. CASE UNCHANGED vars
  BY <1>2, <1>6 DEF vars, conn_vars, task_vars
<1> QED BY <1>3, <1>4, <1>5, <1>6 DEF Next

\* An upload that a reset, a GOAWAY or a teardown cut short never looks
\* complete to the peer: END_STREAM follows the whole body (pump_body,
\* pump_chunk).
THEOREM EndStreamMeansCompleteHolds == Spec => []EndStreamMeansComplete
<1>1. Spec => []ChunkLedger
  BY ChunkLedgerInit, ChunkLedgerStep, LifeInvariant, PTL DEF Spec
<1>2. TypeOK /\ ChunkLedger => EndStreamMeansComplete
  BY DEF TypeOK, LedgerTypeOK, TaskTypeOK, ChunkLedger, EndStreamMeansComplete
<1> QED BY <1>1, <1>2, TypeCorrect, PTL

-----------------------------------------------------------------------------
(* StreamCredit *)

LEMMA StreamLedgerInit == Init => StreamLedger
BY DEF Init, StreamLedger

\* Steps that leave the credit of the streams that stay in the map alone.
LEMMA StreamLedgerQuiet ==
    ASSUME StreamLedger, UNCHANGED <<next_stream_id, remote, sent, granted>>,
           streams' \subseteq streams,
           \A i \in streams' : send_window'[i].available = send_window[i].available
    PROVE  StreamLedger'
BY DEF StreamLedger, Opened

LEMMA StreamLedgerFail ==
    ASSUME StreamLedger, TypeOK, NEW F, fail(F, send_window),
           UNCHANGED <<next_stream_id, remote, sent, granted>>
    PROVE  StreamLedger'
<1>1. streams' \subseteq streams /\ \A i \in streams' : send_window'[i] = send_window[i]
  BY DEF fail, TypeOK, StreamTypeOK
<1> QED BY <1>1, StreamLedgerQuiet

\* The teardown empties the map, so that nothing is left to account for.
LEMMA StreamLedgerDestroy ==
    ASSUME StreamLedger, LifeInv, NEW W, destroy(W),
           UNCHANGED <<next_stream_id, sent, granted>>
    PROVE  StreamLedger'
<1>1. streams' = {}
  BY DEF destroy, fail, stream_vars, LifeInv, ClosedIsEmpty
<1> QED BY <1>1 DEF StreamLedger, Opened

LEMMA StreamLedgerSettings ==
    ASSUME TypeOK, LifeInv, StreamLedger, NEW iw \in WindowSizes \cup {None}, NEW mfs, NEW mcs,
           RecvSettings(iw, mfs, mcs)
    PROVE  StreamLedger'
<1>0. UNCHANGED <<next_stream_id, sent, granted>>
  BY DEF RecvSettings, connection_error, upload_ledger
<1>1. ASSUME NEW W, connection_error(W) PROVE StreamLedger'
  BY <1>0, <1>1, StreamLedgerDestroy DEF connection_error
<1>2. ASSUME UNCHANGED streams,
             remote'.initial_window_size =
                (IF iw = None THEN remote.initial_window_size ELSE iw),
             send_window' = IF iw = None THEN send_window
                            ELSE [i \in StreamIds |->
                                    IF i \in streams
                                    THEN adjust(send_window[i], iw - remote.initial_window_size)
                                    ELSE send_window[i]]
      PROVE  StreamLedger'
  <2>1. streams \subseteq StreamIds /\ Opened' = Opened
    BY <1>0 DEF TypeOK, StreamTypeOK, Opened
  <2>2. CASE iw = None
    BY <1>0, <1>2, <2>1, <2>2 DEF StreamLedger
  <2>3. CASE iw # None
    <3>1. ASSUME NEW i \in streams
          PROVE  send_window'[i].available =
                    remote'.initial_window_size + granted'[i] - sent'[i]
      <4>1. send_window'[i].available =
                send_window[i].available + (iw - remote.initial_window_size)
        BY <1>2, <2>1, <2>3 DEF adjust, update
      <4>2. /\ granted[i] \in Nat /\ sent[i] \in Nat /\ iw \in Nat
            /\ remote.initial_window_size \in Nat
        BY <2>1, <2>3, SettingsType DEF TypeOK, LedgerTypeOK
      <4> QED BY <1>0, <1>2, <2>3, <4>1, <4>2 DEF StreamLedger
    <3> QED BY <1>0, <1>2, <2>1, <3>1 DEF StreamLedger
  <2> QED BY <2>2, <2>3
<1> QED BY <1>1, <1>2 DEF RecvSettings

LEMMA StreamLedgerStep ==
    ASSUME TypeOK, ConnLedger, LifeInv, StreamLedger, [Next]_vars PROVE StreamLedger'
<1>1. ASSUME UNCHANGED <<next_stream_id, remote, sent, granted, send_window>>,
             streams' \subseteq streams
      PROVE  StreamLedger'
  BY <1>1, StreamLedgerQuiet
<1>2. ASSUME NEW W, connection_error(W), UNCHANGED next_stream_id PROVE StreamLedger'
  BY <1>2, StreamLedgerDestroy DEF connection_error, upload_ledger
<1>3. CASE Application
  <2>1. ASSUME NEW r \in Requests,
               \/ RequestRefused(r) \/ RequestParks(r)
               \/ RequestResumes(r) \/ RequestCancelled(r)
        PROVE  StreamLedger'
    BY <1>1, <2>1 DEF RequestRefused, RequestParks, RequestResumes, RequestCancelled,
       conn_vars, stream_vars, upload_ledger
  <2>2. ASSUME NEW r \in Requests, NEW has_body \in BOOLEAN, RequestOpens(r, has_body)
        PROVE  StreamLedger'
    <3> DEFINE id == next_stream_id
    <3>1. /\ id \in StreamIds \ Opened
          /\ Opened' = Opened \cup {id}
      BY <2>2 DEF RequestOpens, TypeOK, ConnTypeOK, StreamIds, Opened
    <3>2. sent[id] = 0 /\ granted[id] = 0 /\ streams \subseteq StreamIds \ {id}
      BY <3>1 DEF StreamLedger, LifeInv, Fresh, TypeOK, StreamTypeOK
    <3>3. /\ send_window'[id].available = remote.initial_window_size
          /\ streams' = streams \cup {id}
          /\ UNCHANGED <<remote, sent, granted>>
      BY <2>2, <3>1 DEF RequestOpens, new, TypeOK, StreamTypeOK
    <3>4. \A i \in StreamIds : i # id => send_window'[i] = send_window[i]
      BY <2>2 DEF RequestOpens, TypeOK, StreamTypeOK
    <3> HIDE DEF id
    <3> QED BY <3>1, <3>2, <3>3, <3>4, SettingsType DEF StreamLedger
  <2>3. ASSUME NEW id \in StreamIds, NEW n \in ChunkSizes, PumpTakesChunk(id, n)
        PROVE  StreamLedger'
    BY <1>1, <2>3 DEF PumpTakesChunk, conn_vars, stream_vars
  <2>4. ASSUME NEW id \in StreamIds, PumpFinishes(id) PROVE StreamLedger'
    BY <1>1, <2>4 DEF PumpFinishes, retire_if_fully_closed, conn_vars
  <2>5. ASSUME NEW id \in StreamIds,
               (\E n \in 1..MaxDownload : ReadChunk(id, n)) \/ ReadTail(id)
        PROVE  StreamLedger'
    BY <1>1, <2>5 DEF ReadChunk, ReadTail, conn_vars, upload_ledger
  <2>6. ASSUME NEW id \in StreamIds, DropBody(id) PROVE StreamLedger'
    <3>1. UNCHANGED <<next_stream_id, remote, sent, granted>>
      BY <2>6 DEF DropBody, conn_vars, upload_ledger
    <3>2. CASE UNCHANGED <<streams, send_window>>
      BY <1>1, <3>1, <3>2
    <3>3. CASE fail(streams \cap {id}, send_window)
      BY <3>1, <3>3, StreamLedgerFail
    <3> QED BY <2>6, <3>2, <3>3 DEF DropBody, reset_stream, stream_vars
  <2>7. CASE Ping
    BY <1>1, <2>7 DEF Ping, stream_vars, upload_ledger
  <2>8. CASE Close
    BY <2>8, StreamLedgerDestroy DEF Close, conn_vars, upload_ledger
  <2> QED BY <1>3, <2>1, <2>2, <2>3, <2>4, <2>5, <2>6, <2>7, <2>8 DEF Application
<1>4. CASE Driver
  <2>1. ASSUME NEW id \in StreamIds, PumpAborts(id) PROVE StreamLedger'
    BY <1>1, <2>1 DEF PumpAborts, conn_vars, stream_vars, upload_ledger
  <2>2. ASSUME NEW id \in StreamIds, PumpParks(id) PROVE StreamLedger'
    <3>1. \A i \in StreamIds : send_window'[i].available = send_window[i].available
      BY <2>2 DEF PumpParks, register_waker, TypeOK, StreamTypeOK
    <3> QED BY <2>2, <3>1, StreamLedgerQuiet DEF PumpParks, conn_vars, upload_ledger, TypeOK,
               StreamTypeOK
  <2>3. ASSUME NEW id \in StreamIds, PumpSends(id) PROVE StreamLedger'
    <3>1. grant(id) \in Nat /\ id \in streams
      BY <2>3, GrantBounds DEF PumpSends, StreamGone
    <3>2. id \in Opened /\ streams \subseteq StreamIds
      BY <3>1 DEF LifeInv, Fresh, TypeOK, StreamTypeOK
    <3>3. /\ UNCHANGED <<next_stream_id, streams, remote, granted>>
          /\ sent' = [sent EXCEPT ![id] = @ + grant(id)]
          /\ send_window'[id].available = send_window[id].available - grant(id)
          /\ \A i \in StreamIds : i # id => send_window'[i] = send_window[i]
      BY <2>3 DEF PumpSends, consume, conn_vars, TypeOK, StreamTypeOK
    <3>4. remote.initial_window_size \in Nat /\ sent[id] \in Nat /\ granted[id] \in Nat
      BY SettingsType DEF TypeOK, LedgerTypeOK
    <3>5. /\ sent'[id] = sent[id] + grant(id)
          /\ \A i \in StreamIds : i # id => sent'[i] = sent[i]
      BY <3>3 DEF TypeOK, LedgerTypeOK
    <3>6. Opened' = Opened
      BY <3>3 DEF Opened
    <3> QED BY <3>1, <3>2, <3>3, <3>4, <3>5, <3>6 DEF StreamLedger
  <2>4. CASE ReadEof \/ WriteFails
    BY <2>4, StreamLedgerDestroy DEF ReadEof, WriteFails, conn_vars, upload_ledger
  <2>5. CASE ReadLoopEnds \/ DriverEnds
    BY <1>1, <2>5 DEF ReadLoopEnds, DriverEnds, conn_vars, stream_vars, upload_ledger
  <2> QED BY <1>4, <2>1, <2>2, <2>3, <2>4, <2>5 DEF Driver
<1>5. CASE Peer
  <2>1. ASSUME NEW iw \in OrNone(WindowSizes), NEW mfs, NEW mcs, RecvSettings(iw, mfs, mcs)
        PROVE  StreamLedger'
    BY <2>1, StreamLedgerSettings DEF OrNone
  <2>2. ASSUME NEW pb, NEW end_headers, AcceptFragment(pb, end_headers) PROVE StreamLedger'
    BY <1>1, <1>2, <2>2 DEF AcceptFragment, complete_header_block, receive_headers,
       retire_if_fully_closed, stream_vars, upload_ledger
  <2>3. ASSUME NEW id \in StreamIds, NEW size, NEW end_headers,
               \/ \E end_stream \in BOOLEAN : RecvHeaders(id, size, end_stream, end_headers)
               \/ \E promised \in PromisedIds :
                    RecvPushPromise(id, promised, size, end_headers)
               \/ RecvContinuation(id, size, end_headers)
        PROVE  StreamLedger'
    BY <2>2, <2>3 DEF RecvHeaders, RecvPushPromise, RecvContinuation
  <2>4. ASSUME NEW id, NEW n, NEW pad, NEW end_stream, RecvData(id, n, pad, end_stream)
        PROVE  StreamLedger'
    BY <1>1, <2>4 DEF RecvData, retire_if_fully_closed, conn_vars, upload_ledger
  <2>5. ASSUME NEW id, RecvRstStream(id) \/ RecvZeroWindowUpdate(id) PROVE StreamLedger'
    BY <2>5, StreamLedgerFail DEF RecvRstStream, RecvZeroWindowUpdate, reset_stream, conn_vars,
       upload_ledger
  <2>6. ASSUME NEW id \in StreamIds, NEW n \in Increments, RecvWindowUpdate(id, n)
        PROVE  StreamLedger'
    <3>1. id \in streams /\ id \in Opened /\ streams \subseteq StreamIds
      BY <2>6 DEF RecvWindowUpdate, LifeInv, Fresh, TypeOK, StreamTypeOK
    <3>2. /\ UNCHANGED <<next_stream_id, streams, remote, sent>>
          /\ granted'[id] = granted[id] + n
          /\ send_window'[id].available = send_window[id].available + n
          /\ \A i \in StreamIds : i # id => /\ send_window'[i] = send_window[i]
                                            /\ granted'[i] = granted[i]
      BY <2>6 DEF RecvWindowUpdate, update, conn_vars, TypeOK, StreamTypeOK, LedgerTypeOK
    <3>3. /\ remote.initial_window_size \in Nat /\ n \in Nat
          /\ sent[id] \in Nat /\ granted[id] \in Nat
      BY SettingsType DEF TypeOK, LedgerTypeOK
    <3>4. Opened' = Opened
      BY <3>2 DEF Opened
    <3>5. send_window'[id].available =
              remote'.initial_window_size + granted'[id] - sent'[id]
      BY <3>1, <3>2, <3>3 DEF StreamLedger
    <3> QED BY <3>1, <3>2, <3>4, <3>5 DEF StreamLedger
  <2>7. ASSUME NEW x, RecvConnWindowUpdate(x) \/ RecvPingAck(x) PROVE StreamLedger'
    BY <1>1, <2>7 DEF RecvConnWindowUpdate, RecvPingAck, conn_vars, stream_vars, upload_ledger
  <2>8. ASSUME NEW last, NEW error, RecvGoaway(last, error) PROVE StreamLedger'
    BY <2>8, StreamLedgerFail, StreamLedgerDestroy DEF RecvGoaway, upload_ledger
  <2>9. CASE RecvProtocolError
    BY <1>2, <2>9 DEF RecvProtocolError, conn_vars
  <2> QED BY <1>5, <2>1, <2>3, <2>4, <2>5, <2>6, <2>7, <2>8, <2>9 DEF Peer
<1>6. CASE UNCHANGED vars
  BY <1>1, <1>6 DEF vars, conn_vars, stream_vars, upload_ledger
<1> QED BY <1>3, <1>4, <1>5, <1>6 DEF Next

\* Only a pump sends DATA.
LEMMA SentStep ==
    ASSUME TypeOK, [Next]_vars, NEW i \in StreamIds, sent'[i] # sent[i] PROVE PumpSends(i)
<1>1. CASE Application
  BY <1>1 DEF Application, RequestRefused, RequestParks, RequestOpens, RequestResumes,
     RequestCancelled, PumpTakesChunk, PumpFinishes, ReadChunk, ReadTail, DropBody, Ping,
     Close, upload_ledger
<1>2. CASE Driver
  <2>1. PICK id \in StreamIds : PumpSends(id)
    BY <1>2 DEF Driver, PumpAborts, PumpParks, ReadEof, WriteFails, ReadLoopEnds, DriverEnds,
       upload_ledger
  <2>2. id = i
    BY <2>1 DEF PumpSends, TypeOK, LedgerTypeOK
  <2> QED BY <2>1, <2>2
<1>3. CASE Peer
  <2>1. ASSUME NEW pb, NEW end_headers, AcceptFragment(pb, end_headers) PROVE FALSE
    BY <2>1 DEF AcceptFragment, complete_header_block, connection_error, upload_ledger
  <2>2. ASSUME NEW iw, NEW mfs, NEW mcs, RecvSettings(iw, mfs, mcs) PROVE FALSE
    BY <2>2 DEF RecvSettings, connection_error, upload_ledger
  <2>3. ASSUME NEW id, NEW n, NEW pad, NEW end_stream, RecvData(id, n, pad, end_stream)
        PROVE  FALSE
    BY <2>3 DEF RecvData, upload_ledger
  <2>4. ASSUME NEW last, NEW error, RecvGoaway(last, error) PROVE FALSE
    BY <2>4 DEF RecvGoaway, upload_ledger
  <2>5. ASSUME NEW id, NEW n,
               \/ RecvRstStream(id) \/ RecvZeroWindowUpdate(id) \/ RecvWindowUpdate(id, n)
               \/ RecvConnWindowUpdate(n) \/ RecvPingAck(n) \/ RecvProtocolError
        PROVE  FALSE
    BY <2>5 DEF RecvRstStream, RecvZeroWindowUpdate, RecvWindowUpdate, RecvConnWindowUpdate,
       RecvPingAck, RecvProtocolError, connection_error, upload_ledger
  <2>6. ASSUME NEW id, NEW size, NEW end_headers,
               \/ \E end_stream \in BOOLEAN : RecvHeaders(id, size, end_stream, end_headers)
               \/ \E promised \in PromisedIds :
                    RecvPushPromise(id, promised, size, end_headers)
               \/ RecvContinuation(id, size, end_headers)
        PROVE  FALSE
    BY <2>1, <2>6 DEF RecvHeaders, RecvPushPromise, RecvContinuation
  <2> QED BY <1>3, <2>2, <2>3, <2>4, <2>5, <2>6 DEF Peer
<1>4. CASE UNCHANGED vars
  BY <1>4 DEF vars, upload_ledger
<1> QED BY <1>1, <1>2, <1>3, <1>4 DEF Next

\* Every DATA frame fits the credit its stream has at that moment, even after
\* the peer shrank SETTINGS_INITIAL_WINDOW_SIZE below what was sent before
\* (apply_remote_settings, SendWindow::adjust, pump_chunk).
THEOREM StreamCreditHolds == Spec => StreamCredit
<1>1. Spec => []StreamLedger
  BY StreamLedgerInit, StreamLedgerStep, LifeInvariant, PTL DEF Spec
<1>2. ASSUME TypeOK, ConnLedger, StreamLedger, [Next]_vars
      PROVE  [\A i \in StreamIds : sent'[i] > sent[i] =>
                  sent'[i] <= remote.initial_window_size + granted[i]]_vars
  <2> SUFFICES ASSUME NEW i \in StreamIds, sent'[i] > sent[i]
               PROVE  sent'[i] <= remote.initial_window_size + granted[i]
    OBVIOUS
  <2>1. sent[i] \in Nat /\ granted[i] \in Nat /\ remote.initial_window_size \in Nat
    BY <1>2, SettingsType DEF TypeOK, LedgerTypeOK
  <2>2. PumpSends(i)
    BY <1>2, <2>1, SentStep
  <2>3. /\ grant(i) \in Nat /\ grant(i) <= send_window[i].available /\ i \in streams
        /\ sent'[i] = sent[i] + grant(i)
    BY <1>2, <2>2, GrantBounds DEF PumpSends, StreamGone, TypeOK, LedgerTypeOK
  <2> QED BY <1>2, <2>1, <2>3 DEF StreamLedger
<1> QED BY <1>1, <1>2, TypeCorrect, PTL DEF Spec, StreamCredit

-----------------------------------------------------------------------------
(* Response bodies and resets: the invariants *)

\* A stream has one caller, which waits for its head before there is a body.
Owners ==
    /\ \A r \in Requests : /\ stream_of[r] \in Opened \cup {0}
                           /\ req[r] \in {"idle", "parked"} => stream_of[r] = 0
                           /\ Waiting(r) => body[stream_of[r]] = "none"
    /\ \A r, s \in Requests : stream_of[r] = stream_of[s] /\ stream_of[r] # 0 => r = s

\* A stream id that was never allocated has no body.
FreshBodies ==
    /\ remote_closed \subseteq Opened /\ ended \subseteq Opened /\ recv_error \subseteq Opened
    /\ \A i \in StreamIds \ Opened : body[i] = "none" /\ buffered[i] = 0

\* A body that ended and has no error to report was ended by the peer, unless the
\* error was reported already.
EndsMean ==
    \A i \in StreamIds :
        i \in ended \ recv_error /\ body[i] \notin {"failed", "dropped"} => i \in remote_closed

BodyInv == Owners /\ FreshBodies /\ EndsMean /\ EofMeansComplete /\ FinishedStreamsLeave

\* What a peer that keeps the order of frames on a stream adds: the end of a stream
\* is the end of its body, and a stream that left the map has ended its body.
OrderlyInv ==
    /\ remote_closed \subseteq ended
    /\ streams \cap ended \subseteq remote_closed
    /\ streams \cap recv_error = {}
    /\ Opened \ streams \subseteq ended
    /\ ReaderHasWaker

\* Where received bytes are: buffered behind a head that arrived, with a caller who
\* waits for it or a body that is not used up.
BytesHeld ==
    /\ \A i \in StreamIds :
        /\ head[i] = "ok" => i \in got_head
        /\ i \in streams => head[i] = IF i \in got_head THEN "ok" ELSE "open"
        /\ head[i] \in {"open", "ok"} /\ body[i] = "none" =>
              \E r \in Requests : Waiting(r) /\ stream_of[r] = i
        /\ buffered[i] > 0 => head[i] = "ok"
        /\ body[i] \in {"failed", "eof", "dropped"} => i \in ended
        /\ body[i] \in {"failed", "eof"} => buffered[i] = 0
    /\ ~closed => \A i \in StreamIds : rx[i] = returned[i] + Unread(i)

\* A stream that was reset is not in the map, and never comes back.
ResetInv == rst_sent \subseteq Opened \ streams

-----------------------------------------------------------------------------
(* The steps, as the response bodies see them *)

download_vars == <<next_stream_id, streams, got_head, head, local_closed, remote_closed,
                   buffered, ended, recv_error, recv_waker, req, stream_of, body, rx, returned,
                   closed, rst_sent>>

\* One caller moves on without a stream.
RequestTurns(r) ==
    /\ req[r] # "idle" => "CANCEL" \in Inputs \/ req[r] = "parked"
    /\ \E s \in RequestStates \ {"idle", "waiting"} : req' = [req EXCEPT ![r] = s]
    /\ req'[r] = "parked" => req[r] \in {"idle", "parked"}
    /\ UNCHANGED <<next_stream_id, streams, got_head, head, local_closed, remote_closed,
                   buffered, ended, recv_error, recv_waker, stream_of, body, rx, returned,
                   closed, rst_sent>>

\* The streams of F leave the map with an error; id is one that we reset.
StreamsFail(F) ==
    /\ \E windows : fail(F, windows)
    /\ WakeReaders
    /\ UNCHANGED <<next_stream_id, req, stream_of, rx, returned>>
    /\ closed => closed'
    /\ closed' /\ ~closed => F = streams
    /\ rst_sent' # rst_sent =>
          /\ "ZERO_UPDATE" \in Inputs
          /\ \E id \in StreamIds : /\ rst_sent' = rst_sent \cup {id}
                                   /\ id < next_stream_id \/ "ROGUE" \in Inputs
                                   /\ id \notin streams'

\* A response block is complete.
HeadersArrive(id, end_stream, interim) ==
    /\ interim /\ end_stream => "ROGUE" \in Inputs
    /\ interim => id \notin got_head
    /\ receive_headers(id, end_stream, interim)
    /\ WakeReaders
    /\ UNCHANGED <<next_stream_id, req, stream_of, rx, returned, closed, rst_sent>>

DownloadStep ==
    \/ UNCHANGED download_vars
    \/ \E r \in Requests : RequestTurns(r) \/ RequestResumes(r)
    \/ \E r \in Requests, has_body \in BOOLEAN : RequestOpens(r, has_body)
    \/ \E id \in StreamIds : PumpFinishes(id) \/ ReadTail(id) \/ DropBody(id)
    \/ \E id \in StreamIds, n \in Nat : ReadChunk(id, n)
    \/ \E F \in SUBSET streams : StreamsFail(F)
    \/ \E id \in StreamIds, end_stream, interim \in BOOLEAN :
          HeadersArrive(id, end_stream, interim)
    \/ \E id \in StreamIds, n \in DataSizes, pad \in {0, 1}, end_stream \in BOOLEAN :
          /\ pad = 0 \/ "PADDING" \in Inputs
          /\ RecvData(id, n, pad, end_stream)

LEMMA NobodyWoken == ASSUME TypeOK, WakeReaders, UNCHANGED recv_waker PROVE UNCHANGED body
<1>1. body' = [i \in StreamIds |-> body[i]]
  BY DEF WakeReaders
<1> QED BY <1>1 DEF TypeOK, TaskTypeOK

\* The teardown fails every stream, unless it was done before.
LEMMA DestroyStep ==
    ASSUME TypeOK, NEW W, destroy(W), WakeReaders,
           UNCHANGED <<next_stream_id, req_vars, download_ledger, rst_sent>>
    PROVE  DownloadStep
<1>1. CASE closed
  <2>1. UNCHANGED <<streams, got_head, local_closed, remote_closed, head, buffered, ended,
                    recv_error, recv_waker, closed>>
    BY <1>1 DEF destroy, stream_vars, recv_vars
  <2>2. UNCHANGED body
    BY <2>1, NobodyWoken
  <2> QED BY <2>1, <2>2 DEF DownloadStep, download_vars, req_vars, download_ledger
<1>2. CASE ~closed
  <2>1. fail(streams, W) /\ closed'
    BY <1>2 DEF destroy
  <2>2. StreamsFail(streams)
    BY <1>2, <2>1 DEF StreamsFail, req_vars, download_ledger
  <2> QED BY <2>2 DEF DownloadStep
<1> QED BY <1>1, <1>2

LEMMA ConnectionErrorStep ==
    ASSUME TypeOK, NEW W, connection_error(W), UNCHANGED next_stream_id PROVE DownloadStep
BY DestroyStep DEF connection_error

LEMMA AcceptFragmentStep ==
    ASSUME TypeOK, NEW pb \in HeaderBlocks, NEW end_headers, AcceptFragment(pb, end_headers)
    PROVE  DownloadStep
<1>0. UNCHANGED next_stream_id
  BY DEF AcceptFragment
<1>1. CASE connection_error(send_window)
  BY <1>0, <1>1, ConnectionErrorStep
<1>2. CASE UNCHANGED <<stream_vars, closed, body, task_vars, download_ledger, rst_sent>>
  BY <1>0, <1>2 DEF DownloadStep, download_vars, stream_vars, recv_vars, task_vars, req_vars,
     download_ledger
<1>3. ASSUME NEW interim \in BOOLEAN,
             interim => pb.stream_id \notin got_head,
             interim /\ pb.end_stream => "ROGUE" \in Inputs,
             receive_headers(pb.stream_id, pb.end_stream, interim),
             UNCHANGED <<closed, task_vars, download_ledger, rst_sent>>, WakeReaders
      PROVE  DownloadStep
  <2>1. pb.stream_id \in StreamIds /\ pb.end_stream \in BOOLEAN
    BY DEF HeaderBlocks
  <2>2. HeadersArrive(pb.stream_id, pb.end_stream, interim)
    BY <1>0, <1>3 DEF HeadersArrive, task_vars, req_vars, download_ledger
  <2> QED BY <2>1, <2>2 DEF DownloadStep
<1> QED BY <1>1, <1>2, <1>3 DEF AcceptFragment, complete_header_block

LEMMA ApplicationStep == ASSUME TypeOK, Application PROVE DownloadStep
<1>1. ASSUME NEW r \in Requests, RequestRefused(r) \/ RequestParks(r) \/ RequestCancelled(r)
      PROVE  DownloadStep
  <2>1. RequestTurns(r)
    BY <1>1 DEF RequestRefused, RequestParks, RequestCancelled, Runnable, RequestTurns,
       RequestStates, conn_vars, stream_vars, recv_vars, download_ledger, TypeOK, TaskTypeOK
  <2> QED BY <2>1 DEF DownloadStep
<1>2. ASSUME NEW r \in Requests, RequestOpens(r, FALSE) \/ RequestOpens(r, TRUE)
      PROVE  DownloadStep
  BY <1>2 DEF DownloadStep
<1>3. ASSUME NEW r \in Requests, RequestResumes(r) PROVE DownloadStep
  BY <1>3 DEF DownloadStep
<1>4. ASSUME NEW id \in StreamIds, NEW n \in ChunkSizes, PumpTakesChunk(id, n)
      PROVE  DownloadStep
  BY <1>4 DEF PumpTakesChunk, DownloadStep, download_vars, conn_vars, stream_vars, recv_vars,
     req_vars, download_ledger
<1>5. ASSUME NEW id \in StreamIds, PumpFinishes(id) \/ ReadTail(id) \/ DropBody(id)
      PROVE  DownloadStep
  BY <1>5 DEF DownloadStep
<1>6. ASSUME NEW id \in StreamIds, NEW n \in 1..MaxDownload, ReadChunk(id, n)
      PROVE  DownloadStep
  BY <1>6 DEF DownloadStep
<1>7. CASE Ping
  BY <1>7 DEF Ping, DownloadStep, download_vars, stream_vars, recv_vars, task_vars, req_vars,
     download_ledger
<1>8. CASE Close
  BY <1>8, DestroyStep DEF Close, conn_vars, task_vars
<1> QED BY <1>1, <1>2, <1>3, <1>4, <1>5, <1>6, <1>7, <1>8 DEF Application

LEMMA DriverStep == ASSUME TypeOK, Driver PROVE DownloadStep
<1>1. ASSUME NEW id \in StreamIds, PumpAborts(id) \/ PumpParks(id) PROVE DownloadStep
  BY <1>1 DEF PumpAborts, PumpParks, DownloadStep, download_vars, conn_vars, stream_vars,
     recv_vars, task_vars, req_vars, download_ledger
<1>2. ASSUME NEW id \in StreamIds, PumpSends(id) PROVE DownloadStep
  BY <1>2 DEF PumpSends, DownloadStep, download_vars, conn_vars, recv_vars, req_vars,
     download_ledger
<1>3. CASE ReadEof \/ WriteFails
  BY <1>3, DestroyStep DEF ReadEof, WriteFails, conn_vars
<1>4. CASE ReadLoopEnds \/ DriverEnds
  BY <1>4 DEF ReadLoopEnds, DriverEnds, DownloadStep, download_vars, conn_vars, stream_vars,
     recv_vars, req_vars, download_ledger
<1> QED BY <1>1, <1>2, <1>3, <1>4 DEF Driver

LEMMA PeerStep == ASSUME TypeOK, Peer PROVE DownloadStep
<1>1. ASSUME NEW iw, NEW mfs, NEW mcs, RecvSettings(iw, mfs, mcs) PROVE DownloadStep
  <2>1. UNCHANGED next_stream_id
    BY <1>1 DEF RecvSettings
  <2>2. ASSUME NEW W, connection_error(W) PROVE DownloadStep
    BY <2>1, <2>2, ConnectionErrorStep
  <2>3. CASE UNCHANGED <<streams, got_head, local_closed, remote_closed, head, recv_vars,
                         closed, task_vars, download_ledger, body, rst_sent>>
    BY <2>1, <2>3 DEF DownloadStep, download_vars, recv_vars, task_vars, req_vars,
       download_ledger
  <2> QED BY <1>1, <2>2, <2>3 DEF RecvSettings
<1>2. ASSUME NEW id \in StreamIds, NEW size \in FragmentSizes, NEW end_headers \in BOOLEAN,
             NEW end_stream \in BOOLEAN, RecvHeaders(id, size, end_stream, end_headers)
      PROVE  DownloadStep
  BY <1>2, AcceptFragmentStep DEF RecvHeaders, HeaderBlocks
<1>3. ASSUME NEW id \in StreamIds, NEW size \in FragmentSizes, NEW end_headers \in BOOLEAN,
             NEW promised \in PromisedIds, RecvPushPromise(id, promised, size, end_headers)
      PROVE  DownloadStep
  BY <1>3, AcceptFragmentStep DEF RecvPushPromise, HeaderBlocks
<1>4. ASSUME NEW id \in StreamIds, NEW size \in FragmentSizes, NEW end_headers \in BOOLEAN,
             RecvContinuation(id, size, end_headers)
      PROVE  DownloadStep
  <2>1. pending_header_block \in HeaderBlocks
    BY <1>4 DEF RecvContinuation, TypeOK, ConnTypeOK
  <2> QED BY <1>4, <2>1, AcceptFragmentStep DEF RecvContinuation, HeaderBlocks
<1>5. ASSUME NEW id \in StreamIds, NEW n \in DataSizes, NEW pad \in {0, 1},
             NEW end_stream \in BOOLEAN, pad = 0 \/ "PADDING" \in Inputs,
             RecvData(id, n, pad, end_stream)
      PROVE  DownloadStep
  BY <1>5 DEF DownloadStep
<1>6. ASSUME NEW id \in StreamIds, RecvRstStream(id) PROVE DownloadStep
  <2>1. StreamsFail({id})
    BY <1>6 DEF RecvRstStream, StreamsFail, conn_vars, task_vars, req_vars, download_ledger
  <2>2. {id} \in SUBSET streams
    BY <1>6 DEF RecvRstStream
  <2> QED BY <2>1, <2>2 DEF DownloadStep
<1>7. ASSUME NEW id \in StreamIds, NEW n \in Increments, RecvWindowUpdate(id, n)
      PROVE  DownloadStep
  BY <1>7 DEF RecvWindowUpdate, DownloadStep, download_vars, conn_vars, recv_vars, task_vars,
     req_vars, download_ledger
<1>8. ASSUME NEW id \in StreamIds, RecvZeroWindowUpdate(id) PROVE DownloadStep
  <2>1. id \notin streams'
    BY <1>8 DEF RecvZeroWindowUpdate, reset_stream, fail
  <2>2. StreamsFail(streams \cap {id})
    BY <1>8, <2>1 DEF RecvZeroWindowUpdate, reset_stream, StreamsFail, conn_vars, task_vars,
       req_vars, download_ledger
  <2> QED BY <2>2 DEF DownloadStep
<1>9. ASSUME NEW n, RecvConnWindowUpdate(n) PROVE DownloadStep
  BY <1>9 DEF RecvConnWindowUpdate, DownloadStep, download_vars, conn_vars, stream_vars,
     recv_vars, task_vars, req_vars, download_ledger
<1>10. ASSUME NEW p, RecvPingAck(p) PROVE DownloadStep
  BY <1>10 DEF RecvPingAck, DownloadStep, download_vars, conn_vars, stream_vars,
     recv_vars, task_vars, req_vars, download_ledger
<1>11. ASSUME NEW last, NEW error \in BOOLEAN, RecvGoaway(last, error) PROVE DownloadStep
  <2>0. WakeReaders /\ UNCHANGED <<next_stream_id, req_vars, download_ledger, rst_sent>>
    BY <1>11 DEF RecvGoaway, task_vars
  <2>1. CASE destroy(send_window)
    BY <2>0, <2>1, DestroyStep
  <2>2. CASE fail({i \in streams : i > last}, send_window) /\ UNCHANGED closed
    <3>1. StreamsFail({i \in streams : i > last})
      BY <2>0, <2>2 DEF StreamsFail, req_vars, download_ledger
    <3>2. {i \in streams : i > last} \in SUBSET streams
      OBVIOUS
    <3> QED BY <3>1, <3>2 DEF DownloadStep
  <2> QED BY <1>11, <2>1, <2>2 DEF RecvGoaway
<1>12. CASE RecvProtocolError
  BY <1>12, ConnectionErrorStep DEF RecvProtocolError, conn_vars
<1> QED
  BY <1>1, <1>2, <1>3, <1>4, <1>5, <1>6, <1>7, <1>8, <1>9, <1>10, <1>11, <1>12 DEF Peer

LEMMA NextStep == ASSUME TypeOK, [Next]_vars PROVE DownloadStep
<1>1. CASE UNCHANGED vars
  BY <1>1 DEF vars, conn_vars, stream_vars, recv_vars, task_vars, req_vars, download_ledger,
     DownloadStep, download_vars
<1> QED BY <1>1, ApplicationStep, DriverStep, PeerStep DEF Next

-----------------------------------------------------------------------------
(* EofMeansComplete and FinishedStreamsLeave *)

LEMMA ZeroIsNoStream == 0 \notin StreamIds
BY DEF StreamIds

\* A new stream has an id of its own.
LEMMA OpensId ==
    ASSUME TypeOK, NEW r \in Requests, NEW has_body \in BOOLEAN, RequestOpens(r, has_body)
    PROVE  /\ next_stream_id \in StreamIds \ Opened
           /\ Opened' = Opened \cup {next_stream_id}
           /\ Opened \subseteq Opened'
BY DEF RequestOpens, TypeOK, ConnTypeOK, StreamIds, Opened

\* Steps that leave the callers alone and move no body past its end.
LEMMA BodyInvQuiet ==
    ASSUME TypeOK, LifeInv, BodyInv, UNCHANGED <<next_stream_id, req, stream_of>>,
           remote_closed \subseteq remote_closed', remote_closed' \subseteq remote_closed \cup streams,
           ended \subseteq ended', ended' \subseteq ended \cup streams,
           recv_error \subseteq recv_error', recv_error' \subseteq recv_error \cup streams,
           ended' \subseteq ended \cup recv_error' \cup remote_closed',
           \A i \in StreamIds :
              /\ body'[i] = body[i] \/ (body[i] = "parked" /\ body'[i] = "held")
              /\ buffered'[i] = buffered[i] \/ i \in streams,
           streams' \cap local_closed' \cap remote_closed' = {}
    PROVE  BodyInv'
<1>0. Opened' = Opened /\ streams \subseteq Opened
  BY DEF Opened, LifeInv, Fresh
<1>1. Owners'
  <2>1. \A r \in Requests : Waiting(r) => body'[stream_of[r]] = "none"
    BY DEF BodyInv, Owners, LifeInv, WaitersHaveStreams
  <2> QED BY <1>0, <2>1 DEF BodyInv, Owners, Waiting
<1>2. FreshBodies'
  BY <1>0 DEF BodyInv, FreshBodies
<1>3. EndsMean' /\ EofMeansComplete'
  BY DEF BodyInv, EndsMean, EofMeansComplete
<1> QED BY <1>1, <1>2, <1>3 DEF BodyInv, FinishedStreamsLeave

LEMMA BodyInvStep == ASSUME TypeOK, LifeInv, BodyInv, DownloadStep PROVE BodyInv'
<1>0. /\ streams \subseteq Opened /\ streams \subseteq StreamIds
      /\ \A i \in StreamIds : body[i] # "none" => i \in Opened
      /\ streams \cap local_closed \cap remote_closed = {}
  BY DEF LifeInv, Fresh, BodyInv, FreshBodies, FinishedStreamsLeave, TypeOK, StreamTypeOK
<1>1. CASE UNCHANGED download_vars
  BY <1>0, <1>1, BodyInvQuiet DEF download_vars
<1>2. ASSUME NEW r \in Requests, RequestTurns(r) PROVE BodyInv'
  <2>1. \A q \in Requests : /\ Waiting(q)' => Waiting(q)
                            /\ req'[q] \in {"idle", "parked"} => req[q] \in {"idle", "parked"}
    BY <1>2 DEF RequestTurns, Waiting, TypeOK, TaskTypeOK
  <2>2. Owners'
    BY <1>2, <2>1 DEF RequestTurns, BodyInv, Owners, Opened
  <2>3. FreshBodies' /\ EndsMean' /\ EofMeansComplete' /\ FinishedStreamsLeave'
    BY <1>2 DEF RequestTurns, BodyInv, FreshBodies, Opened, EndsMean, EofMeansComplete,
       FinishedStreamsLeave
  <2> QED BY <2>2, <2>3 DEF BodyInv
<1>3. ASSUME NEW r \in Requests, RequestResumes(r) PROVE BodyInv'
  <2> DEFINE id == stream_of[r]
  <2>1. id \in Opened /\ id \in StreamIds /\ id # 0 /\ body[id] = "none"
    BY <1>3, ZeroIsNoStream DEF RequestResumes, LifeInv, WaitersHaveStreams, Waiting, BodyInv,
       Owners
  <2>2. /\ \A i \in StreamIds : i # id => body'[i] = body[i]
        /\ body'[id] \in {"none", "held"}
        /\ UNCHANGED <<next_stream_id, streams, local_closed, remote_closed, buffered, ended,
                       recv_error, stream_of>>
    BY <1>3, <2>1 DEF RequestResumes, conn_vars, stream_vars, recv_vars, TypeOK, TaskTypeOK
  <2>3. \A q \in Requests : /\ Waiting(q)' => Waiting(q) /\ q # r
                            /\ req'[q] \in {"idle", "parked"} => req[q] \in {"idle", "parked"}
    BY <1>3 DEF RequestResumes, Waiting, TypeOK, TaskTypeOK
  <2>4. Owners'
    <3>1. \A q \in Requests : Waiting(q)' => stream_of[q] \in StreamIds /\ stream_of[q] # id
      BY <2>1, <2>3 DEF LifeInv, WaitersHaveStreams, BodyInv, Owners
    <3> QED BY <2>2, <2>3, <3>1 DEF BodyInv, Owners, Opened
  <2>5. FreshBodies'
    BY <2>1, <2>2 DEF BodyInv, FreshBodies, Opened
  <2>6. EndsMean' /\ EofMeansComplete' /\ FinishedStreamsLeave'
    BY <2>1, <2>2 DEF BodyInv, EndsMean, EofMeansComplete, FinishedStreamsLeave
  <2> QED BY <2>4, <2>5, <2>6 DEF BodyInv
<1>4. ASSUME NEW r \in Requests, NEW has_body \in BOOLEAN, RequestOpens(r, has_body)
      PROVE  BodyInv'
  <2> DEFINE id == next_stream_id
  <2>1. /\ id \in StreamIds \ Opened /\ Opened' = Opened \cup {id} /\ id # 0
    BY <1>4, OpensId, ZeroIsNoStream
  <2>2. /\ UNCHANGED <<remote_closed, buffered, ended, recv_error, body>>
        /\ streams' = streams \cup {id}
        /\ local_closed' \subseteq local_closed \cup {id}
        /\ stream_of'[r] = id /\ req'[r] = "waiting"
        /\ \A q \in Requests : q # r => stream_of'[q] = stream_of[q] /\ req'[q] = req[q]
    BY <1>4 DEF RequestOpens, recv_vars, TypeOK, TaskTypeOK
  <2>3. id \notin remote_closed /\ body[id] = "none"
    BY <2>1 DEF BodyInv, FreshBodies
  <2> HIDE DEF id
  <2>4. Owners'
    BY <2>1, <2>2, <2>3 DEF BodyInv, Owners, Waiting
  <2>5. FreshBodies'
    BY <2>1, <2>2 DEF BodyInv, FreshBodies
  <2>6. EndsMean' /\ EofMeansComplete' /\ FinishedStreamsLeave'
    BY <2>2, <2>3 DEF BodyInv, EndsMean, EofMeansComplete, FinishedStreamsLeave
  <2> QED BY <2>4, <2>5, <2>6 DEF BodyInv
<1>5. ASSUME NEW id \in StreamIds, PumpFinishes(id) PROVE BodyInv'
  <2>1. streams' \cap local_closed' \cap remote_closed' = {}
    BY <1>0, <1>5 DEF PumpFinishes, retire_if_fully_closed
  <2>2. UNCHANGED <<next_stream_id, req, stream_of, remote_closed, buffered, ended, recv_error,
                    body>>
    BY <1>5 DEF PumpFinishes, conn_vars, recv_vars, task_vars, req_vars
  <2> QED BY <2>1, <2>2, BodyInvQuiet
<1>6. ASSUME NEW id \in StreamIds, ReadTail(id) PROVE BodyInv'
  <2>1. /\ UNCHANGED <<next_stream_id, req, stream_of, streams, local_closed, remote_closed,
                       buffered, ended>>
        /\ body[id] = "held" /\ body'[id] \in {"failed", "eof", "parked"}
        /\ \A i \in StreamIds : i # id => body'[i] = body[i]
        /\ recv_error' \subseteq recv_error /\ recv_error \subseteq recv_error' \cup {id}
        /\ body'[id] # "failed" => recv_error' = recv_error
        /\ body'[id] = "eof" => id \in ended \ recv_error
    BY <1>6 DEF ReadTail, conn_vars, task_vars, req_vars, TypeOK, TaskTypeOK
  <2>2. Owners'
    <3>1. \A q \in Requests : Waiting(q) => stream_of[q] # id
      BY <2>1 DEF BodyInv, Owners
    <3> QED BY <2>1, <3>1 DEF BodyInv, Owners, Waiting, Opened, LifeInv, WaitersHaveStreams
  <2>3. FreshBodies'
    BY <1>0, <2>1 DEF BodyInv, FreshBodies, Opened
  <2>4. EndsMean' /\ EofMeansComplete' /\ FinishedStreamsLeave'
    BY <2>1 DEF BodyInv, EndsMean, EofMeansComplete, FinishedStreamsLeave
  <2> QED BY <2>2, <2>3, <2>4 DEF BodyInv
<1>7. ASSUME NEW id \in StreamIds, DropBody(id) PROVE BodyInv'
  <2>1. /\ UNCHANGED <<next_stream_id, req, stream_of, local_closed, remote_closed, buffered>>
        /\ streams' \subseteq streams
        /\ body[id] # "none" /\ body'[id] = "dropped"
        /\ \A i \in StreamIds : i # id => body'[i] = body[i]
        /\ ended \subseteq ended' /\ ended' \subseteq ended \cup {id}
        /\ recv_error \subseteq recv_error' /\ recv_error' \subseteq recv_error \cup {id}
    BY <1>7 DEF DropBody, reset_stream, fail, fail_body, conn_vars, stream_vars, recv_vars,
       task_vars, req_vars, TypeOK, TaskTypeOK
  <2>2. Owners'
    <3>1. \A q \in Requests : Waiting(q) => stream_of[q] # id
      BY <2>1 DEF BodyInv, Owners
    <3> QED BY <2>1, <3>1 DEF BodyInv, Owners, Waiting, Opened, LifeInv, WaitersHaveStreams
  <2>3. FreshBodies'
    BY <1>0, <2>1 DEF BodyInv, FreshBodies, Opened
  <2>4. EndsMean' /\ EofMeansComplete' /\ FinishedStreamsLeave'
    BY <2>1 DEF BodyInv, EndsMean, EofMeansComplete, FinishedStreamsLeave
  <2> QED BY <2>2, <2>3, <2>4 DEF BodyInv
<1>8. ASSUME NEW id \in StreamIds, NEW n \in Nat, ReadChunk(id, n) PROVE BodyInv'
  <2>1. /\ UNCHANGED <<next_stream_id, req, stream_of, streams, local_closed, remote_closed,
                       ended, recv_error, body>>
        /\ id \in Opened
        /\ \A i \in StreamIds : i # id => buffered'[i] = buffered[i]
    BY <1>0, <1>8 DEF ReadChunk, conn_vars, task_vars, req_vars, TypeOK, StreamTypeOK
  <2>2. Owners' /\ FreshBodies'
    BY <2>1 DEF BodyInv, Owners, Waiting, FreshBodies, Opened
  <2>3. EndsMean' /\ EofMeansComplete' /\ FinishedStreamsLeave'
    BY <2>1 DEF BodyInv, EndsMean, EofMeansComplete, FinishedStreamsLeave
  <2> QED BY <2>2, <2>3 DEF BodyInv
<1>9. ASSUME NEW F \in SUBSET streams, StreamsFail(F) PROVE BodyInv'
  <2>1. /\ UNCHANGED <<next_stream_id, req, stream_of, local_closed, remote_closed, buffered>>
        /\ streams' = streams \ F
        /\ ended' = ended \cup F /\ recv_error' = recv_error \cup F
        /\ \A i \in StreamIds : body'[i] = body[i] \/ (body[i] = "parked" /\ body'[i] = "held")
    BY <1>9 DEF StreamsFail, fail, fail_body, WakeReaders
  <2> QED BY <1>0, <2>1, BodyInvQuiet
<1>10. ASSUME NEW id \in StreamIds, NEW end_stream \in BOOLEAN, NEW interim \in BOOLEAN,
              HeadersArrive(id, end_stream, interim)
       PROVE  BodyInv'
  <2>1. /\ UNCHANGED <<next_stream_id, req, stream_of, local_closed, buffered, recv_error>>
        /\ remote_closed' = (IF id \in streams /\ end_stream THEN remote_closed \cup {id}
                                                             ELSE remote_closed)
        /\ ended' = (IF id \in streams /\ end_stream /\ ~interim THEN ended \cup {id} ELSE ended)
        /\ \A i \in StreamIds : body'[i] = body[i] \/ (body[i] = "parked" /\ body'[i] = "held")
    BY <1>10 DEF HeadersArrive, receive_headers, WakeReaders
  <2>2. streams' \cap local_closed' \cap remote_closed' = {}
    <3>1. CASE end_stream
      BY <1>0, <1>10, <2>1, <3>1 DEF HeadersArrive, receive_headers, retire_if_fully_closed
    <3>2. CASE ~end_stream
      BY <1>0, <1>10, <2>1, <3>2 DEF HeadersArrive, receive_headers
    <3> QED BY <3>1, <3>2
  <2> QED BY <2>1, <2>2, BodyInvQuiet
<1>11. ASSUME NEW id \in StreamIds, NEW n \in DataSizes, NEW pad \in {0, 1},
              NEW end_stream \in BOOLEAN, RecvData(id, n, pad, end_stream)
       PROVE  BodyInv'
  <2>1. /\ UNCHANGED <<next_stream_id, req, stream_of, local_closed, recv_error>>
        /\ remote_closed' = (IF id \in streams /\ end_stream THEN remote_closed \cup {id}
                                                             ELSE remote_closed)
        /\ ended' = (IF id \in streams /\ end_stream THEN ended \cup {id} ELSE ended)
        /\ \A i \in StreamIds :
              /\ body'[i] = body[i] \/ (body[i] = "parked" /\ body'[i] = "held")
              /\ buffered'[i] = buffered[i] \/ i \in streams
    BY <1>11 DEF RecvData, WakeReaders, conn_vars, task_vars, req_vars, TypeOK, StreamTypeOK
  <2>2. streams' \cap local_closed' \cap remote_closed' = {}
    BY <1>0, <1>11, <2>1 DEF RecvData, retire_if_fully_closed
  <2> QED BY <2>1, <2>2, BodyInvQuiet
<1> QED
  BY <1>1, <1>2, <1>3, <1>4, <1>5, <1>6, <1>7, <1>8, <1>9, <1>10, <1>11 DEF DownloadStep

LEMMA BodyInvInit == Init => BodyInv
<1> SUFFICES ASSUME Init PROVE BodyInv OBVIOUS
<1>1. Owners /\ FreshBodies
  BY DEF Init, Owners, Waiting, FreshBodies
<1>2. EndsMean /\ EofMeansComplete /\ FinishedStreamsLeave
  BY DEF Init, EndsMean, EofMeansComplete, FinishedStreamsLeave
<1> QED BY <1>1, <1>2 DEF BodyInv

\* The inductive invariant of the response bodies, for every peer.
THEOREM BodyInvariant == Spec => [](TypeOK /\ LifeInv /\ BodyInv)
<1>1. TypeOK /\ LifeInv /\ BodyInv /\ [Next]_vars => BodyInv'
  BY NextStep, BodyInvStep
<1> QED BY <1>1, BodyInvInit, LifeInvariant, PTL DEF Spec

\* A response body that ends without an error is complete, whatever the peer
\* sends and whenever its stream fails (ResponseBody::poll_next, StreamState::fail).
THEOREM EofMeansCompleteHolds == Spec => []EofMeansComplete
<1>1. BodyInv => EofMeansComplete
  BY DEF BodyInv
<1> QED BY <1>1, BodyInvariant, PTL

\* A stream both of whose directions ended has left the map (pump_body, the HEADERS
\* and DATA handlers, retire_if_fully_closed).
THEOREM FinishedStreamsLeaveHolds == Spec => []FinishedStreamsLeave
<1>1. BodyInv => FinishedStreamsLeave
  BY DEF BodyInv
<1> QED BY <1>1, BodyInvariant, PTL

-----------------------------------------------------------------------------
(* ReaderHasWaker *)

LEMMA OrderlyStep ==
    ASSUME TypeOK, LifeInv, BodyInv, OrderlyInv, "ROGUE" \notin Inputs, DownloadStep
    PROVE  OrderlyInv'
<1>0. /\ streams \subseteq Opened /\ streams \subseteq StreamIds
      /\ \A i \in StreamIds : body[i] # "none" => i \in Opened
      /\ recv_error \subseteq Opened /\ ended \subseteq Opened
  BY DEF LifeInv, Fresh, BodyInv, FreshBodies, TypeOK, StreamTypeOK
<1>1. CASE UNCHANGED download_vars
  BY <1>1 DEF download_vars, OrderlyInv, Opened, ReaderHasWaker
<1>2. ASSUME NEW r \in Requests, RequestTurns(r) PROVE OrderlyInv'
  BY <1>2 DEF RequestTurns, OrderlyInv, Opened, ReaderHasWaker
<1>3. ASSUME NEW r \in Requests, RequestResumes(r) PROVE OrderlyInv'
  BY <1>3 DEF RequestResumes, OrderlyInv, Opened, ReaderHasWaker, conn_vars, stream_vars,
     recv_vars, TypeOK, TaskTypeOK
<1>4. ASSUME NEW r \in Requests, NEW has_body \in BOOLEAN, RequestOpens(r, has_body)
      PROVE  OrderlyInv'
  <2>1. /\ next_stream_id \in StreamIds \ Opened
        /\ Opened' = Opened \cup {next_stream_id}
        /\ streams' = streams \cup {next_stream_id}
        /\ UNCHANGED <<remote_closed, ended, recv_error, recv_waker, buffered, body>>
    BY <1>4, OpensId DEF RequestOpens, recv_vars
  <2> QED BY <1>0, <2>1 DEF OrderlyInv, ReaderHasWaker
<1>5. ASSUME NEW id \in StreamIds, PumpFinishes(id) PROVE OrderlyInv'
  <2>1. /\ UNCHANGED <<next_stream_id, remote_closed, buffered, ended, recv_error, recv_waker,
                       body>>
        /\ streams' \subseteq streams
        /\ streams \ streams' \subseteq remote_closed
    BY <1>5 DEF PumpFinishes, retire_if_fully_closed, conn_vars, recv_vars
  <2> QED BY <2>1 DEF OrderlyInv, Opened, ReaderHasWaker
<1>6. ASSUME NEW id \in StreamIds, ReadTail(id) PROVE OrderlyInv'
  <2>1. /\ UNCHANGED <<next_stream_id, streams, remote_closed, buffered, ended>>
        /\ recv_error' \subseteq recv_error
        /\ \A i \in StreamIds : i # id => body'[i] = body[i] /\ (i \in recv_waker' <=> i \in recv_waker)
        /\ body'[id] = "parked" =>
              id \notin recv_error /\ id \notin ended /\ id \in recv_waker' /\ buffered[id] = 0
        /\ body[id] # "none"
    BY <1>6 DEF ReadTail, conn_vars, TypeOK, TaskTypeOK
  <2>2. id \in Opened
    BY <1>0, <2>1
  <2> QED BY <2>1, <2>2 DEF OrderlyInv, Opened, ReaderHasWaker
<1>7. ASSUME NEW id \in StreamIds, DropBody(id) PROVE OrderlyInv'
  <2>1. /\ UNCHANGED <<next_stream_id, remote_closed, buffered>>
        /\ body'[id] = "dropped"
        /\ \A i \in StreamIds : i # id => body'[i] = body[i]
    BY <1>7 DEF DropBody, reset_stream, fail, fail_body, conn_vars, stream_vars, recv_vars,
       TypeOK, TaskTypeOK
  <2>2. CASE id \in ended
    BY <1>7, <2>1, <2>2 DEF DropBody, stream_vars, recv_vars, OrderlyInv, Opened, ReaderHasWaker
  <2>3. CASE id \notin ended
    <3>1. /\ streams' = streams \ {id}
          /\ ended' = ended \cup (streams \cap {id})
          /\ recv_error' = recv_error \cup (streams \cap {id})
          /\ recv_waker' = recv_waker \ (streams \cap {id})
      BY <1>7, <2>3 DEF DropBody, reset_stream, fail, fail_body
    <3> QED BY <2>1, <3>1 DEF OrderlyInv, Opened, ReaderHasWaker
  <2> QED BY <2>2, <2>3
<1>8. ASSUME NEW id \in StreamIds, NEW n \in Nat, ReadChunk(id, n) PROVE OrderlyInv'
  <2>1. /\ UNCHANGED <<next_stream_id, streams, remote_closed, ended, recv_error, recv_waker,
                       body>>
        /\ body[id] = "held"
        /\ \A i \in StreamIds : i # id => buffered'[i] = buffered[i]
    BY <1>8 DEF ReadChunk, conn_vars, TypeOK, StreamTypeOK
  <2> QED BY <2>1 DEF OrderlyInv, Opened, ReaderHasWaker
<1>9. ASSUME NEW F \in SUBSET streams, StreamsFail(F) PROVE OrderlyInv'
  <2>1. /\ UNCHANGED <<next_stream_id, remote_closed, buffered>>
        /\ streams' = streams \ F
        /\ ended' = ended \cup F /\ recv_error' = recv_error \cup F
        /\ recv_waker' = recv_waker \ F
    BY <1>9 DEF StreamsFail, fail, fail_body
  <2>2. \A i \in StreamIds : body'[i] = "parked" => body[i] = "parked" /\ i \in recv_waker'
    BY <1>9 DEF StreamsFail, WakeReaders, OrderlyInv, ReaderHasWaker
  <2> QED BY <2>1, <2>2 DEF OrderlyInv, Opened, ReaderHasWaker
<1>10. ASSUME NEW id \in StreamIds, NEW end_stream \in BOOLEAN, NEW interim \in BOOLEAN,
              HeadersArrive(id, end_stream, interim)
       PROVE  OrderlyInv'
  <2>1. /\ UNCHANGED <<next_stream_id, buffered, recv_error>>
        /\ remote_closed' = (IF id \in streams /\ end_stream THEN remote_closed \cup {id}
                                                             ELSE remote_closed)
        /\ ended' = (IF id \in streams /\ end_stream THEN ended \cup {id} ELSE ended)
        /\ recv_waker' = (IF id \in streams /\ end_stream /\ id \notin ended
                          THEN recv_waker \ {id} ELSE recv_waker)
    BY <1>10 DEF HeadersArrive, receive_headers
  <2>2. streams' \subseteq streams /\ streams \ streams' \subseteq remote_closed'
    BY <1>10 DEF HeadersArrive, receive_headers, retire_if_fully_closed
  <2>3. \A i \in StreamIds : body'[i] = "parked" => body[i] = "parked" /\ i \in recv_waker'
    BY <1>10 DEF HeadersArrive, WakeReaders, OrderlyInv, ReaderHasWaker
  <2> QED BY <2>1, <2>2, <2>3 DEF OrderlyInv, Opened, ReaderHasWaker
<1>11. ASSUME NEW id \in StreamIds, NEW n \in DataSizes, NEW pad \in {0, 1},
              NEW end_stream \in BOOLEAN, RecvData(id, n, pad, end_stream)
       PROVE  OrderlyInv'
  <2>1. /\ UNCHANGED <<next_stream_id, recv_error>>
        /\ remote_closed' = (IF id \in streams /\ end_stream THEN remote_closed \cup {id}
                                                             ELSE remote_closed)
        /\ ended' = (IF id \in streams /\ end_stream THEN ended \cup {id} ELSE ended)
        /\ recv_waker' = (IF id \in streams THEN recv_waker \ {id} ELSE recv_waker)
        /\ \A i \in StreamIds : i # id => buffered'[i] = buffered[i]
        /\ id \notin streams => buffered' = buffered
    BY <1>11 DEF RecvData, conn_vars, TypeOK, StreamTypeOK
  <2>2. streams' \subseteq streams /\ streams \ streams' \subseteq remote_closed'
    BY <1>11 DEF RecvData, retire_if_fully_closed
  <2>3. \A i \in StreamIds : body'[i] = "parked" => body[i] = "parked" /\ i \in recv_waker'
    BY <1>11 DEF RecvData, WakeReaders, OrderlyInv, ReaderHasWaker
  <2> QED BY <2>1, <2>2, <2>3 DEF OrderlyInv, Opened, ReaderHasWaker
<1> QED
  BY <1>1, <1>2, <1>3, <1>4, <1>5, <1>6, <1>7, <1>8, <1>9, <1>10, <1>11 DEF DownloadStep

LEMMA OrderlyInit == Init => OrderlyInv
BY DEF Init, OrderlyInv, Opened, ReaderHasWaker, StreamIds

\* What the bodies rely on while the peer keeps the order of frames on a stream.
THEOREM OrderlyInvariant ==
    ASSUME "ROGUE" \notin Inputs
    PROVE  Spec => [](TypeOK /\ LifeInv /\ BodyInv /\ OrderlyInv)
<1>1. TypeOK /\ LifeInv /\ BodyInv /\ OrderlyInv /\ [Next]_vars => OrderlyInv'
  BY NextStep, OrderlyStep
<1> QED BY <1>1, OrderlyInit, BodyInvariant, PTL DEF Spec

\* No wake-up of a reader is lost: a parked reader has its waker in place, nothing to
\* read, and a stream in the map that will still end or fail.  An interim response
\* with END_STREAM, which a conforming peer does not send, is excluded
\* (ResponseBody::poll_next, RecvState, StreamState::fail).
THEOREM ReaderHasWakerHolds ==
    ASSUME "ROGUE" \notin Inputs PROVE Spec => []ReaderHasWaker
<1>1. OrderlyInv => ReaderHasWaker
  BY DEF OrderlyInv
<1> QED BY <1>1, OrderlyInvariant, PTL

-----------------------------------------------------------------------------
(* RecvWindowConserved *)

\* Steps that move no bytes, and resolve a head channel only with an error.
LEMMA BytesHeldQuiet ==
    ASSUME TypeOK, BytesHeld, UNCHANGED <<buffered, rx, returned>>,
           streams' \subseteq streams, ended \subseteq ended', got_head \subseteq got_head',
           closed => closed',
           \A i \in StreamIds :
              /\ head'[i] = "ok" <=> head[i] = "ok"
              /\ head'[i] = "open" => head[i] = "open"
              /\ i \in streams' => head'[i] = head[i] /\ (i \in got_head' => i \in got_head)
              /\ body'[i] = body[i] \/ (body[i] = "parked" /\ body'[i] = "held"),
           \A r \in Requests : Waiting(r) => Waiting(r)' /\ stream_of'[r] = stream_of[r]
    PROVE  BytesHeld'
<1>1. \A i \in StreamIds : Unread(i)' = Unread(i)
  BY DEF Unread
<1> QED BY <1>1 DEF BytesHeld

LEMMA BytesHeldStep ==
    ASSUME TypeOK, LifeInv, BodyInv, OrderlyInv, BytesHeld, DownloadStep,
           {"ROGUE", "PADDING", "CANCEL"} \cap Inputs = {}
    PROVE  BytesHeld'
<1>0. /\ streams \subseteq Opened /\ streams \subseteq StreamIds
      /\ \A i \in StreamIds : body[i] # "none" => i \in Opened
      /\ buffered \in [StreamIds -> Nat]
      /\ rx \in [StreamIds -> Nat] /\ returned \in [StreamIds -> Nat]
      /\ body \in [StreamIds -> BodyStates] /\ head \in [StreamIds -> HeadStates]
      /\ req \in [Requests -> RequestStates] /\ closed \in BOOLEAN
  BY DEF LifeInv, Fresh, BodyInv, FreshBodies, TypeOK, ConnTypeOK, StreamTypeOK, TaskTypeOK,
     LedgerTypeOK
<1>1. CASE UNCHANGED download_vars
  BY <1>1, BytesHeldQuiet DEF download_vars, Waiting
<1>2. ASSUME NEW r \in Requests, RequestTurns(r) PROVE BytesHeld'
  <2>1. \A q \in Requests : Waiting(q) => Waiting(q)' /\ stream_of'[q] = stream_of[q]
    BY <1>0, <1>2 DEF RequestTurns, Waiting
  <2> QED BY <1>2, <2>1, BytesHeldQuiet DEF RequestTurns
<1>3. ASSUME NEW r \in Requests, RequestResumes(r) PROVE BytesHeld'
  <2> DEFINE id == stream_of[r]
  <2>1. id \in StreamIds /\ body[id] = "none"
    BY <1>3 DEF RequestResumes, LifeInv, WaitersHaveStreams, Waiting, BodyInv, Owners
  <2>2. /\ \A i \in StreamIds : i # id => body'[i] = body[i]
        /\ body'[id] \in {"none", "held"}
        /\ head[id] = "ok" => body'[id] = "held"
        /\ head[id] # "open"
        /\ UNCHANGED <<streams, got_head, head, buffered, ended, closed, stream_of, rx, returned>>
    BY <1>0, <1>3, <2>1 DEF RequestResumes, stream_vars, recv_vars, download_ledger
  <2>3. \A q \in Requests : Waiting(q) /\ q # r => Waiting(q)'
    BY <1>0, <1>3 DEF RequestResumes, Waiting
  <2>4. \A i \in StreamIds : Unread(i)' = Unread(i)
    BY <2>1, <2>2 DEF Unread
  <2> HIDE DEF id
  <2>5. \A i \in StreamIds : head[i] \in {"open", "ok"} /\ body'[i] = "none" =>
              \E q \in Requests : Waiting(q)' /\ stream_of'[q] = i
    <3> SUFFICES ASSUME NEW i \in StreamIds, head[i] \in {"open", "ok"}, body'[i] = "none"
                 PROVE  \E q \in Requests : Waiting(q)' /\ stream_of'[q] = i
      OBVIOUS
    <3>1. i # id /\ body[i] = "none"
      BY <2>2
    <3>2. PICK q \in Requests : Waiting(q) /\ stream_of[q] = i
      BY <3>1 DEF BytesHeld
    <3>3. q # r
      BY <3>1, <3>2 DEF id
    <3> QED BY <2>2, <2>3, <3>2, <3>3
  <2> QED BY <2>2, <2>4, <2>5 DEF BytesHeld
<1>4. ASSUME NEW r \in Requests, NEW has_body \in BOOLEAN, RequestOpens(r, has_body)
      PROVE  BytesHeld'
  <2> DEFINE id == next_stream_id
  <2>1. /\ id \in StreamIds \ Opened
        /\ streams' = streams \cup {id} /\ head'[id] = "open"
        /\ \A i \in StreamIds : i # id => head'[i] = head[i]
        /\ UNCHANGED <<got_head, buffered, ended, body, rx, returned, closed>>
        /\ stream_of'[r] = id /\ req'[r] = "waiting" /\ req[r] # "waiting"
        /\ \A q \in Requests : q # r => stream_of'[q] = stream_of[q] /\ req'[q] = req[q]
    BY <1>0, <1>4, OpensId DEF RequestOpens, Runnable, recv_vars, download_ledger, TypeOK,
       TaskTypeOK
  <2>2. id \notin got_head /\ body[id] = "none" /\ buffered[id] = 0
    BY <2>1 DEF LifeInv, Fresh, BodyInv, FreshBodies
  <2>3. \A i \in StreamIds : Unread(i)' = Unread(i)
    BY <2>1 DEF Unread
  <2> HIDE DEF id
  <2>4. \A q \in Requests : Waiting(q) => Waiting(q)' /\ stream_of'[q] = stream_of[q]
    BY <2>1 DEF Waiting
  <2>5. Waiting(r)'
    BY <2>1 DEF Waiting
  <2> QED BY <2>1, <2>2, <2>3, <2>4, <2>5 DEF BytesHeld
<1>5. ASSUME NEW id \in StreamIds, PumpFinishes(id) PROVE BytesHeld'
  <2>1. /\ UNCHANGED <<got_head, buffered, ended, body, rx, returned, closed, req, stream_of>>
        /\ streams' \subseteq streams
        /\ \A i \in StreamIds :
              \/ head'[i] = head[i]
              \/ head[i] = "open" /\ head'[i] = "dropped" /\ i \notin streams'
    BY <1>0, <1>5 DEF PumpFinishes, retire_if_fully_closed, recv_vars, download_ledger,
       task_vars, req_vars
  <2> QED BY <2>1, BytesHeldQuiet DEF Waiting
<1>6. ASSUME NEW id \in StreamIds, ReadTail(id) PROVE BytesHeld'
  <2>1. /\ UNCHANGED <<streams, got_head, head, buffered, ended, rx, returned, closed, req,
                       stream_of>>
        /\ body[id] = "held" /\ buffered[id] = 0 /\ body'[id] \in {"failed", "eof", "parked"}
        /\ \A i \in StreamIds : i # id => body'[i] = body[i]
        /\ body'[id] = "failed" => id \in recv_error
        /\ body'[id] = "eof" => id \in ended
    BY <1>0, <1>6 DEF ReadTail, task_vars, req_vars, download_ledger
  <2>2. id \in recv_error => id \in ended
    BY <1>0, <2>1 DEF OrderlyInv
  <2>3. \A i \in StreamIds : Unread(i)' = Unread(i)
    BY <2>1 DEF Unread
  <2> QED BY <2>1, <2>2, <2>3 DEF BytesHeld, Waiting
<1>7. ASSUME NEW id \in StreamIds, DropBody(id) PROVE BytesHeld'
  <2>1. /\ UNCHANGED <<buffered, rx, closed, req, stream_of>>
        /\ body[id] \notin {"none", "dropped"} /\ body'[id] = "dropped"
        /\ \A i \in StreamIds : i # id => body'[i] = body[i]
        /\ returned' = [returned EXCEPT ![id] = IF closed THEN @ ELSE @ + buffered[id]]
    BY <1>0, <1>7 DEF DropBody, reset_stream, fail, fail_body, stream_vars, recv_vars,
       task_vars, req_vars, replenish_recv_window
  <2>2. ~closed => \A i \in StreamIds : rx'[i] = returned'[i] + Unread(i)'
    BY <1>0, <2>1 DEF BytesHeld, Unread
  <2>3. CASE id \in ended
    BY <1>7, <2>1, <2>2, <2>3 DEF DropBody, stream_vars, recv_vars, BytesHeld, Waiting
  <2>4. CASE id \notin ended
    <3>1. id \in streams
      BY <1>0, <2>1, <2>4 DEF OrderlyInv
    <3>2. /\ streams' = streams \ {id}
          /\ ended' = ended \cup {id}
          /\ got_head' = got_head \cup {id}
          /\ \A i \in StreamIds : head'[i] = IF i = id /\ i \notin got_head THEN "err" ELSE head[i]
      BY <1>7, <2>4, <3>1 DEF DropBody, reset_stream, fail, fail_body
    <3>3. head'[id] = head[id] \/ (head[id] # "ok" /\ head'[id] = "err")
      BY <3>2 DEF BytesHeld
    <3> QED BY <2>1, <2>2, <3>2, <3>3 DEF BytesHeld, Waiting
  <2> QED BY <2>3, <2>4
<1>8. ASSUME NEW id \in StreamIds, NEW n \in Nat, ReadChunk(id, n) PROVE BytesHeld'
  <2>1. /\ UNCHANGED <<streams, got_head, head, ended, body, rx, closed, req, stream_of>>
        /\ body[id] = "held" /\ n <= buffered[id]
        /\ buffered' = [buffered EXCEPT ![id] = @ - n]
        /\ returned' = [returned EXCEPT ![id] = IF closed THEN @ ELSE @ + n]
    BY <1>8 DEF ReadChunk, task_vars, req_vars, replenish_recv_window
  <2>2. ~closed => \A i \in StreamIds : rx'[i] = returned'[i] + Unread(i)'
    BY <1>0, <2>1 DEF BytesHeld, Unread
  <2>3. \A i \in StreamIds : /\ i # id => buffered'[i] = buffered[i]
                             /\ buffered'[i] > 0 => buffered[i] > 0
    BY <1>0, <2>1
  <2> QED BY <2>1, <2>2, <2>3 DEF BytesHeld, Waiting
<1>9. ASSUME NEW F \in SUBSET streams, StreamsFail(F) PROVE BytesHeld'
  <2>1. /\ UNCHANGED <<buffered, rx, returned, req, stream_of>>
        /\ streams' = streams \ F
        /\ ended' = ended \cup F
        /\ got_head' = got_head \cup F
        /\ closed => closed'
        /\ \A i \in StreamIds :
              /\ head'[i] = IF i \in F \ got_head THEN "err" ELSE head[i]
              /\ body'[i] = body[i] \/ (body[i] = "parked" /\ body'[i] = "held")
    BY <1>9 DEF StreamsFail, fail, fail_body, WakeReaders
  <2>2. \A i \in StreamIds : head[i] = "ok" => i \in got_head
    BY DEF BytesHeld
  <2> QED BY <2>1, <2>2, BytesHeldQuiet DEF Waiting
<1>10. ASSUME NEW id \in StreamIds, NEW end_stream \in BOOLEAN, NEW interim \in BOOLEAN,
              HeadersArrive(id, end_stream, interim)
       PROVE  BytesHeld'
  <2> DEFINE final == id \in streams /\ ~interim
             heads == IF final /\ id \notin got_head THEN [head EXCEPT ![id] = "ok"] ELSE head
  <2>1. /\ UNCHANGED <<buffered, rx, returned, closed, req, stream_of>>
        /\ got_head' = IF final THEN got_head \cup {id} ELSE got_head
        /\ ended \subseteq ended'
        /\ streams' \subseteq streams
        /\ \A i \in StreamIds :
              /\ body'[i] = body[i] \/ (body[i] = "parked" /\ body'[i] = "held")
              /\ \/ head'[i] = heads[i]
                 \/ heads[i] = "open" /\ head'[i] = "dropped" /\ i \notin streams'
    <3>1. heads \in [StreamIds -> HeadStates]
      BY <1>0 DEF HeadStates
    <3>2. /\ streams' \subseteq streams
          /\ \A i \in StreamIds :
                \/ head'[i] = heads[i]
                \/ heads[i] = "open" /\ head'[i] = "dropped" /\ i \notin streams'
      <4>1. CASE end_stream
        <5>1. retire_if_fully_closed(id, heads)
          BY <1>10, <4>1 DEF HeadersArrive, receive_headers
        <5> HIDE DEF heads
        <5> QED BY <3>1, <5>1 DEF retire_if_fully_closed
      <4>2. CASE ~end_stream
        BY <1>10, <4>2 DEF HeadersArrive, receive_headers
      <4> QED BY <4>1, <4>2
    <3> QED BY <1>10, <3>2 DEF HeadersArrive, receive_headers, WakeReaders
  <2>2. \A i \in StreamIds : heads[i] # head[i] => i = id /\ final /\ i \notin got_head
                                                   /\ heads[i] = "ok"
    BY <1>0
  <2>3. final /\ id \notin got_head => heads[id] = "ok" /\ head[id] = "open"
    <3>1. final /\ id \notin got_head => heads[id] = "ok"
      BY <1>0
    <3>2. final /\ id \notin got_head => head[id] = "open"
      BY DEF BytesHeld
    <3> QED BY <3>1, <3>2
  <2> HIDE DEF heads, final
  <2>4. \A i \in StreamIds : Unread(i)' = Unread(i)
    BY <2>1 DEF Unread
  <2>5. \A q \in Requests : Waiting(q) => Waiting(q)' /\ stream_of'[q] = stream_of[q]
    BY <2>1 DEF Waiting
  <2> QED BY <2>1, <2>2, <2>3, <2>4, <2>5 DEF BytesHeld
<1>11. ASSUME NEW id \in StreamIds, NEW n \in DataSizes, NEW pad \in {0, 1},
              NEW end_stream \in BOOLEAN, RecvData(id, n, pad, end_stream),
              pad = 0 \/ "PADDING" \in Inputs
       PROVE  BytesHeld'
  <2>0. n \in Nat /\ pad = 0 /\ (id \in streams => id \in got_head /\ id \notin ended
                                                   /\ id \notin recv_error)
    BY <1>11 DEF RecvData, PeerMaySendData, OrderlyInv
  <2>1. /\ UNCHANGED <<got_head, closed, req, stream_of>>
        /\ rx' = [rx EXCEPT ![id] = @ + n]
        /\ id \in streams => /\ buffered' = [buffered EXCEPT ![id] = @ + n]
                             /\ UNCHANGED returned
        /\ id \notin streams =>
              /\ UNCHANGED buffered
              /\ returned' = [returned EXCEPT ![id] = IF closed THEN @ ELSE @ + n]
        /\ ended \subseteq ended'
        /\ \A i \in StreamIds : body'[i] = body[i] \/ (body[i] = "parked" /\ body'[i] = "held")
    <3>1. UNCHANGED <<got_head, closed, req, stream_of>> /\ ended \subseteq ended'
      BY <1>11 DEF RecvData, task_vars, req_vars
    <3>2. rx' = [rx EXCEPT ![id] = @ + n]
      <4>1. rx' = [rx EXCEPT ![id] = @ + n + pad]
        BY <1>11 DEF RecvData
      <4>2. rx[id] + n + pad = rx[id] + n
        BY <1>0, <2>0
      <4> QED BY <4>1, <4>2
    <3>3. /\ id \in streams => /\ buffered' = [buffered EXCEPT ![id] = @ + n]
                               /\ UNCHANGED returned
          /\ id \notin streams =>
                /\ UNCHANGED buffered
                /\ returned' = [returned EXCEPT ![id] = IF closed THEN @ ELSE @ + n]
      BY <1>11, <2>0 DEF RecvData, replenish_recv_window
    <3>4. \A i \in StreamIds : body'[i] = body[i] \/ (body[i] = "parked" /\ body'[i] = "held")
      BY <1>11 DEF RecvData, WakeReaders
    <3> QED BY <3>1, <3>2, <3>3, <3>4
  <2>2. /\ streams' \subseteq streams
        /\ \A i \in StreamIds :
              \/ head'[i] = head[i]
              \/ head[i] = "open" /\ head'[i] = "dropped" /\ i \notin streams'
    BY <1>0, <1>11 DEF RecvData, retire_if_fully_closed
  <2>3. ~closed => \A i \in StreamIds : rx'[i] = returned'[i] + Unread(i)'
    <3>1. id \in streams => body[id] # "dropped"
      BY <2>0 DEF BytesHeld
    <3>2. \A i \in StreamIds : body'[i] = "dropped" <=> body[i] = "dropped"
      BY <2>1
    <3>3. CASE id \in streams
      BY <1>0, <2>0, <2>1, <3>1, <3>2, <3>3 DEF BytesHeld, Unread
    <3>4. CASE id \notin streams
      BY <1>0, <2>0, <2>1, <3>2, <3>4 DEF BytesHeld, Unread
    <3> QED BY <3>3, <3>4
  <2>4. id \in streams => head[id] = "ok" /\ body[id] \notin {"failed", "eof", "dropped"}
    BY <2>0 DEF BytesHeld
  <2>5. \A i \in StreamIds : buffered'[i] = buffered[i] \/ (i = id /\ id \in streams)
    BY <1>0, <2>1
  <2> QED BY <2>1, <2>2, <2>3, <2>4, <2>5 DEF BytesHeld, Waiting
<1> QED
  BY <1>1, <1>2, <1>3, <1>4, <1>5, <1>6, <1>7, <1>8, <1>9, <1>10, <1>11 DEF DownloadStep

LEMMA BytesHeldInit == Init => BytesHeld
BY DEF Init, BytesHeld, Unread

\* Bytes that somebody has not returned are where a consumer returns them.
LEMMA HeldBytesHaveConsumer == ASSUME TypeOK, BytesHeld PROVE RecvWindowConserved
<1> SUFFICES ASSUME NEW i \in StreamIds, Unread(i) > 0 PROVE HasConsumer(i)
  BY DEF BytesHeld, RecvWindowConserved
<1>1. buffered[i] > 0 /\ body[i] # "dropped"
  BY DEF Unread
<1>2. head[i] = "ok" /\ body[i] \notin {"failed", "eof"}
  BY <1>1 DEF BytesHeld, TypeOK, StreamTypeOK
<1>3. CASE body[i] = "none"
  BY <1>2, <1>3 DEF BytesHeld, HasConsumer, Waiting
<1>4. CASE body[i] # "none"
  BY <1>1, <1>2, <1>4 DEF HasConsumer, TypeOK, TaskTypeOK, BodyStates
<1> QED BY <1>3, <1>4

\* The receive window does not leak: while the connection is open, every DATA byte was
\* returned or is buffered where somebody will return it.  Excluded are padding, which the
\* frame decoder strips before anybody returns it, and the dropped future of a request,
\* whose stream nobody reads (the run cancelled_request): there the code does leak
\* (ResponseBody::replenish and drop, the DATA handler).
THEOREM RecvWindowConservedHolds ==
    ASSUME {"ROGUE", "PADDING", "CANCEL"} \cap Inputs = {}
    PROVE  Spec => []RecvWindowConserved
<1>0. "ROGUE" \notin Inputs
  OBVIOUS
<1>1. TypeOK /\ LifeInv /\ BodyInv /\ OrderlyInv /\ BytesHeld /\ [Next]_vars => BytesHeld'
  BY NextStep, BytesHeldStep
<1>2. TypeOK /\ BytesHeld => RecvWindowConserved
  BY HeldBytesHaveConsumer
<1>3. Spec => [](TypeOK /\ LifeInv /\ BodyInv /\ OrderlyInv)
  BY <1>0, OrderlyInvariant
<1> QED BY <1>1, <1>2, <1>3, BytesHeldInit, PTL DEF Spec

-----------------------------------------------------------------------------
(* Resets *)

LEMMA ResetStep ==
    ASSUME TypeOK, LifeInv, BodyInv, ResetInv, DownloadStep,
           "ROGUE" \notin Inputs \/ "ZERO_UPDATE" \notin Inputs
    PROVE  ResetInv'
<1>0. /\ streams \subseteq Opened
      /\ \A i \in StreamIds : body[i] # "none" => i \in Opened
  BY DEF LifeInv, Fresh, BodyInv, FreshBodies
<1>1. ASSUME UNCHANGED <<next_stream_id, rst_sent>>, streams' \subseteq streams PROVE ResetInv'
  BY <1>1 DEF ResetInv, Opened
<1>2. CASE UNCHANGED download_vars
  BY <1>1, <1>2 DEF download_vars
<1>3. ASSUME NEW r \in Requests, RequestTurns(r) \/ RequestResumes(r) PROVE ResetInv'
  BY <1>1, <1>3 DEF RequestTurns, RequestResumes, conn_vars, stream_vars
<1>4. ASSUME NEW r \in Requests, NEW has_body \in BOOLEAN, RequestOpens(r, has_body)
      PROVE  ResetInv'
  BY <1>4, OpensId DEF RequestOpens, ResetInv
<1>5. ASSUME NEW id \in StreamIds, PumpFinishes(id) \/ ReadTail(id) PROVE ResetInv'
  BY <1>1, <1>5 DEF PumpFinishes, retire_if_fully_closed, ReadTail, conn_vars
<1>6. ASSUME NEW id \in StreamIds, DropBody(id) PROVE ResetInv'
  <2>1. CASE id \in ended
    BY <1>1, <1>6, <2>1 DEF DropBody, conn_vars, stream_vars
  <2>2. CASE id \notin ended
    <3>1. id \in Opened
      BY <1>0, <1>6 DEF DropBody
    <3>2. /\ rst_sent' \subseteq rst_sent \cup {id}
          /\ streams' = streams \ {id} /\ UNCHANGED next_stream_id
      BY <1>6, <2>2 DEF DropBody, reset_stream, fail, conn_vars
    <3> QED BY <3>1, <3>2 DEF ResetInv, Opened
  <2> QED BY <2>1, <2>2
<1>7. ASSUME NEW id \in StreamIds, NEW n \in Nat, ReadChunk(id, n) PROVE ResetInv'
  BY <1>1, <1>7 DEF ReadChunk, conn_vars
<1>8. ASSUME NEW F \in SUBSET streams, StreamsFail(F) PROVE ResetInv'
  <2>1. streams' \subseteq streams /\ UNCHANGED next_stream_id
    BY <1>8 DEF StreamsFail, fail
  <2>2. CASE rst_sent' # rst_sent
    BY <1>8, <2>1, <2>2 DEF StreamsFail, ResetInv, Opened
  <2> QED BY <1>1, <2>1, <2>2
<1>9. ASSUME NEW id \in StreamIds, NEW end_stream \in BOOLEAN, NEW interim \in BOOLEAN,
             HeadersArrive(id, end_stream, interim)
      PROVE  ResetInv'
  BY <1>1, <1>9 DEF HeadersArrive, receive_headers, retire_if_fully_closed
<1>10. ASSUME NEW id \in StreamIds, NEW n \in DataSizes, NEW pad \in {0, 1},
              NEW end_stream \in BOOLEAN, RecvData(id, n, pad, end_stream)
       PROVE  ResetInv'
  BY <1>1, <1>10 DEF RecvData, retire_if_fully_closed, conn_vars
<1> QED BY <1>2, <1>3, <1>4, <1>5, <1>6, <1>7, <1>8, <1>9, <1>10 DEF DownloadStep

LEMMA ResetInit == Init => ResetInv
BY DEF Init, ResetInv

\* Dropping the body of a stream that left the map does not reset the stream: by then
\* its body has ended.  Without WINDOW_UPDATE(0), which the code answers with a reset of
\* any stream, we reset only streams in the map (ResponseBody::drop, StreamState::fail).
THEOREM ResetsAreForLiveStreamsHolds ==
    ASSUME {"ROGUE", "ZERO_UPDATE"} \cap Inputs = {}
    PROVE  Spec => ResetsAreForLiveStreams
<1>0. "ROGUE" \notin Inputs /\ "ZERO_UPDATE" \notin Inputs
  OBVIOUS
<1>1. ASSUME TypeOK, LifeInv, BodyInv, OrderlyInv, [Next]_vars
      PROVE  rst_sent' \ rst_sent \subseteq streams
  <2>1. ASSUME NEW id \in StreamIds, DropBody(id) PROVE rst_sent' \ rst_sent \subseteq streams
    <3>1. id \notin ended => id \in streams
      BY <1>1, <2>1 DEF DropBody, BodyInv, FreshBodies, OrderlyInv
    <3> QED BY <2>1, <3>1 DEF DropBody, reset_stream
  <2>2. ASSUME ~\E id \in StreamIds : DropBody(id) PROVE UNCHANGED rst_sent
    <3>1. DownloadStep
      BY <1>1, NextStep
    <3> QED BY <1>0, <2>2, <3>1 DEF DownloadStep, download_vars, RequestTurns, RequestResumes,
               RequestOpens, PumpFinishes, ReadTail, ReadChunk, StreamsFail, HeadersArrive,
               RecvData
  <2> QED BY <2>1, <2>2
<1>2. Spec => [](TypeOK /\ LifeInv /\ BodyInv /\ OrderlyInv)
  BY <1>0, OrderlyInvariant
<1>3. (TypeOK /\ LifeInv /\ BodyInv /\ OrderlyInv) /\ [Next]_vars
          => [rst_sent' \ rst_sent \subseteq streams]_vars
  BY <1>1
<1> QED BY <1>2, <1>3, PTL DEF Spec, ResetsAreForLiveStreams

\* No DATA after our END_STREAM or RST_STREAM, nor once closed: a pump that is awake looks
\* at its stream again before each frame, and a stream that was reset never returns to
\* the map.  Excluded is a peer that sends WINDOW_UPDATE(0) for a stream we have not opened
\* yet, which the code answers with RST_STREAM (pump_chunk, reset_stream).
THEOREM NoDataAfterEndHolds ==
    ASSUME "ROGUE" \notin Inputs \/ "ZERO_UPDATE" \notin Inputs
    PROVE  Spec => NoDataAfterEnd
<1>1. Spec => []ChunkLedger
  BY ChunkLedgerInit, ChunkLedgerStep, LifeInvariant, PTL DEF Spec
<1>2. TypeOK /\ LifeInv /\ BodyInv /\ ResetInv /\ [Next]_vars => ResetInv'
  BY NextStep, ResetStep
<1>3. Spec => [](TypeOK /\ ConnLedger /\ ChunkLedger /\ ResetInv)
  BY <1>1, <1>2, ResetInit, BodyInvariant, LifeInvariant, PTL DEF Spec
<1>4. ASSUME TypeOK, ConnLedger, ChunkLedger, ResetInv, [Next]_vars,
             NEW i \in StreamIds, sent'[i] # sent[i]
      PROVE  i \notin end_sent \cup rst_sent /\ ~closed
  <2>1. pump[i] = "window" /\ ~StreamGone(i)
    BY <1>4, SentStep DEF PumpSends
  <2> QED BY <1>4, <2>1 DEF ChunkLedger, Pumping, ResetInv, StreamGone
<1>5. (TypeOK /\ ConnLedger /\ ChunkLedger /\ ResetInv) /\ [Next]_vars
          => [\A i \in StreamIds : sent'[i] # sent[i] =>
                    i \notin end_sent \cup rst_sent /\ ~closed]_vars
  BY <1>4
<1> QED BY <1>3, <1>5, PTL DEF Spec, NoDataAfterEnd
=============================================================================

------------------------- MODULE H2ConnectionProofs -------------------------
(***************************************************************************)
(* Proofs about H2Connection, for every number of requests and streams,    *)
(* every window, frame and chunk size and every selection of Inputs.       *)
(***************************************************************************)
EXTENDS H2Connection, FiniteSetTheorems, TLAPS

USE ConstantsAssumption

Windows == SendWindows(StreamIds)

-----------------------------------------------------------------------------
(* The operators of SendWindow *)

\* Every operation of flow.rs yields a send window.
LEMMA WindowOps ==
    ASSUME NEW w \in Windows, NEW n \in Int
    PROVE  /\ w.available \in Int /\ w.closed \in BOOLEAN /\ w.wakers \subseteq StreamIds
           /\ new(n) \in Windows
           /\ update(w, n) \in Windows
           /\ adjust(w, n) \in Windows
           /\ consume(w, n) \in Windows
           /\ close(w) \in Windows
           /\ \A i \in StreamIds : register_waker(w, i) \in Windows
BY DEF Windows, SendWindows, new, update, adjust, consume, register_waker, close

LEMMA NewWindow == ASSUME NEW n \in Int PROVE new(n) \in Windows
BY DEF Windows, SendWindows, new

LEMMA StreamWindow ==
    ASSUME TypeOK, NEW i \in StreamIds PROVE send_window[i] \in Windows
BY DEF TypeOK, StreamTypeOK, Windows

LEMMA ConnWindow == ASSUME TypeOK PROVE conn_send_window \in Windows
BY DEF TypeOK, ConnTypeOK, Windows

LEMMA SettingsType ==
    ASSUME TypeOK
    PROVE  /\ remote.initial_window_size \in Nat
           /\ remote.max_frame_size \in Nat /\ remote.max_frame_size > 0
           /\ remote.max_concurrent_streams \in Nat
BY DEF TypeOK, ConnTypeOK, RemoteSettings

-----------------------------------------------------------------------------
(* What the handlers share *)

LEMMA FailType ==
    ASSUME TypeOK, NEW F \in SUBSET StreamIds, NEW W \in [StreamIds -> Windows], fail(F, W)
    PROVE  StreamTypeOK'
<1>1. send_window' \in [StreamIds -> Windows]
  <2>1. \A i \in StreamIds : close(W[i]) \in Windows
    BY WindowOps
  <2> QED BY <2>1 DEF fail
<1>2. head' \in [StreamIds -> HeadStates]
  BY DEF fail, TypeOK, StreamTypeOK, HeadStates
<1> QED BY <1>1, <1>2 DEF fail, fail_body, TypeOK, StreamTypeOK, Windows

LEMMA DestroyType ==
    ASSUME TypeOK, NEW W \in [StreamIds -> Windows], destroy(W)
    PROVE  /\ StreamTypeOK'
           /\ conn_send_window' \in Windows
           /\ closed' \in BOOLEAN
           /\ pings' \in [1..MaxPings -> PingStates]
           /\ slot_waiters' \subseteq Requests
<1>1. CASE closed
  BY <1>1 DEF destroy, TypeOK, ConnTypeOK, StreamTypeOK, stream_vars, recv_vars, Windows
<1>2. CASE ~closed
  <2>1. StreamTypeOK'
    BY <1>2, FailType DEF destroy, TypeOK, StreamTypeOK
  <2>2. conn_send_window' \in Windows
    <3>1. conn_send_window' = close(conn_send_window)
      BY <1>2 DEF destroy
    <3>2. close(conn_send_window) \in Windows
      BY ConnWindow DEF Windows, SendWindows, close
    <3> QED BY <3>1, <3>2
  <2>3. pings' \in [1..MaxPings -> PingStates]
    BY <1>2 DEF destroy, TypeOK, ConnTypeOK, PingStates
  <2> QED BY <1>2, <2>1, <2>2, <2>3 DEF destroy
<1> QED BY <1>1, <1>2 DEF TypeOK, ConnTypeOK

LEMMA WakePumpsType ==
    ASSUME TypeOK, WakePumps PROVE pump' \in [StreamIds -> PumpStates]
<1>1. \A i \in StreamIds : pump[i] \in PumpStates
  BY DEF TypeOK, TaskTypeOK
<1> QED BY <1>1 DEF WakePumps, PumpStates

LEMMA WakeReadersType ==
    ASSUME TypeOK, WakeReaders PROVE body' \in [StreamIds -> BodyStates]
<1>1. \A i \in StreamIds : body[i] \in BodyStates
  BY DEF TypeOK, TaskTypeOK
<1> QED BY <1>1 DEF WakeReaders, BodyStates

LEMMA DropPumpsType ==
    ASSUME TypeOK, DropPumps PROVE pump' \in [StreamIds -> PumpStates]
BY DEF DropPumps, PumpStates

\* What connection_error leaves well typed.
LEMMA ConnectionErrorType ==
    ASSUME TypeOK, NEW W \in [StreamIds -> Windows], connection_error(W)
    PROVE  /\ StreamTypeOK' /\ TaskTypeOK' /\ LedgerTypeOK'
           /\ conn_send_window' \in Windows
           /\ closed' \in BOOLEAN
           /\ pings' \in [1..MaxPings -> PingStates]
           /\ slot_waiters' \subseteq Requests
<1>1. destroy(W) /\ WakePumps /\ WakeReaders
  BY DEF connection_error
<1>2. TaskTypeOK'
  BY <1>1, WakePumpsType, WakeReadersType
     DEF connection_error, TypeOK, TaskTypeOK, req_vars
<1>3. LedgerTypeOK'
  BY DEF connection_error, TypeOK, LedgerTypeOK, upload_ledger, download_ledger
<1> QED BY <1>1, <1>2, <1>3, DestroyType

LEMMA ResetStreamType ==
    ASSUME TypeOK, NEW id \in StreamIds, reset_stream(id)
    PROVE  /\ StreamTypeOK'
           /\ rst_sent' \subseteq StreamIds
           /\ slot_waiters' \subseteq Requests
           /\ pump' \in [StreamIds -> PumpStates]
<1>1. StreamTypeOK'
  BY FailType DEF reset_stream, TypeOK, StreamTypeOK, Windows
<1>2. pump' \in [StreamIds -> PumpStates]
  BY WakePumpsType DEF reset_stream
<1> QED BY <1>1, <1>2 DEF reset_stream, TypeOK, LedgerTypeOK

LEMMA RetireType ==
    ASSUME TypeOK, NEW id \in StreamIds, NEW heads \in [StreamIds -> HeadStates],
           retire_if_fully_closed(id, heads)
    PROVE  /\ streams' \subseteq StreamIds
           /\ slot_waiters' \subseteq Requests
           /\ head' \in [StreamIds -> HeadStates]
BY DEF retire_if_fully_closed, TypeOK, ConnTypeOK, StreamTypeOK, HeadStates

LEMMA InitType == Init => TypeOK
<1> SUFFICES ASSUME Init PROVE TypeOK OBVIOUS
<1>1. ConnTypeOK
  <2>1. conn_send_window \in Windows
    BY NewWindow DEF Init
  <2>2. remote \in RemoteSettings
    BY DEF Init, RemoteSettings
  <2>3. 1 % 2 = 1
    OBVIOUS
  <2>4. next_stream_id \in {n \in Nat : n % 2 = 1}
    BY <2>3 DEF Init
  <2>5. pings \in [1..MaxPings -> PingStates] /\ ping_counter \in 0..MaxPings
    BY DEF Init, PingStates
  <2>6. /\ pending_header_block \in HeaderBlocks \cup {None}
        /\ slot_waiters \subseteq Requests
        /\ closed \in BOOLEAN /\ goaway_received \in BOOLEAN
        /\ highest_promised \in Nat
    BY DEF Init
  <2> QED BY <2>1, <2>2, <2>4, <2>5, <2>6 DEF ConnTypeOK, Windows
<1>2. StreamTypeOK
  <2>1. send_window \in [StreamIds -> Windows]
    BY NewWindow DEF Init
  <2> QED BY <2>1 DEF Init, StreamTypeOK, HeadStates, Windows
<1>3. TaskTypeOK
  BY DEF Init, TaskTypeOK, RequestStates, PumpStates, BodyStates
<1>4. LedgerTypeOK
  BY DEF Init, LedgerTypeOK
<1> QED BY <1>1, <1>2, <1>3, <1>4 DEF TypeOK

-----------------------------------------------------------------------------
(* The connection send window and its ledger.  A pump may divide what the   *)
(* windows hold only because a window that is ready but not closed is       *)
(* positive, so the types need this much of the accounting.                 *)

ConnLedger ==
    /\ conn_send_window.closed => closed
    /\ conn_send_window.available = SPEC_INITIAL_WINDOW + conn_granted - conn_sent
    /\ conn_send_window.available >= 0

\* What pump_chunk may send fits its chunk and both of its windows.
LEMMA GrantBounds ==
    ASSUME TypeOK, ConnLedger, NEW id \in StreamIds, ~StreamGone(id),
           is_ready(conn_send_window), is_ready(send_window[id])
    PROVE  /\ grant(id) \in Nat
           /\ grant(id) <= chunk_left[id]
           /\ grant(id) <= conn_send_window.available
           /\ grant(id) <= send_window[id].available
<1>1. chunk_left[id] \in Nat
  BY DEF TypeOK, TaskTypeOK
<1>2. conn_send_window.available \in Int /\ conn_send_window.available > 0
  BY ConnWindow DEF Windows, SendWindows, ConnLedger, StreamGone, is_ready
<1>3. send_window[id].available \in Int /\ send_window[id].available > 0
  BY StreamWindow DEF Windows, SendWindows, StreamGone, is_ready
<1> QED BY <1>1, <1>2, <1>3, SettingsType DEF grant, Least

-----------------------------------------------------------------------------
(* Type correctness, one step per action *)

LEMMA ApplicationType == ASSUME TypeOK, Application PROVE TypeOK'
<1> USE DEF TypeOK
<1>1. ASSUME NEW r \in Requests,
             RequestRefused(r) \/ RequestParks(r) \/ RequestCancelled(r)
      PROVE  TypeOK'
  <2>1. ConnTypeOK'
    BY <1>1 DEF RequestRefused, RequestParks, RequestCancelled, ConnTypeOK, conn_vars
  <2>2. StreamTypeOK'
    BY <1>1 DEF RequestRefused, RequestParks, RequestCancelled, StreamTypeOK, stream_vars,
                recv_vars
  <2>3. TaskTypeOK'
    BY <1>1 DEF RequestRefused, RequestParks, RequestCancelled, TaskTypeOK, RequestStates
  <2>4. LedgerTypeOK'
    BY <1>1 DEF RequestRefused, RequestParks, RequestCancelled, LedgerTypeOK, upload_ledger,
                download_ledger
  <2> QED BY <2>1, <2>2, <2>3, <2>4
<1>2. ASSUME NEW r \in Requests, NEW has_body \in BOOLEAN, RequestOpens(r, has_body)
      PROVE  TypeOK'
  <2>1. next_stream_id \in StreamIds
    BY <1>2 DEF RequestOpens, ConnTypeOK, StreamIds
  <2>2. ConnTypeOK'
    <3>1. next_stream_id' \in {n \in Nat : n % 2 = 1}
      BY <1>2 DEF RequestOpens, ConnTypeOK
    <3> QED BY <1>2, <3>1 DEF RequestOpens, ConnTypeOK
  <2>3. StreamTypeOK'
    <3>1. send_window' \in [StreamIds -> Windows]
      <4>1. new(remote.initial_window_size) \in Windows
        BY SettingsType, NewWindow
      <4> QED BY <1>2, <2>1, <4>1 DEF RequestOpens, StreamTypeOK, Windows
    <3> QED BY <1>2, <2>1, <3>1 DEF RequestOpens, StreamTypeOK, HeadStates, recv_vars, Windows
  <2>4. TaskTypeOK'
    BY <1>2, <2>1 DEF RequestOpens, TaskTypeOK, RequestStates, PumpStates
  <2>5. LedgerTypeOK'
    BY <1>2, <2>1 DEF RequestOpens, LedgerTypeOK, download_ledger
  <2> QED BY <2>2, <2>3, <2>4, <2>5
<1>3. ASSUME NEW r \in Requests, RequestResumes(r) PROVE TypeOK'
  <2>1. ConnTypeOK'
    BY <1>3 DEF RequestResumes, ConnTypeOK, conn_vars
  <2>2. StreamTypeOK'
    BY <1>3 DEF RequestResumes, StreamTypeOK, stream_vars, recv_vars
  <2>3. TaskTypeOK'
    BY <1>3 DEF RequestResumes, TaskTypeOK, RequestStates, BodyStates
  <2>4. LedgerTypeOK'
    BY <1>3 DEF RequestResumes, LedgerTypeOK, upload_ledger, download_ledger
  <2> QED BY <2>1, <2>2, <2>3, <2>4
<1>4. ASSUME NEW id \in StreamIds, NEW n \in ChunkSizes, PumpTakesChunk(id, n)
      PROVE  TypeOK'
  <2>1. ConnTypeOK'
    BY <1>4 DEF PumpTakesChunk, ConnTypeOK, conn_vars
  <2>2. StreamTypeOK'
    BY <1>4 DEF PumpTakesChunk, StreamTypeOK, stream_vars, recv_vars
  <2>3. TaskTypeOK'
    BY <1>4 DEF PumpTakesChunk, TaskTypeOK, PumpStates, req_vars
  <2>4. LedgerTypeOK'
    BY <1>4 DEF PumpTakesChunk, LedgerTypeOK, download_ledger
  <2> QED BY <2>1, <2>2, <2>3, <2>4
<1>5. ASSUME NEW id \in StreamIds, PumpFinishes(id) PROVE TypeOK'
  <2>1. retire_if_fully_closed(id, head) /\ head \in [StreamIds -> HeadStates]
    BY <1>5 DEF PumpFinishes, StreamTypeOK
  <2>2. ConnTypeOK'
    BY <1>5, <2>1, RetireType DEF PumpFinishes, ConnTypeOK, conn_vars
  <2>3. StreamTypeOK'
    BY <1>5, <2>1, RetireType DEF PumpFinishes, StreamTypeOK, recv_vars
  <2>4. TaskTypeOK'
    BY <1>5 DEF PumpFinishes, TaskTypeOK, PumpStates, task_vars, req_vars
  <2>5. LedgerTypeOK'
    BY <1>5 DEF PumpFinishes, LedgerTypeOK, download_ledger
  <2> QED BY <2>2, <2>3, <2>4, <2>5
<1>6. ASSUME NEW id \in StreamIds, NEW n \in 1..MaxDownload, ReadChunk(id, n)
      PROVE  TypeOK'
  <2>1. ConnTypeOK'
    BY <1>6 DEF ReadChunk, ConnTypeOK, conn_vars
  <2>2. StreamTypeOK'
    BY <1>6 DEF ReadChunk, StreamTypeOK
  <2>3. TaskTypeOK'
    BY <1>6 DEF ReadChunk, TaskTypeOK, task_vars, req_vars
  <2>4. LedgerTypeOK'
    BY <1>6 DEF ReadChunk, replenish_recv_window, LedgerTypeOK, upload_ledger
  <2> QED BY <2>1, <2>2, <2>3, <2>4
<1>7. ASSUME NEW id \in StreamIds, ReadTail(id) PROVE TypeOK'
  <2>1. ConnTypeOK'
    BY <1>7 DEF ReadTail, ConnTypeOK, conn_vars
  <2>2. StreamTypeOK'
    BY <1>7 DEF ReadTail, StreamTypeOK
  <2>3. TaskTypeOK'
    BY <1>7 DEF ReadTail, TaskTypeOK, BodyStates, task_vars, req_vars
  <2>4. LedgerTypeOK'
    BY <1>7 DEF ReadTail, LedgerTypeOK, upload_ledger, download_ledger
  <2> QED BY <2>1, <2>2, <2>3, <2>4
<1>8. ASSUME NEW id \in StreamIds, DropBody(id) PROVE TypeOK'
  <2>1. body' \in [StreamIds -> BodyStates] /\ returned' \in [StreamIds -> Nat]
    BY <1>8 DEF DropBody, replenish_recv_window, TaskTypeOK, StreamTypeOK, LedgerTypeOK,
                BodyStates
  <2>2. CASE id \in ended
    BY <1>8, <2>1, <2>2 DEF DropBody, ConnTypeOK, StreamTypeOK, TaskTypeOK, LedgerTypeOK,
                stream_vars, conn_vars, recv_vars, task_vars, req_vars, upload_ledger
  <2>3. CASE id \notin ended
    <3>1. reset_stream(id)
      BY <1>8, <2>3 DEF DropBody
    <3>2. /\ ConnTypeOK' /\ StreamTypeOK'
      BY <1>8, <3>1, ResetStreamType DEF DropBody, reset_stream, ConnTypeOK, conn_vars
    <3>3. TaskTypeOK' /\ LedgerTypeOK'
      BY <1>8, <2>1, <3>1, ResetStreamType DEF DropBody, TaskTypeOK, LedgerTypeOK, task_vars,
                req_vars, upload_ledger
    <3> QED BY <3>2, <3>3
  <2> QED BY <2>2, <2>3
<1>9. CASE Ping
  <2>1. ConnTypeOK'
    BY <1>9 DEF Ping, ConnTypeOK, PingStates
  <2>2. StreamTypeOK' /\ TaskTypeOK' /\ LedgerTypeOK'
    BY <1>9 DEF Ping, StreamTypeOK, TaskTypeOK, LedgerTypeOK, stream_vars, recv_vars,
                task_vars, req_vars, upload_ledger, download_ledger
  <2> QED BY <2>1, <2>2
<1>10. CASE Close
  <2>1. destroy(send_window) /\ send_window \in [StreamIds -> Windows]
    BY <1>10 DEF Close, StreamTypeOK, Windows
  <2>2. ConnTypeOK' /\ StreamTypeOK'
    BY <1>10, <2>1, DestroyType DEF Close, ConnTypeOK, conn_vars, Windows
  <2>3. TaskTypeOK'
    BY <1>10, WakePumpsType, WakeReadersType DEF Close, TaskTypeOK, task_vars, req_vars
  <2>4. LedgerTypeOK'
    BY <1>10 DEF Close, LedgerTypeOK, upload_ledger, download_ledger
  <2> QED BY <2>2, <2>3, <2>4
<1> QED
  BY <1>1, <1>2, <1>3, <1>4, <1>5, <1>6, <1>7, <1>8, <1>9, <1>10 DEF Application

LEMMA DriverType == ASSUME TypeOK, ConnLedger, Driver PROVE TypeOK'
<1> USE DEF TypeOK
<1>1. ASSUME NEW id \in StreamIds, PumpAborts(id) PROVE TypeOK'
  <2>1. ConnTypeOK' /\ StreamTypeOK'
    BY <1>1 DEF PumpAborts, ConnTypeOK, StreamTypeOK, conn_vars, stream_vars, recv_vars
  <2>2. TaskTypeOK' /\ LedgerTypeOK'
    BY <1>1 DEF PumpAborts, TaskTypeOK, LedgerTypeOK, PumpStates, task_vars, req_vars,
                upload_ledger, download_ledger
  <2> QED BY <2>1, <2>2
<1>2. ASSUME NEW id \in StreamIds, PumpParks(id) PROVE TypeOK'
  <2>1. conn_send_window' \in Windows
    <3>1. register_waker(conn_send_window, id) \in Windows
      BY ConnWindow, WindowOps
    <3> QED BY <1>2, <3>1, ConnWindow DEF PumpParks
  <2>2. send_window' \in [StreamIds -> Windows]
    <3>1. register_waker(send_window[id], id) \in Windows
      BY StreamWindow, WindowOps
    <3>2. send_window \in [StreamIds -> Windows]
      BY DEF StreamTypeOK, Windows
    <3> QED BY <1>2, <3>1, <3>2 DEF PumpParks
  <2>3. ConnTypeOK'
    BY <1>2, <2>1 DEF PumpParks, ConnTypeOK, conn_vars, Windows
  <2>4. StreamTypeOK'
    BY <1>2, <2>2 DEF PumpParks, StreamTypeOK, recv_vars, Windows
  <2>5. TaskTypeOK' /\ LedgerTypeOK'
    BY <1>2 DEF PumpParks, TaskTypeOK, LedgerTypeOK, PumpStates, task_vars, req_vars,
                upload_ledger, download_ledger
  <2> QED BY <2>3, <2>4, <2>5
<1>3. ASSUME NEW id \in StreamIds, PumpSends(id) PROVE TypeOK'
  <2>1. grant(id) \in Nat /\ grant(id) <= chunk_left[id]
    BY <1>3, GrantBounds DEF PumpSends
  <2>2. consume(conn_send_window, grant(id)) \in Windows
    BY <2>1, ConnWindow, WindowOps
  <2>3. consume(send_window[id], grant(id)) \in Windows
    BY <2>1, StreamWindow, WindowOps
  <2>4. ConnTypeOK'
    BY <1>3, <2>2 DEF PumpSends, ConnTypeOK, conn_vars, Windows
  <2>5. StreamTypeOK'
    BY <1>3, <2>3 DEF PumpSends, StreamTypeOK, recv_vars, Windows
  <2>6. TaskTypeOK'
    BY <1>3, <2>1 DEF PumpSends, pump_after, TaskTypeOK, PumpStates, req_vars
  <2>7. LedgerTypeOK'
    BY <1>3, <2>1 DEF PumpSends, LedgerTypeOK, download_ledger
  <2> QED BY <2>4, <2>5, <2>6, <2>7
<1>4. CASE ReadEof \/ WriteFails
  <2>1. destroy(send_window) /\ send_window \in [StreamIds -> Windows]
    BY <1>4 DEF ReadEof, WriteFails, StreamTypeOK, Windows
  <2>2. ConnTypeOK' /\ StreamTypeOK'
    BY <1>4, <2>1, DestroyType DEF ReadEof, WriteFails, ConnTypeOK, conn_vars, Windows
  <2>3. TaskTypeOK'
    BY <1>4, WakePumpsType, WakeReadersType, DropPumpsType
       DEF ReadEof, WriteFails, TaskTypeOK, req_vars
  <2>4. LedgerTypeOK'
    BY <1>4 DEF ReadEof, WriteFails, LedgerTypeOK, upload_ledger, download_ledger
  <2> QED BY <2>2, <2>3, <2>4
<1>5. CASE ReadLoopEnds \/ DriverEnds
  <2>1. ConnTypeOK' /\ StreamTypeOK'
    BY <1>5 DEF ReadLoopEnds, DriverEnds, ConnTypeOK, StreamTypeOK, conn_vars, stream_vars,
                recv_vars
  <2>2. TaskTypeOK'
    BY <1>5, DropPumpsType DEF ReadLoopEnds, DriverEnds, TaskTypeOK, req_vars
  <2>3. LedgerTypeOK'
    BY <1>5 DEF ReadLoopEnds, DriverEnds, LedgerTypeOK, upload_ledger, download_ledger
  <2> QED BY <2>1, <2>2, <2>3
<1> QED BY <1>1, <1>2, <1>3, <1>4, <1>5 DEF Driver

\* What a complete header block leaves well typed.
LEMMA CompleteHeaderBlockType ==
    ASSUME TypeOK, NEW pb \in HeaderBlocks, complete_header_block(pb)
    PROVE  /\ StreamTypeOK' /\ TaskTypeOK' /\ LedgerTypeOK'
           /\ conn_send_window' \in Windows
           /\ closed' \in BOOLEAN
           /\ pings' \in [1..MaxPings -> PingStates]
           /\ slot_waiters' \subseteq Requests
           /\ highest_promised' \in Nat
<1> USE DEF TypeOK
<1>0. send_window \in [StreamIds -> Windows] /\ pb.stream_id \in StreamIds
  BY DEF StreamTypeOK, Windows, HeaderBlocks
<1>1. CASE connection_error(send_window) /\ UNCHANGED highest_promised
  BY <1>0, <1>1, ConnectionErrorType DEF ConnTypeOK
<1>2. ASSUME NEW interim \in BOOLEAN,
             receive_headers(pb.stream_id, pb.end_stream, interim),
             UNCHANGED <<highest_promised, send_window, conn_send_window, closed, pings,
                         task_vars, upload_ledger, download_ledger, pump, rst_sent>>,
             WakeReaders
      PROVE  /\ StreamTypeOK' /\ TaskTypeOK' /\ LedgerTypeOK'
             /\ slot_waiters' \subseteq Requests
  <2> DEFINE id == pb.stream_id
             heads == IF id \in streams /\ ~interim /\ id \notin got_head
                      THEN [head EXCEPT ![id] = "ok"] ELSE head
  <2>1. heads \in [StreamIds -> HeadStates]
    BY <1>0 DEF StreamTypeOK, HeadStates
  <2>2. IF pb.end_stream THEN retire_if_fully_closed(id, heads)
                         ELSE head' = heads /\ UNCHANGED <<streams, slot_waiters>>
    BY <1>2 DEF receive_headers
  <2> HIDE DEF heads
  <2>3. /\ streams' \subseteq StreamIds
        /\ slot_waiters' \subseteq Requests
        /\ head' \in [StreamIds -> HeadStates]
    BY <1>0, <2>1, <2>2, RetireType DEF ConnTypeOK, StreamTypeOK
  <2>4. /\ got_head' \subseteq StreamIds /\ remote_closed' \subseteq StreamIds
        /\ ended' \subseteq StreamIds /\ recv_waker' \subseteq StreamIds
        /\ UNCHANGED <<local_closed, buffered, recv_error>>
    BY <1>0, <1>2 DEF receive_headers, StreamTypeOK
  <2>5. StreamTypeOK'
    BY <1>2, <2>3, <2>4 DEF StreamTypeOK
  <2>6. TaskTypeOK' /\ LedgerTypeOK'
    BY <1>2, WakeReadersType DEF TaskTypeOK, LedgerTypeOK, task_vars, req_vars, upload_ledger,
       download_ledger
  <2> QED BY <2>3, <2>5, <2>6
<1>3. CASE pb.kind = "push" /\ complete_header_block(pb)
           /\ UNCHANGED <<stream_vars, conn_send_window, closed, pings, slot_waiters, pump,
                          body, task_vars, upload_ledger, download_ledger, rst_sent>>
           /\ highest_promised' = IF pb.promised_stream_id > highest_promised
                                  THEN pb.promised_stream_id ELSE highest_promised
  BY <1>3 DEF HeaderBlocks, ConnTypeOK, StreamTypeOK, TaskTypeOK, LedgerTypeOK, stream_vars,
     recv_vars, task_vars, req_vars, upload_ledger, download_ledger, Windows
<1> QED
  BY <1>1, <1>2, <1>3 DEF complete_header_block, ConnTypeOK, Windows

LEMMA AcceptFragmentType ==
    ASSUME TypeOK, NEW pb \in HeaderBlocks, NEW end_headers \in BOOLEAN,
           AcceptFragment(pb, end_headers)
    PROVE  TypeOK'
<1> USE DEF TypeOK
<1>1. pending_header_block' \in HeaderBlocks \cup {None}
  BY DEF AcceptFragment
<1>2. CASE connection_error(send_window) /\ UNCHANGED highest_promised
  <2>1. send_window \in [StreamIds -> Windows]
    BY DEF StreamTypeOK, Windows
  <2> QED BY <1>1, <1>2, <2>1, ConnectionErrorType DEF AcceptFragment, ConnTypeOK, Windows
<1>3. CASE UNCHANGED <<highest_promised, stream_vars, conn_send_window, closed, pings,
                       slot_waiters, pump, body, task_vars, upload_ledger,
                       download_ledger, rst_sent>>
  BY <1>1, <1>3 DEF AcceptFragment, ConnTypeOK, StreamTypeOK, TaskTypeOK, LedgerTypeOK,
     stream_vars, recv_vars, task_vars, req_vars, upload_ledger, download_ledger
<1>4. CASE complete_header_block(pb)
  BY <1>1, <1>4, CompleteHeaderBlockType DEF AcceptFragment, ConnTypeOK, Windows
<1> QED BY <1>2, <1>3, <1>4 DEF AcceptFragment

LEMMA RecvSettingsType ==
    ASSUME TypeOK, NEW iw \in WindowSizes \cup {None}, NEW mfs \in FrameSizes \cup {None},
           NEW mcs \in StreamLimits \cup {None}, RecvSettings(iw, mfs, mcs)
    PROVE  TypeOK'
<1> USE DEF TypeOK
<1> DEFINE W == IF iw = None THEN send_window
                ELSE [i \in StreamIds |->
                        IF i \in streams
                        THEN adjust(send_window[i], iw - remote.initial_window_size)
                        ELSE send_window[i]]
           S(f, l) ==
             [initial_window_size |-> IF iw = None THEN remote.initial_window_size ELSE iw,
              max_frame_size |-> IF f = None THEN remote.max_frame_size ELSE f,
              max_concurrent_streams |-> IF l = None THEN remote.max_concurrent_streams ELSE l]
<1>1. send_window \in [StreamIds -> Windows]
  BY DEF StreamTypeOK, Windows
<1>2. W \in [StreamIds -> Windows]
  <2>1. iw # None => iw - remote.initial_window_size \in Int
    BY SettingsType
  <2>2. iw # None =>
          \A i \in StreamIds : adjust(send_window[i], iw - remote.initial_window_size) \in Windows
    BY <2>1, StreamWindow, WindowOps
  <2> QED BY <1>1, <2>2
<1>3. S(None, None) \in RemoteSettings
  BY DEF ConnTypeOK, RemoteSettings
<1>4. ASSUME mfs # None => mfs \in MIN_FRAME_SIZE..MAX_FRAME_SIZE
      PROVE  S(mfs, mcs) \in RemoteSettings
  BY <1>4 DEF ConnTypeOK, RemoteSettings
<1>5. /\ Dispatching
      /\ \/ connection_error(send_window) /\ UNCHANGED remote
         \/ connection_error(W) /\ remote' = S(None, None)
         \/ /\ mfs # None => mfs \in MIN_FRAME_SIZE..MAX_FRAME_SIZE
            /\ remote' = S(mfs, mcs)
            /\ send_window' = W
            /\ slot_waiters' = IF mcs = None THEN slot_waiters ELSE {}
            /\ UNCHANGED <<streams, got_head, local_closed, remote_closed, head, recv_vars,
                           conn_send_window, closed, pings, task_vars, upload_ledger,
                           download_ledger, body, rst_sent>>
            /\ WakePumps
      /\ UNCHANGED <<next_stream_id, pending_header_block, ping_counter, goaway_received,
                     highest_promised>>
  BY DEF RecvSettings
<1> HIDE DEF W, S
<1>6. CASE connection_error(send_window) /\ UNCHANGED remote
  BY <1>1, <1>5, <1>6, ConnectionErrorType DEF ConnTypeOK, Windows
<1>7. CASE connection_error(W) /\ remote' = S(None, None)
  BY <1>2, <1>3, <1>5, <1>7, ConnectionErrorType DEF ConnTypeOK, Windows
<1>8. CASE /\ mfs # None => mfs \in MIN_FRAME_SIZE..MAX_FRAME_SIZE
           /\ remote' = S(mfs, mcs)
           /\ send_window' = W
           /\ slot_waiters' = IF mcs = None THEN slot_waiters ELSE {}
           /\ UNCHANGED <<streams, got_head, local_closed, remote_closed, head, recv_vars,
                          conn_send_window, closed, pings, task_vars, upload_ledger,
                          download_ledger, body, rst_sent>>
           /\ WakePumps
  <2>1. ConnTypeOK'
    BY <1>4, <1>5, <1>8 DEF ConnTypeOK
  <2>2. StreamTypeOK'
    BY <1>2, <1>8 DEF StreamTypeOK, recv_vars, Windows
  <2>3. TaskTypeOK' /\ LedgerTypeOK'
    BY <1>8, WakePumpsType DEF TaskTypeOK, LedgerTypeOK, task_vars, req_vars, upload_ledger,
       download_ledger
  <2> QED BY <2>1, <2>2, <2>3
<1> QED BY <1>5, <1>6, <1>7, <1>8

LEMMA PeerType == ASSUME TypeOK, Peer PROVE TypeOK'
<1> USE DEF TypeOK
<1>0. send_window \in [StreamIds -> Windows]
  BY DEF StreamTypeOK, Windows
<1>1. ASSUME NEW iw \in OrNone(WindowSizes), NEW mfs \in OrNone(FrameSizes),
             NEW mcs \in OrNone(StreamLimits), RecvSettings(iw, mfs, mcs)
      PROVE  TypeOK'
  BY <1>1, RecvSettingsType DEF OrNone
<1>2. ASSUME NEW id \in StreamIds, NEW size \in FragmentSizes, NEW end_headers \in BOOLEAN,
             NEW end_stream \in BOOLEAN, RecvHeaders(id, size, end_stream, end_headers)
      PROVE  TypeOK'
  BY <1>2, AcceptFragmentType DEF RecvHeaders, HeaderBlocks
<1>3. ASSUME NEW id \in StreamIds, NEW size \in FragmentSizes, NEW end_headers \in BOOLEAN,
             NEW promised \in PromisedIds, RecvPushPromise(id, promised, size, end_headers)
      PROVE  TypeOK'
  BY <1>3, AcceptFragmentType DEF RecvPushPromise, HeaderBlocks
<1>4. ASSUME NEW id \in StreamIds, NEW size \in FragmentSizes, NEW end_headers \in BOOLEAN,
             RecvContinuation(id, size, end_headers)
      PROVE  TypeOK'
  <2>1. pending_header_block \in HeaderBlocks
    BY <1>4 DEF RecvContinuation, ConnTypeOK
  <2> QED BY <1>4, <2>1, AcceptFragmentType DEF RecvContinuation, HeaderBlocks
<1>5. ASSUME NEW id \in StreamIds, NEW n \in DataSizes, NEW pad \in {0, 1},
             NEW end_stream \in BOOLEAN, RecvData(id, n, pad, end_stream)
      PROVE  TypeOK'
  <2>1. /\ streams' \subseteq StreamIds
        /\ slot_waiters' \subseteq Requests
        /\ head' \in [StreamIds -> HeadStates]
    BY <1>5, RetireType DEF RecvData, ConnTypeOK, StreamTypeOK
  <2>2. ConnTypeOK'
    BY <1>5, <2>1 DEF RecvData, ConnTypeOK, conn_vars
  <2>3. StreamTypeOK'
    BY <1>5, <2>1 DEF RecvData, StreamTypeOK
  <2>4. TaskTypeOK'
    BY <1>5, WakeReadersType DEF RecvData, TaskTypeOK, task_vars, req_vars
  <2>5. LedgerTypeOK'
    BY <1>5 DEF RecvData, LedgerTypeOK, replenish_recv_window, upload_ledger
  <2> QED BY <2>2, <2>3, <2>4, <2>5
<1>6. ASSUME NEW id \in StreamIds, RecvRstStream(id) PROVE TypeOK'
  <2>1. ConnTypeOK'
    BY <1>6 DEF RecvRstStream, ConnTypeOK, conn_vars
  <2>2. StreamTypeOK'
    BY <1>0, <1>6, FailType DEF RecvRstStream
  <2>3. TaskTypeOK'
    BY <1>6, WakePumpsType, WakeReadersType DEF RecvRstStream, TaskTypeOK, task_vars, req_vars
  <2>4. LedgerTypeOK'
    BY <1>6 DEF RecvRstStream, LedgerTypeOK, upload_ledger, download_ledger
  <2> QED BY <2>1, <2>2, <2>3, <2>4
<1>7. ASSUME NEW id \in StreamIds, NEW n \in Increments, RecvWindowUpdate(id, n)
      PROVE  TypeOK'
  <2>1. update(send_window[id], n) \in Windows
    <3>1. send_window[id] \in Windows /\ n \in Int
      BY StreamWindow
    <3> QED BY <3>1, WindowOps
  <2>2. ConnTypeOK'
    BY <1>7 DEF RecvWindowUpdate, ConnTypeOK, conn_vars
  <2>3. StreamTypeOK'
    BY <1>7, <2>1 DEF RecvWindowUpdate, StreamTypeOK, recv_vars, Windows
  <2>4. TaskTypeOK'
    BY <1>7, WakePumpsType DEF RecvWindowUpdate, TaskTypeOK, task_vars, req_vars
  <2>5. LedgerTypeOK'
    BY <1>7 DEF RecvWindowUpdate, LedgerTypeOK, download_ledger
  <2> QED BY <2>2, <2>3, <2>4, <2>5
<1>8. ASSUME NEW id \in StreamIds, RecvZeroWindowUpdate(id) PROVE TypeOK'
  <2>1. reset_stream(id)
    BY <1>8 DEF RecvZeroWindowUpdate
  <2>2. ConnTypeOK' /\ StreamTypeOK'
    BY <1>8, <2>1, ResetStreamType DEF RecvZeroWindowUpdate, reset_stream, ConnTypeOK, conn_vars
  <2>3. TaskTypeOK' /\ LedgerTypeOK'
    BY <1>8, <2>1, ResetStreamType, WakeReadersType DEF RecvZeroWindowUpdate, TaskTypeOK,
       LedgerTypeOK, task_vars, req_vars, upload_ledger, download_ledger
  <2> QED BY <2>2, <2>3
<1>9. ASSUME NEW n \in Increments, RecvConnWindowUpdate(n) PROVE TypeOK'
  <2>1. update(conn_send_window, n) \in Windows
    BY ConnWindow, WindowOps
  <2>2. ConnTypeOK'
    BY <1>9, <2>1 DEF RecvConnWindowUpdate, ConnTypeOK, conn_vars, Windows
  <2>3. StreamTypeOK'
    BY <1>9 DEF RecvConnWindowUpdate, StreamTypeOK, stream_vars, recv_vars
  <2>4. TaskTypeOK'
    BY <1>9, WakePumpsType DEF RecvConnWindowUpdate, TaskTypeOK, task_vars, req_vars
  <2>5. LedgerTypeOK'
    BY <1>9 DEF RecvConnWindowUpdate, LedgerTypeOK, download_ledger
  <2> QED BY <2>2, <2>3, <2>4, <2>5
<1>10. ASSUME NEW p \in 1..MaxPings, RecvPingAck(p) PROVE TypeOK'
  <2>1. ConnTypeOK'
    BY <1>10 DEF RecvPingAck, ConnTypeOK, conn_vars, PingStates
  <2>2. StreamTypeOK' /\ TaskTypeOK' /\ LedgerTypeOK'
    BY <1>10 DEF RecvPingAck, StreamTypeOK, TaskTypeOK, LedgerTypeOK, stream_vars, recv_vars,
       task_vars, req_vars, upload_ledger, download_ledger
  <2> QED BY <2>1, <2>2
<1>11. ASSUME NEW last, NEW error \in BOOLEAN, RecvGoaway(last, error) PROVE TypeOK'
  <2>1. /\ StreamTypeOK'
        /\ conn_send_window' \in Windows
        /\ closed' \in BOOLEAN
        /\ pings' \in [1..MaxPings -> PingStates]
        /\ slot_waiters' \subseteq Requests
    <3>1. CASE destroy(send_window)
      BY <1>0, <3>1, DestroyType
    <3>2. CASE /\ fail({i \in streams : i > last}, send_window)
               /\ slot_waiters' = {}
               /\ UNCHANGED <<closed, conn_send_window, pings>>
      <4>1. {i \in streams : i > last} \in SUBSET StreamIds
        BY DEF StreamTypeOK
      <4> QED BY <1>0, <3>2, <4>1, FailType, ConnWindow DEF ConnTypeOK
    <3> QED BY <1>11, <3>1, <3>2 DEF RecvGoaway
  <2>2. ConnTypeOK'
    BY <1>11, <2>1 DEF RecvGoaway, ConnTypeOK, Windows
  <2>3. TaskTypeOK' /\ LedgerTypeOK'
    BY <1>11, WakePumpsType, WakeReadersType DEF RecvGoaway, TaskTypeOK, LedgerTypeOK,
       task_vars, req_vars, upload_ledger, download_ledger
  <2> QED BY <2>1, <2>2, <2>3
<1>12. CASE RecvProtocolError
  BY <1>0, <1>12, ConnectionErrorType DEF RecvProtocolError, ConnTypeOK, conn_vars, Windows
<1> QED
  BY <1>1, <1>2, <1>3, <1>4, <1>5, <1>6, <1>7, <1>8, <1>9, <1>10, <1>11, <1>12 DEF Peer

-----------------------------------------------------------------------------
(* The ledger of the connection window *)

LEMMA ConnLedgerInit == Init => ConnLedger
BY DEF Init, ConnLedger, new

LEMMA ConnLedgerStep == ASSUME TypeOK, ConnLedger, [Next]_vars PROVE ConnLedger'
<1>0. /\ conn_send_window.available \in Int
      /\ conn_granted \in Nat /\ conn_sent \in Nat
  BY ConnWindow, WindowOps DEF TypeOK, LedgerTypeOK
<1>1. CASE UNCHANGED <<conn_send_window, closed, conn_granted, conn_sent>>
  BY <1>1 DEF ConnLedger
<1>2. ASSUME closed', closed \/ conn_send_window' = close(conn_send_window),
             closed => UNCHANGED conn_send_window, UNCHANGED <<conn_granted, conn_sent>>
      PROVE  ConnLedger'
  BY <1>0, <1>2 DEF ConnLedger, close
<1>3. ASSUME NEW W, destroy(W), UNCHANGED <<conn_granted, conn_sent>> PROVE ConnLedger'
  BY <1>2, <1>3 DEF destroy
<1>4. ASSUME NEW W, connection_error(W) PROVE ConnLedger'
  BY <1>3, <1>4 DEF connection_error, upload_ledger
<1>5. CASE Application
  <2>1. CASE Close
    BY <1>3, <2>1 DEF Close, upload_ledger
  <2>2. CASE \E r \in Requests :
               \/ RequestRefused(r) \/ RequestParks(r) \/ RequestOpens(r, FALSE)
               \/ RequestOpens(r, TRUE) \/ RequestResumes(r) \/ RequestCancelled(r)
    BY <1>1, <2>2 DEF RequestRefused, RequestParks, RequestOpens, RequestResumes,
       RequestCancelled, upload_ledger
  <2>3. CASE \E id \in StreamIds : \/ \E n \in ChunkSizes : PumpTakesChunk(id, n)
                                   \/ PumpFinishes(id)
    BY <1>1, <2>3 DEF PumpTakesChunk, PumpFinishes
  <2>4. CASE \E id \in StreamIds : \/ \E n \in 1..MaxDownload : ReadChunk(id, n)
                                   \/ ReadTail(id) \/ DropBody(id)
    BY <1>1, <2>4 DEF ReadChunk, ReadTail, DropBody, reset_stream, upload_ledger
  <2>5. CASE Ping
    BY <1>1, <2>5 DEF Ping, upload_ledger
  <2> QED BY <1>5, <2>1, <2>2, <2>3, <2>4, <2>5 DEF Application
<1>6. CASE Driver
  <2>1. ASSUME NEW id \in StreamIds, PumpAborts(id) PROVE ConnLedger'
    BY <1>1, <2>1 DEF PumpAborts, upload_ledger
  <2>2. ASSUME NEW id \in StreamIds, PumpParks(id) PROVE ConnLedger'
    BY <2>2 DEF PumpParks, register_waker, upload_ledger, ConnLedger
  <2>3. ASSUME NEW id \in StreamIds, PumpSends(id) PROVE ConnLedger'
    <3>1. grant(id) \in Nat /\ grant(id) <= conn_send_window.available
      BY <2>3, GrantBounds DEF PumpSends
    <3> QED BY <1>0, <2>3, <3>1 DEF PumpSends, consume, ConnLedger
  <2>4. CASE ReadEof \/ WriteFails
    BY <1>3, <2>4 DEF ReadEof, WriteFails, upload_ledger
  <2>5. CASE ReadLoopEnds \/ DriverEnds
    BY <1>1, <2>5 DEF ReadLoopEnds, DriverEnds, upload_ledger
  <2> QED BY <1>6, <2>1, <2>2, <2>3, <2>4, <2>5 DEF Driver
<1>7. CASE Peer
  <2>1. ASSUME NEW iw, NEW mfs, NEW mcs, RecvSettings(iw, mfs, mcs) PROVE ConnLedger'
    BY <1>1, <1>4, <2>1 DEF RecvSettings, upload_ledger
  <2>2. ASSUME NEW pb, NEW end_headers, AcceptFragment(pb, end_headers) PROVE ConnLedger'
    BY <1>1, <1>4, <2>2 DEF AcceptFragment, complete_header_block, upload_ledger
  <2>3. ASSUME NEW id \in StreamIds, NEW size, NEW end_headers,
               \/ \E end_stream \in BOOLEAN : RecvHeaders(id, size, end_stream, end_headers)
               \/ \E promised \in PromisedIds :
                    RecvPushPromise(id, promised, size, end_headers)
               \/ RecvContinuation(id, size, end_headers)
        PROVE  ConnLedger'
    BY <2>2, <2>3 DEF RecvHeaders, RecvPushPromise, RecvContinuation
  <2>4. ASSUME NEW id, NEW n, NEW pad, NEW end_stream, RecvData(id, n, pad, end_stream)
        PROVE  ConnLedger'
    BY <1>1, <2>4 DEF RecvData, upload_ledger
  <2>5. ASSUME NEW id, RecvRstStream(id) \/ RecvZeroWindowUpdate(id) PROVE ConnLedger'
    BY <1>1, <2>5 DEF RecvRstStream, RecvZeroWindowUpdate, reset_stream, upload_ledger
  <2>6. ASSUME NEW id, NEW n, RecvWindowUpdate(id, n) PROVE ConnLedger'
    BY <1>1, <2>6 DEF RecvWindowUpdate
  <2>7. ASSUME NEW n \in Increments, RecvConnWindowUpdate(n) PROVE ConnLedger'
    BY <1>0, <2>7 DEF RecvConnWindowUpdate, update, ConnLedger
  <2>8. ASSUME NEW p, RecvPingAck(p) PROVE ConnLedger'
    BY <1>1, <2>8 DEF RecvPingAck, upload_ledger
  <2>9. ASSUME NEW last, NEW error, RecvGoaway(last, error) PROVE ConnLedger'
    BY <1>1, <1>3, <2>9 DEF RecvGoaway, upload_ledger
  <2>10. CASE RecvProtocolError
    BY <1>4, <2>10 DEF RecvProtocolError
  <2> QED
    BY <1>7, <2>1, <2>3, <2>4, <2>5, <2>6, <2>7, <2>8, <2>9, <2>10 DEF Peer
<1>8. CASE UNCHANGED vars
  BY <1>1, <1>8 DEF vars, upload_ledger
<1> QED BY <1>5, <1>6, <1>7, <1>8 DEF Next

-----------------------------------------------------------------------------
(* Theorems *)

LEMMA TypeStep == ASSUME TypeOK, ConnLedger, [Next]_vars PROVE TypeOK'
<1>1. CASE UNCHANGED vars
  BY <1>1 DEF TypeOK, ConnTypeOK, StreamTypeOK, TaskTypeOK, LedgerTypeOK, vars, conn_vars,
     stream_vars, recv_vars, task_vars, req_vars, upload_ledger, download_ledger
<1> QED BY <1>1, ApplicationType, DriverType, PeerType DEF Next

\* Every reachable state is well typed; in particular no counter of bytes in
\* connection.rs (a usize: chunk_left, buffered) ever goes below zero.
THEOREM TypeCorrect == Spec => [](TypeOK /\ ConnLedger)
<1>1. Init => TypeOK /\ ConnLedger
  BY InitType, ConnLedgerInit
<1>2. TypeOK /\ ConnLedger /\ [Next]_vars => (TypeOK /\ ConnLedger)'
  BY TypeStep, ConnLedgerStep
<1> QED BY <1>1, <1>2, PTL DEF Spec

\* Whatever pumps share the connection window, and however SETTINGS, resets and
\* teardowns interleave with them, the DATA sent stays within the credit the
\* peer granted (pump_chunk, SendWindow::consume).
THEOREM ConnectionCreditHolds == Spec => []ConnectionCredit
<1>1. TypeOK /\ ConnLedger => ConnectionCredit
  <2> SUFFICES ASSUME TypeOK, ConnLedger PROVE ConnectionCredit OBVIOUS
  <2>1. conn_granted \in Nat /\ conn_sent \in Nat
    BY DEF TypeOK, LedgerTypeOK
  <2> QED BY <2>1 DEF ConnLedger, ConnectionCredit
<1> QED BY <1>1, TypeCorrect, PTL

-----------------------------------------------------------------------------
(* The life of requests, streams and pumps: who waits for what, and who still  *)
(* wakes it.                                                                   *)

Opened == {i \in StreamIds : i < next_stream_id}

\* A stream id that was never allocated is untouched.
Fresh ==
    /\ streams \subseteq Opened
    /\ got_head \subseteq Opened
    /\ local_closed \subseteq Opened
    /\ \A i \in StreamIds \ Opened : pump[i] = "none" /\ head[i] = "none"

\* An unresolved head channel belongs to a stream in the map that has not seen
\* its head, so whatever removes the stream resolves the channel.
OpenHeads == \A i \in StreamIds : head[i] = "open" => i \in streams \ got_head

Waiting(r) == req[r] = "waiting"
WaitersHaveStreams == \A r \in Requests : Waiting(r) => stream_of[r] \in StreamIds

Pumping(i) == pump[i] \in {"chunk", "window", "parked"}

\* A running pump has not ended its stream, and its stream is in the map or its
\* window is closed: a stream never retires from under its pump.
PumpedStreams ==
    \A i \in StreamIds : Pumping(i) => /\ i \notin local_closed
                                       /\ i \in streams \/ send_window[i].closed

ClosedIsEmpty ==
    /\ closed => streams = {} /\ slot_waiters = {}
    /\ closed => \A p \in 1..MaxPings : pings[p] # "pending"
    /\ goaway_received => slot_waiters = {}

LifeInv ==
    /\ Fresh /\ OpenHeads /\ WaitersHaveStreams /\ PumpedStreams /\ ClosedIsEmpty
    /\ PumpHasWaker

life_vars == <<next_stream_id, streams, got_head, local_closed, head, pump, send_window,
               conn_send_window, closed, goaway_received, slot_waiters, pings, req, stream_of>>

-----------------------------------------------------------------------------
(* What the handlers share *)

\* StreamState::fail wakes or leaves alone: after it every parked pump still
\* has its waker, and no head channel is left open.
LEMMA FailLife ==
    ASSUME TypeOK, LifeInv, NEW F \in SUBSET streams, fail(F, send_window), WakePumps,
           UNCHANGED <<next_stream_id, conn_send_window, closed>>
    PROVE  Fresh' /\ OpenHeads' /\ PumpedStreams' /\ PumpHasWaker'
<1>0. F \subseteq StreamIds /\ F \subseteq Opened
  BY DEF TypeOK, StreamTypeOK, LifeInv, Fresh
<1>1. \A i \in StreamIds :
        /\ i \notin F => send_window'[i] = send_window[i]
        /\ i \in F => send_window'[i].closed /\ send_window'[i].wakers = {}
  BY DEF fail, close
<1>2. \A i \in StreamIds : pump'[i] # pump[i] => pump[i] = "parked" /\ pump'[i] = "window"
  BY DEF WakePumps
<1>3. Fresh'
  BY <1>0, <1>2 DEF fail, LifeInv, Fresh, Opened
<1>4. OpenHeads'
  BY DEF fail, LifeInv, OpenHeads
<1>5. PumpedStreams'
  BY <1>1, <1>2 DEF fail, LifeInv, PumpedStreams, Pumping
<1>6. PumpHasWaker'
  <2> SUFFICES ASSUME NEW i \in StreamIds, pump'[i] = "parked"
               PROVE  /\ ~closed'
                      /\ \/ i \in conn_send_window'.wakers /\ ~is_ready(conn_send_window')
                         \/ i \in send_window'[i].wakers /\ ~is_ready(send_window'[i])
    BY DEF PumpHasWaker
  <2>1. pump[i] = "parked"
    BY <1>2
  <2>2. i \in send_window[i].wakers => i \in send_window'[i].wakers
    BY <2>1 DEF WakePumps
  <2> QED BY <1>1, <2>1, <2>2 DEF LifeInv, PumpHasWaker
<1> QED BY <1>3, <1>4, <1>5, <1>6

\* Tearing down an open connection wakes every parked pump: the one parked on
\* its own window has a stream in the map, which is failed.
LEMMA DestroyLife ==
    ASSUME TypeOK, LifeInv, NEW W \in [StreamIds -> Windows], destroy(W),
           \A i \in StreamIds \ streams : W[i] = send_window[i],
           WakePumps \/ DropPumps, UNCHANGED <<next_stream_id, req_vars>>
    PROVE  LifeInv'
<1>0. streams \subseteq StreamIds /\ streams \subseteq Opened
  BY DEF TypeOK, StreamTypeOK, LifeInv, Fresh
<1>1. \A i \in StreamIds : Pumping(i)' => Pumping(i)
  BY DEF WakePumps, DropPumps, Pumping
<1>2. \A i \in StreamIds : pump[i] = "none" => pump'[i] = "none"
  BY DEF WakePumps, DropPumps
<1>3. CASE closed
  <2>1. UNCHANGED <<closed, conn_send_window, streams, got_head, local_closed, head,
                    send_window, slot_waiters, pings>>
    BY <1>3 DEF destroy, stream_vars
  <2>2. \A i \in StreamIds : pump'[i] # "parked"
    BY <1>3 DEF LifeInv, PumpHasWaker, WakePumps, DropPumps
  <2>3. Fresh' /\ OpenHeads' /\ WaitersHaveStreams' /\ PumpedStreams'
    BY <1>1, <1>2, <2>1 DEF LifeInv, Fresh, Opened, OpenHeads, WaitersHaveStreams, Waiting,
       PumpedStreams, Pumping, req_vars
  <2>4. ClosedIsEmpty'
    BY <1>3, <2>1 DEF LifeInv, ClosedIsEmpty
  <2> QED BY <2>2, <2>3, <2>4 DEF LifeInv, PumpHasWaker
<1>4. CASE ~closed
  <2>1. /\ closed' /\ streams' = {} /\ slot_waiters' = {}
        /\ conn_send_window'.wakers = {}
        /\ fail(streams, W)
    BY <1>4 DEF destroy, fail, close
  <2>2. \A i \in streams : send_window'[i].closed /\ send_window'[i].wakers = {}
    BY <1>0, <2>1 DEF fail, close
  <2>3. ASSUME NEW i \in StreamIds PROVE pump'[i] # "parked"
    <3>1. CASE DropPumps
      BY <3>1 DEF DropPumps
    <3>2. CASE WakePumps /\ pump[i] = "parked"
      <4>1. CASE i \in conn_send_window.wakers
        BY <2>1, <3>2, <4>1 DEF WakePumps
      <4>2. CASE i \in send_window[i].wakers /\ ~is_ready(send_window[i])
        <5>1. i \in streams
          BY <3>2, <4>2 DEF LifeInv, PumpedStreams, Pumping, is_ready
        <5> QED BY <2>2, <3>2, <4>2, <5>1 DEF WakePumps
      <4> QED BY <3>2, <4>1, <4>2 DEF LifeInv, PumpHasWaker
    <3>3. CASE WakePumps /\ pump[i] # "parked"
      BY <3>3 DEF WakePumps
    <3> QED BY <3>1, <3>2, <3>3
  <2>4. Fresh'
    BY <1>0, <1>2, <2>1 DEF LifeInv, Fresh, Opened, fail
  <2>5. OpenHeads'
    BY <2>1 DEF LifeInv, OpenHeads, fail
  <2>6. PumpedStreams'
    BY <1>1, <2>1, <2>2 DEF LifeInv, PumpedStreams, Pumping, fail
  <2>7. WaitersHaveStreams'
    BY DEF LifeInv, WaitersHaveStreams, Waiting, req_vars
  <2>8. ClosedIsEmpty'
    BY <1>4, <2>1 DEF destroy, ClosedIsEmpty
  <2> QED BY <2>3, <2>4, <2>5, <2>6, <2>7, <2>8 DEF LifeInv, PumpHasWaker
<1> QED BY <1>3, <1>4

LEMMA ConnectionErrorLife ==
    ASSUME TypeOK, LifeInv, NEW W \in [StreamIds -> Windows], connection_error(W),
           \A i \in StreamIds \ streams : W[i] = send_window[i],
           UNCHANGED next_stream_id
    PROVE  LifeInv'
BY DestroyLife DEF connection_error

LEMMA ResetStreamLife ==
    ASSUME TypeOK, LifeInv, NEW id \in StreamIds, reset_stream(id),
           UNCHANGED <<next_stream_id, goaway_received, req_vars, closed, pings>>
    PROVE  LifeInv'
<1>1. /\ fail(streams \cap {id}, send_window) /\ slot_waiters' = {}
      /\ UNCHANGED conn_send_window /\ WakePumps
  BY DEF reset_stream
<1>2. Fresh' /\ OpenHeads' /\ PumpedStreams' /\ PumpHasWaker'
  BY <1>1, FailLife
<1>3. WaitersHaveStreams' /\ ClosedIsEmpty'
  BY <1>1 DEF LifeInv, WaitersHaveStreams, Waiting, ClosedIsEmpty, req_vars, fail
<1> QED BY <1>2, <1>3 DEF LifeInv

\* A stream retires only once its pump is done; if its caller still waits for
\* the head, the dropped channel tells it.
LEMMA RetireLife ==
    ASSUME TypeOK, LifeInv, NEW id \in StreamIds, NEW heads \in [StreamIds -> HeadStates],
           \A i \in StreamIds : heads[i] # head[i] => heads[i] = "ok" /\ i \in streams,
           \A i \in got_head' \ got_head : heads[i] # "open" /\ i \in streams,
           got_head \subseteq got_head',
           retire_if_fully_closed(id, heads),
           UNCHANGED <<next_stream_id, send_window, conn_send_window, closed,
                       goaway_received, pings, req_vars>>,
           \/ UNCHANGED <<local_closed, pump>>
           \/ /\ pump' = [pump EXCEPT ![id] = "done"]
              /\ pump[id] # "none"
              /\ local_closed' = IF id \in streams THEN local_closed \cup {id}
                                                   ELSE local_closed
    PROVE  LifeInv'
<1>1. \A i \in StreamIds :
        /\ Pumping(i)' => Pumping(i)
        /\ pump'[i] # pump[i] => i = id /\ pump[i] # "none" /\ pump'[i] = "done"
  BY DEF Pumping, TypeOK, TaskTypeOK
<1>2. /\ streams' \subseteq streams
      /\ streams' # streams => streams' = streams \ {id} /\ id \in local_closed'
      /\ slot_waiters' \subseteq slot_waiters
  BY DEF retire_if_fully_closed
<1>3. Fresh'
  BY <1>1, <1>2 DEF LifeInv, Fresh, Opened, retire_if_fully_closed, TypeOK, StreamTypeOK
<1>4. OpenHeads'
  <2> SUFFICES ASSUME NEW i \in StreamIds, head'[i] = "open"
               PROVE  i \in streams' \ got_head'
    BY DEF OpenHeads
  <2>1. heads[i] = "open" /\ head[i] = "open"
    BY DEF retire_if_fully_closed
  <2>2. i \in streams \ got_head /\ i \notin got_head'
    BY <2>1 DEF LifeInv, OpenHeads
  <2>3. i \in streams'
    BY <2>1, <2>2 DEF retire_if_fully_closed
  <2> QED BY <2>2, <2>3
<1>5. PumpedStreams'
  <2> SUFFICES ASSUME NEW i \in StreamIds, Pumping(i)'
               PROVE  i \notin local_closed' /\ (i \in streams' \/ send_window'[i].closed)
    BY DEF PumpedStreams
  <2>1. Pumping(i) /\ i \notin local_closed /\ (i \in streams \/ send_window[i].closed)
    BY <1>1 DEF LifeInv, PumpedStreams
  <2>2. i \notin local_closed'
    BY <2>1 DEF Pumping, TypeOK, TaskTypeOK
  <2> QED BY <1>2, <2>1, <2>2
<1>6. WaitersHaveStreams' /\ ClosedIsEmpty'
  BY <1>2 DEF LifeInv, WaitersHaveStreams, Waiting, ClosedIsEmpty, req_vars
<1>7. PumpHasWaker'
  BY <1>1 DEF LifeInv, PumpHasWaker
<1> QED BY <1>3, <1>4, <1>5, <1>6, <1>7 DEF LifeInv

-----------------------------------------------------------------------------
(* One step per action *)

LEMMA LifeUnchanged == ASSUME LifeInv, UNCHANGED life_vars PROVE LifeInv'
<1>1. Fresh' /\ OpenHeads' /\ WaitersHaveStreams' /\ PumpedStreams'
  BY DEF life_vars, LifeInv, Fresh, Opened, OpenHeads, WaitersHaveStreams, Waiting,
     PumpedStreams, Pumping
<1>2. ClosedIsEmpty' /\ PumpHasWaker'
  BY DEF life_vars, LifeInv, ClosedIsEmpty, PumpHasWaker
<1> QED BY <1>1, <1>2 DEF LifeInv

\* A step that changes only the request of one caller.
LEMMA RequestMoves ==
    ASSUME LifeInv, NEW r \in Requests, NEW s \in RequestStates \ {"waiting"},
           TypeOK, req' = [req EXCEPT ![r] = s],
           UNCHANGED <<next_stream_id, streams, got_head, local_closed, head, pump,
                       send_window, conn_send_window, closed, goaway_received, pings,
                       stream_of>>,
           slot_waiters' = slot_waiters \/ (~closed /\ ~goaway_received)
    PROVE  LifeInv'
<1>1. WaitersHaveStreams'
  BY DEF LifeInv, WaitersHaveStreams, Waiting, TypeOK, TaskTypeOK
<1>2. Fresh' /\ OpenHeads' /\ PumpedStreams'
  BY DEF LifeInv, Fresh, Opened, OpenHeads, PumpedStreams, Pumping
<1>3. ClosedIsEmpty' /\ PumpHasWaker'
  BY DEF LifeInv, ClosedIsEmpty, PumpHasWaker
<1> QED BY <1>1, <1>2, <1>3 DEF LifeInv

LEMMA OpensLife ==
    ASSUME TypeOK, LifeInv, NEW r \in Requests, NEW has_body \in BOOLEAN,
           RequestOpens(r, has_body)
    PROVE  LifeInv'
<1> DEFINE id == next_stream_id
<1>1. /\ id \in StreamIds /\ id \in Nat /\ next_stream_id' = id + 2
      /\ id \notin Opened
  BY DEF RequestOpens, TypeOK, ConnTypeOK, StreamIds, Opened
<1>2. id \notin streams /\ id \notin got_head /\ id \notin local_closed /\ pump[id] = "none"
  BY <1>1 DEF LifeInv, Fresh
<1>3. Opened' = Opened \cup {id}
  BY <1>1 DEF Opened, StreamIds, TypeOK, ConnTypeOK
<1>4. \A i \in StreamIds : i # id => UNCHANGED <<pump[i], head[i], send_window[i]>>
  BY DEF RequestOpens, TypeOK, StreamTypeOK, TaskTypeOK
<1>5. pump'[id] \in {"chunk", "none"} /\ pump'[id] # "parked"
      /\ head'[id] = "open" /\ id \in streams'
      /\ (pump'[id] = "chunk" => id \notin local_closed')
  BY <1>1, <1>2 DEF RequestOpens, TypeOK, StreamTypeOK, TaskTypeOK
<1>6. Fresh'
  BY <1>1, <1>3, <1>4 DEF RequestOpens, LifeInv, Fresh
<1>7. OpenHeads'
  BY <1>2, <1>4 DEF RequestOpens, LifeInv, OpenHeads
<1>8. WaitersHaveStreams'
  BY <1>1 DEF RequestOpens, LifeInv, WaitersHaveStreams, Waiting, TypeOK, TaskTypeOK
<1>9. PumpedStreams'
  BY <1>4, <1>5 DEF RequestOpens, LifeInv, PumpedStreams, Pumping
<1>10. ClosedIsEmpty'
  BY DEF RequestOpens, LifeInv, ClosedIsEmpty
<1>11. PumpHasWaker'
  BY <1>4, <1>5 DEF RequestOpens, LifeInv, PumpHasWaker
<1> QED BY <1>6, <1>7, <1>8, <1>9, <1>10, <1>11 DEF LifeInv

LEMMA ApplicationLife == ASSUME TypeOK, LifeInv, Application PROVE LifeInv'
<1>1. ASSUME NEW r \in Requests,
             \/ RequestRefused(r) \/ RequestParks(r)
             \/ RequestResumes(r) \/ RequestCancelled(r)
      PROVE  LifeInv'
  BY <1>1, RequestMoves DEF RequestRefused, RequestParks, RequestResumes, RequestCancelled,
     conn_vars, stream_vars, RequestStates
<1>2. ASSUME NEW r \in Requests, RequestOpens(r, FALSE) \/ RequestOpens(r, TRUE)
      PROVE  LifeInv'
  BY <1>2, OpensLife
<1>3. ASSUME NEW id \in StreamIds, NEW n \in ChunkSizes, PumpTakesChunk(id, n)
      PROVE  LifeInv'
  <2>1. /\ UNCHANGED <<next_stream_id, streams, got_head, local_closed, head, send_window,
                       conn_send_window, closed, goaway_received, slot_waiters, pings, req,
                       stream_of>>
        /\ pump[id] = "chunk" /\ pump' = [pump EXCEPT ![id] = "window"]
    BY <1>3 DEF PumpTakesChunk, conn_vars, stream_vars, req_vars
  <2>2. \A i \in StreamIds : /\ Pumping(i)' => Pumping(i)
                             /\ pump'[i] = "parked" => pump[i] = "parked"
                             /\ pump[i] = "none" => pump'[i] = "none"
    BY <2>1 DEF Pumping, TypeOK, TaskTypeOK
  <2>3. Fresh' /\ OpenHeads' /\ WaitersHaveStreams' /\ PumpedStreams'
    BY <2>1, <2>2 DEF LifeInv, Fresh, Opened, OpenHeads, WaitersHaveStreams, Waiting,
       PumpedStreams
  <2>4. ClosedIsEmpty' /\ PumpHasWaker'
    BY <2>1, <2>2 DEF LifeInv, ClosedIsEmpty, PumpHasWaker
  <2> QED BY <2>3, <2>4 DEF LifeInv
<1>4. ASSUME NEW id \in StreamIds, PumpFinishes(id) PROVE LifeInv'
  BY <1>4, RetireLife DEF PumpFinishes, conn_vars, task_vars, TypeOK, StreamTypeOK
<1>5. ASSUME NEW id \in StreamIds,
             (\E n \in 1..MaxDownload : ReadChunk(id, n)) \/ ReadTail(id)
      PROVE  LifeInv'
  BY <1>5, LifeUnchanged DEF ReadChunk, ReadTail, conn_vars, task_vars, req_vars, life_vars
<1>6. ASSUME NEW id \in StreamIds, DropBody(id) PROVE LifeInv'
  <2>1. CASE id \in ended
    BY <1>6, <2>1, LifeUnchanged DEF DropBody, conn_vars, stream_vars, task_vars, req_vars,
       life_vars
  <2>2. CASE id \notin ended
    BY <1>6, <2>2, ResetStreamLife DEF DropBody, conn_vars, task_vars
  <2> QED BY <2>1, <2>2
<1>7. CASE Ping
  <2>1. UNCHANGED <<next_stream_id, streams, got_head, local_closed, head, pump, send_window,
                    conn_send_window, closed, goaway_received, slot_waiters, req, stream_of>>
    BY <1>7 DEF Ping, stream_vars, task_vars, req_vars
  <2>2. Fresh' /\ OpenHeads' /\ WaitersHaveStreams' /\ PumpedStreams' /\ PumpHasWaker'
    BY <2>1 DEF LifeInv, Fresh, Opened, OpenHeads, WaitersHaveStreams, Waiting, PumpedStreams,
       Pumping, PumpHasWaker
  <2>3. ClosedIsEmpty'
    BY <1>7, <2>1 DEF Ping, LifeInv, ClosedIsEmpty
  <2> QED BY <2>2, <2>3 DEF LifeInv
<1>8. CASE Close
  BY <1>8, DestroyLife DEF Close, conn_vars, task_vars, TypeOK, StreamTypeOK, Windows
<1> QED BY <1>1, <1>2, <1>3, <1>4, <1>5, <1>6, <1>7, <1>8 DEF Application

LEMMA DriverLife == ASSUME TypeOK, ConnLedger, LifeInv, Driver PROVE LifeInv'
<1>1. ASSUME NEW id \in StreamIds, PumpAborts(id) PROVE LifeInv'
  <2>1. /\ UNCHANGED <<next_stream_id, streams, got_head, local_closed, head, send_window,
                       conn_send_window, closed, goaway_received, slot_waiters, pings, req,
                       stream_of>>
        /\ pump[id] = "window" /\ pump' = [pump EXCEPT ![id] = "done"]
    BY <1>1 DEF PumpAborts, conn_vars, stream_vars, task_vars, req_vars
  <2>2. \A i \in StreamIds : /\ Pumping(i)' => Pumping(i)
                             /\ pump'[i] = "parked" => pump[i] = "parked"
                             /\ pump[i] = "none" => pump'[i] = "none"
    BY <2>1 DEF Pumping, TypeOK, TaskTypeOK
  <2>3. Fresh' /\ OpenHeads' /\ WaitersHaveStreams' /\ PumpedStreams'
    BY <2>1, <2>2 DEF LifeInv, Fresh, Opened, OpenHeads, WaitersHaveStreams, Waiting,
       PumpedStreams
  <2>4. ClosedIsEmpty' /\ PumpHasWaker'
    BY <2>1, <2>2 DEF LifeInv, ClosedIsEmpty, PumpHasWaker
  <2> QED BY <2>3, <2>4 DEF LifeInv
<1>2. ASSUME NEW id \in StreamIds, PumpParks(id) PROVE LifeInv'
  <2>1. /\ UNCHANGED <<next_stream_id, streams, got_head, local_closed, head, closed,
                       goaway_received, slot_waiters, pings, req, stream_of>>
        /\ pump[id] = "window" /\ pump' = [pump EXCEPT ![id] = "parked"] /\ ~closed
    BY <1>2 DEF PumpParks, StreamGone, conn_vars, task_vars, req_vars
  <2>2. \A i \in StreamIds : /\ Pumping(i)' => Pumping(i)
                             /\ pump'[i] = "parked" => pump[i] = "parked" \/ i = id
                             /\ pump[i] = "none" => pump'[i] = "none"
    BY <2>1 DEF Pumping, TypeOK, TaskTypeOK
  <2>3. \A i \in StreamIds :
          /\ send_window'[i].closed = send_window[i].closed
          /\ is_ready(send_window'[i]) = is_ready(send_window[i])
          /\ send_window[i].wakers \subseteq send_window'[i].wakers
    BY <1>2, StreamWindow DEF PumpParks, register_waker, is_ready, TypeOK, StreamTypeOK
  <2>4. /\ is_ready(conn_send_window') = is_ready(conn_send_window)
        /\ conn_send_window.wakers \subseteq conn_send_window'.wakers
    BY <1>2 DEF PumpParks, register_waker, is_ready
  <2>5. \/ id \in conn_send_window'.wakers /\ ~is_ready(conn_send_window)
        \/ id \in send_window'[id].wakers /\ ~is_ready(send_window[id])
    BY <1>2 DEF PumpParks, register_waker, TypeOK, StreamTypeOK
  <2>6. PumpHasWaker'
    BY <2>1, <2>2, <2>3, <2>4, <2>5 DEF LifeInv, PumpHasWaker
  <2>7. Fresh' /\ OpenHeads' /\ WaitersHaveStreams' /\ PumpedStreams' /\ ClosedIsEmpty'
    BY <2>1, <2>2, <2>3 DEF LifeInv, Fresh, Opened, OpenHeads, WaitersHaveStreams, Waiting,
       PumpedStreams, ClosedIsEmpty
  <2> QED BY <2>6, <2>7 DEF LifeInv
<1>3. ASSUME NEW id \in StreamIds, PumpSends(id) PROVE LifeInv'
  <2>1. /\ UNCHANGED <<next_stream_id, streams, got_head, local_closed, head, closed,
                       goaway_received, slot_waiters, pings, req, stream_of>>
        /\ pump[id] = "window" /\ pump'[id] \in {"chunk", "window"}
        /\ is_ready(conn_send_window)
        /\ \A i \in StreamIds : i # id => pump'[i] = pump[i] /\ send_window'[i] = send_window[i]
    BY <1>3 DEF PumpSends, pump_after, conn_vars, req_vars, TypeOK, StreamTypeOK, TaskTypeOK
  <2>2. \A i \in StreamIds : /\ Pumping(i)' => Pumping(i)
                             /\ pump'[i] = "parked" => pump[i] = "parked" /\ i # id
                             /\ pump[i] = "none" => pump'[i] = "none"
    BY <2>1 DEF Pumping
  <2>3. \A i \in StreamIds : send_window'[i].closed = send_window[i].closed
    BY <1>3 DEF PumpSends, consume, TypeOK, StreamTypeOK
  <2>4. PumpHasWaker'
    BY <2>1, <2>2 DEF LifeInv, PumpHasWaker
  <2>5. Fresh' /\ OpenHeads' /\ WaitersHaveStreams' /\ PumpedStreams' /\ ClosedIsEmpty'
    BY <2>1, <2>2, <2>3 DEF LifeInv, Fresh, Opened, OpenHeads, WaitersHaveStreams, Waiting,
       PumpedStreams, ClosedIsEmpty
  <2> QED BY <2>4, <2>5 DEF LifeInv
<1>4. CASE ReadEof \/ WriteFails
  BY <1>4, DestroyLife DEF ReadEof, WriteFails, conn_vars, TypeOK, StreamTypeOK, Windows
<1>5. CASE ReadLoopEnds
  BY <1>5, LifeUnchanged DEF ReadLoopEnds, conn_vars, stream_vars, req_vars, life_vars
<1>6. CASE DriverEnds
  <2>1. /\ UNCHANGED <<next_stream_id, streams, got_head, local_closed, head, send_window,
                       conn_send_window, closed, goaway_received, slot_waiters, pings, req,
                       stream_of>>
        /\ DropPumps
    BY <1>6 DEF DriverEnds, conn_vars, stream_vars, req_vars
  <2>2. \A i \in StreamIds : /\ ~Pumping(i)' /\ pump'[i] # "parked"
                             /\ pump[i] = "none" => pump'[i] = "none"
    BY <2>1 DEF Pumping, DropPumps
  <2>3. Fresh' /\ OpenHeads' /\ WaitersHaveStreams' /\ PumpedStreams'
    BY <2>1, <2>2 DEF LifeInv, Fresh, Opened, OpenHeads, WaitersHaveStreams, Waiting,
       PumpedStreams
  <2>4. ClosedIsEmpty' /\ PumpHasWaker'
    BY <2>1, <2>2 DEF LifeInv, ClosedIsEmpty, PumpHasWaker
  <2> QED BY <2>3, <2>4 DEF LifeInv
<1> QED BY <1>1, <1>2, <1>3, <1>4, <1>5, <1>6 DEF Driver

\* Credit arrives, on one window or on those of many streams: a window that is
\* still exhausted kept its wakers.
LEMMA CreditLife ==
    ASSUME TypeOK, LifeInv, WakePumps,
           UNCHANGED <<next_stream_id, streams, got_head, local_closed, head, closed,
                       goaway_received, pings, req, stream_of>>,
           slot_waiters' \subseteq slot_waiters,
           conn_send_window' = conn_send_window
               \/ \E n \in Int : conn_send_window' = update(conn_send_window, n),
           \A i \in StreamIds : send_window'[i] = send_window[i]
               \/ \E n \in Int : send_window'[i] = update(send_window[i], n)
    PROVE  LifeInv'
<1>1. \A i \in StreamIds : pump'[i] # pump[i] => pump[i] = "parked" /\ pump'[i] = "window"
  BY DEF WakePumps
<1>2. ASSUME NEW i \in StreamIds PROVE send_window'[i].closed = send_window[i].closed
  <2>1. CASE send_window'[i] = send_window[i]
    BY <2>1
  <2>2. ASSUME NEW n \in Int, send_window'[i] = update(send_window[i], n)
        PROVE  send_window'[i].closed = send_window[i].closed
    BY <2>2 DEF update
  <2> QED BY <2>1, <2>2
<1>3. \A i \in StreamIds : /\ Pumping(i)' => Pumping(i)
                           /\ pump[i] = "none" => pump'[i] = "none"
  BY <1>1 DEF Pumping
<1>4. PumpHasWaker'
  <2> SUFFICES ASSUME NEW i \in StreamIds, pump'[i] = "parked"
               PROVE  /\ ~closed'
                      /\ \/ i \in conn_send_window'.wakers /\ ~is_ready(conn_send_window')
                         \/ i \in send_window'[i].wakers /\ ~is_ready(send_window'[i])
    BY DEF PumpHasWaker
  <2>1. pump[i] = "parked"
    BY <1>1
  <2>2. /\ i \in send_window[i].wakers => i \in send_window'[i].wakers
        /\ i \in conn_send_window.wakers => i \in conn_send_window'.wakers
    BY <2>1 DEF WakePumps
  <2>3. CASE i \in conn_send_window.wakers /\ ~is_ready(conn_send_window)
    <3>1. conn_send_window \in Windows
      BY ConnWindow
    <3> QED BY <2>1, <2>2, <2>3, <3>1 DEF LifeInv, PumpHasWaker, update, is_ready, Windows,
               SendWindows
  <2>4. CASE i \in send_window[i].wakers /\ ~is_ready(send_window[i])
    <3>1. send_window[i] \in Windows
      BY StreamWindow
    <3>2. CASE send_window'[i] = send_window[i]
      BY <2>1, <2>4, <3>2 DEF LifeInv, PumpHasWaker
    <3>3. ASSUME NEW n \in Int, send_window'[i] = update(send_window[i], n)
          PROVE  i \in send_window'[i].wakers /\ ~is_ready(send_window'[i])
      BY <2>2, <2>4, <3>1, <3>3 DEF update, is_ready, Windows, SendWindows
    <3> QED BY <2>1, <3>2, <3>3 DEF LifeInv, PumpHasWaker
  <2> QED BY <2>1, <2>3, <2>4 DEF LifeInv, PumpHasWaker
<1>5. Fresh' /\ OpenHeads' /\ WaitersHaveStreams' /\ PumpedStreams' /\ ClosedIsEmpty'
  BY <1>2, <1>3 DEF LifeInv, Fresh, Opened, OpenHeads, WaitersHaveStreams, Waiting,
     PumpedStreams, ClosedIsEmpty
<1> QED BY <1>4, <1>5 DEF LifeInv

LEMMA RecvSettingsLife ==
    ASSUME TypeOK, LifeInv, NEW iw \in WindowSizes \cup {None},
           NEW mfs \in FrameSizes \cup {None}, NEW mcs \in StreamLimits \cup {None},
           RecvSettings(iw, mfs, mcs)
    PROVE  LifeInv'
<1> DEFINE W == IF iw = None THEN send_window
                ELSE [i \in StreamIds |->
                        IF i \in streams
                        THEN adjust(send_window[i], iw - remote.initial_window_size)
                        ELSE send_window[i]]
<1>1. send_window \in [StreamIds -> Windows]
  BY DEF TypeOK, StreamTypeOK, Windows
<1>2. iw # None => iw - remote.initial_window_size \in Int
  BY SettingsType
<1>3. W \in [StreamIds -> Windows]
  <2>1. iw # None =>
          \A i \in StreamIds : adjust(send_window[i], iw - remote.initial_window_size) \in Windows
    BY <1>2, StreamWindow, WindowOps
  <2> QED BY <1>1, <2>1
<1>4. \A i \in StreamIds \ streams : W[i] = send_window[i]
  OBVIOUS
<1>5. \A i \in StreamIds : W[i] = send_window[i] \/ \E n \in Int : W[i] = update(send_window[i], n)
  BY <1>2 DEF adjust
<1>6. /\ \/ connection_error(send_window)
         \/ connection_error(W)
         \/ /\ send_window' = W
            /\ slot_waiters' \subseteq slot_waiters
            /\ UNCHANGED <<streams, got_head, local_closed, head, conn_send_window, closed,
                           pings, req, stream_of>>
            /\ WakePumps
      /\ UNCHANGED <<next_stream_id, goaway_received>>
  BY DEF RecvSettings, task_vars, req_vars
<1> HIDE DEF W
<1>7. CASE connection_error(send_window)
  BY <1>1, <1>6, <1>7, ConnectionErrorLife
<1>8. CASE connection_error(W)
  BY <1>3, <1>4, <1>6, <1>8, ConnectionErrorLife
<1>9. CASE /\ send_window' = W
           /\ slot_waiters' \subseteq slot_waiters
           /\ UNCHANGED <<streams, got_head, local_closed, head, conn_send_window, closed,
                          pings, req, stream_of>>
           /\ WakePumps
  BY <1>5, <1>6, <1>9, CreditLife
<1> QED BY <1>6, <1>7, <1>8, <1>9

LEMMA ReceiveHeadersLife ==
    ASSUME TypeOK, LifeInv, NEW id \in StreamIds, NEW end_stream \in BOOLEAN,
           NEW interim \in BOOLEAN, receive_headers(id, end_stream, interim),
           UNCHANGED <<next_stream_id, send_window, conn_send_window, closed,
                       goaway_received, pings, req_vars, pump>>
    PROVE  LifeInv'
<1> DEFINE heads == IF id \in streams /\ ~interim /\ id \notin got_head
                    THEN [head EXCEPT ![id] = "ok"] ELSE head
<1>1. heads \in [StreamIds -> HeadStates]
  BY DEF TypeOK, StreamTypeOK, HeadStates
<1>2. \A i \in StreamIds : heads[i] # head[i] => heads[i] = "ok" /\ i \in streams
  BY DEF TypeOK, StreamTypeOK
<1>3. /\ got_head \subseteq got_head'
      /\ \A i \in got_head' \ got_head : heads[i] # "open" /\ i \in streams
      /\ UNCHANGED local_closed
  BY DEF receive_headers, TypeOK, StreamTypeOK
<1>4. IF end_stream THEN retire_if_fully_closed(id, heads)
                    ELSE head' = heads /\ UNCHANGED <<streams, slot_waiters>>
  BY DEF receive_headers
<1> HIDE DEF heads
<1>5. CASE end_stream
  BY <1>1, <1>2, <1>3, <1>4, <1>5, RetireLife
<1>6. CASE ~end_stream
  <2>1. Fresh'
    BY <1>2, <1>3, <1>4, <1>6 DEF LifeInv, Fresh, Opened
  <2>2. OpenHeads'
    BY <1>2, <1>3, <1>4, <1>6 DEF LifeInv, OpenHeads
  <2>3. WaitersHaveStreams' /\ PumpedStreams' /\ ClosedIsEmpty' /\ PumpHasWaker'
    BY <1>3, <1>4, <1>6 DEF LifeInv, WaitersHaveStreams, Waiting, PumpedStreams, Pumping,
       ClosedIsEmpty, PumpHasWaker, req_vars
  <2> QED BY <2>1, <2>2, <2>3 DEF LifeInv
<1> QED BY <1>5, <1>6

LEMMA AcceptFragmentLife ==
    ASSUME TypeOK, LifeInv, NEW pb \in HeaderBlocks, NEW end_headers \in BOOLEAN,
           AcceptFragment(pb, end_headers)
    PROVE  LifeInv'
<1>0. /\ send_window \in [StreamIds -> Windows]
      /\ pb.stream_id \in StreamIds /\ pb.end_stream \in BOOLEAN
      /\ UNCHANGED <<next_stream_id, goaway_received>>
  BY DEF AcceptFragment, TypeOK, StreamTypeOK, Windows, HeaderBlocks
<1>1. CASE connection_error(send_window)
  BY <1>0, <1>1, ConnectionErrorLife
<1>2. CASE UNCHANGED <<stream_vars, conn_send_window, closed, pings, slot_waiters, pump,
                       task_vars>>
  BY <1>0, <1>2, LifeUnchanged DEF stream_vars, task_vars, req_vars, life_vars
<1>3. ASSUME NEW interim \in BOOLEAN,
             receive_headers(pb.stream_id, pb.end_stream, interim),
             UNCHANGED <<send_window, conn_send_window, closed, pings, task_vars, pump>>
      PROVE  LifeInv'
  BY <1>0, <1>3, ReceiveHeadersLife DEF task_vars
<1> QED BY <1>1, <1>2, <1>3 DEF AcceptFragment, complete_header_block

LEMMA PeerLife == ASSUME TypeOK, LifeInv, Peer PROVE LifeInv'
<1>0. send_window \in [StreamIds -> Windows]
  BY DEF TypeOK, StreamTypeOK, Windows
<1>1. ASSUME NEW iw \in OrNone(WindowSizes), NEW mfs \in OrNone(FrameSizes),
             NEW mcs \in OrNone(StreamLimits), RecvSettings(iw, mfs, mcs)
      PROVE  LifeInv'
  BY <1>1, RecvSettingsLife DEF OrNone
<1>2. ASSUME NEW id \in StreamIds, NEW size \in FragmentSizes, NEW end_headers \in BOOLEAN,
             NEW end_stream \in BOOLEAN, RecvHeaders(id, size, end_stream, end_headers)
      PROVE  LifeInv'
  BY <1>2, AcceptFragmentLife DEF RecvHeaders, HeaderBlocks
<1>3. ASSUME NEW id \in StreamIds, NEW size \in FragmentSizes, NEW end_headers \in BOOLEAN,
             NEW promised \in PromisedIds, RecvPushPromise(id, promised, size, end_headers)
      PROVE  LifeInv'
  BY <1>3, AcceptFragmentLife DEF RecvPushPromise, HeaderBlocks
<1>4. ASSUME NEW id \in StreamIds, NEW size \in FragmentSizes, NEW end_headers \in BOOLEAN,
             RecvContinuation(id, size, end_headers)
      PROVE  LifeInv'
  <2>1. pending_header_block \in HeaderBlocks
    BY <1>4 DEF RecvContinuation, TypeOK, ConnTypeOK
  <2> QED BY <1>4, <2>1, AcceptFragmentLife DEF RecvContinuation, HeaderBlocks
<1>5. ASSUME NEW id \in StreamIds, NEW n \in DataSizes, NEW pad \in {0, 1},
             NEW end_stream \in BOOLEAN, RecvData(id, n, pad, end_stream)
      PROVE  LifeInv'
  <2>1. UNCHANGED <<next_stream_id, got_head, local_closed, pump, send_window,
                    conn_send_window, closed, goaway_received, pings, req, stream_of>>
    BY <1>5 DEF RecvData, conn_vars, task_vars, req_vars
  <2>2. CASE end_stream
    BY <1>5, <2>1, <2>2, RetireLife DEF RecvData, TypeOK, StreamTypeOK, req_vars
  <2>3. CASE ~end_stream
    BY <1>5, <2>1, <2>3, LifeUnchanged DEF RecvData, life_vars
  <2> QED BY <2>2, <2>3
<1>6. ASSUME NEW id \in StreamIds, RecvRstStream(id) PROVE LifeInv'
  <2>1. Fresh' /\ OpenHeads' /\ PumpedStreams' /\ PumpHasWaker'
    BY <1>6, FailLife DEF RecvRstStream, conn_vars
  <2>2. WaitersHaveStreams' /\ ClosedIsEmpty'
    BY <1>6 DEF RecvRstStream, fail, LifeInv, WaitersHaveStreams, Waiting, ClosedIsEmpty,
       conn_vars, task_vars, req_vars
  <2> QED BY <2>1, <2>2 DEF LifeInv
<1>7. ASSUME NEW id \in StreamIds, NEW n \in Increments, RecvWindowUpdate(id, n)
      PROVE  LifeInv'
  <2>1. \A i \in StreamIds : send_window'[i] = send_window[i]
            \/ \E m \in Int : send_window'[i] = update(send_window[i], m)
    BY <1>7 DEF RecvWindowUpdate, TypeOK, StreamTypeOK
  <2> QED BY <1>7, <2>1, CreditLife DEF RecvWindowUpdate, conn_vars, task_vars, req_vars
<1>8. ASSUME NEW id \in StreamIds, RecvZeroWindowUpdate(id) PROVE LifeInv'
  BY <1>8, ResetStreamLife DEF RecvZeroWindowUpdate, conn_vars, task_vars
<1>9. ASSUME NEW n \in Increments, RecvConnWindowUpdate(n) PROVE LifeInv'
  BY <1>9, CreditLife DEF RecvConnWindowUpdate, conn_vars, stream_vars, task_vars, req_vars
<1>10. ASSUME NEW p \in 1..MaxPings, RecvPingAck(p) PROVE LifeInv'
  <2>1. UNCHANGED <<next_stream_id, streams, got_head, local_closed, head, pump, send_window,
                    conn_send_window, closed, goaway_received, slot_waiters, req, stream_of>>
    BY <1>10 DEF RecvPingAck, conn_vars, stream_vars, task_vars, req_vars
  <2>2. Fresh' /\ OpenHeads' /\ WaitersHaveStreams' /\ PumpedStreams' /\ PumpHasWaker'
    BY <2>1 DEF LifeInv, Fresh, Opened, OpenHeads, WaitersHaveStreams, Waiting, PumpedStreams,
       Pumping, PumpHasWaker
  <2>3. ClosedIsEmpty'
    BY <1>10, <2>1 DEF RecvPingAck, LifeInv, ClosedIsEmpty, TypeOK, ConnTypeOK
  <2> QED BY <2>2, <2>3 DEF LifeInv
<1>11. ASSUME NEW last, NEW error \in BOOLEAN, RecvGoaway(last, error) PROVE LifeInv'
  <2>1. /\ WakePumps
        /\ UNCHANGED <<next_stream_id, req, stream_of>>
    BY <1>11 DEF RecvGoaway, task_vars, req_vars
  <2>2. CASE destroy(send_window)
    BY <1>0, <2>1, <2>2, DestroyLife DEF req_vars
  <2>3. CASE /\ fail({i \in streams : i > last}, send_window)
             /\ slot_waiters' = {}
             /\ UNCHANGED <<closed, conn_send_window, pings>>
    <3>1. Fresh' /\ OpenHeads' /\ PumpedStreams' /\ PumpHasWaker'
      <4>1. {i \in streams : i > last} \in SUBSET streams
        OBVIOUS
      <4> QED BY <2>1, <2>3, <4>1, FailLife
    <3>2. WaitersHaveStreams' /\ ClosedIsEmpty'
      BY <2>1, <2>3 DEF fail, LifeInv, WaitersHaveStreams, Waiting, ClosedIsEmpty
    <3> QED BY <3>1, <3>2 DEF LifeInv
  <2> QED BY <1>11, <2>2, <2>3 DEF RecvGoaway
<1>12. CASE RecvProtocolError
  BY <1>0, <1>12, ConnectionErrorLife DEF RecvProtocolError, conn_vars
<1> QED
  BY <1>1, <1>2, <1>3, <1>4, <1>5, <1>6, <1>7, <1>8, <1>9, <1>10, <1>11, <1>12 DEF Peer

-----------------------------------------------------------------------------
(* Theorems *)

LEMMA LifeInit == Init => LifeInv
<1> SUFFICES ASSUME Init PROVE LifeInv OBVIOUS
<1>1. Fresh /\ OpenHeads /\ WaitersHaveStreams /\ PumpedStreams
  BY DEF Init, Fresh, OpenHeads, WaitersHaveStreams, Waiting, PumpedStreams, Pumping
<1>2. ClosedIsEmpty /\ PumpHasWaker
  BY DEF Init, ClosedIsEmpty, PumpHasWaker
<1> QED BY <1>1, <1>2 DEF LifeInv

\* The inductive invariant holds in every reachable state.
THEOREM LifeInvariant == Spec => [](TypeOK /\ ConnLedger /\ LifeInv)
<1>1. TypeOK /\ ConnLedger /\ LifeInv /\ [Next]_vars => LifeInv'
  <2> SUFFICES ASSUME TypeOK, ConnLedger, LifeInv, [Next]_vars PROVE LifeInv' OBVIOUS
  <2>1. CASE UNCHANGED vars
    BY <2>1, LifeUnchanged DEF vars, conn_vars, stream_vars, task_vars, req_vars, life_vars
  <2> QED BY <2>1, ApplicationLife, DriverLife, PeerLife DEF Next
<1> QED BY <1>1, LifeInit, TypeCorrect, PTL DEF Spec

\* No wake-up for send credit is lost: a parked body pump has its waker on a
\* window that is exhausted (pump_chunk's poll_fn, SendWindow::update and close).
THEOREM PumpHasWakerHolds == Spec => []PumpHasWaker
<1>1. LifeInv => PumpHasWaker
  BY DEF LifeInv
<1> QED BY <1>1, LifeInvariant, PTL

\* No path that removes a stream forgets the caller awaiting its head, and no
\* teardown or GOAWAY leaves a caller parked for a slot (request, fail,
\* retire_if_fully_closed, destroy, the GOAWAY handler).
THEOREM RequestHasWakerHolds == Spec => []RequestHasWaker
<1>1. LifeInv => RequestHasWaker
  <2> SUFFICES ASSUME LifeInv, NEW r \in Requests
               PROVE  /\ req[r] = "waiting" /\ head[stream_of[r]] = "open"
                            => stream_of[r] \in streams
                      /\ req[r] = "parked" /\ r \in slot_waiters
                            => ~closed /\ ~goaway_received
    BY DEF RequestHasWaker
  <2>1. req[r] = "waiting" /\ head[stream_of[r]] = "open" => stream_of[r] \in streams
    BY DEF LifeInv, WaitersHaveStreams, Waiting, OpenHeads
  <2>2. r \in slot_waiters => ~closed /\ ~goaway_received
    BY DEF LifeInv, ClosedIsEmpty
  <2> QED BY <2>1, <2>2
<1> QED BY <1>1, LifeInvariant, PTL

\* destroy leaves nothing behind that waits for the connection, and nothing
\* starts waiting afterwards.
THEOREM ClosedIsQuiescentHolds == Spec => []ClosedIsQuiescent
<1>1. LifeInv => ClosedIsQuiescent
  BY DEF LifeInv, ClosedIsEmpty, OpenHeads, PumpHasWaker, ClosedIsQuiescent
<1> QED BY <1>1, LifeInvariant, PTL

-----------------------------------------------------------------------------
(* Slots *)

\* Nobody is parked while a slot is free, a caller that gave up included.
SlotsFull == slot_waiters # {} => ~can_open_stream

\* What a step does to the slots: it drains the waiters, changes nothing, or is the
\* check of a request.
SlotStep ==
    \/ slot_waiters' = {}
    \/ UNCHANGED <<slot_waiters, streams, remote.max_concurrent_streams>>
    \/ \E r \in Requests : RequestParks(r)
    \/ \E r \in Requests, has_body \in BOOLEAN : RequestOpens(r, has_body)

LEMMA DestroySlots == ASSUME LifeInv, NEW W, destroy(W) PROVE slot_waiters' = {} /\ streams' = {}
BY DEF destroy, fail, stream_vars, LifeInv, ClosedIsEmpty

LEMMA RetireSlots ==
    ASSUME NEW id, NEW heads, retire_if_fully_closed(id, heads)
    PROVE  /\ streams' \subseteq streams
           /\ slot_waiters' = {} \/ UNCHANGED <<slot_waiters, streams>>
BY DEF retire_if_fully_closed

LEMMA AcceptFragmentSlots ==
    ASSUME LifeInv, NEW pb, NEW end_headers, AcceptFragment(pb, end_headers)
    PROVE  /\ streams' \subseteq streams
           /\ slot_waiters' = {} \/ UNCHANGED <<slot_waiters, streams, remote>>
<1>1. CASE connection_error(send_window)
  BY <1>1, DestroySlots DEF connection_error
<1>2. ASSUME NEW interim, receive_headers(pb.stream_id, pb.end_stream, interim)
      PROVE  /\ streams' \subseteq streams
             /\ slot_waiters' = {} \/ UNCHANGED <<slot_waiters, streams>>
  BY <1>2, RetireSlots DEF receive_headers
<1> QED BY <1>1, <1>2 DEF AcceptFragment, complete_header_block, stream_vars

\* Streams leave the map except when a request opens one, and whoever takes one out
\* drains the waiters; a peer's RST_STREAM is the exception.
LEMMA NextSlots ==
    ASSUME TypeOK, LifeInv, [Next]_vars
    PROVE  /\ \/ streams' \subseteq streams
              \/ \E r \in Requests, has_body \in BOOLEAN : RequestOpens(r, has_body)
           /\ SlotStep \/ "RST_STREAM" \in Inputs
<1> DEFINE Goal == /\ streams' \subseteq streams
                   /\ SlotStep \/ "RST_STREAM" \in Inputs
<1>1. CASE Application
  <2>1. ASSUME NEW r \in Requests, RequestRefused(r) \/ RequestResumes(r) \/ RequestCancelled(r)
        PROVE  Goal
    BY <2>1 DEF RequestRefused, RequestResumes, RequestCancelled, SlotStep, conn_vars,
       stream_vars
  <2>2. ASSUME NEW r \in Requests, RequestParks(r) PROVE Goal
    <3>1. UNCHANGED streams
      BY <2>2 DEF RequestParks, stream_vars
    <3> QED BY <2>2, <3>1 DEF SlotStep
  <2>3. ASSUME NEW r \in Requests, RequestOpens(r, FALSE) \/ RequestOpens(r, TRUE)
        PROVE  SlotStep /\ \E has_body \in BOOLEAN : RequestOpens(r, has_body)
    BY <2>3 DEF SlotStep
  <2>4. ASSUME NEW id \in StreamIds, NEW n, PumpTakesChunk(id, n) \/ ReadChunk(id, n) PROVE Goal
    BY <2>4 DEF PumpTakesChunk, ReadChunk, SlotStep, conn_vars, stream_vars
  <2>5. ASSUME NEW id \in StreamIds, PumpFinishes(id) PROVE Goal
    BY <2>5, RetireSlots DEF PumpFinishes, SlotStep, conn_vars
  <2>6. ASSUME NEW id \in StreamIds, ReadTail(id) PROVE Goal
    BY <2>6 DEF ReadTail, SlotStep, conn_vars
  <2>7. ASSUME NEW id \in StreamIds, DropBody(id) PROVE Goal
    BY <2>7 DEF DropBody, reset_stream, fail, SlotStep, conn_vars, stream_vars
  <2>8. CASE Ping
    BY <2>8 DEF Ping, SlotStep, stream_vars
  <2>9. CASE Close
    BY <2>9, DestroySlots DEF Close, SlotStep
  <2> QED BY <1>1, <2>1, <2>2, <2>3, <2>4, <2>5, <2>6, <2>7, <2>8, <2>9 DEF Application
<1>2. CASE Driver
  <2>1. ASSUME NEW id \in StreamIds, PumpAborts(id) \/ PumpParks(id) \/ PumpSends(id) PROVE Goal
    BY <2>1 DEF PumpAborts, PumpParks, PumpSends, SlotStep, conn_vars, stream_vars
  <2>2. CASE ReadEof \/ WriteFails
    BY <2>2, DestroySlots DEF ReadEof, WriteFails, SlotStep
  <2>3. CASE ReadLoopEnds \/ DriverEnds
    BY <2>3 DEF ReadLoopEnds, DriverEnds, SlotStep, conn_vars, stream_vars
  <2> QED BY <1>2, <2>1, <2>2, <2>3 DEF Driver
<1>3. CASE Peer
  <2>1. ASSUME NEW iw, NEW mfs, NEW mcs, RecvSettings(iw, mfs, mcs) PROVE Goal
    <3>1. ASSUME NEW W, connection_error(W) PROVE Goal
      BY <3>1, DestroySlots DEF connection_error, SlotStep
    <3>2. CASE /\ slot_waiters' = (IF mcs = None THEN slot_waiters ELSE {})
               /\ UNCHANGED streams
               /\ mcs = None => UNCHANGED remote.max_concurrent_streams
      BY <3>2 DEF SlotStep
    <3> QED BY <2>1, <3>1, <3>2 DEF RecvSettings
  <2>2. ASSUME NEW pb, NEW end_headers, AcceptFragment(pb, end_headers) PROVE Goal
    BY <2>2, AcceptFragmentSlots DEF SlotStep
  <2>3. ASSUME NEW id, NEW n, NEW pad, NEW end_stream, RecvData(id, n, pad, end_stream)
        PROVE  Goal
    BY <2>3, RetireSlots DEF RecvData, SlotStep, conn_vars
  <2>4. ASSUME NEW id, RecvRstStream(id) PROVE Goal
    BY <2>4 DEF RecvRstStream, fail
  <2>5. ASSUME NEW id, RecvZeroWindowUpdate(id) PROVE Goal
    BY <2>5 DEF RecvZeroWindowUpdate, reset_stream, fail, SlotStep
  <2>6. ASSUME NEW id, NEW n,
               RecvWindowUpdate(id, n) \/ RecvConnWindowUpdate(n) \/ RecvPingAck(n)
        PROVE  Goal
    BY <2>6 DEF RecvWindowUpdate, RecvConnWindowUpdate, RecvPingAck, SlotStep, conn_vars,
       stream_vars
  <2>7. ASSUME NEW last, NEW error, RecvGoaway(last, error) PROVE Goal
    BY <2>7, DestroySlots DEF RecvGoaway, fail, SlotStep
  <2>8. CASE RecvProtocolError
    BY <2>8, DestroySlots DEF RecvProtocolError, connection_error, SlotStep
  <2>9. ASSUME NEW id, NEW size, NEW end_headers,
               \/ \E end_stream \in BOOLEAN : RecvHeaders(id, size, end_stream, end_headers)
               \/ \E promised \in PromisedIds :
                    RecvPushPromise(id, promised, size, end_headers)
               \/ RecvContinuation(id, size, end_headers)
        PROVE  Goal
    BY <2>2, <2>9 DEF RecvHeaders, RecvPushPromise, RecvContinuation
  <2> QED BY <1>3, <2>1, <2>3, <2>4, <2>5, <2>6, <2>7, <2>8, <2>9 DEF Peer
<1>4. CASE UNCHANGED vars
  BY <1>4 DEF vars, conn_vars, stream_vars, SlotStep
<1> QED BY <1>1, <1>2, <1>3, <1>4 DEF Next

\* "request parks until a slot frees": nobody is parked with no wake-up on its way while
\* a slot is free (request, notify_slot_waiters).  A peer's RST_STREAM frees a slot and
\* wakes nobody, which the run slot_left_parked shows; it is excluded.
THEOREM ParkedMeansFullHolds ==
    ASSUME "RST_STREAM" \notin Inputs PROVE Spec => []ParkedMeansFull
<1>1. Init => SlotsFull
  BY DEF Init, SlotsFull
<1>2. TypeOK /\ LifeInv /\ SlotsFull /\ [Next]_vars => SlotsFull'
  <2> SUFFICES ASSUME TypeOK, LifeInv, SlotsFull, [Next]_vars PROVE SlotsFull' OBVIOUS
  <2>1. SlotStep
    BY NextSlots
  <2>2. CASE slot_waiters' = {}
    BY <2>2 DEF SlotsFull
  <2>3. CASE UNCHANGED <<slot_waiters, streams, remote.max_concurrent_streams>>
    BY <2>3 DEF SlotsFull, can_open_stream, active_streams
  <2>4. ASSUME NEW r \in Requests, RequestParks(r) PROVE SlotsFull'
    <3>1. ~can_open_stream /\ UNCHANGED <<streams, remote>>
      BY <2>4 DEF RequestParks, conn_vars, stream_vars
    <3> QED BY <3>1 DEF SlotsFull, can_open_stream, active_streams
  <2>5. ASSUME NEW r \in Requests, NEW has_body \in BOOLEAN, RequestOpens(r, has_body)
        PROVE  SlotsFull'
    BY <2>5 DEF RequestOpens, SlotsFull
  <2> QED BY <2>1, <2>2, <2>3, <2>4, <2>5 DEF SlotStep
<1>3. SlotsFull => ParkedMeansFull
  BY DEF SlotsFull, ParkedMeansFull
<1> QED BY <1>1, <1>2, <1>3, LifeInvariant, PTL DEF Spec

LEMMA StreamsFinite == ASSUME TypeOK PROVE IsFiniteSet(streams) /\ Cardinality(streams) \in Nat
<1>1. IsFiniteSet(1..MaxStreamId)
  <2>1. 1 \in Int /\ MaxStreamId \in Int
    OBVIOUS
  <2> QED BY <2>1, FS_Interval
<1>2. streams \subseteq 1..MaxStreamId
  BY DEF TypeOK, StreamTypeOK, StreamIds
<1>3. IsFiniteSet(streams)
  BY <1>1, <1>2, FS_Subset
<1> QED BY <1>3, FS_CardinalityType

\* "woken waiters can't over-allocate": whoever opens a stream, however long it was parked,
\* keeps the peer's limit, and opens none after a GOAWAY or a teardown (request: the check
\* and the reservation have no await in between).
THEOREM AdmissionRespectedHolds == Spec => AdmissionRespected
<1>1. ASSUME TypeOK, LifeInv, [Next]_vars
      PROVE  streams' \ streams # {} =>
                /\ Cardinality(streams') <= remote.max_concurrent_streams
                /\ ~goaway_received /\ ~closed
  <2>1. ASSUME NEW r \in Requests, NEW has_body \in BOOLEAN, RequestOpens(r, has_body)
        PROVE  /\ Cardinality(streams') <= remote.max_concurrent_streams
               /\ ~goaway_received /\ ~closed
    <3>1. /\ ~closed /\ ~goaway_received
          /\ Cardinality(streams) < remote.max_concurrent_streams
          /\ streams' = streams \cup {next_stream_id}
      BY <2>1 DEF RequestOpens, can_open_stream, active_streams
    <3>2. next_stream_id \notin streams
      BY <1>1 DEF LifeInv, Fresh, Opened, TypeOK, ConnTypeOK
    <3>3. IsFiniteSet(streams) /\ Cardinality(streams) \in Nat
      BY <1>1, StreamsFinite
    <3>4. Cardinality(streams') = Cardinality(streams) + 1
      BY <3>1, <3>2, <3>3, FS_AddElement
    <3>5. remote.max_concurrent_streams \in Nat
      BY <1>1, SettingsType
    <3> QED BY <3>1, <3>3, <3>4, <3>5
  <2> QED BY <1>1, <2>1, NextSlots
<1>2. (TypeOK /\ ConnLedger /\ LifeInv) /\ [Next]_vars =>
          [streams' \ streams # {} =>
                /\ Cardinality(streams') <= remote.max_concurrent_streams
                /\ ~goaway_received /\ ~closed]_vars
  BY <1>1
<1> QED BY <1>2, LifeInvariant, PTL DEF Spec, AdmissionRespected

-----------------------------------------------------------------------------
(* Header blocks *)

LEMMA DestroyCloses == ASSUME TypeOK, NEW W, destroy(W) PROVE closed'
BY DEF destroy, TypeOK, ConnTypeOK

\* Only a header fragment changes the pending block, and the connection stays closed.
LEMMA PendingStep ==
    ASSUME TypeOK, [Next]_vars
    PROVE  \/ UNCHANGED pending_header_block /\ (closed => closed')
           \/ \E pb, end_headers : AcceptFragment(pb, end_headers)
<1> DEFINE Goal == UNCHANGED pending_header_block /\ (closed => closed')
<1>1. CASE Application
  <2>1. CASE Close
    BY <2>1, DestroyCloses DEF Close, conn_vars
  <2> QED BY <1>1, <2>1 DEF Application, RequestRefused, RequestParks, RequestOpens,
             RequestResumes, RequestCancelled, PumpTakesChunk, PumpFinishes, ReadChunk,
             ReadTail, DropBody, Ping, conn_vars
<1>2. CASE Driver
  <2>1. CASE ReadEof \/ WriteFails
    BY <2>1, DestroyCloses DEF ReadEof, WriteFails, conn_vars
  <2> QED BY <1>2, <2>1 DEF Driver, PumpAborts, PumpParks, PumpSends, ReadLoopEnds, DriverEnds,
             conn_vars
<1>3. CASE Peer
  <2>1. ASSUME NEW iw, NEW mfs, NEW mcs, RecvSettings(iw, mfs, mcs) PROVE Goal
    BY <2>1, DestroyCloses DEF RecvSettings, connection_error
  <2>2. ASSUME NEW id, NEW n, NEW pad, NEW end_stream, RecvData(id, n, pad, end_stream)
        PROVE  Goal
    BY <2>2 DEF RecvData, conn_vars
  <2>3. ASSUME NEW id, NEW n,
               \/ RecvRstStream(id) \/ RecvZeroWindowUpdate(id) \/ RecvWindowUpdate(id, n)
               \/ RecvConnWindowUpdate(n) \/ RecvPingAck(n)
        PROVE  Goal
    BY <2>3 DEF RecvRstStream, RecvZeroWindowUpdate, RecvWindowUpdate, RecvConnWindowUpdate,
       RecvPingAck, conn_vars
  <2>4. ASSUME NEW last, NEW error, RecvGoaway(last, error) PROVE Goal
    BY <2>4, DestroyCloses DEF RecvGoaway
  <2>5. CASE RecvProtocolError
    BY <2>5, DestroyCloses DEF RecvProtocolError, connection_error, conn_vars
  <2>6. ASSUME NEW id, NEW size, NEW end_headers,
               \/ \E end_stream \in BOOLEAN : RecvHeaders(id, size, end_stream, end_headers)
               \/ \E promised \in PromisedIds :
                    RecvPushPromise(id, promised, size, end_headers)
               \/ RecvContinuation(id, size, end_headers)
        PROVE  \E pb, eh : AcceptFragment(pb, eh)
    BY <2>6 DEF RecvHeaders, RecvPushPromise, RecvContinuation
  <2> QED BY <1>3, <2>1, <2>2, <2>3, <2>4, <2>5, <2>6 DEF Peer
<1>4. CASE UNCHANGED vars
  BY <1>4 DEF vars, conn_vars
<1> QED BY <1>1, <1>2, <1>3, <1>4 DEF Next

\* However the peer cuts a header block into CONTINUATION frames, an open connection never
\* holds more of it than the cap (guard_header_block_size, called by each of the three
\* handlers that add to the block).
THEOREM PendingBlockBoundedHolds == Spec => []PendingBlockBounded
<1>1. Init => PendingBlockBounded
  BY DEF Init, PendingBlockBounded
<1>2. ASSUME TypeOK, PendingBlockBounded, [Next]_vars PROVE PendingBlockBounded'
  <2>1. ASSUME NEW pb, NEW end_headers, AcceptFragment(pb, end_headers)
        PROVE  PendingBlockBounded'
    BY <1>2, <2>1, DestroyCloses DEF AcceptFragment, guard_header_block_size, connection_error,
       PendingBlockBounded
  <2> QED BY <1>2, <2>1, PendingStep DEF PendingBlockBounded
<1> QED BY <1>1, <1>2, TypeCorrect, PTL DEF Spec
=============================================================================

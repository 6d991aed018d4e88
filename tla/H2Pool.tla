------------------------------- MODULE H2Pool -------------------------------
(***************************************************************************)
(* The pool of connections of the Rust client (pool.rs).  A request goes   *)
(* to the first pooled connection with a free stream slot; when there is   *)
(* none it opens a connection, or waits for the open already in flight.    *)
(*                                                                         *)
(* The pool is single threaded: a step is one synchronous section, from    *)
(* one await to the next.  The vector conns only grows at its end and      *)
(* connections are numbered in the order in which they are opened, so it   *)
(* is modelled as the set of its numbers: its order is their order.  A     *)
(* connection is what pool.rs and connection.rs tell the pool of it: its   *)
(* status, its stream limit and the requests it carries.                   *)
(***************************************************************************)
EXTENDS Integers, FiniteSets

CONSTANTS
    Requests,        \* calls of H2Pool::request
    MaxConns,        \* bound: connections the factory opens
    max_connections, \* the cap given to H2Pool::new
    UNLIMITED,       \* the stream limit of a connection before its SETTINGS
    Limits,          \* SETTINGS_MAX_CONCURRENT_STREAMS values of the servers
    Inputs           \* kinds of environment event, see EventKinds

\* "CANCEL": the application drops the future of a request that waits for
\* another one's open; "DROP_OPENER": that of the one that opens; "CLOSE": it closes
\* the pool; "LOST": a connection dies; "GOAWAY": a server says it goes away.
EventKinds == {"CANCEL", "DROP_OPENER", "CLOSE", "LOST", "GOAWAY"}

ASSUME PoolAssumption ==
    /\ IsFiniteSet(Requests)
    /\ MaxConns \in Nat /\ max_connections \in Nat /\ UNLIMITED \in Nat
    /\ Limits \subseteq Nat
    /\ Inputs \subseteq EventKinds

VARIABLES
    \* PoolState
    conns,        \* the connections in the pool
    opening,      \* one connection is being opened
    open_waiters, \* the requests whose channel is in open_waiters
    \* tasks
    req,          \* where each call of request() is
    route,        \* the connection it was issued on, or 0
    \* connections
    opened,       \* how many were put in the pool, which numbers them
    status,
    limit

pool_vars == <<conns, opening, open_waiters, opened>>
task_vars == <<req, route>>
conn_vars == <<status, limit>>
vars == <<pool_vars, task_vars, conn_vars>>

Conns == 1..MaxConns

\* "woken" was sent a message on its channel and not yet polled; "sent" has a
\* stream, "queued" is parked by its connection for a stream slot.
RequestStates == {"idle", "opening", "waiting", "woken", "sent", "queued",
                  "done", "failed", "cancelled"}
ConnStates == {"none", "live", "goaway", "closed"}

\* Type invariant of the pool.
TypeOK ==
    /\ conns \subseteq Conns
    /\ opening \in BOOLEAN
    /\ open_waiters \subseteq Requests
    /\ opened \in 0..MaxConns
    /\ req \in [Requests -> RequestStates]
    /\ route \in [Requests -> 0..MaxConns]
    /\ status \in [Conns -> ConnStates]
    /\ limit \in [Conns -> Nat]

Init ==
    /\ conns = {} /\ opening = FALSE /\ open_waiters = {} /\ opened = 0
    /\ req = [r \in Requests |-> "idle"]
    /\ route = [r \in Requests |-> 0]
    /\ status = [c \in Conns |-> "none"]
    /\ limit = [c \in Conns |-> UNLIMITED]

-----------------------------------------------------------------------------
(* What the pool asks of a connection *)

is_closed(c) == status[c] = "closed"
active_streams(c) == Cardinality({r \in Requests : req[r] = "sent" /\ route[r] = c})
can_open_stream(c) == active_streams(c) < limit[c]

\* Where a call of H2Connection::request is after its first poll.
issued(c) ==
    CASE status[c] # "live" -> "failed"
      [] status[c] = "live" /\ can_open_stream(c) -> "sent"
      [] OTHER -> "queued"

-----------------------------------------------------------------------------
(* H2Pool::request *)

first(S) == CHOOSE c \in S : \A d \in S : c <= d
last(S) == CHOOSE c \in S : \A d \in S : d <= c

\* Faulty: dead connections stay in the pool.
retain_all(cs) == cs

\* conns.retain(|c| !c.is_closed())
retain(cs) == {c \in cs : ~is_closed(c)}

ready(cs) == {c \in cs : can_open_stream(c)}

\* At the cap a request parks on the oldest connection.
at_cap(cs) == cs # {} /\ Cardinality(cs) >= max_connections

\* The connection a request is routed to, or 0: open a new one.
chosen(cs) ==
    CASE ready(cs) # {} -> first(ready(cs))
      [] ready(cs) = {} /\ at_cap(cs) -> first(cs)
      [] OTHER -> 0

\* conn.request(init): rq is where the requests are when r issues its own.
issue(r, c, rq) ==
    /\ req' = [rq EXCEPT ![r] = issued(c)]
    /\ route' = [route EXCEPT ![r] = c]

\* Faulty: the open in flight is not recorded.
open_unrecorded(r, rq, op, ws) ==
    /\ req' = [rq EXCEPT ![r] = "opening"]
    /\ opening' = op
    /\ open_waiters' = ws

\* open_one up to its await: wait for the open in flight, or own it.
open_one(r, rq, op, ws) ==
    \/ /\ op
       /\ req' = [rq EXCEPT ![r] = "waiting"]
       /\ opening' = op
       /\ open_waiters' = ws \union {r}
    \/ /\ ~op
       /\ req' = [rq EXCEPT ![r] = "opening"]
       /\ opening' = TRUE
       /\ open_waiters' = ws

\* One turn of the loop of request(), to its next await, from the pool cs, the
\* flag op and the waiters ws.
turn(r, rq, cs, op, ws) ==
    /\ conns' = retain(cs)
    /\ LET c == chosen(retain(cs)) IN
       \/ /\ c # 0
          /\ issue(r, c, rq)
          /\ opening' = op /\ open_waiters' = ws
       \/ /\ c = 0
          /\ open_one(r, rq, op, ws)
          /\ UNCHANGED route

\* After open_one: a request parks on the newest connection if that one is at
\* its limit, else it takes another turn.
after_open(r, rq, cs, op, ws) ==
    LET parks == cs # {} /\ ~is_closed(last(cs)) /\ ~can_open_stream(last(cs)) IN
    \/ /\ parks
       /\ issue(r, last(cs), rq)
       /\ conns' = cs /\ opening' = op /\ open_waiters' = ws
    \/ /\ ~parks
       /\ turn(r, rq, cs, op, ws)

\* A request is made.
Request(r) ==
    /\ req[r] = "idle"
    /\ turn(r, req, conns, opening, open_waiters)
    /\ UNCHANGED <<opened, conn_vars>>

\* A request that waited for an open is polled again.
Resume(r) ==
    /\ req[r] = "woken"
    /\ after_open(r, req, conns, opening, open_waiters)
    /\ UNCHANGED <<opened, conn_vars>>

-----------------------------------------------------------------------------
(* open_one after its await *)

\* The factory's connection is up; its opener has not been polled yet.
connected == opened < MaxConns /\ status[opened + 1] # "none"

\* A message is sent on every channel in open_waiters.
woken_waiters ==
    [r \in Requests |-> IF r \in open_waiters /\ req[r] = "waiting" THEN "woken"
                        ELSE req[r]]

OpenSucceeds(r) ==
    /\ req[r] = "opening"
    /\ connected
    /\ opened' = opened + 1
    /\ after_open(r, woken_waiters, conns \union {opened + 1}, FALSE, {})
    /\ UNCHANGED conn_vars

\* Faulty: the error is returned before the waiters are told.
fail_untold(r) ==
    /\ req' = [req EXCEPT ![r] = "failed"]
    /\ opening' = FALSE
    /\ UNCHANGED open_waiters

\* Faulty: the error is returned before the flag is cleared.
fail_still_opening(r) ==
    /\ req' = [req EXCEPT ![r] = "failed"]
    /\ UNCHANGED <<opening, open_waiters>>

\* The factory failed: the waiters take another turn, the opener has the error.
open_failed(r) ==
    /\ req' = [woken_waiters EXCEPT ![r] = "failed"]
    /\ opening' = FALSE
    /\ open_waiters' = {}

OpenFails(r) ==
    /\ req[r] = "opening"
    /\ ~connected
    /\ open_failed(r)
    /\ UNCHANGED <<conns, opened, route, conn_vars>>

\* The future of request() is dropped before the request was issued: no code
\* runs.
RequestCancelled(r) ==
    /\ \/ "CANCEL" \in Inputs /\ req[r] \in {"waiting", "woken"}
       \/ "DROP_OPENER" \in Inputs /\ req[r] = "opening"
    /\ req' = [req EXCEPT ![r] = "cancelled"]
    /\ UNCHANGED <<pool_vars, route, conn_vars>>

-----------------------------------------------------------------------------
(* close *)

\* The requests carried by the connections cs fail.
failed_on(cs) ==
    [r \in Requests |-> IF req[r] \in {"sent", "queued"} /\ route[r] \in cs
                        THEN "failed" ELSE req[r]]

Close ==
    /\ "CLOSE" \in Inputs
    /\ conns # {}
    /\ conns' = {}
    /\ status' = [c \in Conns |-> IF c \in conns THEN "closed" ELSE status[c]]
    /\ req' = failed_on(conns)
    /\ UNCHANGED <<opening, open_waiters, opened, route, limit>>

-----------------------------------------------------------------------------
(* The factory and the connections *)

\* The WebSocket opens and the connection starts, before its server's SETTINGS.
FactoryConnects ==
    /\ \E r \in Requests : req[r] = "opening"
    /\ opened < MaxConns
    /\ status[opened + 1] = "none"
    /\ status' = [status EXCEPT ![opened + 1] = "live"]
    /\ UNCHANGED <<pool_vars, task_vars, limit>>

SettingsArrive(c) ==
    /\ status[c] = "live" /\ limit[c] = UNLIMITED
    /\ \E l \in Limits : limit' = [limit EXCEPT ![c] = l]
    /\ UNCHANGED <<pool_vars, task_vars, status>>

ConnectionLost(c) ==
    /\ "LOST" \in Inputs
    /\ status[c] \in {"live", "goaway"}
    /\ status' = [status EXCEPT ![c] = "closed"]
    /\ req' = failed_on({c})
    /\ UNCHANGED <<pool_vars, route, limit>>

\* A graceful GOAWAY: the streams above last_stream_id and the parked requests
\* fail, and the connection refuses new ones until it is closed.
GoAway(c) ==
    /\ "GOAWAY" \in Inputs
    /\ status[c] = "live"
    /\ status' = [status EXCEPT ![c] = "goaway"]
    /\ \E doomed \in SUBSET {r \in Requests : req[r] = "sent" /\ route[r] = c} :
         req' = [r \in Requests |->
                   IF r \in doomed \/ (req[r] = "queued" /\ route[r] = c)
                   THEN "failed" ELSE req[r]]
    /\ UNCHANGED <<pool_vars, route, limit>>

StreamEnds(r) ==
    /\ req[r] = "sent"
    /\ req' = [req EXCEPT ![r] = "done"]
    /\ UNCHANGED <<pool_vars, route, conn_vars>>

\* A request parked by its connection gets a slot.
SlotFrees(r) ==
    /\ req[r] = "queued"
    /\ status[route[r]] = "live" /\ can_open_stream(route[r])
    /\ req' = [req EXCEPT ![r] = "sent"]
    /\ UNCHANGED <<pool_vars, route, conn_vars>>

Next ==
    \/ \E r \in Requests : Request(r) \/ Resume(r) \/ OpenSucceeds(r) \/ OpenFails(r)
                           \/ RequestCancelled(r) \/ StreamEnds(r) \/ SlotFrees(r)
    \/ \E c \in Conns : SettingsArrive(c) \/ ConnectionLost(c) \/ GoAway(c)
    \/ FactoryConnects
    \/ Close

Spec == Init /\ [][Next]_vars

\* The executor polls what was woken, and every open ends one way or the other.
Fairness ==
    \A r \in Requests : /\ WF_vars(Resume(r))
                        /\ WF_vars(OpenSucceeds(r) \/ OpenFails(r))

FairSpec == Spec /\ Fairness

-----------------------------------------------------------------------------
(* Properties *)

Cap == IF max_connections = 0 THEN 1 ELSE max_connections

\* "max_connections caps how many connections are opened": counting the one
\* being opened, the pool never holds more (request and open_one check the cap
\* and record the open without an await between them).
WithinCap == Cardinality(conns) + (IF opening THEN 1 ELSE 0) <= Cap

\* A request that waits for the open in flight waits for someone: open_one
\* owns the flag `opening` and drains open_waiters when its open ends.
WaiterHasOpener ==
    (\E r \in Requests : req[r] = "waiting") => \E r \in Requests : req[r] = "opening"

\* A request is never issued on a connection that is known to be dead.
RoutedToOpen ==
    [][\A r \in Requests : route'[r] # route[r] => status'[route'[r]] # "closed"]_vars

\* Every request gets a connection or an error: nobody waits for ever for an
\* open that ended, failed opens and connections that die included.
RequestsSettle ==
    \A r \in Requests :
        req[r] \in {"opening", "waiting", "woken"} ~>
            req[r] \notin {"opening", "waiting", "woken"}
=============================================================================

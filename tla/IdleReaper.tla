----------------------------- MODULE IdleReaper -----------------------------
(***************************************************************************)
(* The idle reaper of the Rust server (idle.rs, and the select! of         *)
(* serve_h2_with_config in lib.rs).  Each request takes a guard that       *)
(* counts an open stream until its response body is dropped; wait_idle     *)
(* watches the count and resolves when it has been zero for `idle`, upon   *)
(* which the connection is shut down gracefully.                           *)
(*                                                                         *)
(* Requests arrive and wait_idle is polled in one task, but hyper runs the *)
(* services and bodies in tasks of their own: a guard may be dropped       *)
(* between any two of the steps below.                                     *)
(***************************************************************************)
EXTENDS Integers, FiniteSets

CONSTANTS
    Streams,   \* the HTTP/2 streams a client may open, once each
    Idle       \* idle_timeout, in ticks

ASSUME IdleAssumption == IsFiniteSet(Streams) /\ Idle \in Nat \ {0}

VARIABLES
    stream,  \* "new", "handling" (service future), "body" (response body), "closed"
    open,    \* the value of the watch channel: open streams
    seen,    \* wait_idle's receiver has seen the latest value
    wait,    \* where wait_idle is
    slept,   \* how long its sleep has run
    conn     \* hyper's connection: "serving", "draining" (after graceful_shutdown), "ended"

vars == <<stream, open, seen, wait, slept, conn>>

Guarded == {s \in Streams : stream[s] \in {"handling", "body"}}

\* Type invariant of the reaper.
TypeOK ==
    /\ stream \in [Streams -> {"new", "handling", "body", "closed"}]
    /\ open \in Nat
    /\ seen \in BOOLEAN
    /\ wait \in {"look", "busy", "sleeping", "returned"}
    /\ slept \in 0..Idle
    /\ conn \in {"serving", "draining", "ended"}

Init ==
    /\ stream = [s \in Streams |-> "new"]
    /\ open = 0
    /\ seen = TRUE
    /\ wait = "look"
    /\ slept = 0
    /\ conn = "serving"

-----------------------------------------------------------------------------
(* The count *)

\* StreamCounter::enter
enter == open' = open + 1 /\ seen' = FALSE

\* Faulty: the change is not published.
drop_silently(n) == open' = (IF open < n THEN 0 ELSE open - n) /\ UNCHANGED seen

\* StreamGuard::drop, of n guards: saturating_sub, and every change is published.
drop_guard(n) == open' = (IF open < n THEN 0 ELSE open - n) /\ seen' = FALSE

\* TrackedService::call
RequestArrives(s) ==
    /\ conn = "serving"
    /\ stream[s] = "new"
    /\ stream' = [stream EXCEPT ![s] = "handling"]
    /\ enter
    /\ UNCHANGED <<wait, slept, conn>>

\* Faulty: the guard is released with the head of the response.
release_at_head(s) == drop_guard(1)

\* The guard rides the response body.
move_guard(s) == UNCHANGED <<open, seen>>

\* The service answers.
ResponseStarts(s) ==
    /\ conn # "ended"
    /\ stream[s] = "handling"
    /\ stream' = [stream EXCEPT ![s] = "body"]
    /\ move_guard(s)
    /\ UNCHANGED <<wait, slept, conn>>

\* The service fails, the body is sent, or hyper drops either with the stream.
StreamDropped(s) ==
    /\ conn # "ended"
    /\ s \in Guarded
    /\ stream' = [stream EXCEPT ![s] = "closed"]
    /\ drop_guard(1)
    /\ UNCHANGED <<wait, slept, conn>>

-----------------------------------------------------------------------------
(* wait_idle *)

\* Faulty: the two branches are exchanged.
branch_swapped(n) == IF n # 0 THEN "sleeping" ELSE "busy"

branch(n) == IF n # 0 THEN "busy" ELSE "sleeping"

\* borrow_and_update, and the branch on the count.
Look ==
    /\ conn = "serving" /\ wait = "look"
    /\ seen' = TRUE
    /\ wait' = branch(open)
    /\ slept' = 0
    /\ UNCHANGED <<stream, open, conn>>

\* changed() resolves: alone while busy, in the select! with the sleep while
\* idle.  Either way the loop starts over.
Changed ==
    /\ conn = "serving" /\ wait \in {"busy", "sleeping"}
    /\ ~seen
    /\ seen' = TRUE
    /\ wait' = "look"
    /\ UNCHANGED <<stream, open, slept, conn>>

\* The sleep resolves; select! takes it even if a change is ready as well.  The
\* caller shuts the connection down in the same section.
SleepEnds ==
    /\ conn = "serving" /\ wait = "sleeping"
    /\ slept = Idle
    /\ wait' = "returned"
    /\ conn' = "draining"
    /\ UNCHANGED <<stream, open, seen, slept>>

\* A tick is long compared with a poll: a change is seen before time passes.
Tick ==
    /\ conn = "serving" /\ wait = "sleeping" /\ slept < Idle
    /\ seen
    /\ slept' = slept + 1
    /\ UNCHANGED <<stream, open, seen, wait, conn>>

-----------------------------------------------------------------------------
(* hyper's connection *)

\* The client goes away: hyper drops what the streams still hold.
ConnectionEnds ==
    /\ conn # "ended"
    /\ conn' = "ended"
    /\ stream' = [s \in Streams |-> IF s \in Guarded THEN "closed" ELSE stream[s]]
    /\ drop_guard(Cardinality(Guarded))
    /\ UNCHANGED <<wait, slept>>

Hyper ==
    \/ \E s \in Streams : RequestArrives(s) \/ ResponseStarts(s) \/ StreamDropped(s)
    \/ ConnectionEnds

Reaper == Look \/ Changed \/ SleepEnds \/ Tick

-----------------------------------------------------------------------------
(* Properties *)

\* "an exact count of open HTTP/2 streams": a guard is taken when a request
\* arrives and given back once, when its response body is gone, however the
\* stream ends.  (With the types of the state.)
CountExact == TypeOK /\ open = Cardinality(Guarded)

\* wait_idle never misses a change: if it sleeps although a stream is open, or
\* waits for a stream to close although none is open, a change is pending.
NoMissedChange ==
    conn = "serving" =>
        /\ wait = "sleeping" /\ open # 0 => ~seen
        /\ wait = "busy" /\ open = 0 => ~seen
=============================================================================

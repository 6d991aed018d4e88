----------------------------- MODULE SendWindow -----------------------------
(***************************************************************************)
(* The send half of one HTTP/2 flow-control window, flow.rs of the Rust    *)
(* client.  A window is a record: the credit still available (negative     *)
(* after the peer shrinks SETTINGS_INITIAL_WINDOW_SIZE), the tasks whose   *)
(* wakers are parked on it, and whether it was torn down.  Draining the    *)
(* wakers IS waking their tasks: whoever uses a window compares the wakers *)
(* before and after a step to see which tasks became runnable.             *)
(***************************************************************************)
EXTENDS Integers

SendWindows(Tasks) ==
    [available : Int, wakers : SUBSET Tasks, closed : BOOLEAN]

new(initial) == [available |-> initial, wakers |-> {}, closed |-> FALSE]

wake(w) == [available |-> w.available, wakers |-> {}, closed |-> w.closed]

\* Faulty: credit arrives and nobody is told.
update_without_wake(w, increment) ==
    [available |-> w.available + increment, wakers |-> w.wakers, closed |-> w.closed]

\* Add credit and wake the parked tasks if the window is now positive.  The
\* code has this body twice: for WINDOW_UPDATE and for a SETTINGS delta.
update(w, increment) ==
    [available |-> w.available + increment,
     wakers    |-> IF w.available + increment > 0 THEN {} ELSE w.wakers,
     closed    |-> w.closed]

\* Faulty: a window the peer shrank is left as it was.
adjust_upwards(w, delta) == IF delta < 0 THEN w ELSE update(w, delta)

adjust(w, delta) == update(w, delta)

consume(w, n) ==
    [available |-> w.available - n, wakers |-> w.wakers, closed |-> w.closed]

is_ready(w) == w.available > 0 \/ w.closed

\* Faulty: one slot for a waker, which the last task to park takes.
register_last_waker(w, task) ==
    [available |-> w.available, wakers |-> {task}, closed |-> w.closed]

register_waker(w, task) ==
    [available |-> w.available, wakers |-> w.wakers \cup {task}, closed |-> w.closed]

close(w) == [available |-> w.available, wakers |-> {}, closed |-> TRUE]
=============================================================================

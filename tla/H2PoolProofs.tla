---------------------------- MODULE H2PoolProofs ----------------------------
(***************************************************************************)
(* The pool keeps its cap, opens one connection at a time and leaves no    *)
(* waiting request behind, for every number of requests, connections and   *)
(* every cap.                                                              *)
(***************************************************************************)
EXTENDS H2Pool, Iteration, FiniteSetTheorems, TLAPS

USE PoolAssumption

\* The pool cs has room for the open that op says is in flight.
Room(cs, op) == Cardinality(cs) + (IF op THEN 1 ELSE 0) <= Cap

\* Requests rq, flag op and waiters ws agree: only the owner of the flag is
\* opening, and who waits is listed and waits for a flag that is set.
Flags(rq, op, ws) ==
    /\ \A s \in Requests : rq[s] = "opening" => op
    /\ \A s, t \in Requests : rq[s] = "opening" /\ rq[t] = "opening" => s = t
    /\ \A s \in Requests : rq[s] = "waiting" => op /\ s \in ws

\* The inductive invariant: a pooled connection was opened (so the next number
\* is free), there is room, and the flags agree.
PoolInv ==
    /\ TypeOK
    /\ conns \subseteq 1..opened
    /\ Room(conns, opening)
    /\ Flags(req, opening, open_waiters)

-----------------------------------------------------------------------------

\* The cap in force is a positive number.
LEMMA CapType == Cap \in Nat /\ Cap >= 1 /\ max_connections <= Cap
  BY DEF Cap

\* A set of connections is finite.
LEMMA ConnsFinite ==
  ASSUME NEW cs \in SUBSET Conns
  PROVE  IsFiniteSet(cs) /\ Cardinality(cs) \in Nat
<1>1. IsFiniteSet(1..MaxConns)
  <2>1. 1 \in Int /\ MaxConns \in Int
    OBVIOUS
  <2> QED BY <2>1, FS_Interval
<1>2. IsFiniteSet(cs)
  BY <1>1, FS_Subset DEF Conns
<1> QED BY <1>2, FS_CardinalityType

\* A nonempty set of connections has a first and a last one.
LEMMA Ends ==
  ASSUME NEW S \in SUBSET Conns, S # {}
  PROVE  first(S) \in S /\ last(S) \in S
<1> DEFINE T == {MaxConns - c : c \in S}
<1>1. S \subseteq Nat
  BY DEF Conns
<1>2. T \subseteq Nat
  BY DEF Conns
<1>3. PICK m \in S : \A d \in S : m <= d
  BY <1>1, LeastNat
<1>4. T # {}
  OBVIOUS
<1>5. PICK k \in T : \A d \in T : k <= d
  <2> HIDE DEF T
  <2> QED BY <1>2, <1>4, LeastNat
<1>6. PICK n \in S : k = MaxConns - n
  OBVIOUS
<1>7. \A d \in S : d <= n
  <2> TAKE d \in S
  <2>1. MaxConns - d \in T
    OBVIOUS
  <2>2. MaxConns - n <= MaxConns - d
    BY <1>5, <1>6, <2>1
  <2> QED BY <2>2 DEF Conns
<1> QED BY <1>3, <1>7 DEF first, last

\* Dropping connections from the pool keeps the room it has.
LEMMA RoomShrinks ==
  ASSUME NEW cs \in SUBSET Conns, NEW ds \in SUBSET cs, NEW op \in BOOLEAN, Room(cs, op)
  PROVE  Room(ds, op)
<1>1. IsFiniteSet(cs) /\ Cardinality(cs) \in Nat
  BY ConnsFinite
<1>2. Cardinality(ds) <= Cardinality(cs) /\ Cardinality(ds) \in Nat
  BY <1>1, FS_Subset, ConnsFinite
<1> QED BY <1>1, <1>2, CapType DEF Room

\* A request that gets no connection from the pool finds room for one more.
LEMMA RoomToOpen ==
  ASSUME NEW cs \in SUBSET Conns, chosen(cs) = 0
  PROVE  Cardinality(cs) < Cap
<1>1. IsFiniteSet(cs) /\ Cardinality(cs) \in Nat
  BY ConnsFinite
<1>2. ready(cs) \subseteq cs
  BY DEF ready
<1>3. ready(cs) = {}
  BY <1>2, Ends DEF chosen, Conns
<1>4. ~at_cap(cs)
  BY <1>3, Ends DEF chosen, at_cap, Conns
<1>5. cs = {} \/ Cardinality(cs) < max_connections
  BY <1>1, <1>4 DEF at_cap
<1>6. Cardinality({}) = 0
  BY FS_EmptySet
<1> QED BY <1>1, <1>5, <1>6, CapType

\* Issuing a request settles where it is: it no longer opens or waits.
LEMMA IssuedType ==
  ASSUME NEW c
  PROVE  issued(c) \in {"failed", "sent", "queued"}
  BY DEF issued

\* What issuing r on c makes of flags that agree apart from r.
LEMMA IssueKeeps ==
  ASSUME TypeOK, NEW r \in Requests, NEW c \in Conns,
         NEW rq \in [Requests -> RequestStates], NEW op \in BOOLEAN, NEW ws,
         Flags([rq EXCEPT ![r] = "idle"], op, ws),
         issue(r, c, rq)
  PROVE  /\ req' \in [Requests -> RequestStates]
         /\ route' \in [Requests -> 0..MaxConns]
         /\ Flags(req', op, ws)
<1>1. issued(c) \in {"failed", "sent", "queued"}
  BY IssuedType
<1>2. req' \in [Requests -> RequestStates]
  BY <1>1 DEF issue, RequestStates
<1>3. route' \in [Requests -> 0..MaxConns]
  BY DEF issue, TypeOK, Conns
<1>4. /\ req'[r] \notin {"opening", "waiting"}
      /\ \A s \in Requests : s # r => req'[s] = [rq EXCEPT ![r] = "idle"][s]
  BY <1>1 DEF issue
<1>5. Flags(req', op, ws)
  BY <1>4 DEF Flags
<1> QED BY <1>2, <1>3, <1>5

\* A turn of the loop keeps the pool within its cap and the flags in agreement.
LEMMA TurnKeeps ==
  ASSUME TypeOK, NEW r \in Requests, NEW cs \in SUBSET Conns,
         NEW rq \in [Requests -> RequestStates], NEW op \in BOOLEAN,
         NEW ws \in SUBSET Requests,
         Flags([rq EXCEPT ![r] = "idle"], op, ws), Room(cs, op),
         turn(r, rq, cs, op, ws)
  PROVE  /\ conns' \subseteq cs /\ Room(conns', opening')
         /\ opening' \in BOOLEAN /\ open_waiters' \subseteq Requests
         /\ req' \in [Requests -> RequestStates]
         /\ route' \in [Requests -> 0..MaxConns]
         /\ Flags(req', opening', open_waiters')
<1> DEFINE kept == retain(cs)
<1>1. kept \subseteq cs /\ conns' = kept
  BY DEF retain, turn
<1>2. Room(kept, op)
  BY <1>1, RoomShrinks
<1>3. CASE chosen(kept) # 0 /\ issue(r, chosen(kept), rq) /\ opening' = op /\ open_waiters' = ws
  <2>1. ready(kept) \subseteq kept
    BY DEF ready
  <2>2. chosen(kept) \in Conns
    <3>1. CASE ready(kept) # {}
      BY <3>1, <2>1, <1>1, Ends DEF chosen
    <3>2. CASE ready(kept) = {} /\ at_cap(kept)
      BY <3>2, <1>1, Ends DEF chosen, at_cap
    <3> QED BY <3>1, <3>2, <1>3 DEF chosen
  <2> QED BY <1>1, <1>2, <1>3, <2>2, IssueKeeps
<1>4. CASE chosen(kept) = 0 /\ open_one(r, rq, op, ws) /\ UNCHANGED route
  <2>1. Cardinality(kept) < Cap /\ Cardinality(kept) \in Nat
    BY <1>1, <1>4, RoomToOpen, ConnsFinite
  <2>2. Room(kept, TRUE)
    BY <2>1, CapType DEF Room
  <2>3. CASE op
    BY <1>1, <1>4, <2>2, <2>3 DEF open_one, Flags, RequestStates, TypeOK
  <2>4. CASE ~op
    BY <1>1, <1>4, <2>2, <2>4 DEF open_one, Flags, RequestStates, TypeOK
  <2> QED BY <2>3, <2>4
<1> QED BY <1>3, <1>4 DEF turn

\* So does what a request does after open_one.
LEMMA AfterOpenKeeps ==
  ASSUME TypeOK, NEW r \in Requests, NEW cs \in SUBSET Conns,
         NEW rq \in [Requests -> RequestStates], NEW op \in BOOLEAN,
         NEW ws \in SUBSET Requests,
         Flags([rq EXCEPT ![r] = "idle"], op, ws), Room(cs, op),
         after_open(r, rq, cs, op, ws)
  PROVE  /\ conns' \subseteq cs /\ Room(conns', opening')
         /\ opening' \in BOOLEAN /\ open_waiters' \subseteq Requests
         /\ req' \in [Requests -> RequestStates]
         /\ route' \in [Requests -> 0..MaxConns]
         /\ Flags(req', opening', open_waiters')
<1>1. CASE turn(r, rq, cs, op, ws)
  BY <1>1, TurnKeeps
<1>2. CASE /\ cs # {} /\ issue(r, last(cs), rq)
           /\ conns' = cs /\ opening' = op /\ open_waiters' = ws
  <2>1. last(cs) \in Conns
    BY <1>2, Ends
  <2> QED BY <1>2, <2>1, IssueKeeps
<1> QED BY <1>1, <1>2 DEF after_open

\* A step that only settles or wakes requests keeps the flags in agreement.
LEMMA SettlingKeeps ==
  ASSUME NEW rq \in [Requests -> RequestStates], NEW rp, NEW op, NEW ws,
         Flags(rq, op, ws),
         \A s \in Requests : rp[s] = rq[s] \/ rp[s] \notin {"opening", "waiting"}
  PROVE  Flags(rp, op, ws)
  BY DEF Flags

-----------------------------------------------------------------------------

\* PoolInv is an invariant.
THEOREM PoolInvariant == Spec => []PoolInv
<1>1. Init => PoolInv
  <2> SUFFICES ASSUME Init PROVE PoolInv
    OBVIOUS
  <2>1. TypeOK
    <3>1. opening \in BOOLEAN
      BY DEF Init
    <3>2. 0 \in 0..MaxConns
      OBVIOUS
    <3> QED BY <3>1, <3>2 DEF Init, TypeOK, RequestStates, ConnStates
  <2>2. Room(conns, opening)
    BY FS_EmptySet, CapType DEF Init, Room
  <2> QED BY <2>1, <2>2 DEF Init, PoolInv, Flags
<1>2. PoolInv /\ [Next]_vars => PoolInv'
  <2> SUFFICES ASSUME PoolInv, [Next]_vars PROVE PoolInv'
    OBVIOUS
  <2> USE DEF PoolInv
  <2>1. conns \subseteq Conns /\ opened \in 0..MaxConns
    BY DEF TypeOK
  <2>2. ASSUME NEW r \in Requests, Request(r) PROVE PoolInv'
    <3>1. Flags([req EXCEPT ![r] = "idle"], opening, open_waiters)
      BY DEF Flags, TypeOK
    <3>2. /\ conns' \subseteq conns /\ Room(conns', opening')
          /\ opening' \in BOOLEAN /\ open_waiters' \subseteq Requests
          /\ req' \in [Requests -> RequestStates]
          /\ route' \in [Requests -> 0..MaxConns]
          /\ Flags(req', opening', open_waiters')
      BY <2>1, <2>2, <3>1, TurnKeeps DEF Request, TypeOK
    <3> QED BY <2>2, <3>2 DEF Request, TypeOK, conn_vars, Room, Flags
  <2>3. ASSUME NEW r \in Requests, Resume(r) PROVE PoolInv'
    <3>1. Flags([req EXCEPT ![r] = "idle"], opening, open_waiters)
      BY DEF Flags, TypeOK
    <3>2. /\ conns' \subseteq conns /\ Room(conns', opening')
          /\ opening' \in BOOLEAN /\ open_waiters' \subseteq Requests
          /\ req' \in [Requests -> RequestStates]
          /\ route' \in [Requests -> 0..MaxConns]
          /\ Flags(req', opening', open_waiters')
      BY <2>1, <2>3, <3>1, AfterOpenKeeps DEF Resume, TypeOK
    <3> QED BY <2>3, <3>2 DEF Resume, TypeOK, conn_vars, Room, Flags
  <2>4. ASSUME NEW r \in Requests, OpenSucceeds(r) PROVE PoolInv'
    <3> DEFINE cs == conns \union {opened + 1}
               rq == woken_waiters
    <3>0. after_open(r, rq, cs, FALSE, {})
      BY <2>4, Zenon DEF OpenSucceeds
    <3>1. /\ req[r] = "opening" /\ opened' = opened + 1 /\ opened' \in 1..MaxConns
          /\ UNCHANGED conn_vars
      <4>1. /\ req[r] = "opening" /\ opened' = opened + 1 /\ connected
            /\ UNCHANGED conn_vars
        BY <2>4, Zenon DEF OpenSucceeds
      <4> QED BY <2>1, <4>1 DEF connected
    <3>2. opening
      BY <3>1 DEF Flags
    <3>3. rq \in [Requests -> RequestStates]
      BY DEF woken_waiters, TypeOK, RequestStates
    <3>4. Flags([rq EXCEPT ![r] = "idle"], FALSE, {})
      <4>1. \A s \in Requests : s # r => req[s] # "opening"
        BY <3>1 DEF Flags
      <4>2. \A s \in Requests : req[s] = "waiting" => s \in open_waiters
        BY DEF Flags
      <4>3. \A s \in Requests : s # r => rq[s] \notin {"opening", "waiting"}
        BY <4>1, <4>2 DEF woken_waiters
      <4> HIDE DEF rq
      <4> QED BY <3>3, <4>3 DEF Flags
    <3>5. cs \subseteq 1..opened' /\ cs \subseteq Conns
      BY <2>1, <3>1 DEF Conns
    <3>6. Room(cs, FALSE)
      <4>1. IsFiniteSet(conns) /\ Cardinality(conns) \in Nat
        BY <2>1, ConnsFinite
      <4>2. Cardinality(cs) <= Cardinality(conns) + 1 /\ Cardinality(cs) \in Nat
        <5>1. /\ IsFiniteSet(cs)
              /\ Cardinality(cs) = IF opened + 1 \in conns THEN Cardinality(conns)
                                   ELSE Cardinality(conns) + 1
          BY <4>1, FS_AddElement, Zenon
        <5> HIDE DEF cs
        <5> QED BY <4>1, <5>1
      <4>3. Cardinality(conns) + 1 <= Cap
        BY <3>2 DEF Room
      <4> HIDE DEF cs
      <4> QED BY <4>1, <4>2, <4>3, CapType DEF Room
    <3>7. /\ conns' \subseteq cs /\ Room(conns', opening')
          /\ opening' \in BOOLEAN /\ open_waiters' \subseteq Requests
          /\ req' \in [Requests -> RequestStates]
          /\ route' \in [Requests -> 0..MaxConns]
          /\ Flags(req', opening', open_waiters')
      <4> HIDE DEF cs, rq
      <4>1. {} \in SUBSET Requests /\ FALSE \in BOOLEAN
        OBVIOUS
      <4>2. cs \in SUBSET Conns
        BY <3>5
      <4> QED BY <3>0, <3>3, <3>4, <3>6, <4>1, <4>2, AfterOpenKeeps, Zenon
    <3> HIDE DEF cs, rq
    <3>8. TypeOK'
      BY <2>1, <3>1, <3>5, <3>7 DEF TypeOK, conn_vars
    <3>9. Room(conns, opening)' /\ Flags(req, opening, open_waiters)'
      BY <3>7 DEF Room, Flags, Cap
    <3> QED BY <3>5, <3>7, <3>8, <3>9
  <2>5. ASSUME NEW r \in Requests, OpenFails(r) PROVE PoolInv'
    <3>1. TypeOK'
      BY <2>5 DEF OpenFails, open_failed, woken_waiters, TypeOK, RequestStates, conn_vars
    <3>2. Room(conns, FALSE)
      <4>1. IsFiniteSet(conns) /\ Cardinality(conns) \in Nat
        BY <2>1, ConnsFinite
      <4> QED BY <4>1, CapType DEF Room
    <3>3. \A s \in Requests : req'[s] \notin {"opening", "waiting"}
      <4>1. req[r] = "opening" /\ req' = [woken_waiters EXCEPT ![r] = "failed"]
        BY <2>5 DEF OpenFails, open_failed
      <4>2. \A s \in Requests : s # r => req[s] # "opening"
        BY <4>1 DEF Flags
      <4>3. \A s \in Requests : req[s] = "waiting" => s \in open_waiters
        BY DEF Flags
      <4> QED BY <4>1, <4>2, <4>3 DEF woken_waiters
    <3> QED BY <2>5, <3>1, <3>2, <3>3 DEF OpenFails, open_failed, Room, Flags, Cap
  <2>6. ASSUME NEW r \in Requests, RequestCancelled(r) \/ StreamEnds(r) \/ SlotFrees(r)
        PROVE PoolInv'
    <3>1. /\ UNCHANGED <<pool_vars, route, conn_vars>>
          /\ req' \in [Requests -> RequestStates]
          /\ \A s \in Requests : req'[s] = req[s] \/ req'[s] \notin {"opening", "waiting"}
      BY <2>6 DEF RequestCancelled, StreamEnds, SlotFrees, TypeOK, RequestStates
    <3>2. Flags(req', opening, open_waiters)
      BY <3>1, SettlingKeeps DEF TypeOK
    <3> QED BY <3>1, <3>2 DEF TypeOK, pool_vars, conn_vars, Room, Flags, Cap
  <2>7. ASSUME NEW c \in Conns, SettingsArrive(c) PROVE PoolInv'
    BY <2>7 DEF SettingsArrive, TypeOK, pool_vars, task_vars, Room, Flags, Cap
  <2>8. ASSUME NEW c \in Conns, ConnectionLost(c) \/ GoAway(c) PROVE PoolInv'
    <3>1. /\ UNCHANGED <<pool_vars, route, limit>>
          /\ req' \in [Requests -> RequestStates]
          /\ status' \in [Conns -> ConnStates]
          /\ \A s \in Requests : req'[s] = req[s] \/ req'[s] \notin {"opening", "waiting"}
      BY <2>8 DEF ConnectionLost, GoAway, failed_on, TypeOK, RequestStates, ConnStates
    <3>2. Flags(req', opening, open_waiters)
      BY <3>1, SettlingKeeps DEF TypeOK
    <3> QED BY <3>1, <3>2 DEF TypeOK, pool_vars, Room, Flags, Cap
  <2>9. CASE FactoryConnects
    BY <2>1, <2>9 DEF FactoryConnects, TypeOK, ConnStates, pool_vars, task_vars, Room, Flags, Cap
  <2>10. CASE Close
    <3>1. /\ UNCHANGED <<opening, open_waiters, opened, route, limit>> /\ conns' = {}
          /\ req' \in [Requests -> RequestStates]
          /\ status' \in [Conns -> ConnStates]
          /\ \A s \in Requests : req'[s] = req[s] \/ req'[s] \notin {"opening", "waiting"}
      BY <2>10 DEF Close, failed_on, TypeOK, RequestStates, ConnStates
    <3>2. Flags(req', opening, open_waiters)
      BY <3>1, SettlingKeeps DEF TypeOK
    <3>3. Room({}, opening)
      BY <2>1, RoomShrinks DEF TypeOK
    <3> QED BY <3>1, <3>2, <3>3 DEF TypeOK, Room, Flags, Cap
  <2>11. CASE UNCHANGED vars
    BY <2>11 DEF vars, TypeOK, pool_vars, task_vars, conn_vars, Room, Flags, Cap
  <2> QED BY <2>2, <2>3, <2>4, <2>5, <2>6, <2>7, <2>8, <2>9, <2>10, <2>11 DEF Next
<1> QED BY <1>1, <1>2, PTL DEF Spec

\* The pool, with the connection being opened, never exceeds max_connections
\* (or one, if max_connections is 0), whatever is cancelled, fails or dies.
THEOREM WithinCapHolds == Spec => []WithinCap
<1>1. PoolInv => WithinCap
  BY DEF PoolInv, Room, WithinCap
<1> QED BY <1>1, PoolInvariant, PTL

-----------------------------------------------------------------------------

\* The flag op has an owner other than r.
OwnedBeside(r, rq, op) == op => \E s \in Requests : s # r /\ rq[s] = "opening"

\* The flag `opening` has an owner.
Owned == opening => \E s \in Requests : req[s] = "opening"

\* A turn of r leaves the owner of the flag, or makes r the owner.
LEMMA TurnOwned ==
  ASSUME NEW r \in Requests, NEW cs, NEW rq \in [Requests -> RequestStates],
         NEW op \in BOOLEAN, NEW ws,
         OwnedBeside(r, rq, op),
         turn(r, rq, cs, op, ws) \/ after_open(r, rq, cs, op, ws)
  PROVE  Owned'
<1> DEFINE Kept(x) == req' = [rq EXCEPT ![r] = x] /\ opening' = op
<1>1. ASSUME NEW x, Kept(x) PROVE Owned'
  BY <1>1 DEF OwnedBeside, Owned
<1>2. ASSUME req' = [rq EXCEPT ![r] = "opening"] PROVE Owned'
  BY <1>2 DEF Owned
<1>3. ASSUME NEW c, issue(r, c, rq), opening' = op PROVE Owned'
  <2>1. Kept(issued(c))
    BY <1>3 DEF issue
  <2> HIDE DEF Kept
  <2> QED BY <1>1, <2>1
<1>4. ASSUME open_one(r, rq, op, ws) PROVE Owned'
  <2>1. Kept("waiting") \/ req' = [rq EXCEPT ![r] = "opening"]
    BY <1>4 DEF open_one
  <2> HIDE DEF Kept
  <2> QED BY <1>1, <1>2, <2>1
<1>5. ASSUME turn(r, rq, cs, op, ws) PROVE Owned'
  BY <1>3, <1>4, <1>5, Zenon DEF turn
<1>6. ASSUME after_open(r, rq, cs, op, ws) PROVE Owned'
  BY <1>3, <1>5, <1>6, Zenon DEF after_open
<1> QED BY <1>5, <1>6

\* A step that changes neither the flag nor who is opening keeps the owner.
LEMMA StaysOwned ==
  ASSUME Owned, opening' = opening,
         \A s \in Requests : req[s] = "opening" => req'[s] = "opening"
  PROVE  Owned'
  BY DEF Owned

\* If no opener is dropped, a request waits only while another one is opening
\* a connection, and that one will wake it.
THEOREM WaiterHasOpenerHolds ==
  ASSUME "DROP_OPENER" \notin Inputs
  PROVE  Spec => []WaiterHasOpener
<1>1. Init => Owned
  BY DEF Init, Owned
<1>2. PoolInv /\ Owned /\ [Next]_vars => Owned'
  <2> SUFFICES ASSUME PoolInv, Owned, [Next]_vars PROVE Owned'
    OBVIOUS
  <2>1. /\ req \in [Requests -> RequestStates] /\ opening \in BOOLEAN
        /\ Flags(req, opening, open_waiters)
    BY DEF PoolInv, TypeOK
  <2>2. ASSUME NEW r \in Requests, Request(r) PROVE Owned'
    <3>1. OwnedBeside(r, req, opening)
      BY <2>2 DEF Request, Owned, OwnedBeside
    <3>2. turn(r, req, conns, opening, open_waiters)
      BY <2>2 DEF Request
    <3> QED BY <2>1, <3>1, <3>2, TurnOwned, Zenon
  <2>3. ASSUME NEW r \in Requests, Resume(r) PROVE Owned'
    <3>1. OwnedBeside(r, req, opening)
      BY <2>3 DEF Resume, Owned, OwnedBeside
    <3>2. after_open(r, req, conns, opening, open_waiters)
      BY <2>3 DEF Resume
    <3> QED BY <2>1, <3>1, <3>2, TurnOwned, Zenon
  <2>4. ASSUME NEW r \in Requests, OpenSucceeds(r) PROVE Owned'
    <3>1. OwnedBeside(r, woken_waiters, FALSE)
      BY DEF OwnedBeside
    <3>2. after_open(r, woken_waiters, conns \union {opened + 1}, FALSE, {})
      BY <2>4, Zenon DEF OpenSucceeds
    <3>3. woken_waiters \in [Requests -> RequestStates] /\ FALSE \in BOOLEAN
      BY <2>1 DEF woken_waiters, RequestStates
    <3> QED BY <3>1, <3>2, <3>3, TurnOwned, Zenon
  <2>5. ASSUME NEW r \in Requests, OpenFails(r) PROVE Owned'
    BY <2>5 DEF OpenFails, open_failed, Owned
  <2>6. ASSUME NEW r \in Requests, StreamEnds(r) \/ SlotFrees(r) PROVE Owned'
    BY <2>1, <2>6, StaysOwned DEF StreamEnds, SlotFrees, pool_vars
  <2>7. ASSUME NEW c \in Conns, SettingsArrive(c) \/ ConnectionLost(c) \/ GoAway(c)
        PROVE Owned'
    BY <2>1, <2>7, StaysOwned
       DEF SettingsArrive, ConnectionLost, GoAway, failed_on, pool_vars, task_vars
  <2>8. CASE FactoryConnects \/ Close \/ UNCHANGED vars
    BY <2>1, <2>8, StaysOwned
       DEF FactoryConnects, Close, failed_on, vars, pool_vars, task_vars
  <2>9. ASSUME NEW r \in Requests, RequestCancelled(r) PROVE Owned'
    <3>1. req[r] # "opening" /\ opening' = opening /\ req' = [req EXCEPT ![r] = "cancelled"]
      BY <2>9 DEF RequestCancelled, pool_vars
    <3> QED BY <2>1, <3>1, StaysOwned
  <2> QED BY <2>2, <2>3, <2>4, <2>5, <2>6, <2>7, <2>8, <2>9 DEF Next
<1>3. PoolInv /\ Owned => WaiterHasOpener
  BY DEF PoolInv, Flags, Owned, WaiterHasOpener
<1> QED BY <1>1, <1>2, <1>3, PoolInvariant, PTL DEF Spec

-----------------------------------------------------------------------------

\* What r is newly issued on is not known to be dead.
RoutesToOpen(r) ==
    \A s \in Requests : route'[s] # route[s] => s = r /\ status[route'[s]] # "closed"

\* Issuing r moves the route of r alone, and to the connection it is issued on.
LEMMA IssueRoutes ==
  ASSUME TypeOK, NEW r \in Requests, NEW c, NEW rq, ~is_closed(c), issue(r, c, rq)
  PROVE  RoutesToOpen(r)
<1>1. route \in [Requests -> 0..MaxConns] /\ route' = [route EXCEPT ![r] = c]
  BY DEF TypeOK, issue
<1>2. status[c] # "closed"
  BY DEF is_closed
<1> QED BY <1>1, <1>2 DEF RoutesToOpen

\* A turn of the loop issues a request only on a connection that it retained,
\* the oldest one at the cap included.
LEMMA TurnRoutes ==
  ASSUME TypeOK, NEW r \in Requests, NEW cs \in SUBSET Conns, NEW rq, NEW op, NEW ws,
         turn(r, rq, cs, op, ws)
  PROVE  RoutesToOpen(r)
<1> DEFINE kept == retain(cs)
<1>1. kept \in SUBSET Conns /\ \A c \in kept : ~is_closed(c)
  BY DEF retain
<1>2. CASE chosen(kept) # 0 /\ issue(r, chosen(kept), rq)
  <2> HIDE DEF kept
  <2>1. ready(kept) \in SUBSET kept /\ ready(kept) \in SUBSET Conns
    BY <1>1 DEF ready
  <2>2. chosen(kept) \in kept
    <3>1. CASE ready(kept) # {}
      BY <3>1, <2>1, Ends DEF chosen
    <3>2. CASE ready(kept) = {} /\ at_cap(kept)
      BY <3>2, <1>1, Ends DEF chosen, at_cap
    <3> QED BY <3>1, <3>2, <1>2 DEF chosen
  <2> QED BY <1>1, <1>2, <2>2, IssueRoutes
<1>3. CASE UNCHANGED route
  BY <1>3 DEF RoutesToOpen
<1> QED BY <1>2, <1>3 DEF turn

\* So does what a request does after open_one: it parks on the newest
\* connection only while that one is up.
LEMMA AfterOpenRoutes ==
  ASSUME TypeOK, NEW r \in Requests, NEW cs \in SUBSET Conns, NEW rq, NEW op, NEW ws,
         after_open(r, rq, cs, op, ws)
  PROVE  RoutesToOpen(r)
<1>1. CASE turn(r, rq, cs, op, ws)
  BY <1>1, TurnRoutes
<1>2. CASE ~is_closed(last(cs)) /\ issue(r, last(cs), rq)
  BY <1>2, IssueRoutes
<1> QED BY <1>1, <1>2 DEF after_open

\* A request is never issued on a connection that is known to be dead, although
\* connections die while requests wait for an open (request retains the live
\* ones in the same turn in which it issues, and tests the newest again).
THEOREM RoutedToOpenHolds == Spec => RoutedToOpen
<1> DEFINE Safe == \A r \in Requests : route'[r] # route[r] => status'[route'[r]] # "closed"
<1>1. PoolInv /\ [Next]_vars => [Safe]_vars
  <2> SUFFICES ASSUME PoolInv, Next PROVE Safe
    OBVIOUS
  <2>1. TypeOK /\ conns \in SUBSET Conns /\ opened \in 0..MaxConns
    BY DEF PoolInv, TypeOK
  <2>2. ASSUME NEW r \in Requests, RoutesToOpen(r), UNCHANGED status PROVE Safe
    BY <2>2 DEF RoutesToOpen
  <2>3. ASSUME NEW r \in Requests, Request(r) PROVE Safe
    <3>1. turn(r, req, conns, opening, open_waiters) /\ UNCHANGED status
      BY <2>3 DEF Request, conn_vars
    <3> HIDE DEF Safe
    <3> QED BY <2>1, <2>2, <3>1, TurnRoutes
  <2>4. ASSUME NEW r \in Requests, Resume(r) PROVE Safe
    <3>1. after_open(r, req, conns, opening, open_waiters) /\ UNCHANGED status
      BY <2>4 DEF Resume, conn_vars
    <3> HIDE DEF Safe
    <3> QED BY <2>1, <2>2, <3>1, AfterOpenRoutes
  <2>5. ASSUME NEW r \in Requests, OpenSucceeds(r) PROVE Safe
    <3> DEFINE cs == conns \union {opened + 1}
    <3>1. /\ connected /\ UNCHANGED conn_vars
          /\ after_open(r, woken_waiters, cs, FALSE, {})
      BY <2>5, Zenon DEF OpenSucceeds
    <3>2. cs \in SUBSET Conns
      BY <2>1, <3>1 DEF connected, Conns
    <3>3. UNCHANGED status
      BY <3>1 DEF conn_vars
    <3> HIDE DEF Safe, cs
    <3>4. RoutesToOpen(r)
      BY <2>1, <3>1, <3>2, AfterOpenRoutes
    <3> QED BY <2>2, <3>3, <3>4
  <2>6. CASE UNCHANGED route
    BY <2>6
  <2>7. ASSUME NEW r \in Requests,
               OpenFails(r) \/ RequestCancelled(r) \/ StreamEnds(r) \/ SlotFrees(r)
        PROVE  Safe
    <3>1. UNCHANGED route
      BY <2>7 DEF OpenFails, RequestCancelled, StreamEnds, SlotFrees
    <3> QED BY <2>6, <3>1
  <2>8. ASSUME NEW c \in Conns, SettingsArrive(c) \/ ConnectionLost(c) \/ GoAway(c)
        PROVE  Safe
    <3>1. UNCHANGED route
      BY <2>8 DEF SettingsArrive, ConnectionLost, GoAway, task_vars
    <3> QED BY <2>6, <3>1
  <2>9. CASE FactoryConnects \/ Close
    <3>1. UNCHANGED route
      BY <2>9 DEF FactoryConnects, Close, task_vars
    <3> QED BY <2>6, <3>1
  <2> HIDE DEF Safe
  <2> QED BY <2>3, <2>4, <2>5, <2>7, <2>8, <2>9 DEF Next
<1>2. Spec => [][Safe]_vars
  BY <1>1, PoolInvariant, PTL DEF Spec
<1> QED BY <1>2 DEF RoutedToOpen
=============================================================================

--------------------------- MODULE WsBridgeProofs ---------------------------
(***************************************************************************)
(* Proofs about the WebSocket bridge, for every scenario, batch size and   *)
(* keep-alive: neither data nor a second Close follows a Close, and the    *)
(* bridge implements the byte tunnel.                                      *)
(***************************************************************************)
EXTENDS WsBridge, Iteration, FiniteSetTheorems, SequenceTheorems, TLAPS

-----------------------------------------------------------------------------
(* The data frames of a sequence, and their ranks *)

LEMMA RankFinite ==
    ASSUME NEW at, IsFiniteSet(at)
    PROVE  \A i : /\ IsFiniteSet({j \in at : j <= i})
                  /\ Rank(i, at) \in Nat /\ Rank(i, at) <= Cardinality(at)
<1> TAKE i
<1>1. {j \in at : j <= i} \in SUBSET at
  OBVIOUS
<1> QED BY <1>1, FS_Subset, FS_CardinalityType DEF Rank

\* From one place to the next the rank grows by one, if the place counts.
LEMMA RankStep ==
    ASSUME NEW at \in SUBSET (Nat \ {0}), IsFiniteSet(at), NEW c \in Nat
    PROVE  Rank(c + 1, at) = IF c + 1 \in at THEN Rank(c, at) + 1 ELSE Rank(c, at)
<1> DEFINE low == {j \in at : j <= c}
           high == {j \in at : j <= c + 1}
<1> \A j \in at : j \in Nat
  OBVIOUS
<1>1. IsFiniteSet(low)
  BY RankFinite
<1>2. CASE c + 1 \in at
  <2>0. \A j \in at : j <= c + 1 <=> j <= c \/ j = c + 1
    OBVIOUS
  <2>1. high = low \union {c + 1}
    BY <1>2, <2>0, c + 1 <= c + 1, Zenon
  <2>3. c + 1 \notin low
    OBVIOUS
  <2>2. Cardinality(low \union {c + 1}) = Cardinality(low) + 1
    BY <1>1, <2>3, FS_AddElement
  <2> QED BY <1>2, <2>1, <2>2 DEF Rank
<1>3. CASE c + 1 \notin at
  <2>0. \A j \in at : j <= c + 1 <=> j <= c
    BY <1>3
  <2>1. high = low
    BY <2>0, Zenon
  <2> QED BY <1>3, <2>1 DEF Rank
<1> QED BY <1>2, <1>3

\* Every rank up to the number of the places is taken.
LEMMA RankOnto ==
    ASSUME NEW at, NEW m \in Nat, at \subseteq 1..m, NEW k \in 1..Cardinality(at)
    PROVE  \E i \in at : Rank(i, at) = k
<1>0. \A j \in at : j \in Nat /\ 0 < j /\ j <= m
  OBVIOUS
<1>1. IsFiniteSet(at)
  <2>1. IsFiniteSet(1..m)
    BY FS_Interval
  <2> QED BY <2>1, FS_Subset
<1>2. at \in SUBSET (Nat \ {0}) /\ Cardinality(at) \in Nat
  BY <1>1, FS_CardinalityType
<1> DEFINE C == {c \in Nat : k <= Rank(c, at)}
<1>3. m \in C
  <2>1. {j \in at : j <= m} = at
    BY <1>0
  <2> QED BY <2>1 DEF Rank
<1>4. PICK c \in C : \A d \in C : c <= d
  BY <1>3, LeastNat
<1>5. c # 0
  <2>0. \A j \in at : ~(j <= 0)
    BY <1>0
  <2>1. {j \in at : j <= 0} = {}
    BY <2>0, Zenon
  <2>2. Rank(0, at) = 0
    BY <2>1, FS_EmptySet DEF Rank
  <2> QED BY <2>2
<1>6. c - 1 \in Nat /\ ~(k <= Rank(c - 1, at))
  BY <1>4, <1>5
<1>7. Rank(c, at) = IF c \in at THEN Rank(c - 1, at) + 1 ELSE Rank(c - 1, at)
  <2>1. Rank((c - 1) + 1, at) = IF (c - 1) + 1 \in at THEN Rank(c - 1, at) + 1 ELSE Rank(c - 1, at)
    BY <1>1, <1>2, <1>6, RankStep
  <2>2. (c - 1) + 1 = c
    OBVIOUS
  <2> QED BY <2>1, <2>2
<1>8. Rank(c - 1, at) \in Nat /\ Rank(c, at) \in Nat
  BY <1>1, RankFinite
<1>9. k <= Rank(c, at)
  BY <1>4
<1> HIDE DEF C
<1>10. c \in at /\ Rank(c, at) = k
  BY <1>6, <1>7, <1>8, <1>9
<1> QED BY <1>10

LEMMA PlacesFinite ==
    ASSUME NEW S, NEW s \in Seq(S), NEW op
    PROVE  /\ Places(s, op) \subseteq 1..Len(s)
           /\ Places(s, op) \in SUBSET (Nat \ {0})
           /\ IsFiniteSet(Places(s, op))
           /\ Cardinality(Places(s, op)) \in Nat
<1>1. Places(s, op) \subseteq 1..Len(s)
  BY DEF Places
<1>2. IsFiniteSet(1..Len(s))
  BY FS_Interval
<1> QED BY <1>1, <1>2, FS_Subset, FS_CardinalityType

\* The numbers of the data frames are as many as the data frames.
LEMMA NumbersOf ==
    ASSUME NEW S, NEW s \in Seq(S)
    PROVE  LET at == Places(s, "data") IN
           /\ DOMAIN Numbers(s) = 1..Cardinality(at)
           /\ \A k \in 1..Cardinality(at) :
                 \E i \in at : Rank(i, at) = k /\ Numbers(s)[k] = s[i].n
           /\ Numbers(s) = [k \in 1..Cardinality(at) |-> Numbers(s)[k]]
<1> DEFINE at == Places(s, "data")
           pick(k) == CHOOSE i \in at : Rank(i, at) = k
<1>1. ASSUME NEW k \in 1..Cardinality(at)
      PROVE  pick(k) \in at /\ Rank(pick(k), at) = k
  <2>1. \E i \in at : Rank(i, at) = k
    BY PlacesFinite, RankOnto
  <2> QED BY <2>1
<1>2. Numbers(s) = [k \in 1..Cardinality(at) |-> s[pick(k)].n]
  BY DEF Numbers
<1>3. \A k \in 1..Cardinality(at) : Numbers(s)[k] = s[pick(k)].n
  BY <1>2
<1>4. DOMAIN Numbers(s) = 1..Cardinality(at)
  BY <1>2
<1>5. Numbers(s) = [k \in 1..Cardinality(at) |-> Numbers(s)[k]]
  BY <1>2
<1> HIDE DEF at, pick
<1>6. \A k \in 1..Cardinality(at) :
         \E i \in at : Rank(i, at) = k /\ Numbers(s)[k] = s[i].n
  BY <1>1, <1>3
<1> QED BY <1>4, <1>5, <1>6 DEF at

LEMMA NumbersType ==
    ASSUME NEW S, NEW s \in Seq(S), NEW T, \A i \in Places(s, "data") : s[i].n \in T
    PROVE  /\ Numbers(s) \in Seq(T)
           /\ Len(Numbers(s)) = Cardinality(Places(s, "data"))
<1> DEFINE m == Cardinality(Places(s, "data"))
<1>1. m \in Nat
  BY PlacesFinite
<1>2. \A k \in 1..m : Numbers(s)[k] \in T
  BY NumbersOf
<1>3. Numbers(s) = [k \in 1..m |-> Numbers(s)[k]]
  BY NumbersOf
<1> HIDE DEF m
<1>4. Numbers(s) \in [1..m -> T]
  BY <1>2, <1>3
<1>5. Numbers(s) \in Seq(T) /\ Len(Numbers(s)) = m
  BY <1>1, <1>4
<1> QED BY <1>5 DEF m

-----------------------------------------------------------------------------
(* Frames, and what wslay makes of a batch *)

closing(fs) == Ops(fs) \cap CloseOps # {}
pongs(fs) == Ops(fs) \subseteq {"pong"}

LEMMA OpsOf ==
    ASSUME NEW S, NEW s \in Seq(S)
    PROVE  /\ \A f \in S : Ops(Append(s, f)) = Ops(s) \union {f.op}
           /\ \A i \in 1..Len(s) : s[i].op \in Ops(s)
           /\ s # <<>> => Head(s).op \in Ops(s) /\ Ops(Tail(s)) \subseteq Ops(s)
<1>1. \A i \in 1..Len(s) : s[i].op \in Ops(s)
  BY DEF Ops
<1>2. ASSUME NEW f \in S PROVE Ops(Append(s, f)) = Ops(s) \union {f.op}
  <2>1. /\ DOMAIN Append(s, f) = DOMAIN s \union {Len(s) + 1}
        /\ \A i \in DOMAIN s : Append(s, f)[i] = s[i]
        /\ Append(s, f)[Len(s) + 1] = f
    OBVIOUS
  <2> QED BY <2>1, Zenon DEF Ops
<1>3. ASSUME s # <<>> PROVE Head(s).op \in Ops(s) /\ Ops(Tail(s)) \subseteq Ops(s)
  <2>1. 1 \in DOMAIN s /\ Head(s) = s[1]
    BY <1>3
  <2>2. \A i \in DOMAIN Tail(s) : i + 1 \in DOMAIN s /\ Tail(s)[i] = s[i + 1]
    BY <1>3
  <2>3. Head(s).op \in Ops(s)
    BY <2>1 DEF Ops
  <2>4. Ops(Tail(s)) \subseteq Ops(s)
    BY <2>2 DEF Ops
  <2> QED BY <2>3, <2>4
<1> QED BY <1>1, <1>2, <1>3

LEMMA TailOf ==
    ASSUME NEW S, NEW s \in Seq(S), s # <<>>
    PROVE  /\ Len(s) \in Nat /\ Len(s) >= 1 /\ 1 \in DOMAIN s /\ Head(s) = s[1] /\ Head(s) \in S
           /\ \A i \in DOMAIN s : i \in Nat /\ i >= 1 /\ s[i] \in S
           /\ Tail(s) \in Seq(S)
           /\ \A i \in DOMAIN Tail(s) : i \in Nat /\ i >= 1 /\ i + 1 \in DOMAIN s /\ Tail(s)[i] = s[i + 1]
           /\ \A i \in DOMAIN s : i # 1 => i - 1 \in DOMAIN Tail(s) /\ Tail(s)[i - 1] = s[i]
           /\ Len(s) = 1 => Tail(s) = <<>>
           /\ Len(s) > 1 => Tail(s) # <<>>
<1>1. /\ Len(s) \in Nat /\ Len(s) >= 1 /\ 1 \in DOMAIN s /\ Head(s) = s[1] /\ Head(s) \in S
      /\ DOMAIN s = 1..Len(s)
  OBVIOUS
<1>2. /\ Tail(s) \in Seq(S) /\ Len(Tail(s)) = Len(s) - 1
      /\ \A i \in 1..Len(Tail(s)) : Tail(s)[i] = s[i + 1]
  BY HeadTailProperties
<1>3. DOMAIN Tail(s) = 1..(Len(s) - 1)
  BY <1>1, <1>2
<1>4. \A i \in DOMAIN s : i \in Nat /\ i >= 1 /\ s[i] \in S
  BY <1>1
<1>5. \A i \in DOMAIN Tail(s) : i \in Nat /\ i >= 1 /\ i + 1 \in DOMAIN s /\ Tail(s)[i] = s[i + 1]
  BY <1>1, <1>2, <1>3
<1>6. ASSUME NEW i \in DOMAIN s, i # 1 PROVE i - 1 \in DOMAIN Tail(s) /\ Tail(s)[i - 1] = s[i]
  <2>1. i - 1 \in 1..(Len(s) - 1) /\ (i - 1) + 1 = i
    BY <1>1, <1>6
  <2> QED BY <1>3, <1>5, <2>1
<1>7. Len(s) = 1 => Tail(s) = <<>>
  <2>1. Len(s) = 1 => Len(Tail(s)) = 0
    BY <1>2
  <2>2. Len(Tail(s)) = 0 => Tail(s) = <<>>
    BY <1>2, EmptySeq
  <2> QED BY <2>1, <2>2
<1>8. Len(s) > 1 => Tail(s) # <<>>
  BY <1>1, <1>2
<1> QED BY <1>1, <1>2, <1>4, <1>5, <1>6, <1>7, <1>8

LEMMA OpsSmall ==
    /\ Ops(<<>>) = {}
    /\ \A f : Ops(<<f>>) = {f.op}
BY DEF Ops

LEMMA QueueFacts ==
    ASSUME NEW f
    PROVE  /\ "CLOSE_QUEUED" \in ctx => queue(f) = <<>>
           /\ "CLOSE_QUEUED" \notin ctx => queue(f) = <<f>>
           /\ Ops(queue(f)) \subseteq {f.op}
           /\ f.op \in CloseOps => "CLOSE_QUEUED" \in queued(f.op)
           /\ f.op \notin CloseOps => queued(f.op) = {}
           /\ queued(f.op) \subseteq {"CLOSE_QUEUED"}
           /\ closing(queue(f)) => Len(queue(f)) = 1
<1>1. Len(<<f>>) = 1
  OBVIOUS
<1> QED BY <1>1, OpsSmall DEF queue, queued, closing

Stops == {"close", "bad", "garbled"}

\* wslay consumes a prefix of the batch: all of it, or up to the first frame
\* that stops it.
LEMMA ParsedOf ==
    ASSUME NEW S, NEW b \in Seq(S)
    PROVE  \E q \in 0..Len(b) :
              /\ parsed(b) = SubSeq(b, 1, q)
              /\ "READ_DISABLED" \in ctx => q = 0
              /\ "READ_DISABLED" \notin ctx =>
                   \/ q = Len(b) /\ \A i \in DOMAIN b : b[i].op \notin Stops
                   \/ /\ q \in DOMAIN b /\ b[q].op \in Stops
                      /\ \A i \in DOMAIN b : i < q => b[i].op \notin Stops
<1> DEFINE stops == {i \in DOMAIN b : b[i].op \in Stops}
<1>1. Len(b) \in Nat /\ DOMAIN b = 1..Len(b)
  OBVIOUS
<1>2. CASE "READ_DISABLED" \in ctx
  <2>1. parsed(b) = <<>>
    BY <1>2 DEF parsed
  <2>2. SubSeq(b, 1, 0) = <<>>
    BY SubSeqEmpty
  <2> WITNESS 0 \in 0..Len(b)
  <2> QED BY <1>2, <2>1, <2>2
<1>3. CASE "READ_DISABLED" \notin ctx /\ stops = {}
  <2>1. parsed(b) = b
    BY <1>3 DEF parsed, Stops
  <2>2. SubSeq(b, 1, Len(b)) = b
    BY SubSeqFull
  <2> WITNESS Len(b) \in 0..Len(b)
  <2> QED BY <1>3, <2>1, <2>2
<1>4. CASE "READ_DISABLED" \notin ctx /\ stops # {}
  <2> DEFINE q == CHOOSE i \in stops : \A j \in stops : i <= j
  <2>1. parsed(b) = SubSeq(b, 1, q)
    BY <1>4 DEF parsed, Stops
  <2>2. stops \in SUBSET Nat
    BY <1>1
  <2>3. \E i \in stops : \A j \in stops : i <= j
    BY <1>4, <2>2, LeastNat
  <2>4. q \in stops /\ \A j \in stops : q <= j
    BY <2>3
  <2> HIDE DEF q
  <2>5. q \in 1..Len(b) /\ b[q].op \in Stops
    BY <1>1, <2>4
  <2>6. \A i \in DOMAIN b : i < q => b[i].op \notin Stops
    BY <1>1, <2>4, <2>5
  <2> HIDE DEF stops
  <2>7. q \in 0..Len(b) /\ q \in DOMAIN b
    BY <1>1, <2>5
  <2> WITNESS q \in 0..Len(b)
  <2> QED BY <1>4, <2>1, <2>5, <2>6, <2>7
<1> QED BY <1>2, <1>3, <1>4

LEMMA ParsedPrefix ==
    ASSUME NEW S, NEW b \in Seq(S)
    PROVE  /\ parsed(b) \in Seq(S)
           /\ Len(parsed(b)) <= Len(b)
           /\ \A i \in 1..Len(parsed(b)) : parsed(b)[i] = b[i]
<1>1. PICK q \in 0..Len(b) : parsed(b) = SubSeq(b, 1, q)
  BY ParsedOf
<1>2. \A i \in 1..q : b[i] \in S
  BY <1>1
<1>3. /\ SubSeq(b, 1, q) \in Seq(S)
      /\ Len(SubSeq(b, 1, q)) = IF 1 <= q THEN q - 1 + 1 ELSE 0
      /\ \A i \in 1 .. q - 1 + 1 : SubSeq(b, 1, q)[i] = b[1 + i - 1]
  BY <1>2, SubSeqProperties
<1> QED BY <1>1, <1>3

Answers == {"pong", "echo", "protocol"}

LEMMA RepliesOf ==
    ASSUME NEW S, NEW p \in Seq(S)
    PROVE  /\ replies(p) \in Seq({Frame(op) : op \in Answers})
           /\ Ops(replies(p)) \subseteq Answers
           /\ "CLOSE_QUEUED" \in ctx => replies(p) = <<>>
           /\ closing(replies(p)) => Len(replies(p)) = 1 /\ "CLOSE_QUEUED" \in recv_flags(p)
           /\ ~closing(replies(p)) => pongs(replies(p))
<1> DEFINE F == {Frame(op) : op \in Answers}
           m == Cardinality(Places(p, "ping"))
           ps == [i \in 1..m |-> Frame("pong")]
<1>0. Frame("pong") \in F /\ Frame("echo") \in F /\ Frame("protocol") \in F
  BY DEF Answers
<1>1. CASE replies(p) = <<>>
  BY <1>1, OpsSmall DEF closing, pongs
<1>2. CASE "CLOSE_QUEUED" \notin ctx /\ "close" \in Ops(p)
  <2>1. replies(p) = <<Frame("echo")>> /\ "CLOSE_QUEUED" \in recv_flags(p)
    BY <1>2 DEF replies, recv_flags
  <2>2. Ops(replies(p)) = {"echo"}
    BY <2>1, OpsSmall DEF Frame
  <2>3. Len(replies(p)) = 1 /\ replies(p) \in Seq(F)
    BY <1>0, <2>1
  <2> QED BY <1>2, <2>1, <2>2, <2>3 DEF closing, pongs, CloseOps, Answers
<1>3. CASE "CLOSE_QUEUED" \notin ctx /\ "close" \notin Ops(p) /\ Ops(p) \cap {"bad", "garbled"} # {}
  <2>1. replies(p) = <<Frame("protocol")>> /\ "CLOSE_QUEUED" \in recv_flags(p)
    BY <1>3 DEF replies, recv_flags
  <2>2. Ops(replies(p)) = {"protocol"}
    BY <2>1, OpsSmall DEF Frame
  <2>3. Len(replies(p)) = 1 /\ replies(p) \in Seq(F)
    BY <1>0, <2>1
  <2> QED BY <1>3, <2>1, <2>2, <2>3 DEF closing, pongs, CloseOps, Answers
<1>4. CASE "CLOSE_QUEUED" \notin ctx /\ "close" \notin Ops(p) /\ Ops(p) \cap {"bad", "garbled"} = {}
  <2>1. replies(p) = ps
    BY <1>4 DEF replies
  <2>2. m \in Nat
    BY PlacesFinite
  <2>3. ps \in Seq(F)
    BY <1>0, <2>2
  <2>4. \A i \in DOMAIN ps : ps[i].op = "pong"
    BY DEF Frame
  <2>5. Ops(ps) \subseteq {"pong"}
    BY <2>4 DEF Ops
  <2> QED BY <1>4, <2>1, <2>3, <2>5 DEF closing, pongs, CloseOps, Answers
<1>5. "CLOSE_QUEUED" \in ctx => replies(p) = <<>>
  BY DEF replies
<1> QED BY <1>1, <1>2, <1>3, <1>4, <1>5

-----------------------------------------------------------------------------
(* Types, and the turns of the directions *)

\* The frames the ws direction took and holds back while it writes upstream.
held == IF pc["ws"] = "to_peer" THEN after.out ELSE <<>>

\* A direction is writing when it has frames, and then it is in the queue, once.
\* A Close is taken alone.
Turns ==
    /\ \A d \in Directions : pc[d] = "writing" <=> out[d] # <<>>
    /\ \A d \in Directions : pc[d] = "writing" => \E i \in DOMAIN lock : lock[i] = d
    /\ \A i \in DOMAIN lock : pc[lock[i]] = "writing"
    /\ \A i, j \in DOMAIN lock : lock[i] = lock[j] => i = j
    /\ \A d \in Directions : closing(out[d]) => Len(out[d]) = 1

\* What the ws direction is in the middle of.
Holding ==
    /\ closing(held) => Len(held) = 1
    /\ pc["ws"] = "to_peer" /\ ended = "running" => to_peer # <<>>
    /\ \A i \in Places(ws_in, "data") : ws_in[i].n \in 1..MaxClientData

TypeInv == TypeOK /\ Turns /\ Holding

LEMMA FrameTypes ==
    ASSUME TypeOK
    PROVE  /\ scenario \in [inputs : SUBSET EventKinds, client : Nat, upstream : Nat]
           /\ MaxClientData \in Nat /\ MaxUpstream \in Nat
           /\ \A op \in {"data", "ping", "pong"} \union CloseOps : Frame(op) \in Frames
           /\ \A k \in 0..MaxUpstream : Data(k) \in Frames
           /\ \A op \in {"ping", "pong"} \union Stops : Frame(op) \in ClientFrames
           /\ \A k \in 0..MaxClientData : Data(k) \in ClientFrames
<1>1. /\ scenario \in [inputs : SUBSET EventKinds, client : Nat, upstream : Nat]
      /\ MaxClientData \in Nat /\ MaxUpstream \in Nat
  BY BridgeAssumption DEF TypeOK, MaxClientData, MaxUpstream
<1>2. 0 \in 0..MaxUpstream /\ 0 \in 0..MaxClientData
  BY <1>1
<1> QED BY <1>1, <1>2 DEF Frames, ClientFrames, Frame, Data, Stops

LEMMA FrameOps ==
    /\ \A op : Frame(op).op = op
    /\ \A k : Data(k).op = "data" /\ Data(k).n = k
BY DEF Frame, Data

\* What a direction that is not in the queue leaves behind when it has written,
\* queued or dropped its frames.
LEMMA WriteThen ==
    ASSUME TypeOK, Turns, NEW d \in Directions, pc[d] # "writing",
           NEW fs \in Seq(Frames), closing(fs) => Len(fs) = 1,
           NEW fin \in EndReasons \union {"none"}, NEW next \in {"ready", "waiting", "to_peer"},
           write_then(d, fs, fin, next), scenario' = scenario
    PROVE  /\ pc' \in [Directions -> {"ready", "writing", "to_peer", "waiting"}]
           /\ out' \in [Directions -> Seq(Frames)]
           /\ finish' \in [Directions -> EndReasons \union {"none"}]
           /\ lock' \in Seq(Directions)
           /\ ended' \in EndReasons \union {"running"}
           /\ Turns'
           /\ \A e \in Directions : e # d => pc'[e] = pc[e] /\ out'[e] = out[e]
           /\ pc'[d] = "to_peer" => next = "to_peer" \/ (ended' # "running" /\ pc' = pc)
<1>0. /\ pc \in [Directions -> {"ready", "writing", "to_peer", "waiting"}]
      /\ out \in [Directions -> Seq(Frames)]
      /\ finish \in [Directions -> EndReasons \union {"none"}]
      /\ lock \in Seq(Directions)
      /\ ended \in EndReasons \union {"running"}
  BY DEF TypeOK
<1>1. CASE /\ fs # <<>>
           /\ out' = [out EXCEPT ![d] = fs]
           /\ finish' = [finish EXCEPT ![d] = fin]
           /\ pc' = [pc EXCEPT ![d] = "writing"]
           /\ lock' = Append(lock, d)
           /\ UNCHANGED ended
  <2>1. /\ \A i \in DOMAIN lock : lock'[i] = lock[i] /\ lock[i] # d /\ i \in 1..Len(lock)
        /\ lock'[Len(lock) + 1] = d
        /\ DOMAIN lock' = DOMAIN lock \union {Len(lock) + 1}
        /\ \A i \in DOMAIN lock : lock[i] \in Directions
    <3>1. /\ \A i \in DOMAIN lock : lock[i] \in Directions /\ i \in 1..Len(lock)
          /\ Len(lock) \in Nat
      BY <1>0
    <3>2. \A i \in DOMAIN lock : lock[i] # d
      BY <3>1 DEF Turns
    <3>3. /\ \A i \in DOMAIN lock : lock'[i] = lock[i]
          /\ lock'[Len(lock) + 1] = d
          /\ DOMAIN lock' = DOMAIN lock \union {Len(lock) + 1}
      BY <1>0, <1>1
    <3> QED BY <3>1, <3>2, <3>3
  <2>2. \A e \in Directions : e # d => pc'[e] = pc[e] /\ out'[e] = out[e]
    BY <1>0, <1>1
  <2>3. pc'[d] = "writing" /\ out'[d] = fs
    BY <1>0, <1>1
  <2>4. Turns'
    <3>1. \A e \in Directions : pc'[e] = "writing" <=> out'[e] # <<>>
      BY <1>1, <2>2, <2>3 DEF Turns
    <3>2. \A e \in Directions : pc'[e] = "writing" => \E i \in DOMAIN lock' : lock'[i] = e
      BY <2>1, <2>2, <2>3 DEF Turns
    <3>3. \A i \in DOMAIN lock' : pc'[lock'[i]] = "writing"
      BY <2>1, <2>2, <2>3 DEF Turns
    <3>4. \A i, j \in DOMAIN lock' : lock'[i] = lock'[j] => i = j
      BY <2>1 DEF Turns
    <3>5. \A e \in Directions : closing(out'[e]) => Len(out'[e]) = 1
      BY <2>2, <2>3 DEF Turns
    <3> QED BY <3>1, <3>2, <3>3, <3>4, <3>5 DEF Turns, closing, Ops
  <2> QED BY <1>0, <1>1, <2>2, <2>3, <2>4
<1>2. CASE /\ fs = <<>> /\ fin = "none"
           /\ pc' = [pc EXCEPT ![d] = next]
           /\ UNCHANGED <<out, finish, lock, ended>>
  <2>1. \A e \in Directions : e # d => pc'[e] = pc[e]
    BY <1>0, <1>2
  <2>2. pc'[d] = next
    BY <1>0, <1>2
  <2>3. \A i \in DOMAIN lock : lock[i] # d /\ lock[i] \in Directions
    BY <1>0 DEF Turns
  <2>4. Turns'
    <3>1. \A e \in Directions : pc'[e] = "writing" <=> out'[e] # <<>>
      BY <1>2, <2>1, <2>2 DEF Turns
    <3>2. \A e \in Directions : pc'[e] = "writing" => \E i \in DOMAIN lock' : lock'[i] = e
      BY <1>2, <2>1, <2>2 DEF Turns
    <3>3. \A i \in DOMAIN lock' : pc'[lock'[i]] = "writing"
      BY <1>2, <2>1, <2>3 DEF Turns
    <3> QED BY <1>2, <3>1, <3>2, <3>3 DEF Turns, closing, Ops
  <2> QED BY <1>0, <1>2, <2>1, <2>2, <2>4
<1>3. CASE /\ fs = <<>> /\ fin # "none"
           /\ ended' = fin
           /\ UNCHANGED <<pc, out, finish, lock>>
  <2>1. Turns'
    BY <1>3 DEF Turns, closing, Ops
  <2> QED BY <1>0, <1>3, <2>1 DEF EndReasons
<1> QED BY <1>1, <1>2, <1>3 DEF write_then, end, dir_vars

LEMMA TypeInit == Init => TypeInv
<1> SUFFICES ASSUME Init PROVE TypeInv
  OBVIOUS
<1>1. scenario \in [inputs : SUBSET EventKinds, client : Nat, upstream : Nat]
  BY BridgeAssumption DEF Init
<1>2. MaxClientData \in Nat /\ MaxUpstream \in Nat
  BY <1>1 DEF MaxClientData, MaxUpstream
<1>3. \A S : <<>> \in Seq(S)
  OBVIOUS
<1>4. TypeOK
  <2>1. /\ 0 \in 0..MaxClientData /\ 0 \in 0..MaxUpstream /\ 0 \in Nat
        /\ 0 \in 0..Interval /\ 0 \in 0..Timeout
    BY <1>2, BridgeAssumption
  <2>2. /\ pc \in [Directions -> {"ready", "writing", "to_peer", "waiting"}]
        /\ out \in [Directions -> Seq(Frames)]
        /\ finish \in [Directions -> EndReasons \union {"none"}]
        /\ after \in [out : Seq(Frames), finish : EndReasons \union {"none"}]
    BY <1>3 DEF Init
  <2> QED BY <1>3, <2>1, <2>2, Zenon DEF TypeOK, Init
<1>5. Turns
  BY OpsSmall DEF Turns, Init, closing
<1>6. Holding
  BY OpsSmall DEF Holding, Init, closing, held, Places, Directions
<1> QED BY <1>4, <1>5, <1>6 DEF TypeInv

LEMMA ScenarioFixed ==
    ASSUME [Next]_vars
    PROVE  /\ scenario' = scenario
           /\ Frames' = Frames /\ ClientFrames' = ClientFrames
           /\ MaxClientData' = MaxClientData /\ MaxUpstream' = MaxUpstream
<1>1. scenario' = scenario
  BY DEF Next, Bridge, WsToPeer, PeerToWs, Keepalive, Environment, Tick, vars, client_vars,
         WsRead, WsEof, PeerWrite, PeerWriteFails, PeerRead, PeerReadEnds, Control,
         KeepalivePing, KeepaliveAnswered, KeepaliveExpires, WriteFrame, WriteFails,
         ClientData, ClientPing, ClientPong, ClientCloses, ClientErrs, ClientGoes, ClientDies,
         SocketStalls, SocketDrains, UpstreamSends, UpstreamEnds, UpstreamTakes
<1> QED BY <1>1 DEF Frames, ClientFrames, MaxClientData, MaxUpstream

\* A frame is added to ws_in.
LEMMA ClientSends ==
    ASSUME TypeInv, NEW f \in ClientFrames, ws_in' = Append(ws_in, f), scenario' = scenario,
           f.op = "data" => f.n \in 1..MaxClientData
    PROVE  /\ ws_in' \in Seq(ClientFrames)
           /\ \A i \in Places(ws_in', "data") : ws_in'[i].n \in 1..MaxClientData
<1>1. ws_in \in Seq(ClientFrames)
  BY DEF TypeInv, TypeOK
<1>2. /\ \A i \in DOMAIN ws_in : ws_in'[i] = ws_in[i]
      /\ ws_in'[Len(ws_in) + 1] = f
      /\ DOMAIN ws_in' = DOMAIN ws_in \union {Len(ws_in) + 1}
  BY <1>1
<1>3. \A i \in Places(ws_in, "data") : ws_in[i].n \in 1..MaxClientData
  BY DEF TypeInv, Holding
<1> QED BY <1>1, <1>2, <1>3 DEF Places

LEMMA EnvironmentTypes ==
    ASSUME TypeInv, Environment, [Next]_vars PROVE TypeInv'
<1>0. /\ UNCHANGED <<bridge_vars, scenario>>
      /\ Frames' = Frames /\ ClientFrames' = ClientFrames
      /\ MaxClientData' = MaxClientData /\ MaxUpstream' = MaxUpstream
  BY ScenarioFixed
     DEF Environment, ClientData, ClientPing, ClientPong, ClientCloses, ClientErrs, ClientGoes,
         ClientDies, SocketStalls, SocketDrains, UpstreamSends, UpstreamEnds, UpstreamTakes
<1>1. UNCHANGED <<ws_out, up_read, up_got, app_ctl, ctx, inbound, pc, out, finish, lock,
                  to_peer, after, idle, active, waited, ended>>
  BY <1>0 DEF bridge_vars, wslay_vars, dir_vars, ws_vars, time_vars
<1>2. Turns' /\ held' = held
  BY <1>1 DEF TypeInv, Turns, closing, Ops, held
<1>3. /\ MaxClientData \in Nat /\ MaxUpstream \in Nat
      /\ \A op \in {"ping", "pong"} \union Stops : Frame(op) \in ClientFrames
      /\ \A k \in 0..MaxClientData : Data(k) \in ClientFrames
  BY FrameTypes DEF TypeInv
<1>8. stalled' \in BOOLEAN /\ unanswered' \in BOOLEAN
  BY Zenon DEF TypeInv, TypeOK, Environment, ClientData, ClientPing, ClientPong, ClientCloses,
         ClientErrs, ClientGoes, ClientDies, SocketStalls, SocketDrains, UpstreamSends,
         UpstreamEnds, UpstreamTakes
<1>4. /\ client' \in {"up", "closing", "gone", "dead"}
      /\ client_sent' \in 0..MaxClientData /\ client_ctl' \in Nat
      /\ upstream' \in {"open", "eof", "reset"}
      /\ up_sent' \in 0..MaxUpstream
      /\ up_taking' \in {"yes", "full", "broken"}
  <2>1. /\ client \in {"up", "closing", "gone", "dead"}
        /\ client_sent \in 0..MaxClientData /\ client_ctl \in Nat
        /\ upstream \in {"open", "eof", "reset"}
        /\ up_sent \in 0..MaxUpstream
        /\ up_taking \in {"yes", "full", "broken"}
    BY DEF TypeInv, TypeOK
  <2> QED BY <1>3, <2>1 DEF Environment, ClientData, ClientPing, ClientPong, ClientCloses,
         ClientErrs, ClientGoes, ClientDies, SocketStalls, SocketDrains, UpstreamSends,
         UpstreamEnds, UpstreamTakes, client_vars, up_vars
<1>5. /\ ws_in' \in Seq(ClientFrames)
      /\ \A i \in Places(ws_in', "data") : ws_in'[i].n \in 1..MaxClientData
  <2>1. CASE ClientData
    <3>1. /\ client_sent + 1 \in 1..MaxClientData /\ client_sent + 1 \in 0..MaxClientData
          /\ ws_in' = Append(ws_in, Data(client_sent + 1))
      BY <1>3, <2>1 DEF ClientData, TypeInv, TypeOK
    <3> QED BY <1>0, <1>3, <3>1, ClientSends, FrameOps
  <2>2. CASE ClientPing \/ ClientPong \/ ClientCloses \/ \E op \in {"bad", "garbled"} : ClientErrs(op)
    <3>1. PICK op \in {"ping", "pong"} \union Stops : ws_in' = Append(ws_in, Frame(op))
      BY <2>2 DEF ClientPing, ClientPong, ClientCloses, ClientErrs, Stops
    <3>2. op # "data"
      BY DEF Stops
    <3> QED BY <1>0, <1>3, <3>1, <3>2, ClientSends, FrameOps
  <2>3. CASE ws_in' = ws_in
    BY <2>3 DEF TypeInv, TypeOK, Holding
  <2> QED BY <2>1, <2>2, <2>3
       DEF Environment, ClientGoes, ClientDies, SocketStalls, SocketDrains, UpstreamSends,
           UpstreamEnds, UpstreamTakes
<1>6. TypeOK'
  BY <1>0, <1>1, <1>4, <1>5, <1>8 DEF TypeInv, TypeOK
<1>7. Holding'
  BY <1>0, <1>1, <1>2, <1>5 DEF TypeInv, Holding, closing, Ops, Places
<1> QED BY <1>2, <1>6, <1>7 DEF TypeInv

\* A step of a direction other than ws that takes frames.
LEMMA DirectionTypes ==
    ASSUME TypeInv, ended = "running", [Next]_vars,
           NEW d \in Directions \ {"ws"}, pc[d] # "writing",
           NEW fs \in Seq(Frames), closing(fs) => Len(fs) = 1,
           NEW fin \in EndReasons \union {"none"}, NEW next \in {"ready", "waiting"},
           write_then(d, fs, fin, next),
           UNCHANGED <<client_vars, ws_in, socket_vars, up_vars, up_got, inbound, ws_vars>>,
           up_read' \in 0..MaxUpstream, app_ctl' \in Nat, ctx' \subseteq Flags,
           idle' \in 0..Interval, active' \in BOOLEAN, waited' \in 0..Timeout
    PROVE  TypeInv'
<1>0. /\ scenario' = scenario /\ Frames' = Frames /\ ClientFrames' = ClientFrames
      /\ MaxClientData' = MaxClientData /\ MaxUpstream' = MaxUpstream
  BY ScenarioFixed
<1>1. UNCHANGED <<client, client_sent, client_ctl, ws_in, ws_out, unanswered, stalled, upstream,
                  up_sent, up_taking, up_got, inbound, to_peer, after>>
  BY DEF client_vars, socket_vars, up_vars, ws_vars
<1>2. /\ pc' \in [Directions -> {"ready", "writing", "to_peer", "waiting"}]
      /\ out' \in [Directions -> Seq(Frames)]
      /\ finish' \in [Directions -> EndReasons \union {"none"}]
      /\ lock' \in Seq(Directions)
      /\ ended' \in EndReasons \union {"running"}
      /\ Turns'
      /\ \A e \in Directions : e # d => pc'[e] = pc[e]
  BY <1>0, WriteThen DEF TypeInv
<1>3. TypeOK'
  <2>1. /\ scenario' \in Scenarios
        /\ client' \in {"up", "closing", "gone", "dead"}
        /\ client_sent' \in 0..MaxClientData' /\ client_ctl' \in Nat
        /\ ws_in' \in Seq(ClientFrames') /\ ws_out' \in Seq(Frames')
        /\ stalled' \in BOOLEAN /\ unanswered' \in BOOLEAN
    BY <1>0, <1>1 DEF TypeInv, TypeOK
  <2>2. /\ upstream' \in {"open", "eof", "reset"}
        /\ up_sent' \in 0..MaxUpstream' /\ up_got' \in Seq(1..MaxClientData')
        /\ up_taking' \in {"yes", "full", "broken"} /\ inbound' \in Nat
    BY <1>0, <1>1 DEF TypeInv, TypeOK
  <2>3. /\ to_peer' \in Seq(1..MaxClientData')
        /\ after' \in [out : Seq(Frames'), finish : EndReasons \union {"none"}]
    BY <1>0, <1>1 DEF TypeInv, TypeOK
  <2> QED BY <1>0, <1>2, <2>1, <2>2, <2>3, ZenonT(30) DEF TypeOK
<1>4. pc'["ws"] = pc["ws"]
  BY <1>2 DEF Directions
<1>5. held' = held
  BY <1>1, <1>4 DEF held
<1>6. Holding'
  BY <1>0, <1>1, <1>4, <1>5 DEF TypeInv, Holding, Places, closing, Ops
<1> QED BY <1>2, <1>3, <1>6 DEF TypeInv

LEMMA QueueType ==
    ASSUME NEW f \in Frames
    PROVE  queue(f) \in Seq(Frames) /\ (closing(queue(f)) => Len(queue(f)) = 1)
<1>1. queue(f) = <<>> \/ queue(f) = <<f>>
  BY DEF queue
<1>2. <<>> \in Seq(Frames) /\ <<f>> \in Seq(Frames)
  OBVIOUS
<1> QED BY <1>1, <1>2, QueueFacts

LEMMA PeerTypes ==
    ASSUME TypeInv, PeerToWs, [Next]_vars PROVE TypeInv'
<1>0. /\ up_read \in 0..MaxUpstream /\ up_sent \in 0..MaxUpstream /\ ctx \subseteq Flags
      /\ app_ctl \in Nat /\ idle \in 0..Interval /\ waited \in 0..Timeout /\ MaxUpstream \in Nat
  BY FrameTypes DEF TypeInv, TypeOK
<1>1. active \in BOOLEAN
  BY DEF TypeInv, TypeOK
<1>2. "peer" \in Directions \ {"ws"}
  BY DEF Directions
<1>3. ASSUME PeerRead PROVE TypeInv'
  <2>1. up_read + 1 \in 0..MaxUpstream
    BY <1>0, <1>3 DEF PeerRead
  <2>2. Data(up_read + 1) \in Frames
    BY <2>1, FrameTypes DEF TypeInv
  <2>3. /\ ended = "running" /\ pc["peer"] # "writing"
        /\ write_then("peer", queue(Data(up_read + 1)), "none", "ready")
        /\ up_read' = up_read + 1
        /\ UNCHANGED <<client_vars, ws_in, socket_vars, up_vars, up_got, app_ctl, wslay_vars,
                       ws_vars, time_vars>>
    BY <1>3 DEF PeerRead
  <2>4. UNCHANGED <<app_ctl, ctx, inbound, idle, active, waited>>
    BY <2>3 DEF wslay_vars, time_vars
  <2> QED BY <1>0, <1>1, <1>2, <2>1, <2>2, <2>3, <2>4, QueueType, DirectionTypes
<1>4. ASSUME PeerReadEnds PROVE TypeInv'
  <2> DEFINE cf == close_for(upstream)
  <2>1. cf \in {"normal", "error"}
    BY DEF close_for
  <2>2. Frame(cf) \in Frames /\ cf \in EndReasons \union {"none"}
    BY <2>1, FrameTypes DEF TypeInv, CloseOps, EndReasons
  <2>3. /\ ended = "running" /\ pc["peer"] # "writing"
        /\ write_then("peer", queue(Frame(cf)), cf, "ready")
        /\ ctx' = ctx \union queued(cf)
        /\ UNCHANGED <<client_vars, ws_in, socket_vars, up_vars, up_read, up_got, app_ctl, inbound,
                       ws_vars, time_vars>>
    BY <1>4 DEF PeerReadEnds
  <2>4. UNCHANGED <<app_ctl, up_read, inbound, idle, active, waited>> /\ ctx' \subseteq Flags
    BY <1>0, <2>3 DEF time_vars, queued, Flags
  <2> HIDE DEF cf
  <2> QED BY <1>0, <1>1, <1>2, <2>2, <2>3, <2>4, QueueType, DirectionTypes
<1> QED BY <1>3, <1>4 DEF PeerToWs

LEMMA ControlTypes ==
    ASSUME TypeInv, NEW op \in {"ping", "pong", "control"}, Control(op), [Next]_vars
    PROVE  TypeInv'
<1>0. /\ up_read \in 0..MaxUpstream /\ ctx \subseteq Flags
      /\ app_ctl \in Nat /\ idle \in 0..Interval /\ waited \in 0..Timeout
  BY DEF TypeInv, TypeOK
<1>1. active \in BOOLEAN
  BY DEF TypeInv, TypeOK
<1>2. "control" \in Directions \ {"ws"}
  BY DEF Directions
<1>3. Frame(op) \in Frames
  BY FrameTypes DEF TypeInv, CloseOps
<1>4. /\ ended = "running" /\ pc["control"] # "writing"
      /\ write_then("control", queue(Frame(op)), "none", "ready")
      /\ ctx' = ctx \union queued(op)
      /\ app_ctl' = app_ctl + 1
      /\ UNCHANGED <<client_vars, ws_in, socket_vars, up_vars, up_read, up_got, inbound, ws_vars,
                     time_vars>>
  BY DEF Control
<1>5. UNCHANGED <<up_read, inbound, idle, active, waited>> /\ ctx' \subseteq Flags /\ app_ctl' \in Nat
  BY <1>0, <1>4 DEF time_vars, queued, Flags
<1> QED BY <1>0, <1>1, <1>2, <1>3, <1>4, <1>5, QueueType, DirectionTypes

LEMMA KeepaliveTypes ==
    ASSUME TypeInv, Keepalive, [Next]_vars PROVE TypeInv'
<1>0. /\ up_read \in 0..MaxUpstream /\ ctx \subseteq Flags
      /\ app_ctl \in Nat /\ idle \in 0..Interval /\ waited \in 0..Timeout /\ 0 \in 0..Timeout
  BY BridgeAssumption DEF TypeInv, TypeOK
<1>1. active \in BOOLEAN /\ FALSE \in BOOLEAN
  BY DEF TypeInv, TypeOK
<1>2. "keepalive" \in Directions \ {"ws"}
  BY DEF Directions
<1>3. ASSUME KeepalivePing PROVE TypeInv'
  <2>1. Frame("ping") \in Frames
    BY FrameTypes DEF TypeInv
  <2>2. /\ ended = "running" /\ pc["keepalive"] # "writing"
        /\ write_then("keepalive", queue(Frame("ping")), "none", "waiting")
        /\ UNCHANGED <<client_vars, ws_in, socket_vars, up_vars, up_read, up_got, app_ctl,
                       wslay_vars, ws_vars>>
        /\ note_ping \/ UNCHANGED time_vars
    BY <1>3 DEF KeepalivePing
  <2>3. idle' \in 0..Interval /\ waited' \in 0..Timeout
    BY <1>0, <2>2 DEF note_ping, time_vars
  <2>4. active' \in BOOLEAN
    BY <1>1, <2>2, Zenon DEF note_ping, time_vars
  <2>5. UNCHANGED <<app_ctl, up_read, ctx, inbound>>
    BY <2>2 DEF wslay_vars
  <2> QED BY <1>0, <1>2, <2>1, <2>2, <2>3, <2>4, <2>5, QueueType, DirectionTypes
<1>4. ASSUME KeepaliveExpires PROVE TypeInv'
  <2>1. Frame("timeout") \in Frames /\ "timeout" \in EndReasons \union {"none"}
    BY FrameTypes DEF TypeInv, CloseOps, EndReasons
  <2>2. /\ ended = "running" /\ pc["keepalive"] # "writing"
        /\ write_then("keepalive", queue(Frame("timeout")), "timeout", "ready")
        /\ ctx' = ctx \union queued("timeout")
        /\ UNCHANGED <<client_vars, ws_in, socket_vars, up_vars, up_read, up_got, app_ctl, inbound,
                       ws_vars, time_vars>>
    BY <1>4 DEF KeepaliveExpires
  <2>3. UNCHANGED <<app_ctl, up_read, inbound, idle, active, waited>> /\ ctx' \subseteq Flags
    BY <1>0, <2>2 DEF time_vars, queued, Flags
  <2> QED BY <1>0, <1>1, <1>2, <2>1, <2>2, <2>3, QueueType, DirectionTypes
<1>5. ASSUME KeepaliveAnswered PROVE TypeInv'
  <2>0. /\ Frames' = Frames /\ ClientFrames' = ClientFrames
        /\ MaxClientData' = MaxClientData /\ MaxUpstream' = MaxUpstream
    BY ScenarioFixed
  <2>1. /\ ended = "running" /\ pc["keepalive"] = "waiting"
        /\ pc' = [pc EXCEPT !["keepalive"] = "ready"]
        /\ UNCHANGED <<scenario, client, client_sent, client_ctl, ws_in, ws_out, unanswered,
                       stalled, upstream, up_sent, up_taking, up_read, up_got, app_ctl, ctx,
                       inbound, out, finish, lock, to_peer, after, idle, active, waited, ended>>
    BY <1>5 DEF KeepaliveAnswered, client_vars, socket_vars, up_vars, wslay_vars, ws_vars, time_vars
  <2>2. write_then("keepalive", <<>>, "none", "ready")
    BY <2>1 DEF write_then
  <2>3. <<>> \in Seq(Frames) /\ (closing(<<>>) => Len(<<>>) = 1)
    BY OpsSmall DEF closing
  <2>4. "none" \in EndReasons \union {"none"} /\ "ready" \in {"ready", "waiting"}
        /\ pc["keepalive"] # "writing"
    BY <2>1
  <2>5. UNCHANGED <<client_vars, ws_in, socket_vars, up_vars, up_got, inbound, ws_vars>>
    BY <2>1 DEF client_vars, socket_vars, up_vars, ws_vars
  <2> QED BY <1>0, <1>1, <1>2, <2>1, <2>2, <2>3, <2>4, <2>5, DirectionTypes
<1> QED BY <1>3, <1>4, <1>5 DEF Keepalive

\* A step that leaves the frames and the queue alone, and may end the bridge.
LEMMA QuietTypes ==
    ASSUME TypeInv, [Next]_vars, ended = "running", ended' \in EndReasons \union {"running"},
           UNCHANGED <<client_vars, ws_in, socket_vars, up_vars, up_read, up_got, app_ctl,
                       wslay_vars, dir_vars, ws_vars, active>>,
           idle' \in 0..Interval, waited' \in 0..Timeout
    PROVE  TypeInv'
<1>0. /\ Frames' = Frames /\ ClientFrames' = ClientFrames
      /\ MaxClientData' = MaxClientData /\ MaxUpstream' = MaxUpstream
  BY ScenarioFixed
<1>1. UNCHANGED <<scenario, client, client_sent, client_ctl, ws_in, ws_out, unanswered,
                  stalled, upstream, up_sent, up_taking, up_read, up_got, app_ctl, ctx,
                  inbound, pc, out, finish, lock, to_peer, after, active>>
  BY DEF client_vars, socket_vars, up_vars, wslay_vars, dir_vars, ws_vars
<1>2. TypeOK'
  BY <1>0, <1>1 DEF TypeInv, TypeOK
<1>3. Turns'
  BY <1>1 DEF TypeInv, Turns, closing, Ops
<1>4. Holding'
  BY <1>0, <1>1 DEF TypeInv, Holding, held, Places, closing, Ops
<1> QED BY <1>2, <1>3, <1>4 DEF TypeInv

LEMMA WriteFailsTypes ==
    ASSUME TypeInv, NEW d \in Directions, WriteFails(d), [Next]_vars PROVE TypeInv'
<1>1. /\ ended = "running"
      /\ ended' \in EndReasons
      /\ UNCHANGED <<client_vars, ws_in, socket_vars, up_vars, up_read, up_got, app_ctl,
                     wslay_vars, dir_vars, ws_vars, active, idle, waited>>
  BY DEF WriteFails, end, EndReasons, time_vars
<1>2. idle \in 0..Interval /\ waited \in 0..Timeout
  BY DEF TypeInv, TypeOK
<1> QED BY <1>1, <1>2, QuietTypes

LEMMA TickTypes ==
    ASSUME TypeInv, Tick, [Next]_vars PROVE TypeInv'
<1>1. /\ ended = "running" /\ ended' = ended
      /\ UNCHANGED <<client_vars, ws_in, socket_vars, up_vars, up_read, up_got, app_ctl,
                     wslay_vars, dir_vars, ws_vars, active>>
  BY DEF Tick
<1>2. idle' \in 0..Interval /\ waited' \in 0..Timeout
  BY BridgeAssumption DEF TypeInv, TypeOK, Tick
<1> QED BY <1>1, <1>2, QuietTypes

\* What the holder of the lock does to the queue.
LEMMA WriteFrameTurns ==
    ASSUME TypeInv, NEW d \in Directions, WriteFrame(d)
    PROVE  /\ lock # <<>> /\ lock[1] = d /\ 1 \in DOMAIN lock
           /\ out[d] # <<>> /\ out[d] \in Seq(Frames) /\ Len(out[d]) >= 1
           /\ out' = [out EXCEPT ![d] = Tail(@)]
           /\ pc[d] = "writing" /\ pc'[d] # "to_peer"
           /\ \A e \in Directions : e # d => pc'[e] = pc[e] /\ out'[e] = out[e]
           /\ \/ /\ Len(out[d]) > 1 /\ UNCHANGED <<pc, lock, ended>>
              \/ /\ Len(out[d]) = 1 /\ out'[d] = <<>>
                 /\ lock' = Tail(lock) /\ pc' = [pc EXCEPT ![d] = resumes(d)]
                 /\ ended' = IF finish[d] = "none" THEN "running" ELSE finish[d]
           /\ Turns'
<1>1. /\ lock \in Seq(Directions) /\ out \in [Directions -> Seq(Frames)]
      /\ pc \in [Directions -> {"ready", "writing", "to_peer", "waiting"}]
  BY DEF TypeInv, TypeOK
<1>2. /\ lock # <<>> /\ Head(lock) = d
      /\ out' = [out EXCEPT ![d] = Tail(@)]
      /\ \/ /\ Len(out[d]) > 1 /\ UNCHANGED <<pc, lock, ended>>
         \/ /\ Len(out[d]) = 1
            /\ lock' = Tail(lock) /\ pc' = [pc EXCEPT ![d] = resumes(d)]
            /\ ended' = IF finish[d] = "none" THEN "running" ELSE finish[d]
  BY DEF WriteFrame
<1>3. lock[1] = d /\ 1 \in DOMAIN lock
  BY <1>1, <1>2
<1>4. pc[d] = "writing" /\ out[d] # <<>>
  BY <1>3 DEF TypeInv, Turns
<1>5. out[d] \in Seq(Frames) /\ Len(out[d]) >= 1
  BY <1>1, <1>4
<1>6. out'[d] = Tail(out[d]) /\ \A e \in Directions : e # d => out'[e] = out[e]
  BY <1>1, <1>2
<1>7. CASE Len(out[d]) > 1 /\ UNCHANGED <<pc, lock, ended>>
  <2>1. out'[d] # <<>>
    BY <1>4, <1>5, <1>6, <1>7, TailOf
  <2>2. ~closing(out[d])
    <3>1. Len(out[d]) # 1
      BY <1>4, <1>5, <1>7, TailOf
    <3> QED BY <3>1 DEF TypeInv, Turns
  <2>3. ~closing(out'[d])
    BY <1>4, <1>5, <1>6, <2>2, OpsOf DEF closing
  <2>4. Turns'
    <3>1. \A e \in Directions : pc'[e] = "writing" <=> out'[e] # <<>>
      BY <1>4, <1>6, <1>7, <2>1 DEF TypeInv, Turns
    <3>2. \A e \in Directions : closing(out'[e]) => Len(out'[e]) = 1
      BY <1>6, <2>3 DEF TypeInv, Turns
    <3> QED BY <1>7, <3>1, <3>2 DEF TypeInv, Turns, closing, Ops
  <2> QED BY <1>2, <1>3, <1>4, <1>5, <1>6, <1>7, <2>4
<1>8. CASE /\ Len(out[d]) = 1
           /\ lock' = Tail(lock) /\ pc' = [pc EXCEPT ![d] = resumes(d)]
           /\ ended' = IF finish[d] = "none" THEN "running" ELSE finish[d]
  <2>1. out'[d] = <<>>
    BY <1>4, <1>5, <1>6, <1>8, TailOf
  <2>2. pc'[d] = resumes(d) /\ \A e \in Directions : e # d => pc'[e] = pc[e]
    BY <1>1, <1>8
  <2>3. pc'[d] # "writing" /\ pc'[d] # "to_peer"
    BY <2>2 DEF resumes
  <2>9. \A i \in DOMAIN lock' : i \in Nat /\ i >= 1
    BY <1>1, <1>2, <1>8, TailOf
  <2>4. /\ \A i \in DOMAIN lock' : i + 1 \in DOMAIN lock /\ lock'[i] = lock[i + 1] /\ i + 1 # 1
        /\ \A i \in DOMAIN lock : i # 1 => i - 1 \in DOMAIN lock' /\ lock'[i - 1] = lock[i]
        /\ \A i \in DOMAIN lock : lock[i] \in Directions
    BY <1>1, <1>2, <1>8, <2>9, TailOf
  <2>5. \A i \in DOMAIN lock' : lock'[i] # d /\ lock'[i] \in Directions
    BY <1>3, <2>4 DEF TypeInv, Turns
  <2>6. Turns'
    <3>1. \A e \in Directions : pc'[e] = "writing" <=> out'[e] # <<>>
      BY <1>6, <2>1, <2>2, <2>3 DEF TypeInv, Turns
    <3>2. ASSUME NEW e \in Directions, pc'[e] = "writing"
          PROVE  \E i \in DOMAIN lock' : lock'[i] = e
      <4>1. e # d /\ pc[e] = "writing"
        BY <2>2, <2>3, <3>2
      <4>2. PICK i \in DOMAIN lock : lock[i] = e
        BY <4>1 DEF TypeInv, Turns
      <4>3. i # 1
        BY <1>3, <4>1, <4>2
      <4> QED BY <2>4, <4>2, <4>3
    <3>3. \A i \in DOMAIN lock' : pc'[lock'[i]] = "writing"
      BY <2>2, <2>4, <2>5 DEF TypeInv, Turns
    <3>4. ASSUME NEW i \in DOMAIN lock', NEW j \in DOMAIN lock', lock'[i] = lock'[j]
          PROVE  i = j
      <4>1. i + 1 = j + 1
        BY <2>4, <3>4 DEF TypeInv, Turns
      <4>2. i \in Nat /\ j \in Nat
        BY <2>9
      <4> QED BY <4>1, <4>2
    <3>5. \A e \in Directions : closing(out'[e]) => Len(out'[e]) = 1
      BY <1>6, <2>1, OpsSmall DEF TypeInv, Turns, closing
    <3> QED BY <3>1, <3>2, <3>3, <3>4, <3>5 DEF Turns, closing, Ops
  <2> QED BY <1>2, <1>3, <1>4, <1>5, <1>6, <1>8, <2>1, <2>2, <2>3, <2>6
<1> QED BY <1>2, <1>7, <1>8

LEMMA WriteFrameTypes ==
    ASSUME TypeInv, NEW d \in Directions, WriteFrame(d), [Next]_vars PROVE TypeInv'
<1>0. /\ Frames' = Frames /\ ClientFrames' = ClientFrames
      /\ MaxClientData' = MaxClientData /\ MaxUpstream' = MaxUpstream
  BY ScenarioFixed
<1>1. /\ ended = "running"
      /\ ws_out' = written(Head(out[d]))
      /\ unanswered' = (unanswered \/ Head(out[d]).op = "ping")
      /\ note_ping \/ UNCHANGED time_vars
      /\ UNCHANGED <<scenario, client, client_sent, client_ctl, ws_in, stalled, upstream, up_sent,
                     up_taking, up_read, up_got, app_ctl, ctx, inbound, finish, to_peer, after>>
  BY DEF WriteFrame, client_vars, up_vars, wslay_vars, ws_vars
<1>2. /\ out[d] # <<>> /\ out[d] \in Seq(Frames)
      /\ out' = [out EXCEPT ![d] = Tail(@)]
      /\ pc[d] = "writing" /\ pc'[d] # "to_peer"
      /\ \A e \in Directions : e # d => pc'[e] = pc[e]
      /\ \/ UNCHANGED <<pc, lock, ended>>
         \/ /\ lock # <<>> /\ lock' = Tail(lock) /\ pc' = [pc EXCEPT ![d] = resumes(d)]
            /\ ended' = IF finish[d] = "none" THEN "running" ELSE finish[d]
      /\ Turns'
  BY WriteFrameTurns
<1>3. unanswered' \in BOOLEAN
  BY <1>1, Zenon
<1>4. active' \in BOOLEAN
  <2>1. active \in BOOLEAN
    BY DEF TypeInv, TypeOK
  <2> QED BY <1>1, <2>1, Zenon DEF note_ping, time_vars
<1>5. idle' \in 0..Interval /\ waited' \in 0..Timeout
  <2>1. idle \in 0..Interval /\ waited \in 0..Timeout
    BY DEF TypeInv, TypeOK
  <2>2. idle' = idle /\ (waited' = waited \/ waited' = 0)
    BY <1>1, Zenon DEF note_ping, time_vars
  <2>3. 0 \in 0..Timeout
    BY BridgeAssumption
  <2> QED BY <2>1, <2>2, <2>3, Zenon
<1>6. ws_out' \in Seq(Frames)
  <2>1. Head(out[d]) \in Frames /\ ws_out \in Seq(Frames)
    BY <1>2 DEF TypeInv, TypeOK
  <2>2. Append(ws_out, Head(out[d])) \in Seq(Frames)
    BY <2>1
  <2> QED BY <1>1, <2>1, <2>2 DEF written
<1>7. /\ pc' \in [Directions -> {"ready", "writing", "to_peer", "waiting"}]
      /\ out' \in [Directions -> Seq(Frames)]
      /\ lock' \in Seq(Directions)
      /\ ended' \in EndReasons \union {"running"}
  <2>1. /\ pc \in [Directions -> {"ready", "writing", "to_peer", "waiting"}]
        /\ out \in [Directions -> Seq(Frames)]
        /\ lock \in Seq(Directions)
        /\ ended \in EndReasons \union {"running"}
        /\ finish \in [Directions -> EndReasons \union {"none"}]
    BY DEF TypeInv, TypeOK
  <2>2. Tail(out[d]) \in Seq(Frames)
    BY <1>2
  <2>3. resumes(d) \in {"ready", "waiting"}
    BY DEF resumes
  <2>4. out' \in [Directions -> Seq(Frames)]
    BY <1>2, <2>1, <2>2
  <2>5. lock' \in Seq(Directions)
    <3>1. lock # <<>> => Tail(lock) \in Seq(Directions)
      BY <2>1, TailOf
    <3> QED BY <1>2, <2>1, <3>1
  <2>6. pc' \in [Directions -> {"ready", "writing", "to_peer", "waiting"}]
    BY <1>2, <2>1, <2>3
  <2>7. ended' \in EndReasons \union {"running"}
    BY <1>2, <2>1
  <2> QED BY <2>4, <2>5, <2>6, <2>7
<1>8. TypeOK'
  BY <1>0, <1>1, <1>3, <1>4, <1>5, <1>6, <1>7 DEF TypeInv, TypeOK
<1>9. held' = held /\ (pc'["ws"] = "to_peer" => pc["ws"] = "to_peer")
  BY <1>1, <1>2 DEF held, Directions
<1>10. Holding'
  BY <1>0, <1>1, <1>9 DEF TypeInv, Holding, Places, closing, Ops
<1> QED BY <1>2, <1>8, <1>10 DEF TypeInv

\* The batch of a read, what wslay consumes of it, and what is left.
LEMMA BatchOf ==
    ASSUME TypeInv, NEW n \in 1..MaxBatch, n <= Len(ws_in)
    PROVE  LET b == SubSeq(ws_in, 1, n)
               p == parsed(b)
               rest == SubSeq(ws_in, n + 1, Len(ws_in)) IN
           /\ b \in Seq(ClientFrames) /\ Len(b) = n
           /\ \A i \in 1..n : b[i] = ws_in[i] /\ i \in DOMAIN ws_in
           /\ p \in Seq(ClientFrames) /\ Len(p) <= n
           /\ \A i \in 1..Len(p) : p[i] = ws_in[i] /\ i \in DOMAIN ws_in
           /\ rest \in Seq(ClientFrames) /\ Len(rest) = Len(ws_in) - n
           /\ \A i \in 1..Len(rest) : rest[i] = ws_in[n + i] /\ n + i \in DOMAIN ws_in
<1> DEFINE b == SubSeq(ws_in, 1, n)
           p == parsed(b)
           rest == SubSeq(ws_in, n + 1, Len(ws_in))
<1>0. ws_in \in Seq(ClientFrames) /\ n \in Nat /\ n >= 1 /\ Len(ws_in) \in Nat
  BY BridgeAssumption DEF TypeInv, TypeOK
<1>1. \A i \in 1..n : ws_in[i] \in ClientFrames /\ i \in DOMAIN ws_in
  BY <1>0
<1>2. /\ b \in Seq(ClientFrames)
      /\ Len(b) = IF 1 <= n THEN n - 1 + 1 ELSE 0
      /\ \A i \in 1 .. n - 1 + 1 : b[i] = ws_in[1 + i - 1]
  BY <1>0, <1>1, SubSeqProperties
<1>3. Len(b) = n /\ \A i \in 1..n : b[i] = ws_in[i]
  <2>1. \A i \in 1..n : 1 + i - 1 = i /\ i \in 1 .. n - 1 + 1
    BY <1>0
  <2> QED BY <1>0, <1>2, <2>1
<1>4. \A i \in (n + 1)..Len(ws_in) : ws_in[i] \in ClientFrames
  BY <1>0
<1>5. /\ rest \in Seq(ClientFrames)
      /\ Len(rest) = IF n + 1 <= Len(ws_in) THEN Len(ws_in) - (n + 1) + 1 ELSE 0
      /\ \A i \in 1 .. Len(ws_in) - (n + 1) + 1 : rest[i] = ws_in[(n + 1) + i - 1]
  BY <1>0, <1>4, SubSeqProperties
<1>6. Len(rest) = Len(ws_in) - n
  BY <1>0, <1>5
<1>7. \A i \in 1..Len(rest) : rest[i] = ws_in[n + i] /\ n + i \in DOMAIN ws_in
  <2> TAKE i \in 1..Len(rest)
  <2>1. i \in 1 .. Len(ws_in) - (n + 1) + 1 /\ (n + 1) + i - 1 = n + i /\ n + i \in 1..Len(ws_in)
    BY <1>0, <1>6
  <2> QED BY <1>0, <1>5, <2>1
<1> HIDE DEF b
<1>10. /\ p \in Seq(ClientFrames) /\ Len(p) <= Len(b)
       /\ \A i \in 1..Len(p) : p[i] = b[i]
  BY <1>2, ParsedPrefix
<1> HIDE DEF p, rest
<1>8. /\ p \in Seq(ClientFrames) /\ Len(p) <= Len(b) /\ Len(p) \in Nat
      /\ \A i \in 1..Len(p) : p[i] = b[i]
  BY <1>10
<1>9. \A i \in 1..Len(p) : p[i] = ws_in[i] /\ i \in DOMAIN ws_in
  <2> TAKE i \in 1..Len(p)
  <2>1. i \in 1..n
    BY <1>0, <1>3, <1>8
  <2> QED BY <1>1, <1>3, <1>8, <2>1
<1> QED BY <1>1, <1>2, <1>3, <1>5, <1>6, <1>7, <1>8, <1>9 DEF b, p, rest

LEMMA WsReadTypes ==
    ASSUME TypeInv, NEW n \in 1..MaxBatch, WsRead(n), [Next]_vars PROVE TypeInv'
<1> DEFINE b == SubSeq(ws_in, 1, n)
           p == parsed(b)
           rest == SubSeq(ws_in, n + 1, Len(ws_in))
           data == Numbers(p)
           fs == replies(p)
           fin == ws_finish(p)
<1>0. /\ scenario' = scenario /\ Frames' = Frames /\ ClientFrames' = ClientFrames
      /\ MaxClientData' = MaxClientData /\ MaxUpstream' = MaxUpstream
  BY ScenarioFixed
<1>1. /\ ended = "running" /\ pc["ws"] = "ready" /\ n <= Len(ws_in)
      /\ ws_in' = rest
      /\ idle' = 0 /\ active' = TRUE
      /\ inbound' = inbound + (Len(b) - Len(p))
      /\ ctx' = ctx \union recv_flags(p)
      /\ forward(data, fs, fin)
      /\ UNCHANGED <<client, client_sent, client_ctl, ws_out, unanswered, stalled, upstream,
                     up_sent, up_taking, up_read, up_got, app_ctl, waited>>
  BY DEF WsRead, client_vars, socket_vars, up_vars
<1>2. /\ Len(b) = n /\ n \in Nat
      /\ p \in Seq(ClientFrames) /\ Len(p) <= n /\ Len(p) \in Nat
      /\ \A i \in 1..Len(p) : p[i] = ws_in[i] /\ i \in DOMAIN ws_in
      /\ rest \in Seq(ClientFrames)
      /\ \A i \in 1..Len(rest) : rest[i] = ws_in[n + i] /\ n + i \in DOMAIN ws_in
  BY <1>1, BatchOf, BridgeAssumption, SMTT(30)
<1> HIDE DEF b, p, rest
<1>3. data \in Seq(1..MaxClientData)
  <2>1. \A i \in Places(p, "data") : p[i].n \in 1..MaxClientData
    BY <1>2 DEF TypeInv, Holding, Places
  <2> QED BY <1>2, <2>1, NumbersType
<1>4. fs \in Seq(Frames) /\ (closing(fs) => Len(fs) = 1)
  <2>1. \A op \in Answers : Frame(op) \in Frames
    BY FrameTypes DEF TypeInv, Answers, CloseOps
  <2>2. {Frame(op) : op \in Answers} \subseteq Frames
    BY <2>1
  <2> QED BY <1>2, <2>2, RepliesOf, SeqMonotonic
<1>5. fin \in EndReasons \union {"none"}
  BY DEF ws_finish, EndReasons
<1>6. ctx' \subseteq Flags /\ inbound' \in Nat
  <2>1. ctx \subseteq Flags /\ inbound \in Nat
    BY DEF TypeInv, TypeOK
  <2> QED BY <1>1, <1>2, <2>1 DEF recv_flags, Flags
<1>7. \A i \in Places(ws_in', "data") : ws_in'[i].n \in 1..MaxClientData
  <2> SUFFICES ASSUME NEW i \in DOMAIN rest, rest[i].op = "data"
               PROVE  rest[i].n \in 1..MaxClientData
    BY <1>1 DEF Places
  <2>1. rest[i] = ws_in[n + i] /\ n + i \in DOMAIN ws_in
    BY <1>2
  <2>2. n + i \in Places(ws_in, "data")
    BY <2>1 DEF Places
  <2> QED BY <2>1, <2>2 DEF TypeInv, Holding
<1> HIDE DEF data, fs, fin
<1>8. "ws" \in Directions /\ pc["ws"] # "writing" /\ TypeOK /\ Turns
  BY <1>1 DEF Directions, TypeInv
<1>9. /\ pc' \in [Directions -> {"ready", "writing", "to_peer", "waiting"}]
      /\ out' \in [Directions -> Seq(Frames)]
      /\ finish' \in [Directions -> EndReasons \union {"none"}]
      /\ lock' \in Seq(Directions)
      /\ ended' \in EndReasons \union {"running"}
      /\ Turns'
      /\ to_peer' \in Seq(1..MaxClientData)
      /\ after' \in [out : Seq(Frames), finish : EndReasons \union {"none"}]
      /\ closing(held') => Len(held') = 1
      /\ pc'["ws"] = "to_peer" /\ ended' = "running" => to_peer' # <<>>
  <2>1. CASE /\ data # <<>> /\ to_peer' = data
             /\ after' = [out |-> fs, finish |-> fin]
             /\ pc' = [pc EXCEPT !["ws"] = "to_peer"]
             /\ UNCHANGED <<out, finish, lock, ended>>
    <3>1. write_then("ws", <<>>, "none", "to_peer")
      BY <2>1 DEF write_then
    <3>2. <<>> \in Seq(Frames) /\ (closing(<<>>) => Len(<<>>) = 1)
      BY OpsSmall DEF closing
    <3>3. /\ pc' \in [Directions -> {"ready", "writing", "to_peer", "waiting"}]
          /\ out' \in [Directions -> Seq(Frames)]
          /\ finish' \in [Directions -> EndReasons \union {"none"}]
          /\ lock' \in Seq(Directions)
          /\ ended' \in EndReasons \union {"running"}
          /\ Turns'
      BY <1>0, <1>8, <3>1, <3>2, WriteThen
    <3>4. after' \in [out : Seq(Frames), finish : EndReasons \union {"none"}] /\ after'.out = fs
      BY <1>4, <1>5, <2>1
    <3>5. held' = fs
      BY <1>8, <2>1, <3>3, <3>4 DEF held
    <3> QED BY <1>3, <1>4, <2>1, <3>3, <3>4, <3>5
  <2>2. CASE data = <<>> /\ UNCHANGED ws_vars /\ write_then("ws", fs, fin, "ready")
    <3>1. /\ pc' \in [Directions -> {"ready", "writing", "to_peer", "waiting"}]
          /\ out' \in [Directions -> Seq(Frames)]
          /\ finish' \in [Directions -> EndReasons \union {"none"}]
          /\ lock' \in Seq(Directions)
          /\ ended' \in EndReasons \union {"running"}
          /\ Turns'
          /\ pc'["ws"] = "to_peer" => ended' # "running" /\ pc' = pc
      BY <1>0, <1>4, <1>5, <1>8, <2>2, WriteThen
    <3>2. held' = <<>> /\ ~closing(held')
      BY <1>1, <3>1, OpsSmall DEF held, closing
    <3>3. to_peer' = to_peer /\ after' = after
      BY <2>2 DEF ws_vars
    <3>4. /\ to_peer \in Seq(1..MaxClientData)
          /\ after \in [out : Seq(Frames), finish : EndReasons \union {"none"}]
      BY DEF TypeInv, TypeOK
    <3> QED BY <3>1, <3>2, <3>3, <3>4
  <2> QED BY <1>1, <2>1, <2>2 DEF forward
<1>10. idle' \in 0..Interval /\ active' \in BOOLEAN
  BY <1>1, BridgeAssumption
<1>11. TypeOK'
  BY <1>0, <1>1, <1>2, <1>6, <1>9, <1>10 DEF TypeInv, TypeOK
<1>12. Holding'
  BY <1>0, <1>7, <1>9 DEF Holding, Places, closing, Ops
<1> QED BY <1>9, <1>11, <1>12 DEF TypeInv

LEMMA WsToPeerTypes ==
    ASSUME TypeInv, WsToPeer, [Next]_vars PROVE TypeInv'
<1>0. /\ scenario' = scenario /\ Frames' = Frames /\ ClientFrames' = ClientFrames
      /\ MaxClientData' = MaxClientData /\ MaxUpstream' = MaxUpstream
  BY ScenarioFixed
<1>1. ASSUME WsEof PROVE TypeInv'
  <2>1. /\ ended = "running" /\ ended' \in EndReasons
        /\ UNCHANGED <<client_vars, ws_in, socket_vars, up_vars, up_read, up_got, app_ctl,
                       wslay_vars, dir_vars, ws_vars, active, idle, waited>>
    BY <1>1 DEF WsEof, end, EndReasons, time_vars
  <2>2. idle \in 0..Interval /\ waited \in 0..Timeout
    BY DEF TypeInv, TypeOK
  <2> QED BY <2>1, <2>2, QuietTypes
<1>2. "ws" \in Directions /\ TypeOK /\ Turns /\ "ready" \in {"ready", "waiting", "to_peer"}
  BY DEF Directions, TypeInv
<1>3. /\ to_peer \in Seq(1..MaxClientData)
      /\ after \in [out : Seq(Frames), finish : EndReasons \union {"none"}]
      /\ up_got \in Seq(1..MaxClientData)
  BY DEF TypeInv, TypeOK
<1>4. ASSUME PeerWrite PROVE TypeInv'
  <2>1. /\ ended = "running" /\ pc["ws"] = "to_peer" /\ pc["ws"] # "writing"
        /\ up_got' = Append(up_got, Head(to_peer))
        /\ to_peer' = Tail(to_peer)
        /\ \/ Len(to_peer) > 1 /\ UNCHANGED <<pc, out, finish, lock, ended>>
           \/ Len(to_peer) = 1 /\ write_then("ws", after.out, after.finish, "ready")
        /\ UNCHANGED <<client, client_sent, client_ctl, ws_in, ws_out, unanswered, stalled,
                       upstream, up_sent, up_taking, up_read, app_ctl, ctx, inbound, after,
                       idle, active, waited>>
    BY <1>4 DEF PeerWrite, dir_vars, client_vars, socket_vars, up_vars, wslay_vars, time_vars
  <2>2. to_peer # <<>>
    BY <2>1 DEF TypeInv, Holding
  <2>3. up_got' \in Seq(1..MaxClientData) /\ to_peer' \in Seq(1..MaxClientData)
    <3>1. Head(to_peer) \in 1..MaxClientData /\ Tail(to_peer) \in Seq(1..MaxClientData)
      BY <1>3, <2>2, TailOf
    <3>2. Append(up_got, Head(to_peer)) \in Seq(1..MaxClientData)
      BY <1>3, <3>1
    <3> QED BY <2>1, <3>1, <3>2
  <2>4. /\ pc' \in [Directions -> {"ready", "writing", "to_peer", "waiting"}]
        /\ out' \in [Directions -> Seq(Frames)]
        /\ finish' \in [Directions -> EndReasons \union {"none"}]
        /\ lock' \in Seq(Directions)
        /\ ended' \in EndReasons \union {"running"}
        /\ Turns'
        /\ closing(held') => Len(held') = 1
        /\ pc'["ws"] = "to_peer" /\ ended' = "running" => to_peer' # <<>>
    <3>1. held = after.out /\ (closing(held) => Len(held) = 1)
      BY <2>1 DEF held, TypeInv, Holding
    <3>2. CASE Len(to_peer) > 1 /\ UNCHANGED <<pc, out, finish, lock, ended>>
      <4>1. to_peer' # <<>>
        BY <1>3, <2>1, <2>2, <3>2, TailOf
      <4>2. Turns'
        BY <1>2, <3>2 DEF Turns, closing, Ops
      <4>3. held' = held
        BY <2>1, <3>2 DEF held
      <4> QED BY <3>1, <3>2, <4>1, <4>2, <4>3 DEF TypeInv, TypeOK
    <3>3. CASE write_then("ws", after.out, after.finish, "ready")
      <4>1. after.out \in Seq(Frames) /\ after.finish \in EndReasons \union {"none"}
        BY <1>3
      <4>2. closing(after.out) => Len(after.out) = 1
        BY <3>1
      <4>3. /\ pc' \in [Directions -> {"ready", "writing", "to_peer", "waiting"}]
            /\ out' \in [Directions -> Seq(Frames)]
            /\ finish' \in [Directions -> EndReasons \union {"none"}]
            /\ lock' \in Seq(Directions)
            /\ ended' \in EndReasons \union {"running"}
            /\ Turns'
            /\ pc'["ws"] = "to_peer" => ended' # "running" /\ pc' = pc
        BY <1>0, <1>2, <2>1, <3>3, <4>1, <4>2, WriteThen
      <4>4. held' = <<>> \/ held' = held
        BY <2>1 DEF held
      <4>5. ~closing(<<>>)
        BY OpsSmall DEF closing
      <4> QED BY <3>1, <4>3, <4>4, <4>5
    <3> QED BY <2>1, <3>2, <3>3
  <2>5. TypeOK'
    BY <1>0, <2>1, <2>3, <2>4, ZenonT(30) DEF TypeInv, TypeOK
  <2>6. Holding'
    BY <1>0, <2>1, <2>4 DEF TypeInv, Holding, Places, closing, Ops
  <2> QED BY <2>4, <2>5, <2>6 DEF TypeInv
<1>5. ASSUME PeerWriteFails PROVE TypeInv'
  <2>1. /\ ended = "running" /\ pc["ws"] = "to_peer" /\ pc["ws"] # "writing"
        /\ ctx' = ctx \union queued("error")
        /\ write_then("ws", queue(Frame("error")), "error", "ready")
        /\ to_peer' = <<>>
        /\ UNCHANGED <<client, client_sent, client_ctl, ws_in, ws_out, unanswered, stalled,
                       upstream, up_sent, up_taking, up_read, up_got, app_ctl, inbound, after,
                       idle, active, waited>>
    BY <1>5 DEF PeerWriteFails, client_vars, socket_vars, up_vars, time_vars
  <2>2. Frame("error") \in Frames /\ "error" \in EndReasons \union {"none"}
    BY <1>2, FrameTypes DEF CloseOps, EndReasons
  <2>3. /\ pc' \in [Directions -> {"ready", "writing", "to_peer", "waiting"}]
        /\ out' \in [Directions -> Seq(Frames)]
        /\ finish' \in [Directions -> EndReasons \union {"none"}]
        /\ lock' \in Seq(Directions)
        /\ ended' \in EndReasons \union {"running"}
        /\ Turns'
        /\ pc'["ws"] = "to_peer" => ended' # "running" /\ pc' = pc
    BY <1>0, <1>2, <2>1, <2>2, QueueType, WriteThen
  <2>4. ctx' \subseteq Flags /\ to_peer' \in Seq(1..MaxClientData)
    BY <2>1 DEF queued, Flags, TypeInv, TypeOK
  <2>5. TypeOK'
    BY <1>0, <2>1, <2>3, <2>4, ZenonT(30) DEF TypeInv, TypeOK
  <2>6. held' = <<>> \/ held' = held
    BY <2>1 DEF held
  <2>7. ~closing(<<>>)
    BY OpsSmall DEF closing
  <2>8. Holding'
    BY <1>0, <2>1, <2>3, <2>6, <2>7 DEF TypeInv, Holding, Places, closing, Ops
  <2> QED BY <2>3, <2>5, <2>8 DEF TypeInv
<1> QED BY <1>1, <1>4, <1>5, WsReadTypes DEF WsToPeer

LEMMA TypeStep == TypeInv /\ [Next]_vars => TypeInv'
<1> SUFFICES ASSUME TypeInv, [Next]_vars PROVE TypeInv'
  OBVIOUS
<1>1. CASE UNCHANGED vars
  <2>1. UNCHANGED <<scenario, client, client_sent, client_ctl, ws_in, ws_out, unanswered,
                    stalled, upstream, up_sent, up_taking, up_read, up_got, app_ctl, ctx,
                    inbound, pc, out, finish, lock, to_peer, after, idle, active, waited, ended>>
    BY <1>1 DEF vars, client_vars, socket_vars, up_vars, wslay_vars, dir_vars, ws_vars, time_vars
  <2>2. TypeOK'
    BY <2>1, ScenarioFixed DEF TypeInv, TypeOK
  <2>3. Turns'
    BY <2>1 DEF TypeInv, Turns, closing, Ops
  <2>4. Holding'
    BY <2>1, ScenarioFixed DEF TypeInv, Holding, held, Places, closing, Ops
  <2> QED BY <2>2, <2>3, <2>4 DEF TypeInv
<1>2. CASE Next
  BY <1>2, EnvironmentTypes, TickTypes, WsToPeerTypes, PeerTypes, KeepaliveTypes, ControlTypes,
     WriteFrameTypes, WriteFailsTypes DEF Next, Bridge
<1> QED BY <1>1, <1>2

LEMMA BridgeTypes == Spec => []TypeInv
BY TypeInit, TypeStep, PTL DEF Spec

-----------------------------------------------------------------------------
(* The Close is last *)

\* Where a Close may be, and what may come after it.  Before one is queued there
\* is none.  Behind one, in the queue or in what was written, there are pongs at
\* most, and what the ws direction holds back is pongs if it is not the Close.
Order ==
    /\ "CLOSE_QUEUED" \notin ctx =>
          ~closing(ws_out) /\ ~closing(held) /\ \A d \in Directions : ~closing(out[d])
    /\ closing(ws_out) => pongs(held) /\ \A d \in Directions : pongs(out[d])
    /\ \A d \in Directions : closing(out[d]) => pongs(held)
    /\ \A i, j \in DOMAIN lock : i < j /\ closing(out[lock[i]]) => pongs(out[lock[j]])
    /\ ~closing(held) => pongs(held)
    /\ \A i, j \in DOMAIN ws_out :
          ws_out[i].op \in CloseOps /\ i < j => ws_out[j].op = "pong"

LEMMA OrderInit == Init => Order
<1> SUFFICES ASSUME Init PROVE Order
  OBVIOUS
<1>1. ws_out = <<>> /\ lock = <<>> /\ held = <<>> /\ \A d \in Directions : out[d] = <<>>
  BY DEF Init, held, Directions
<1> QED BY <1>1, OpsSmall DEF Order, closing, pongs

\* A direction takes the frames fs, and what the ws direction holds may change.
LEMMA TakeOrder ==
    ASSUME TypeInv, Order, NEW d \in Directions, pc[d] # "writing",
           NEW fs, NEW fin, NEW next, write_then(d, fs, fin, next),
           ws_out' = ws_out, ctx \subseteq ctx',
           "CLOSE_QUEUED" \notin ctx' => ~closing(fs) /\ ~closing(held'),
           closing(ws_out) => pongs(fs) /\ pongs(held'),
           \A e \in Directions : closing(out[e]) => pongs(fs) /\ pongs(held'),
           closing(fs) => pongs(held'),
           ~closing(held') => pongs(held')
    PROVE  Order'
<1>0. /\ out \in [Directions -> Seq(Frames)] /\ lock \in Seq(Directions)
  BY DEF TypeInv, TypeOK
<1>1. \A i \in DOMAIN lock : lock[i] \in Directions /\ lock[i] # d
  BY <1>0 DEF TypeInv, Turns
<1>2. CASE out' = [out EXCEPT ![d] = fs] /\ lock' = Append(lock, d)
  <2>1. out'[d] = fs /\ \A e \in Directions : e # d => out'[e] = out[e]
    BY <1>0, <1>2
  <2>2. /\ DOMAIN lock' = 1..(Len(lock) + 1) /\ DOMAIN lock = 1..Len(lock) /\ Len(lock) \in Nat
        /\ \A i \in 1..Len(lock) : lock'[i] = lock[i]
        /\ lock'[Len(lock) + 1] = d
    BY <1>0, <1>2
  <2>3. "CLOSE_QUEUED" \notin ctx' =>
           ~closing(ws_out') /\ ~closing(held') /\ \A e \in Directions : ~closing(out'[e])
    BY <2>1 DEF Order
  <2>4. closing(ws_out') => pongs(held') /\ \A e \in Directions : pongs(out'[e])
    BY <2>1 DEF Order
  <2>5. \A e \in Directions : closing(out'[e]) => pongs(held')
    BY <2>1
  <2>6. ASSUME NEW i \in DOMAIN lock', NEW j \in DOMAIN lock', i < j, closing(out'[lock'[i]])
        PROVE  pongs(out'[lock'[j]])
    <3>1. i \in DOMAIN lock /\ lock'[i] = lock[i] /\ closing(out[lock[i]])
      BY <1>1, <2>1, <2>2, <2>6
    <3>2. CASE j \in DOMAIN lock
      <4>1. lock'[j] = lock[j] /\ out'[lock'[j]] = out[lock[j]]
        BY <1>1, <2>1, <2>2, <3>2
      <4> QED BY <2>6, <3>1, <3>2, <4>1 DEF Order
    <3>3. CASE j \notin DOMAIN lock
      <4>1. lock'[j] = d
        BY <2>2, <3>3
      <4> QED BY <1>1, <2>1, <3>1, <4>1
    <3> QED BY <3>2, <3>3
  <2> QED BY <2>3, <2>4, <2>5, <2>6 DEF Order, closing, pongs, Ops
<1>3. CASE UNCHANGED <<out, lock>>
  <2>1. out' = out /\ lock' = lock
    BY <1>3
  <2>3. "CLOSE_QUEUED" \notin ctx' =>
           ~closing(ws_out') /\ ~closing(held') /\ \A e \in Directions : ~closing(out'[e])
    BY <2>1 DEF Order
  <2>4. closing(ws_out') => pongs(held') /\ \A e \in Directions : pongs(out'[e])
    BY <2>1 DEF Order
  <2>5. \A e \in Directions : closing(out'[e]) => pongs(held')
    BY <2>1
  <2>6. \A i, j \in DOMAIN lock' : i < j /\ closing(out'[lock'[i]]) => pongs(out'[lock'[j]])
    BY <2>1 DEF Order
  <2> QED BY <2>3, <2>4, <2>5, <2>6 DEF Order, closing, pongs, Ops
<1> QED BY <1>2, <1>3 DEF write_then, end, dir_vars

\* A direction that queues a frame, if it may, while held stays or is dropped.
LEMMA QueueOrder ==
    ASSUME TypeInv, Order, NEW d \in Directions, pc[d] # "writing",
           NEW op, NEW f, f.op = op,
           NEW fin, NEW next, write_then(d, queue(f), fin, next),
           ws_out' = ws_out, ctx' = ctx \union queued(op),
           held' = held \/ held' = <<>>
    PROVE  Order'
<1>1. ~closing(<<>>) /\ pongs(<<>>)
  BY OpsSmall DEF closing, pongs
<1>2. \A s : closing(s) => ~pongs(s)
  BY DEF closing, pongs, CloseOps
<1>3. CASE "CLOSE_QUEUED" \in ctx
  <2>1. queue(f) = <<>> /\ "CLOSE_QUEUED" \in ctx'
    BY <1>3 DEF queue
  <2>2. ctx \subseteq ctx'
    OBVIOUS
  <2>3. closing(ws_out) => pongs(held')
    BY <1>1 DEF Order
  <2>4. \A e \in Directions : closing(out[e]) => pongs(held')
    BY <1>1 DEF Order
  <2>5. ~closing(held') => pongs(held')
    BY <1>1 DEF Order
  <2>6. ~closing(queue(f)) /\ pongs(queue(f))
    BY <1>1, <2>1
  <2> QED BY <2>1, <2>2, <2>3, <2>4, <2>5, <2>6, TakeOrder
<1>4. CASE "CLOSE_QUEUED" \notin ctx
  <2>1. ~closing(ws_out) /\ ~closing(held) /\ \A e \in Directions : ~closing(out[e])
    BY <1>4 DEF Order
  <2>2. ~closing(held') /\ pongs(held')
    BY <1>1, <2>1 DEF Order
  <2>3. ctx \subseteq ctx'
    OBVIOUS
  <2>4. closing(queue(f)) => "CLOSE_QUEUED" \in ctx'
    BY QueueFacts DEF closing
  <2> QED BY <2>1, <2>2, <2>3, <2>4, TakeOrder
<1> QED BY <1>3, <1>4

LEMMA WriteFrameOrder ==
    ASSUME TypeInv, Order, NEW d \in Directions, WriteFrame(d) PROVE Order'
<1> DEFINE f == Head(out[d])
<1>0. /\ lock \in Seq(Directions) /\ ws_out \in Seq(Frames)
      /\ out \in [Directions -> Seq(Frames)]
  BY DEF TypeInv, TypeOK
<1>1. /\ ws_out' = written(f)
      /\ ctx' = ctx /\ after' = after
  BY DEF WriteFrame, wslay_vars, ws_vars
<1>2. /\ lock # <<>> /\ lock[1] = d /\ 1 \in DOMAIN lock
      /\ out[d] # <<>> /\ out[d] \in Seq(Frames) /\ Len(out[d]) >= 1
      /\ out' = [out EXCEPT ![d] = Tail(@)]
      /\ pc[d] = "writing" /\ pc'[d] # "to_peer"
      /\ \A e \in Directions : e # d => pc'[e] = pc[e] /\ out'[e] = out[e]
      /\ \/ lock' = lock
         \/ Len(out[d]) = 1 /\ lock' = Tail(lock)
  BY WriteFrameTurns
<1>3. held' = held
  BY <1>1, <1>2 DEF held, Directions
<1>4. /\ f \in Frames /\ f.op \in Ops(out[d])
      /\ Ops(out'[d]) \subseteq Ops(out[d])
      /\ f.op \in CloseOps => out'[d] = <<>>
  <2>1. f \in Frames /\ Tail(out[d]) \in Seq(Frames) /\ (Len(out[d]) = 1 => Tail(out[d]) = <<>>)
    BY <1>2, TailOf
  <2>2. f.op \in Ops(out[d]) /\ Ops(Tail(out[d])) \subseteq Ops(out[d])
    BY <1>2, OpsOf
  <2>3. out'[d] = Tail(out[d])
    BY <1>0, <1>2
  <2>4. f.op \in CloseOps => Len(out[d]) = 1
    BY <2>2 DEF TypeInv, Turns, closing
  <2> QED BY <2>1, <2>2, <2>3, <2>4
<1> HIDE DEF f
<1>5. /\ Ops(ws_out') = Ops(ws_out) \/ Ops(ws_out') = Ops(ws_out) \union {f.op}
      /\ ws_out' = ws_out \/ ws_out' = Append(ws_out, f)
      /\ closing(ws_out) => ws_out' = Append(ws_out, f)
  BY <1>0, <1>1, <1>4, OpsOf DEF written, closing
<1>6. \A e \in Directions : Ops(out'[e]) \subseteq Ops(out[e])
  BY <1>2, <1>4
<1>7. closing(ws_out') => closing(ws_out) \/ f.op \in CloseOps
  BY <1>5 DEF closing
<1>8. ASSUME f.op \in CloseOps, NEW e \in Directions PROVE pongs(out'[e])
  <2>1. CASE e = d
    BY <1>4, <1>8, <2>1, OpsSmall DEF pongs
  <2>2. CASE e # d /\ out[e] = <<>>
    BY <1>2, <2>2, OpsSmall DEF pongs
  <2>3. CASE e # d /\ out[e] # <<>>
    <3>1. PICK j \in DOMAIN lock : lock[j] = e
      BY <2>3 DEF TypeInv, Turns
    <3>2. 1 < j
      BY <1>0, <1>2, <2>3, <3>1, TailOf
    <3>3. closing(out[lock[1]])
      BY <1>2, <1>4, <1>8 DEF closing
    <3>4. pongs(out[e])
      BY <1>2, <3>1, <3>2, <3>3 DEF Order
    <3> QED BY <1>2, <2>3, <3>4
  <2> QED BY <2>1, <2>2, <2>3
<1>9. f.op \in CloseOps => pongs(held')
  BY <1>3, <1>4 DEF Order, closing
<1>10. "CLOSE_QUEUED" \notin ctx' =>
          ~closing(ws_out') /\ ~closing(held') /\ \A e \in Directions : ~closing(out'[e])
  <2> SUFFICES ASSUME "CLOSE_QUEUED" \notin ctx'
               PROVE  ~closing(ws_out') /\ ~closing(held') /\ \A e \in Directions : ~closing(out'[e])
    OBVIOUS
  <2>1. ~closing(ws_out) /\ ~closing(held) /\ \A e \in Directions : ~closing(out[e])
    BY <1>1 DEF Order
  <2>2. f.op \notin CloseOps
    BY <1>4, <2>1 DEF closing
  <2>3. \A e \in Directions : ~closing(out'[e])
    BY <1>6, <2>1 DEF closing
  <2> QED BY <1>3, <1>7, <2>1, <2>2, <2>3
<1>11. closing(ws_out') => pongs(held') /\ \A e \in Directions : pongs(out'[e])
  <2>1. closing(ws_out) => pongs(held') /\ \A e \in Directions : pongs(out'[e])
    BY <1>3, <1>6 DEF Order, pongs
  <2> QED BY <1>7, <1>8, <1>9, <2>1
<1>12. \A e \in Directions : closing(out'[e]) => pongs(held')
  <2>1. \A e \in Directions : closing(out'[e]) => closing(out[e])
    BY <1>6 DEF closing
  <2> QED BY <1>3, <2>1 DEF Order
<1>13. ASSUME NEW i \in DOMAIN lock', NEW j \in DOMAIN lock', i < j, closing(out'[lock'[i]])
       PROVE  pongs(out'[lock'[j]])
  <2>1. PICK k \in DOMAIN lock, m \in DOMAIN lock : k < m /\ lock'[i] = lock[k] /\ lock'[j] = lock[m]
    <3>1. CASE lock' = lock
      BY <1>13, <3>1
    <3>2. CASE lock' = Tail(lock)
      <4>1. /\ i + 1 \in DOMAIN lock /\ lock'[i] = lock[i + 1] /\ i \in Nat
            /\ j + 1 \in DOMAIN lock /\ lock'[j] = lock[j + 1] /\ j \in Nat
        BY <1>0, <1>2, <3>2, TailOf
      <4>2. i + 1 < j + 1
        BY <1>13, <4>1
      <4> QED BY <4>1, <4>2
    <3> QED BY <1>2, <3>1, <3>2
  <2>2. lock[k] \in Directions /\ lock[m] \in Directions
    BY <1>0
  <2>3. closing(out[lock[k]])
    BY <1>6, <1>13, <2>1, <2>2 DEF closing
  <2>4. pongs(out[lock[m]])
    BY <2>1, <2>3 DEF Order
  <2> QED BY <1>6, <2>1, <2>2, <2>4 DEF pongs
<1>14. ASSUME NEW i \in DOMAIN ws_out', NEW j \in DOMAIN ws_out', ws_out'[i].op \in CloseOps, i < j
       PROVE  ws_out'[j].op = "pong"
  <2>1. CASE ws_out' = ws_out
    BY <1>14, <2>1 DEF Order
  <2>2. CASE ws_out' = Append(ws_out, f)
    <3>1. /\ DOMAIN ws_out' = 1..(Len(ws_out) + 1) /\ DOMAIN ws_out = 1..Len(ws_out)
          /\ Len(ws_out) \in Nat
          /\ \A k \in 1..Len(ws_out) : ws_out'[k] = ws_out[k]
          /\ ws_out'[Len(ws_out) + 1] = f
      BY <1>0, <1>4, <2>2
    <3>2. i \in DOMAIN ws_out /\ ws_out'[i] = ws_out[i]
      BY <1>14, <3>1
    <3>3. CASE j \in DOMAIN ws_out
      BY <1>14, <3>1, <3>2, <3>3 DEF Order
    <3>4. CASE j \notin DOMAIN ws_out
      <4>1. ws_out'[j] = f
        BY <3>1, <3>4
      <4>2. closing(ws_out)
        BY <1>14, <3>2 DEF closing, Ops
      <4>3. f.op = "pong"
        BY <1>4, <4>2 DEF Order, pongs
      <4> QED BY <4>1, <4>3
    <3> QED BY <3>3, <3>4
  <2> QED BY <1>5, <2>1, <2>2
<1>15. ~closing(held') => pongs(held')
  BY <1>3 DEF Order
<1> QED BY <1>10, <1>11, <1>12, <1>13, <1>14, <1>15 DEF Order, closing, pongs, Ops

LEMMA OrderKept ==
    ASSUME Order, ws_out' = ws_out, ctx' = ctx, out' = out, lock' = lock, held' = held
    PROVE  Order'
<1>1. "CLOSE_QUEUED" \notin ctx' =>
         ~closing(ws_out') /\ ~closing(held') /\ \A d \in Directions : ~closing(out'[d])
  BY DEF Order
<1>2. closing(ws_out') => pongs(held') /\ \A d \in Directions : pongs(out'[d])
  BY DEF Order
<1>3. \A d \in Directions : closing(out'[d]) => pongs(held')
  BY DEF Order
<1>4. \A i, j \in DOMAIN lock' : i < j /\ closing(out'[lock'[i]]) => pongs(out'[lock'[j]])
  BY DEF Order
<1>5. ~closing(held') => pongs(held')
  BY DEF Order
<1>6. \A i, j \in DOMAIN ws_out' :
         ws_out'[i].op \in CloseOps /\ i < j => ws_out'[j].op = "pong"
  BY DEF Order
<1> QED BY <1>1, <1>2, <1>3, <1>4, <1>5, <1>6 DEF Order, closing, pongs, Ops

LEMMA WsToPeerOrder ==
    ASSUME TypeInv, Order, WsToPeer PROVE Order'
<1>0. "ws" \in Directions /\ Turns
  BY DEF Directions, TypeInv
<1>1. ~closing(<<>>) /\ pongs(<<>>)
  BY OpsSmall DEF closing, pongs
<1>2. ASSUME NEW n \in 1..MaxBatch, WsRead(n) PROVE Order'
  <2> DEFINE b == SubSeq(ws_in, 1, n)
             p == parsed(b)
             fs == replies(p)
             fin == ws_finish(p)
             data == Numbers(p)
  <2>1. /\ pc["ws"] = "ready" /\ n <= Len(ws_in)
        /\ ctx' = ctx \union recv_flags(p)
        /\ forward(data, fs, fin)
        /\ ws_out' = ws_out
    BY <1>2 DEF WsRead, socket_vars
  <2>2. p \in Seq(ClientFrames)
    BY <2>1, BatchOf
  <2> HIDE DEF b, p
  <2>3. /\ "CLOSE_QUEUED" \in ctx => fs = <<>>
        /\ closing(fs) => "CLOSE_QUEUED" \in recv_flags(p)
        /\ ~closing(fs) => pongs(fs)
    BY <2>2, RepliesOf
  <2> HIDE DEF fs, fin, data
  <2>4. /\ closing(ws_out) => pongs(fs)
        /\ \A e \in Directions : closing(out[e]) => pongs(fs)
    BY <1>1, <2>3 DEF Order
  <2>5. ctx \subseteq ctx' /\ ("CLOSE_QUEUED" \notin ctx' => ~closing(fs))
    BY <2>1, <2>3
  <2>6. held = <<>> /\ pc["ws"] # "writing"
    BY <2>1 DEF held
  <2>7. CASE /\ after' = [out |-> fs, finish |-> fin]
             /\ pc' = [pc EXCEPT !["ws"] = "to_peer"]
             /\ UNCHANGED <<out, finish, lock, ended>>
    <3>1. write_then("ws", <<>>, "none", "to_peer")
      BY <2>7 DEF write_then
    <3>2. pc \in [Directions -> {"ready", "writing", "to_peer", "waiting"}]
      BY DEF TypeInv, TypeOK
    <3>3. held' = fs
      BY <1>0, <2>7, <3>2 DEF held
    <3> QED BY <1>0, <1>1, <2>1, <2>3, <2>4, <2>5, <2>6, <3>1, <3>3, TakeOrder
  <2>8. CASE UNCHANGED ws_vars /\ write_then("ws", fs, fin, "ready")
    <3>1. pc'["ws"] # "to_peer"
      <4>1. pc \in [Directions -> {"ready", "writing", "to_peer", "waiting"}]
        BY DEF TypeInv, TypeOK
      <4> QED BY <1>0, <2>1, <2>8, <4>1 DEF write_then, end, dir_vars
    <3>2. held' = <<>>
      BY <3>1 DEF held
    <3> QED BY <1>0, <1>1, <2>1, <2>3, <2>4, <2>5, <2>6, <2>8, <3>2, TakeOrder
  <2> QED BY <2>1, <2>7, <2>8 DEF forward
<1>3. ASSUME WsEof PROVE Order'
  <2>1. UNCHANGED <<ws_out, ctx, out, lock, held>>
    BY <1>3 DEF WsEof, end, dir_vars, socket_vars, wslay_vars, ws_vars, held
  <2> QED BY <2>1, OrderKept
<1>4. ASSUME PeerWrite PROVE Order'
  <2>1. /\ pc["ws"] = "to_peer" /\ pc["ws"] # "writing"
        /\ \/ UNCHANGED <<pc, out, lock>>
           \/ write_then("ws", after.out, after.finish, "ready")
        /\ UNCHANGED <<ws_out, ctx, after>>
    BY <1>4 DEF PeerWrite, dir_vars, socket_vars, wslay_vars
  <2>2. held = after.out
    BY <2>1 DEF held
  <2>3. CASE UNCHANGED <<pc, out, lock>>
    <3>1. held' = held
      BY <2>1, <2>3 DEF held
    <3> QED BY <2>1, <2>3, <3>1, OrderKept
  <2>4. CASE write_then("ws", after.out, after.finish, "ready")
    <3>1. held' = <<>> \/ (held' = held /\ held = <<>>)
      <4>1. pc \in [Directions -> {"ready", "writing", "to_peer", "waiting"}]
        BY DEF TypeInv, TypeOK
      <4> QED BY <1>0, <2>1, <2>2, <2>4, <4>1 DEF write_then, end, dir_vars, held
    <3>2. held' = <<>>
      BY <3>1
    <3>3. ctx \subseteq ctx' /\ ("CLOSE_QUEUED" \notin ctx' => ~closing(after.out))
      BY <2>1, <2>2 DEF Order
    <3>4. /\ closing(ws_out) => pongs(after.out)
          /\ \A e \in Directions : closing(out[e]) => pongs(after.out)
      BY <2>2 DEF Order
    <3> QED BY <1>0, <1>1, <2>1, <2>4, <3>2, <3>3, <3>4, TakeOrder
  <2> QED BY <2>1, <2>3, <2>4
<1>5. ASSUME PeerWriteFails PROVE Order'
  <2>1. /\ pc["ws"] = "to_peer" /\ pc["ws"] # "writing"
        /\ ctx' = ctx \union queued("error")
        /\ write_then("ws", queue(Frame("error")), "error", "ready")
        /\ UNCHANGED <<ws_out, after>>
    BY <1>5 DEF PeerWriteFails, socket_vars
  <2>2. held' = held \/ held' = <<>>
    BY <2>1 DEF held
  <2>3. Frame("error").op = "error"
    BY FrameOps
  <2> QED BY <1>0, <2>1, <2>2, <2>3, QueueOrder
<1> QED BY <1>2, <1>3, <1>4, <1>5 DEF WsToPeer

\* A direction other than ws does not touch what the ws direction holds.
LEMMA HeldKept ==
    ASSUME TypeInv, NEW d \in Directions \ {"ws"}, NEW fs, NEW fin, NEW next,
           write_then(d, fs, fin, next), after' = after
    PROVE  held' = held
<1>1. pc \in [Directions -> {"ready", "writing", "to_peer", "waiting"}]
  BY DEF TypeInv, TypeOK
<1>2. pc'["ws"] = pc["ws"]
  BY <1>1 DEF write_then, end, dir_vars, Directions
<1> QED BY <1>2 DEF held

LEMMA OrderStep == TypeInv /\ Order /\ [Next]_vars => Order'
<1> SUFFICES ASSUME TypeInv, Order, [Next]_vars PROVE Order'
  OBVIOUS
<1>0. {"peer", "control", "keepalive"} \subseteq Directions \ {"ws"}
  BY DEF Directions
<1>1. CASE UNCHANGED <<ws_out, ctx, pc, out, lock, after>>
  <2>1. held' = held
    BY <1>1 DEF held
  <2> QED BY <1>1, <2>1, OrderKept
<1>2. CASE Environment
  <2>1. UNCHANGED bridge_vars
    BY <1>2 DEF Environment, ClientData, ClientPing, ClientPong, ClientCloses, ClientErrs,
         ClientGoes, ClientDies, SocketStalls, SocketDrains, UpstreamSends, UpstreamEnds,
         UpstreamTakes
  <2> QED BY <1>1, <2>1 DEF bridge_vars, wslay_vars, dir_vars, ws_vars
<1>3. CASE Tick
  BY <1>1, <1>3 DEF Tick, socket_vars, wslay_vars, dir_vars, ws_vars
<1>4. CASE PeerToWs
  <2>1. CASE PeerRead
    <3>1. /\ pc["peer"] # "writing" /\ UNCHANGED <<ws_out, ctx, after>>
          /\ write_then("peer", queue(Data(up_read + 1)), "none", "ready")
      BY <2>1 DEF PeerRead, socket_vars, wslay_vars, ws_vars
    <3>2. Data(up_read + 1).op = "data" /\ ctx' = ctx \union queued("data")
      BY <3>1, FrameOps DEF queued, CloseOps
    <3> QED BY <1>0, <3>1, <3>2, HeldKept, QueueOrder
  <2>2. CASE PeerReadEnds
    <3> DEFINE cf == close_for(upstream)
    <3>1. /\ pc["peer"] # "writing" /\ UNCHANGED <<ws_out, after>>
          /\ ctx' = ctx \union queued(cf)
          /\ write_then("peer", queue(Frame(cf)), cf, "ready")
      BY <2>2 DEF PeerReadEnds, socket_vars, ws_vars
    <3>2. Frame(cf).op = cf
      BY FrameOps
    <3> HIDE DEF cf
    <3> QED BY <1>0, <3>1, <3>2, HeldKept, QueueOrder
  <2> QED BY <1>4, <2>1, <2>2 DEF PeerToWs
<1>5. CASE Keepalive
  <2>1. CASE KeepalivePing
    <3>1. /\ pc["keepalive"] # "writing" /\ UNCHANGED <<ws_out, ctx, after>>
          /\ write_then("keepalive", queue(Frame("ping")), "none", "waiting")
      BY <2>1 DEF KeepalivePing, socket_vars, wslay_vars, ws_vars
    <3>2. Frame("ping").op = "ping" /\ ctx' = ctx \union queued("ping")
      BY <3>1, FrameOps DEF queued, CloseOps
    <3> QED BY <1>0, <3>1, <3>2, HeldKept, QueueOrder
  <2>2. CASE KeepaliveAnswered
    <3>1. /\ UNCHANGED <<ws_out, ctx, out, lock, after>>
          /\ pc' = [pc EXCEPT !["keepalive"] = "ready"]
      BY <2>2 DEF KeepaliveAnswered, socket_vars, wslay_vars, ws_vars
    <3>2. pc'["ws"] = pc["ws"]
      BY <3>1 DEF TypeInv, TypeOK, Directions
    <3>3. held' = held
      BY <3>1, <3>2 DEF held
    <3> QED BY <3>1, <3>3, OrderKept
  <2>3. CASE KeepaliveExpires
    <3>1. /\ pc["keepalive"] # "writing" /\ UNCHANGED <<ws_out, after>>
          /\ ctx' = ctx \union queued("timeout")
          /\ write_then("keepalive", queue(Frame("timeout")), "timeout", "ready")
      BY <2>3 DEF KeepaliveExpires, socket_vars, ws_vars
    <3>2. Frame("timeout").op = "timeout"
      BY FrameOps
    <3> QED BY <1>0, <3>1, <3>2, HeldKept, QueueOrder
  <2> QED BY <1>5, <2>1, <2>2, <2>3 DEF Keepalive
<1>6. ASSUME NEW op \in {"ping", "pong", "control"}, Control(op) PROVE Order'
  <2>1. /\ pc["control"] # "writing" /\ UNCHANGED <<ws_out, after>>
        /\ ctx' = ctx \union queued(op)
        /\ write_then("control", queue(Frame(op)), "none", "ready")
    BY <1>6 DEF Control, socket_vars, ws_vars
  <2>2. Frame(op).op = op
    BY FrameOps
  <2> QED BY <1>0, <2>1, <2>2, HeldKept, QueueOrder
<1>7. ASSUME NEW d \in Directions, WriteFails(d) PROVE Order'
  BY <1>1, <1>7 DEF WriteFails, end, dir_vars, socket_vars, wslay_vars, ws_vars
<1>8. CASE UNCHANGED vars
  BY <1>1, <1>8 DEF vars, dir_vars, socket_vars, wslay_vars, ws_vars
<1> QED BY <1>2, <1>3, <1>4, <1>5, <1>6, <1>7, <1>8, WsToPeerOrder, WriteFrameOrder
     DEF Next, Bridge

\* Neither data nor a second Close is ever written after a Close, for every
\* scenario, batch size and keep-alive: the directions take their frames from one
\* context and the queue keeps the order in which they took them, but for pongs
\* that the ws direction holds back (wslay.rs: bridge_with).
THEOREM CloseIsLastHolds == Spec => []CloseIsLast
<1>1. Spec => []Order
  BY OrderInit, OrderStep, BridgeTypes, PTL DEF Spec
<1>2. TypeInv /\ Order => CloseIsLast
  BY DEF TypeInv, Order, CloseIsLast
<1> QED BY <1>1, <1>2, BridgeTypes, PTL

-----------------------------------------------------------------------------
(* Ranks in longer and in shorter sequences *)

Grows(t, s, f) == t = Append(s, f)

LEMMA PlacesAppend ==
    ASSUME NEW S, NEW s \in Seq(S), NEW f \in S, NEW op, NEW t, Grows(t, s, f)
    PROVE  /\ f.op # op => Places(t, op) = Places(s, op)
           /\ f.op = op => /\ Places(t, op) = Places(s, op) \union {Len(s) + 1}
                           /\ Cardinality(Places(t, op)) = Cardinality(Places(s, op)) + 1
                           /\ Rank(Len(s) + 1, Places(t, op)) = Cardinality(Places(s, op)) + 1
           /\ \A i \in Places(s, op) :
                 t[i] = s[i] /\ Rank(i, Places(t, op)) = Rank(i, Places(s, op))
           /\ t[Len(s) + 1] = f
<1> DEFINE at == Places(s, op)
<1>1. /\ DOMAIN s = 1..Len(s) /\ Len(s) \in Nat
      /\ DOMAIN t = DOMAIN s \union {Len(s) + 1} /\ Len(s) + 1 \notin DOMAIN s
      /\ \A i \in DOMAIN s : t[i] = s[i]
      /\ t[Len(s) + 1] = f
  BY DEF Grows
<1>2. at \subseteq 1..Len(s) /\ IsFiniteSet(at) /\ Cardinality(at) \in Nat
  BY PlacesFinite
<1>3. f.op # op => Places(t, op) = at
  BY <1>1 DEF Places
<1>4. f.op = op => Places(t, op) = at \union {Len(s) + 1}
  BY <1>1 DEF Places
<1>5. \A i \in at : t[i] = s[i]
  BY <1>1 DEF Places
<1> HIDE DEF at
<1>6. Cardinality(at \union {Len(s) + 1}) = Cardinality(at) + 1
  <2>1. Len(s) + 1 \notin at
    BY <1>1, <1>2
  <2> QED BY <1>2, <2>1, FS_AddElement
<1>7. Rank(Len(s) + 1, at \union {Len(s) + 1}) = Cardinality(at) + 1
  <2>1. \A j \in at \union {Len(s) + 1} : j <= Len(s) + 1
    BY <1>1, <1>2
  <2>2. {j \in at \union {Len(s) + 1} : j <= Len(s) + 1} = at \union {Len(s) + 1}
    BY <2>1, Zenon
  <2> QED BY <1>6, <2>2 DEF Rank
<1>8. ASSUME NEW i \in at PROVE Rank(i, at \union {Len(s) + 1}) = Rank(i, at)
  <2>1. ~(Len(s) + 1 <= i)
    BY <1>1, <1>2
  <2>2. {j \in at \union {Len(s) + 1} : j <= i} = {j \in at : j <= i}
    BY <2>1, Zenon
  <2> QED BY <2>2 DEF Rank
<1>9. \A i \in at : Rank(i, Places(t, op)) = Rank(i, at)
  BY <1>3, <1>4, <1>8
<1> QED BY <1>1, <1>3, <1>4, <1>5, <1>6, <1>7, <1>9 DEF at

LEMMA PlacesEmpty == \A op : Places(<<>>, op) = {} /\ Cardinality(Places(<<>>, op)) = 0
BY FS_EmptySet DEF Places

\* When the data frames are numbered on from c, so are their numbers.
LEMMA NumbersCount ==
    ASSUME NEW S, NEW s \in Seq(S), NEW c \in Nat,
           \A i \in Places(s, "data") : s[i].n = c + Rank(i, Places(s, "data"))
    PROVE  Numbers(s) = [k \in 1..Cardinality(Places(s, "data")) |-> c + k]
<1> DEFINE at == Places(s, "data")
<1>1. \A k \in 1..Cardinality(at) : \E i \in at : Rank(i, at) = k /\ Numbers(s)[k] = s[i].n
  BY NumbersOf
<1>2. Numbers(s) = [k \in 1..Cardinality(at) |-> Numbers(s)[k]]
  BY NumbersOf
<1> HIDE DEF at
<1>3. \A k \in 1..Cardinality(at) : Numbers(s)[k] = c + k
  BY <1>1 DEF at
<1>4. Numbers(s) = [k \in 1..Cardinality(at) |-> c + k]
  BY <1>2, <1>3
<1> QED BY <1>4 DEF at

\* Shifting a finite set of naturals keeps its size.
LEMMA ShiftCount ==
    ASSUME NEW X \in SUBSET Nat, NEW Y \in SUBSET Nat, NEW m \in Nat, IsFiniteSet(X),
           \A y \in Y : y + m \in X, \A x \in X : x > m /\ x - m \in Y
    PROVE  Cardinality(Y) = Cardinality(X)
<1> DEFINE g == [x \in X |-> x - m]
<1>1. g \in [X -> Y]
  OBVIOUS
<1>2. \A x, z \in X : g[x] = g[z] => x = z
  OBVIOUS
<1>3. \A y \in Y : \E x \in X : g[x] = y
  <2> TAKE y \in Y
  <2>1. g[y + m] = y
    OBVIOUS
  <2> QED BY <2>1
<1> HIDE DEF g
<1>4. g \in Bijection(X, Y)
  <2>1. g \in Injection(X, Y)
    BY <1>1, <1>2, Zenon DEF Injection, IsInjective
  <2>2. g \in Surjection(X, Y)
    BY <1>1, <1>3, Zenon DEF Surjection
  <2> QED BY <2>1, <2>2, Zenon DEF Bijection
<1>5. ExistsBijection(X, Y)
  BY <1>4 DEF ExistsBijection
<1> QED BY <1>5, FS_Bijection

\* The sequence s cut in two at n.
Cut(s, b, t, n, S) ==
    /\ s \in Seq(S) /\ b \in Seq(S) /\ t \in Seq(S)
    /\ n \in Nat /\ n <= Len(s) /\ Len(b) = n /\ Len(t) = Len(s) - n
    /\ \A i \in 1..n : b[i] = s[i]
    /\ \A i \in 1..Len(t) : t[i] = s[n + i]

\* The places of its parts.
LEMMA PlacesCut ==
    ASSUME NEW S, NEW s, NEW b, NEW t, NEW n, NEW op, Cut(s, b, t, n, S)
    PROVE  /\ Cardinality(Places(s, op)) = Cardinality(Places(b, op)) + Cardinality(Places(t, op))
           /\ \A i \in Places(b, op) :
                 i \in Places(s, op) /\ Rank(i, Places(b, op)) = Rank(i, Places(s, op))
           /\ \A i \in Places(t, op) :
                 /\ n + i \in Places(s, op)
                 /\ Rank(n + i, Places(s, op)) = Cardinality(Places(b, op)) + Rank(i, Places(t, op))
<1> DEFINE A == Places(s, op)
           B == Places(b, op)
           T == Places(t, op)
<1> USE DEF Cut
<1>0. /\ Len(s) \in Nat /\ Len(t) \in Nat
      /\ DOMAIN s = 1..Len(s) /\ DOMAIN b = 1..n /\ DOMAIN t = 1..Len(t)
  OBVIOUS
<1>1. /\ A \subseteq 1..Len(s) /\ IsFiniteSet(A) /\ Cardinality(A) \in Nat
      /\ B \subseteq 1..n /\ IsFiniteSet(B) /\ Cardinality(B) \in Nat
      /\ T \subseteq 1..Len(t) /\ IsFiniteSet(T) /\ Cardinality(T) \in Nat
  BY PlacesFinite
<1>2. \A i \in 1..Len(s) : i <= n => (i \in A <=> i \in B)
  BY <1>0 DEF Places
<1>3. \A i \in 1..Len(t) : n + i \in A <=> i \in T
  <2> TAKE i \in 1..Len(t)
  <2>1. n + i \in DOMAIN s /\ t[i] = s[n + i] /\ i \in DOMAIN t
    BY <1>0
  <2> QED BY <2>1 DEF Places
<1> HIDE DEF A, B, T
<1>4. ASSUME NEW c \in 0..Len(t)
      PROVE  Cardinality({j \in A : j <= n + c}) = Cardinality(B) + Cardinality({j \in T : j <= c})
  <2> DEFINE X == {j \in A : n < j /\ j <= n + c}
             Y == {j \in T : j <= c}
             Z == {j \in A : j <= n + c}
  <2>1. Z = B \union X
    <3>1. \A j \in Z : j \in B \/ j \in X
      BY <1>0, <1>1, <1>2
    <3>2. \A j \in B : j \in Z
      BY <1>0, <1>1, <1>2
    <3> QED BY <3>1, <3>2
  <2>8. \A j \in B : ~(n < j)
    BY <1>1
  <2>2. B \cap X = {}
    BY <2>8, Zenon
  <2>3. IsFiniteSet(X)
    BY <1>1, FS_Subset
  <2>4. Cardinality(Y) = Cardinality(X)
    <3>4. A \subseteq Nat /\ T \subseteq Nat
      BY <1>1
    <3>1. X \in SUBSET Nat /\ Y \in SUBSET Nat
      BY <3>4, Zenon
    <3>2. \A y \in Y : y + n \in X
      <4> TAKE y \in Y
      <4>1. y \in 1..Len(t) /\ y <= c /\ y \in T
        BY <1>1
      <4>2. n + y \in A /\ n + y = y + n
        BY <1>0, <1>3, <4>1
      <4> QED BY <1>0, <4>1, <4>2
    <3>3. \A x \in X : x > n /\ x - n \in Y
      <4> TAKE x \in X
      <4>1. x \in 1..Len(s) /\ n < x /\ x <= n + c /\ x \in A
        BY <1>1
      <4>2. x - n \in 1..Len(t) /\ n + (x - n) = x /\ x - n <= c
        BY <1>0, <4>1
      <4>3. x - n \in T
        BY <1>3, <4>1, <4>2
      <4> QED BY <4>1, <4>2, <4>3
    <3> HIDE DEF X, Y
    <3> QED BY <2>3, <3>1, <3>2, <3>3, ShiftCount
  <2>5. Cardinality(B \union X) = Cardinality(B) + Cardinality(X) - Cardinality(B \cap X)
    BY <1>1, <2>3, FS_Union
  <2>6. Cardinality(X) \in Nat
    BY <2>3, FS_CardinalityType
  <2> HIDE DEF X, Y, Z
  <2>9. Cardinality(B \cap X) = 0
    BY <2>2, FS_EmptySet
  <2>7. Cardinality(Z) = Cardinality(B) + Cardinality(Y)
    BY <1>1, <2>1, <2>4, <2>5, <2>6, <2>9
  <2> QED BY <2>7 DEF Y, Z
<1>5. Cardinality(A) = Cardinality(B) + Cardinality(T)
  <2>1. \A j \in A : j <= n + Len(t)
    BY <1>0, <1>1
  <2>2. \A j \in T : j <= Len(t)
    BY <1>0, <1>1
  <2>3. {j \in A : j <= n + Len(t)} = A /\ {j \in T : j <= Len(t)} = T
    BY <2>1, <2>2, Zenon
  <2>4. Len(t) \in 0..Len(t)
    BY <1>0
  <2> QED BY <1>4, <2>3, <2>4
<1>6. ASSUME NEW i \in B PROVE i \in A /\ Rank(i, B) = Rank(i, A)
  <2>1. i \in 1..n /\ i \in 1..Len(s)
    BY <1>0, <1>1
  <2>2. \A j \in A : j <= i => j \in B
    BY <1>0, <1>1, <1>2, <2>1
  <2>3. \A j \in B : j \in A
    BY <1>0, <1>1, <1>2
  <2>4. {j \in B : j <= i} = {j \in A : j <= i}
    BY <2>2, <2>3, Zenon
  <2> QED BY <2>3, <2>4 DEF Rank
<1>7. ASSUME NEW i \in T
      PROVE  n + i \in A /\ Rank(n + i, A) = Cardinality(B) + Rank(i, T)
  <2>1. i \in 1..Len(t) /\ i \in 0..Len(t)
    BY <1>1
  <2> QED BY <1>3, <1>4, <2>1 DEF Rank
<1> QED BY <1>5, <1>6, <1>7 DEF A, B, T

-----------------------------------------------------------------------------
(* Upstream to WebSocket *)

\* The data frames that were written to the client.
given == Cardinality(Places(ws_out, "data"))

\* The data written is numbered from 1, the peer direction has the next number in
\* hand or nothing is missing while no Close is queued, and the Close of a clean
\* end comes when all was written.
Downward ==
    /\ \A i \in Places(ws_out, "data") : ws_out[i].n = Rank(i, Places(ws_out, "data"))
    /\ given <= up_read /\ up_read <= up_sent
    /\ \A d \in Directions \ {"peer"} : Ops(out[d]) \cap {"data", "normal"} = {}
    /\ Ops(after.out) \cap {"data", "normal"} = {}
    /\ Len(out["peer"]) <= 1
    /\ "data" \in Ops(out["peer"]) => given < up_read /\ out["peer"][1].n = given + 1
    /\ "CLOSE_QUEUED" \notin ctx =>
          up_read = IF "data" \in Ops(out["peer"]) THEN given + 1 ELSE given
    /\ "normal" \in Ops(out["peer"]) \union Ops(ws_out) => upstream = "eof" /\ given = up_sent

LEMMA DownwardInit == Init => Downward
<1> SUFFICES ASSUME Init PROVE Downward
  OBVIOUS
<1>1. /\ ws_out = <<>> /\ up_read = 0 /\ up_sent = 0 /\ \A d \in Directions : out[d] = <<>>
      /\ after.out = <<>> /\ "peer" \in Directions
  BY DEF Init, Directions
<1>2. Places(ws_out, "data") = {} /\ given = 0
  BY <1>1, PlacesEmpty DEF given
<1>3. Len(<<>>) = 0
  OBVIOUS
<1> QED BY <1>1, <1>2, <1>3, OpsSmall DEF Downward

\* A step that neither writes to the client nor reads from the upstream.
LEMMA DownwardKept ==
    ASSUME TypeInv, Downward, ws_out' = ws_out, up_read' = up_read, ctx \subseteq ctx',
           out'["peer"] = out["peer"], up_sent' \in Nat, up_sent' >= up_sent,
           upstream = "eof" => upstream' = upstream /\ up_sent' = up_sent,
           \A d \in Directions \ {"peer"} : Ops(out'[d]) \cap {"data", "normal"} = {},
           Ops(after'.out) \cap {"data", "normal"} = {}
    PROVE  Downward'
<1>0. given' = given
  BY DEF given
<1>1. up_read \in Nat /\ up_sent \in Nat
  BY FrameTypes DEF TypeInv, TypeOK
<1>2. \A i \in Places(ws_out', "data") : ws_out'[i].n = Rank(i, Places(ws_out', "data"))
  BY DEF Downward
<1>3. given <= up_read /\ up_read' <= up_sent'
  BY <1>1 DEF Downward
<1>4. Len(out'["peer"]) <= 1
  BY DEF Downward
<1>5. "data" \in Ops(out'["peer"]) => given < up_read' /\ out'["peer"][1].n = given + 1
  BY DEF Downward
<1>6. "CLOSE_QUEUED" \notin ctx' =>
         up_read' = IF "data" \in Ops(out'["peer"]) THEN given + 1 ELSE given
  BY DEF Downward
<1>7. "normal" \in Ops(out'["peer"]) \union Ops(ws_out') => upstream' = "eof" /\ given = up_sent'
  BY DEF Downward
<1> HIDE DEF given
<1>8. Ops(out'["peer"]) = Ops(out["peer"]) /\ Ops(ws_out') = Ops(ws_out)
  OBVIOUS
<1> QED BY <1>0, <1>2, <1>3, <1>4, <1>5, <1>6, <1>7 DEF Downward, Ops, Places, Rank

\* A direction other than peer takes frames that are neither data nor a clean end.
LEMMA DownwardTake ==
    ASSUME TypeInv, Downward, NEW d \in Directions \ {"peer"}, NEW fs, NEW fin, NEW next,
           write_then(d, fs, fin, next),
           UNCHANGED <<ws_out, up_read, up_sent, upstream>>, ctx \subseteq ctx',
           Ops(fs) \cap {"data", "normal"} = {},
           Ops(after'.out) \cap {"data", "normal"} = {}
    PROVE  Downward'
<1>1. out \in [Directions -> Seq(Frames)] /\ "peer" \in Directions
  BY DEF TypeInv, TypeOK, Directions
<1>2. up_sent \in Nat
  BY FrameTypes DEF TypeInv, TypeOK
<1>3. /\ out'["peer"] = out["peer"]
      /\ \A e \in Directions : out'[e] = out[e] \/ out'[e] = fs
  BY <1>1 DEF write_then, end, dir_vars
<1>4. \A e \in Directions \ {"peer"} : Ops(out'[e]) \cap {"data", "normal"} = {}
  BY <1>3 DEF Downward
<1> QED BY <1>2, <1>3, <1>4, DownwardKept

LEMMA PeerReadDownward ==
    ASSUME TypeInv, Downward, PeerRead PROVE Downward'
<1> DEFINE f == Data(up_read + 1)
<1>0. /\ up_read \in Nat /\ up_sent \in Nat /\ "peer" \in Directions
      /\ out \in [Directions -> Seq(Frames)]
  BY FrameTypes DEF TypeInv, TypeOK, Directions
<1>1. /\ pc["peer"] = "ready" /\ up_read < up_sent
      /\ up_read' = up_read + 1
      /\ write_then("peer", queue(f), "none", "ready")
      /\ UNCHANGED <<ws_out, upstream, up_sent, ctx, after>>
  BY DEF PeerRead, socket_vars, up_vars, wslay_vars, ws_vars
<1>2. out["peer"] = <<>>
  BY <1>0, <1>1 DEF TypeInv, Turns
<1>3. f.op = "data" /\ f.n = up_read + 1
  BY FrameOps
<1> HIDE DEF f
<1>4. /\ \A d \in Directions \ {"peer"} : out'[d] = out[d]
      /\ out'["peer"] = queue(f)
  BY <1>0, <1>1, <1>2 DEF write_then, end, dir_vars
<1>5. given' = given /\ given \in Nat
  <2>1. ws_out \in Seq(Frames)
    BY DEF TypeInv, TypeOK
  <2> QED BY <1>1, <2>1, PlacesFinite DEF given
<1>6. \A i \in Places(ws_out', "data") : ws_out'[i].n = Rank(i, Places(ws_out', "data"))
  BY <1>1 DEF Downward
<1>7. given <= up_read' /\ up_read' <= up_sent'
  BY <1>0, <1>1, <1>5 DEF Downward
<1>8. \A d \in Directions \ {"peer"} : Ops(out'[d]) \cap {"data", "normal"} = {}
  BY <1>4 DEF Downward
<1>9. Ops(after'.out) \cap {"data", "normal"} = {}
  BY <1>1 DEF Downward
<1>10. /\ Len(out'["peer"]) <= 1 /\ "normal" \notin Ops(out'["peer"])
       /\ "data" \in Ops(out'["peer"]) => given < up_read' /\ out'["peer"][1].n = given + 1
       /\ "CLOSE_QUEUED" \notin ctx' =>
             up_read' = IF "data" \in Ops(out'["peer"]) THEN given + 1 ELSE given
  <2>1. CASE "CLOSE_QUEUED" \in ctx
    <3>1. out'["peer"] = <<>>
      BY <1>4, <2>1 DEF queue
    <3>2. Len(<<>>) <= 1
      OBVIOUS
    <3> QED BY <1>1, <2>1, <3>1, <3>2, OpsSmall
  <2>2. CASE "CLOSE_QUEUED" \notin ctx
    <3>1. out'["peer"] = <<f>>
      BY <1>4, <2>2 DEF queue
    <3>2. Len(<<f>>) <= 1 /\ <<f>>[1] = f
      OBVIOUS
    <3>3. up_read = given
      BY <1>2, <2>2, OpsSmall DEF Downward
    <3>4. Ops(out'["peer"]) = {"data"}
      BY <1>3, <3>1, OpsSmall
    <3>5. given < up_read' /\ out'["peer"][1].n = given + 1 /\ up_read' = given + 1
      BY <1>0, <1>1, <1>3, <3>1, <3>2, <3>3
    <3> QED BY <3>1, <3>2, <3>4, <3>5
  <2> QED BY <2>1, <2>2
<1>11. "normal" \in Ops(ws_out') => upstream' = "eof" /\ given = up_sent'
  BY <1>1 DEF Downward
<1> HIDE DEF given
<1> QED BY <1>5, <1>6, <1>7, <1>8, <1>9, <1>10, <1>11 DEF Downward, Ops, Places, Rank

LEMMA PeerReadEndsDownward ==
    ASSUME TypeInv, Downward, PeerReadEnds PROVE Downward'
<1> DEFINE cf == close_for(upstream)
           f == Frame(cf)
<1>0. /\ up_read \in Nat /\ up_sent \in Nat /\ "peer" \in Directions
      /\ out \in [Directions -> Seq(Frames)]
  BY FrameTypes DEF TypeInv, TypeOK, Directions
<1>1. /\ pc["peer"] = "ready"
      /\ upstream = "reset" \/ (upstream = "eof" /\ up_read = up_sent)
      /\ ctx' = ctx \union queued(cf)
      /\ write_then("peer", queue(f), cf, "ready")
      /\ UNCHANGED <<ws_out, upstream, up_sent, up_read, after>>
  BY DEF PeerReadEnds, socket_vars, up_vars, ws_vars
<1>2. out["peer"] = <<>>
  BY <1>0, <1>1 DEF TypeInv, Turns
<1>3. f.op = cf /\ cf \in {"normal", "error"} /\ (cf = "normal" => upstream = "eof")
  BY FrameOps DEF close_for
<1> HIDE DEF f, cf
<1>4. /\ \A d \in Directions \ {"peer"} : out'[d] = out[d]
      /\ out'["peer"] = queue(f)
  <2>1. queue(f) = <<>> \/ queue(f) # <<>>
    OBVIOUS
  <2> QED BY <1>0, <1>1, <1>2 DEF write_then, end, dir_vars
<1>5. given' = given /\ given \in Nat
  <2>1. ws_out \in Seq(Frames)
    BY DEF TypeInv, TypeOK
  <2> QED BY <1>1, <2>1, PlacesFinite DEF given
<1>6. \A i \in Places(ws_out', "data") : ws_out'[i].n = Rank(i, Places(ws_out', "data"))
  BY <1>1 DEF Downward
<1>7. given <= up_read' /\ up_read' <= up_sent'
  BY <1>0, <1>1, <1>5 DEF Downward
<1>8. \A d \in Directions \ {"peer"} : Ops(out'[d]) \cap {"data", "normal"} = {}
  BY <1>4 DEF Downward
<1>9. Ops(after'.out) \cap {"data", "normal"} = {}
  BY <1>1 DEF Downward
<1>10. /\ Len(out'["peer"]) <= 1 /\ "data" \notin Ops(out'["peer"])
       /\ "CLOSE_QUEUED" \in ctx'
       /\ "normal" \in Ops(out'["peer"]) => upstream' = "eof" /\ given = up_sent'
  <2>0. "CLOSE_QUEUED" \in ctx'
    BY <1>1, <1>3 DEF queued, CloseOps
  <2>1. CASE "CLOSE_QUEUED" \in ctx
    <3>1. out'["peer"] = <<>>
      BY <1>4, <2>1 DEF queue
    <3>2. Len(<<>>) <= 1
      OBVIOUS
    <3> QED BY <2>0, <3>1, <3>2, OpsSmall
  <2>2. CASE "CLOSE_QUEUED" \notin ctx
    <3>1. out'["peer"] = <<f>>
      BY <1>4, <2>2 DEF queue
    <3>2. Len(<<f>>) <= 1
      OBVIOUS
    <3>3. up_read = given
      BY <1>2, <2>2, OpsSmall DEF Downward
    <3>4. Ops(out'["peer"]) = {cf}
      BY <1>3, <3>1, OpsSmall
    <3> QED BY <1>1, <1>3, <2>0, <3>1, <3>2, <3>3, <3>4
  <2> QED BY <2>1, <2>2
<1>11. "normal" \in Ops(ws_out') => upstream' = "eof" /\ given = up_sent'
  BY <1>1 DEF Downward
<1> HIDE DEF given
<1> QED BY <1>5, <1>6, <1>7, <1>8, <1>9, <1>10, <1>11 DEF Downward, Ops, Places, Rank

\* The frame that the holder of the lock writes, and what it leaves.
LEMMA WriteFrameOut ==
    ASSUME TypeInv, NEW d \in Directions, WriteFrame(d)
    PROVE  LET f == Head(out[d]) IN
           /\ f \in Frames /\ f = out[d][1] /\ f.op \in Ops(out[d])
           /\ Ops(out'[d]) \subseteq Ops(out[d])
           /\ Len(out[d]) = 1 => out'[d] = <<>>
           /\ \A e \in Directions : e # d => out'[e] = out[e]
           /\ f.op # "ping" => ws_out' = Append(ws_out, f)
           /\ f.op = "ping" => ws_out' = ws_out \/ ws_out' = Append(ws_out, f)
           /\ ws_out \in Seq(Frames)
<1>0. out \in [Directions -> Seq(Frames)] /\ ws_out \in Seq(Frames)
  BY DEF TypeInv, TypeOK
<1>1. /\ out[d] # <<>> /\ out[d] \in Seq(Frames)
      /\ out' = [out EXCEPT ![d] = Tail(@)]
      /\ \A e \in Directions : e # d => out'[e] = out[e]
  BY WriteFrameTurns
<1>2. /\ Head(out[d]) = out[d][1] /\ Head(out[d]) \in Frames
      /\ Len(out[d]) = 1 => Tail(out[d]) = <<>>
  BY <1>1, TailOf
<1>3. Head(out[d]).op \in Ops(out[d]) /\ Ops(Tail(out[d])) \subseteq Ops(out[d])
  BY <1>1, OpsOf
<1>4. out'[d] = Tail(out[d])
  BY <1>0, <1>1
<1>5. ws_out' = written(Head(out[d]))
  BY DEF WriteFrame
<1> QED BY <1>0, <1>1, <1>2, <1>3, <1>4, <1>5 DEF written

LEMMA WriteFrameDownward ==
    ASSUME TypeInv, Order, Downward, NEW d \in Directions, WriteFrame(d) PROVE Downward'
<1> DEFINE f == Head(out[d])
<1>0. /\ f \in Frames /\ f = out[d][1] /\ f.op \in Ops(out[d])
      /\ Ops(out'[d]) \subseteq Ops(out[d])
      /\ Len(out[d]) = 1 => out'[d] = <<>>
      /\ \A e \in Directions : e # d => out'[e] = out[e]
      /\ f.op # "ping" => ws_out' = Append(ws_out, f)
      /\ f.op = "ping" => ws_out' = ws_out \/ ws_out' = Append(ws_out, f)
      /\ ws_out \in Seq(Frames)
  BY WriteFrameOut
<1>1. UNCHANGED <<ctx, after, upstream, up_sent, up_read>>
  BY DEF WriteFrame, wslay_vars, ws_vars, up_vars
<1>2. up_read \in Nat /\ up_sent \in Nat /\ "peer" \in Directions /\ given \in Nat
  <2>1. up_read \in Nat /\ up_sent \in Nat /\ "peer" \in Directions
    BY FrameTypes DEF TypeInv, TypeOK, Directions
  <2>2. given \in Nat
    BY <1>0, PlacesFinite DEF given
  <2> QED BY <2>1, <2>2
<1>3. \A e \in Directions \ {"peer"} : Ops(out'[e]) \cap {"data", "normal"} = {}
  <2>1. \A e \in Directions : Ops(out'[e]) \subseteq Ops(out[e])
    BY <1>0
  <2> QED BY <2>1 DEF Downward
<1>4. Ops(after'.out) \cap {"data", "normal"} = {}
  BY <1>1 DEF Downward
<1>5. d = "peer" => out'["peer"] = <<>> /\ Ops(out["peer"]) = {f.op}
  <2>1. ASSUME d = "peer" PROVE Len(out[d]) = 1
    <3>1. Len(out[d]) <= 1
      BY <2>1 DEF Downward
    <3>2. out[d] # <<>> /\ out[d] \in Seq(Frames)
      BY WriteFrameTurns
    <3>3. Len(out[d]) >= 1 /\ Len(out[d]) \in Nat
      BY <3>2, TailOf
    <3> DEFINE m == Len(out[d])
    <3> SUFFICES m = 1
      OBVIOUS
    <3>4. m <= 1 /\ m >= 1 /\ m \in Nat
      BY <3>1, <3>3
    <3> HIDE DEF m
    <3> QED BY <3>4
  <2>2. ASSUME d = "peer" PROVE Ops(out[d]) = {f.op}
    <3>1. out[d] \in Seq(Frames) /\ Len(out[d]) = 1
      BY <2>1, <2>2, WriteFrameTurns
    <3>2. DOMAIN out[d] = {1}
      BY <3>1
    <3> QED BY <1>0, <3>2 DEF Ops
  <2> QED BY <1>0, <2>1, <2>2
<1>6. d # "peer" => f.op # "data" /\ f.op # "normal"
  BY <1>0 DEF Downward
<1> HIDE DEF f
<1>10. f \in Frames /\ ws_out \in Seq(Frames)
  BY <1>0
<1>7. /\ f.op # "data" => /\ Places(ws_out', "data") = Places(ws_out, "data") /\ given' = given
                          /\ \A i \in Places(ws_out, "data") : ws_out'[i] = ws_out[i]
      /\ Ops(ws_out') \subseteq Ops(ws_out) \union {f.op}
  <2>1. Ops(Append(ws_out, f)) = Ops(ws_out) \union {f.op}
    BY <1>0, OpsOf
  <2>2. ASSUME Grows(ws_out', ws_out, f), f.op # "data"
        PROVE  /\ Places(ws_out', "data") = Places(ws_out, "data")
               /\ \A i \in Places(ws_out, "data") : ws_out'[i] = ws_out[i]
    <3>1. Places(ws_out', "data") = Places(ws_out, "data")
      BY <1>10, <2>2, PlacesAppend
    <3>2. \A i \in Places(ws_out, "data") : ws_out'[i] = ws_out[i]
      BY <1>10, <2>2 DEF Grows, Places
    <3> QED BY <3>1, <3>2
  <2> QED BY <1>0, <2>1, <2>2 DEF given, Grows
<1>8. CASE f.op = "data"
  <2>1. d = "peer" /\ given < up_read /\ f.n = given + 1 /\ out'["peer"] = <<>>
    BY <1>0, <1>5, <1>6, <1>8 DEF Downward
  <2>2. /\ Places(ws_out', "data") = Places(ws_out, "data") \union {Len(ws_out) + 1}
        /\ given' = given + 1
        /\ Rank(Len(ws_out) + 1, Places(ws_out', "data")) = given + 1
        /\ \A i \in Places(ws_out, "data") :
              /\ ws_out'[i] = ws_out[i]
              /\ Rank(i, Places(ws_out', "data")) = Rank(i, Places(ws_out, "data"))
        /\ ws_out'[Len(ws_out) + 1] = f
    <3>1. Grows(ws_out', ws_out, f)
      BY <1>0, <1>8 DEF Grows
    <3>2. /\ Places(ws_out', "data") = Places(ws_out, "data") \union {Len(ws_out) + 1}
          /\ Cardinality(Places(ws_out', "data")) = Cardinality(Places(ws_out, "data")) + 1
          /\ Rank(Len(ws_out) + 1, Places(ws_out', "data")) = Cardinality(Places(ws_out, "data")) + 1
          /\ \A i \in Places(ws_out, "data") :
                /\ ws_out'[i] = ws_out[i]
                /\ Rank(i, Places(ws_out', "data")) = Rank(i, Places(ws_out, "data"))
          /\ ws_out'[Len(ws_out) + 1] = f
      BY <1>10, <1>8, <3>1, PlacesAppend
    <3> QED BY <3>2 DEF given
  <2>3. \A i \in Places(ws_out', "data") : ws_out'[i].n = Rank(i, Places(ws_out', "data"))
    BY <2>1, <2>2 DEF Downward
  <2>4. ~closing(ws_out)
    BY <1>0, <1>8 DEF Order, pongs
  <2>5. "normal" \notin Ops(ws_out')
    BY <1>7, <1>8, <2>4 DEF closing, CloseOps
  <2>6. given' <= up_read' /\ up_read' <= up_sent'
    BY <1>1, <1>2, <2>1, <2>2 DEF Downward
  <2>7. /\ Len(out'["peer"]) <= 1 /\ Ops(out'["peer"]) = {}
    BY <2>1, OpsSmall
  <2>8. "CLOSE_QUEUED" \notin ctx' => up_read' = given'
    BY <1>0, <1>1, <1>8, <2>1, <2>2 DEF Downward
  <2> HIDE DEF given
  <2> QED BY <1>3, <1>4, <2>3, <2>5, <2>6, <2>7, <2>8 DEF Downward, Ops, Places, Rank
<1>9. CASE f.op # "data"
  <2>1. \A i \in Places(ws_out', "data") : ws_out'[i].n = Rank(i, Places(ws_out', "data"))
    BY <1>7, <1>9 DEF Downward
  <2>2. given' <= up_read' /\ up_read' <= up_sent'
    BY <1>1, <1>7, <1>9 DEF Downward
  <2>3. "normal" \in Ops(out'["peer"]) \union Ops(ws_out') => upstream' = "eof" /\ given' = up_sent'
    <3>1. "normal" \in Ops(out'["peer"]) => "normal" \in Ops(out["peer"])
      BY <1>0, <1>2
    <3>2. "normal" \in Ops(ws_out') => "normal" \in Ops(out["peer"]) \union Ops(ws_out)
      BY <1>0, <1>6, <1>7
    <3> QED BY <1>1, <1>7, <1>9, <3>1, <3>2 DEF Downward
  <2>4. /\ Len(out'["peer"]) <= 1
        /\ "data" \in Ops(out'["peer"]) => given' < up_read' /\ out'["peer"][1].n = given' + 1
        /\ "CLOSE_QUEUED" \notin ctx' =>
              up_read' = IF "data" \in Ops(out'["peer"]) THEN given' + 1 ELSE given'
    <3>1. CASE d = "peer"
      <4>1. Len(out'["peer"]) <= 1 /\ Ops(out'["peer"]) = {} /\ "data" \notin Ops(out["peer"])
        BY <1>5, <1>9, <3>1, OpsSmall
      <4> QED BY <1>1, <1>7, <1>9, <4>1 DEF Downward
    <3>2. CASE d # "peer"
      <4>1. out'["peer"] = out["peer"]
        BY <1>0, <1>2, <3>2
      <4> QED BY <1>1, <1>7, <1>9, <4>1 DEF Downward
    <3> QED BY <3>1, <3>2
  <2> HIDE DEF given
  <2> QED BY <1>3, <1>4, <2>1, <2>2, <2>3, <2>4 DEF Downward, Ops, Places, Rank
<1> QED BY <1>8, <1>9

LEMMA DownwardStep == TypeInv /\ Order /\ Downward /\ [Next]_vars => Downward'
<1> SUFFICES ASSUME TypeInv, Order, Downward, [Next]_vars PROVE Downward'
  OBVIOUS
<1>0. {"ws", "control", "keepalive"} \subseteq Directions \ {"peer"} /\ up_sent \in Nat
  BY FrameTypes DEF Directions, TypeInv, TypeOK
<1>1. CASE UNCHANGED <<ws_out, up_read, ctx, out, up_sent, upstream, after>>
  <2>1. \A d \in Directions \ {"peer"} : Ops(out'[d]) \cap {"data", "normal"} = {}
    BY <1>1 DEF Downward
  <2>2. Ops(after'.out) \cap {"data", "normal"} = {}
    BY <1>1 DEF Downward
  <2>3. /\ ws_out' = ws_out /\ up_read' = up_read /\ ctx \subseteq ctx'
        /\ out'["peer"] = out["peer"] /\ up_sent' \in Nat /\ up_sent' >= up_sent
        /\ upstream' = upstream /\ up_sent' = up_sent
    BY <1>0, <1>1
  <2> QED BY <2>1, <2>2, <2>3, DownwardKept
<1>2. CASE Environment
  <2>1. UNCHANGED <<ws_out, up_read, ctx, out, after>>
    BY <1>2 DEF Environment, ClientData, ClientPing, ClientPong, ClientCloses, ClientErrs,
         ClientGoes, ClientDies, SocketStalls, SocketDrains, UpstreamSends, UpstreamEnds,
         UpstreamTakes, bridge_vars, wslay_vars, dir_vars, ws_vars
  <2>2. /\ up_sent' \in Nat /\ up_sent' >= up_sent
        /\ upstream = "eof" => upstream' = upstream /\ up_sent' = up_sent
    BY <1>0, <1>2 DEF Environment, ClientData, ClientPing, ClientPong, ClientCloses, ClientErrs,
         ClientGoes, ClientDies, SocketStalls, SocketDrains, UpstreamSends, UpstreamEnds,
         UpstreamTakes, up_vars
  <2>3. \A d \in Directions \ {"peer"} : Ops(out'[d]) \cap {"data", "normal"} = {}
    BY <2>1 DEF Downward
  <2>4. Ops(after'.out) \cap {"data", "normal"} = {}
    BY <2>1 DEF Downward
  <2>5. ws_out' = ws_out /\ up_read' = up_read /\ ctx \subseteq ctx' /\ out'["peer"] = out["peer"]
    BY <2>1
  <2> QED BY <2>2, <2>3, <2>4, <2>5, DownwardKept
<1>3. CASE Tick
  BY <1>1, <1>3 DEF Tick, socket_vars, up_vars, wslay_vars, dir_vars, ws_vars
<1>4. CASE WsToPeer
  <2>1. ASSUME NEW n \in 1..MaxBatch, WsRead(n) PROVE Downward'
    <3> DEFINE p == parsed(SubSeq(ws_in, 1, n))
               fs == replies(p)
    <3>1. /\ n <= Len(ws_in) /\ ctx' = ctx \union recv_flags(p)
          /\ forward(Numbers(p), fs, ws_finish(p))
          /\ UNCHANGED <<ws_out, up_read, up_sent, upstream>>
      BY <2>1 DEF WsRead, socket_vars, up_vars
    <3>2. p \in Seq(ClientFrames)
      BY <3>1, BatchOf
    <3> HIDE DEF p
    <3>3. Ops(fs) \cap {"data", "normal"} = {}
      BY <3>2, RepliesOf DEF Answers
    <3> HIDE DEF fs
    <3>4. ctx \subseteq ctx'
      BY <3>1
    <3>5. CASE after' = [out |-> fs, finish |-> ws_finish(p)] /\ UNCHANGED out
      <4>1. after'.out = fs
        BY <3>5
      <4>2. \A d \in Directions \ {"peer"} : Ops(out'[d]) \cap {"data", "normal"} = {}
        BY <3>5 DEF Downward
      <4>3. /\ out'["peer"] = out["peer"] /\ up_sent' \in Nat /\ up_sent' >= up_sent
            /\ upstream' = upstream /\ up_sent' = up_sent
        BY <1>0, <3>1, <3>5
      <4> QED BY <3>1, <3>3, <3>4, <4>1, <4>2, <4>3, DownwardKept
    <3>6. CASE UNCHANGED ws_vars /\ write_then("ws", fs, ws_finish(p), "ready")
      <4>1. Ops(after'.out) \cap {"data", "normal"} = {}
        BY <3>6 DEF Downward, ws_vars
      <4> QED BY <1>0, <3>1, <3>3, <3>4, <3>6, <4>1, DownwardTake
    <3> QED BY <3>1, <3>5, <3>6 DEF forward
  <2>2. CASE WsEof
    BY <1>1, <2>2 DEF WsEof, end, socket_vars, up_vars, wslay_vars, dir_vars, ws_vars
  <2>3. CASE PeerWrite
    <3>1. /\ \/ UNCHANGED out
             \/ write_then("ws", after.out, after.finish, "ready")
          /\ UNCHANGED <<ws_out, up_read, up_sent, upstream, ctx, after>>
      BY <2>3 DEF PeerWrite, dir_vars, socket_vars, up_vars, wslay_vars
    <3>2. Ops(after.out) \cap {"data", "normal"} = {} /\ Ops(after'.out) \cap {"data", "normal"} = {}
      BY <3>1 DEF Downward
    <3>3. ctx \subseteq ctx'
      BY <3>1
    <3> QED BY <1>0, <1>1, <3>1, <3>2, <3>3, DownwardTake
  <2>4. CASE PeerWriteFails
    <3>1. /\ ctx' = ctx \union queued("error")
          /\ write_then("ws", queue(Frame("error")), "error", "ready")
          /\ UNCHANGED <<ws_out, up_read, up_sent, upstream, after>>
      BY <2>4 DEF PeerWriteFails, socket_vars, up_vars
    <3>2. Ops(queue(Frame("error"))) \cap {"data", "normal"} = {}
      BY QueueFacts, FrameOps
    <3>3. Ops(after'.out) \cap {"data", "normal"} = {} /\ ctx \subseteq ctx'
      BY <3>1 DEF Downward
    <3> QED BY <1>0, <3>1, <3>2, <3>3, DownwardTake
  <2> QED BY <1>4, <2>1, <2>2, <2>3, <2>4 DEF WsToPeer
<1>5. CASE Keepalive
  <2>1. CASE KeepalivePing
    <3>1. /\ write_then("keepalive", queue(Frame("ping")), "none", "waiting")
          /\ UNCHANGED <<ws_out, up_read, up_sent, upstream, ctx, after>>
      BY <2>1 DEF KeepalivePing, socket_vars, up_vars, wslay_vars, ws_vars
    <3>2. Ops(queue(Frame("ping"))) \cap {"data", "normal"} = {}
      BY QueueFacts, FrameOps
    <3>3. Ops(after'.out) \cap {"data", "normal"} = {} /\ ctx \subseteq ctx'
      BY <3>1 DEF Downward
    <3> QED BY <1>0, <3>1, <3>2, <3>3, DownwardTake
  <2>2. CASE KeepaliveAnswered
    BY <1>1, <2>2 DEF KeepaliveAnswered, socket_vars, up_vars, wslay_vars, ws_vars
  <2>3. CASE KeepaliveExpires
    <3>1. /\ ctx' = ctx \union queued("timeout")
          /\ write_then("keepalive", queue(Frame("timeout")), "timeout", "ready")
          /\ UNCHANGED <<ws_out, up_read, up_sent, upstream, after>>
      BY <2>3 DEF KeepaliveExpires, socket_vars, up_vars, ws_vars
    <3>2. Ops(queue(Frame("timeout"))) \cap {"data", "normal"} = {}
      BY QueueFacts, FrameOps
    <3>3. Ops(after'.out) \cap {"data", "normal"} = {} /\ ctx \subseteq ctx'
      BY <3>1 DEF Downward
    <3> QED BY <1>0, <3>1, <3>2, <3>3, DownwardTake
  <2> QED BY <1>5, <2>1, <2>2, <2>3 DEF Keepalive
<1>6. ASSUME NEW op \in {"ping", "pong", "control"}, Control(op) PROVE Downward'
  <2>1. /\ ctx' = ctx \union queued(op)
        /\ write_then("control", queue(Frame(op)), "none", "ready")
        /\ UNCHANGED <<ws_out, up_read, up_sent, upstream, after>>
    BY <1>6 DEF Control, socket_vars, up_vars, ws_vars
  <2>2. Ops(queue(Frame(op))) \cap {"data", "normal"} = {}
    BY QueueFacts, FrameOps
  <2>3. Ops(after'.out) \cap {"data", "normal"} = {} /\ ctx \subseteq ctx'
    BY <2>1 DEF Downward
  <2> QED BY <1>0, <2>1, <2>2, <2>3, DownwardTake
<1>7. ASSUME NEW d \in Directions, WriteFails(d) PROVE Downward'
  BY <1>1, <1>7 DEF WriteFails, end, dir_vars, socket_vars, up_vars, wslay_vars, ws_vars
<1>8. CASE UNCHANGED vars
  BY <1>1, <1>8 DEF vars, dir_vars, socket_vars, up_vars, wslay_vars, ws_vars
<1> QED BY <1>2, <1>3, <1>4, <1>5, <1>6, <1>7, <1>8, PeerReadDownward, PeerReadEndsDownward,
       WriteFrameDownward DEF Next, Bridge, PeerToWs

-----------------------------------------------------------------------------
(* WebSocket to upstream *)

\* The data that has left the batch it was read in.
base == Len(up_got) + Len(to_peer)

\* What was written upstream is numbered from 1.
Received ==
    /\ \A k \in DOMAIN up_got : up_got[k] = k
    /\ Len(up_got) <= client_sent

\* The client sends no data after its Close.
CloseEndsData ==
    \A i \in Places(ws_in, "close") : client # "up" /\ \A j \in Places(ws_in, "data") : j < i

\* Only the ws direction ends for the client's Close, and an end that was decided
\* is written before anything else.
Finishes ==
    /\ ended = "running" /\ pc["ws"] # "writing" => finish["ws"] = "none"
    /\ \A d \in Directions \ {"ws"} : finish[d] # "peer_close"

\* While nothing failed: what is decoded and what is still to be read continue
\* what was written, and the client's Close comes after all of it.
Pending ==
    /\ base <= client_sent
    /\ \A k \in DOMAIN to_peer : to_peer[k] = Len(up_got) + k
    /\ "READ_DISABLED" \notin ctx =>
          /\ client_sent = base + Cardinality(Places(ws_in, "data"))
          /\ \A i \in Places(ws_in, "data") :
                ws_in[i].n = base + Rank(i, Places(ws_in, "data"))
    /\ finish["ws"] = "peer_close" => client # "up" /\ Len(up_got) = client_sent
    /\ pc["ws"] = "to_peer" /\ after.finish = "peer_close" => client # "up" /\ base = client_sent
    /\ pc["ws"] # "to_peer" => to_peer = <<>>

Upward ==
    /\ Received /\ CloseEndsData /\ Finishes
    /\ ended = "running" /\ finish["ws"] # "error" => Pending

LEMMA UpwardInit == Init => Upward
<1> SUFFICES ASSUME Init PROVE Upward
  OBVIOUS
<1>1. /\ up_got = <<>> /\ to_peer = <<>> /\ ws_in = <<>> /\ client_sent = 0
      /\ "ws" \in Directions /\ \A d \in Directions : finish[d] = "none" /\ pc[d] = "ready"
  BY DEF Init, Directions
<1>2. Len(up_got) = 0 /\ Len(to_peer) = 0 /\ base = 0 /\ DOMAIN up_got = {} /\ DOMAIN to_peer = {}
  BY <1>1 DEF base
<1>3. Places(ws_in, "data") = {} /\ Places(ws_in, "close") = {} /\ Cardinality(Places(ws_in, "data")) = 0
  BY <1>1, PlacesEmpty
<1>4. Received /\ CloseEndsData /\ Finishes
  BY <1>1, <1>2, <1>3 DEF Received, CloseEndsData, Finishes
<1>5. Pending
  BY <1>1, <1>2, <1>3 DEF Pending
<1> QED BY <1>4, <1>5 DEF Upward

LEMMA UpwardTypes ==
    ASSUME TypeInv
    PROVE  /\ up_got \in Seq(1..MaxClientData) /\ to_peer \in Seq(1..MaxClientData)
           /\ Len(up_got) \in Nat /\ Len(to_peer) \in Nat /\ base \in Nat
           /\ DOMAIN up_got = 1..Len(up_got) /\ DOMAIN to_peer = 1..Len(to_peer)
           /\ client_sent \in Nat /\ client_sent \in 0..MaxClientData
           /\ ws_in \in Seq(ClientFrames)
           /\ Cardinality(Places(ws_in, "data")) \in Nat
           /\ pc \in [Directions -> {"ready", "writing", "to_peer", "waiting"}]
           /\ finish \in [Directions -> EndReasons \union {"none"}]
           /\ "ws" \in Directions
<1>1. /\ up_got \in Seq(1..MaxClientData) /\ to_peer \in Seq(1..MaxClientData)
      /\ client_sent \in 0..MaxClientData
      /\ ws_in \in Seq(ClientFrames)
      /\ pc \in [Directions -> {"ready", "writing", "to_peer", "waiting"}]
      /\ finish \in [Directions -> EndReasons \union {"none"}]
      /\ "ws" \in Directions
  BY DEF TypeInv, TypeOK, Directions
<1>2. client_sent \in Nat
  BY <1>1, FrameTypes DEF TypeInv
<1>3. Len(up_got) \in Nat /\ Len(to_peer) \in Nat
      /\ DOMAIN up_got = 1..Len(up_got) /\ DOMAIN to_peer = 1..Len(to_peer)
  BY <1>1
<1>4. Cardinality(Places(ws_in, "data")) \in Nat
  BY <1>1, PlacesFinite
<1> QED BY <1>1, <1>2, <1>3, <1>4 DEF base

\* A step that moves no data of this way and takes no end of it.
LEMMA UpwardKept ==
    ASSUME TypeInv, Upward,
           UNCHANGED <<up_got, client_sent, client, ws_in, to_peer, after>>, ctx \subseteq ctx',
           ended' = "running" => ended = "running",
           finish'["ws"] = finish["ws"],
           \/ pc'["ws"] = pc["ws"]
           \/ /\ pc["ws"] # "to_peer" /\ pc'["ws"] = "ready"
              /\ ended' = "running" => finish["ws"] = "none",
           \A d \in Directions \ {"ws"} : finish'[d] # "peer_close"
    PROVE  Upward'
<1>0. base' = base
  BY DEF base
<1>1. Received' /\ CloseEndsData'
  BY DEF Upward, Received, CloseEndsData, Places
<1>2. Finishes'
  BY DEF Upward, Finishes
<1>3. ASSUME ended' = "running" /\ finish'["ws"] # "error" PROVE Pending'
  <2>1. Pending
    BY <1>3 DEF Upward
  <2>2. base' <= client_sent'
    BY <1>0, <2>1 DEF Pending
  <2>3. \A k \in DOMAIN to_peer' : to_peer'[k] = Len(up_got') + k
    BY <2>1 DEF Pending
  <2>4. "READ_DISABLED" \notin ctx' =>
          /\ client_sent' = base' + Cardinality(Places(ws_in', "data"))
          /\ \A i \in Places(ws_in', "data") :
                ws_in'[i].n = base' + Rank(i, Places(ws_in', "data"))
    BY <1>0, <2>1 DEF Pending
  <2>5. finish'["ws"] = "peer_close" => client' # "up" /\ Len(up_got') = client_sent'
    BY <2>1 DEF Pending
  <2>6. pc'["ws"] = "to_peer" /\ after'.finish = "peer_close" => client' # "up" /\ base' = client_sent'
    BY <1>0, <2>1 DEF Pending
  <2>7. pc'["ws"] # "to_peer" => to_peer' = <<>>
    BY <2>1 DEF Pending
  <2> HIDE DEF base
  <2> QED BY <2>2, <2>3, <2>4, <2>5, <2>6, <2>7 DEF Pending, Places, Rank
<1> QED BY <1>1, <1>2, <1>3 DEF Upward

\* Another direction takes frames.
LEMMA UpwardTake ==
    ASSUME TypeInv, Upward, ended = "running", NEW d \in Directions \ {"ws"}, NEW fs,
           NEW fin \in (EndReasons \union {"none"}) \ {"peer_close"},
           NEW next, write_then(d, fs, fin, next),
           UNCHANGED <<up_got, client_sent, client, ws_in, to_peer, after>>, ctx \subseteq ctx'
    PROVE  Upward'
<1>1. /\ pc \in [Directions -> {"ready", "writing", "to_peer", "waiting"}]
      /\ finish \in [Directions -> EndReasons \union {"none"}]
      /\ "ws" \in Directions
  BY UpwardTypes
<1>2. finish'["ws"] = finish["ws"] /\ pc'["ws"] = pc["ws"]
  BY <1>1 DEF write_then, end, dir_vars
<1>3. \A e \in Directions \ {"ws"} : finish'[e] # "peer_close"
  <2>1. \A e \in Directions : finish'[e] = finish[e] \/ finish'[e] = fin
    BY <1>1 DEF write_then, end, dir_vars
  <2>2. \A e \in Directions \ {"ws"} : finish[e] # "peer_close"
    BY DEF Upward, Finishes
  <2> QED BY <2>1, <2>2
<1> QED BY <1>2, <1>3, UpwardKept

LEMMA WriteFrameUpward ==
    ASSUME TypeInv, Upward, NEW d \in Directions, WriteFrame(d) PROVE Upward'
<1>1. /\ ended = "running" /\ finish' = finish
      /\ UNCHANGED <<up_got, client_sent, client, ws_in, to_peer, after, ctx>>
  BY DEF WriteFrame, client_vars, wslay_vars, ws_vars
<1>2. /\ pc[d] = "writing"
      /\ \A e \in Directions : e # d => pc'[e] = pc[e]
      /\ \/ UNCHANGED <<pc, lock, ended>>
         \/ /\ pc' = [pc EXCEPT ![d] = resumes(d)]
            /\ ended' = IF finish[d] = "none" THEN "running" ELSE finish[d]
  BY WriteFrameTurns
<1>3. /\ pc \in [Directions -> {"ready", "writing", "to_peer", "waiting"}]
      /\ finish \in [Directions -> EndReasons \union {"none"}]
      /\ "ws" \in Directions
  BY UpwardTypes
<1>4. \/ pc'["ws"] = pc["ws"]
      \/ /\ pc["ws"] # "to_peer" /\ pc'["ws"] = "ready"
         /\ ended' = "running" => finish["ws"] = "none"
  <2>1. CASE d # "ws"
    BY <1>2, <1>3, <2>1
  <2>2. CASE d = "ws" /\ pc' = pc
    BY <2>2
  <2>3. CASE /\ d = "ws" /\ pc' = [pc EXCEPT ![d] = resumes(d)]
             /\ ended' = IF finish[d] = "none" THEN "running" ELSE finish[d]
    BY <1>2, <1>3, <2>3 DEF resumes, EndReasons
  <2> QED BY <1>2, <2>1, <2>2, <2>3
<1>5. \A e \in Directions \ {"ws"} : finish'[e] # "peer_close"
  BY <1>1 DEF Upward, Finishes
<1>6. ctx \subseteq ctx' /\ finish'["ws"] = finish["ws"]
  BY <1>1
<1> QED BY <1>1, <1>4, <1>5, <1>6, UpwardKept

\* The unread data continues what was read before.
Unread ==
    /\ client_sent = base + Cardinality(Places(ws_in, "data"))
    /\ \A i \in Places(ws_in, "data") : ws_in[i].n = base + Rank(i, Places(ws_in, "data"))

\* A step of the client.
LEMMA UpwardClient ==
    ASSUME TypeInv, Upward, UNCHANGED <<up_got, to_peer, after, ctx, pc, finish, ended>>,
           client # "up" => client' # "up" /\ client_sent' = client_sent,
           client_sent' \in Nat, client_sent' >= client_sent,
           CloseEndsData', Unread => Unread'
    PROVE  Upward'
<1>0. base' = base /\ base \in Nat /\ Len(up_got) \in Nat /\ client_sent \in Nat
  BY UpwardTypes DEF base
<1>1. Received'
  BY <1>0 DEF Upward, Received
<1>2. Finishes'
  BY DEF Upward, Finishes
<1>3. ASSUME ended' = "running" /\ finish'["ws"] # "error" PROVE Pending'
  <2>1. Pending
    BY <1>3 DEF Upward
  <2>2. base' <= client_sent'
    BY <1>0, <2>1 DEF Pending
  <2>3. \A k \in DOMAIN to_peer' : to_peer'[k] = Len(up_got') + k
    BY <2>1 DEF Pending
  <2>4. "READ_DISABLED" \notin ctx' => Unread'
    BY <2>1 DEF Pending, Unread
  <2>5. finish'["ws"] = "peer_close" => client' # "up" /\ Len(up_got') = client_sent'
    BY <2>1 DEF Pending
  <2>6. pc'["ws"] = "to_peer" /\ after'.finish = "peer_close" => client' # "up" /\ base' = client_sent'
    BY <1>0, <2>1 DEF Pending
  <2>7. pc'["ws"] # "to_peer" => to_peer' = <<>>
    BY <2>1 DEF Pending
  <2> HIDE DEF base
  <2> QED BY <2>2, <2>3, <2>4, <2>5, <2>6, <2>7 DEF Pending, Unread, Places, Rank
<1> QED BY <1>1, <1>2, <1>3 DEF Upward

LEMMA EnvironmentUpward ==
    ASSUME TypeInv, Upward, Environment, [Next]_vars PROVE Upward'
<1>0. /\ ws_in \in Seq(ClientFrames) /\ Len(ws_in) \in Nat /\ DOMAIN ws_in = 1..Len(ws_in)
      /\ client_sent \in Nat /\ client_sent \in 0..MaxClientData
      /\ base \in Nat /\ Cardinality(Places(ws_in, "data")) \in Nat
      /\ \A op \in {"ping", "pong"} \union Stops : Frame(op) \in ClientFrames
      /\ \A k \in 0..MaxClientData : Data(k) \in ClientFrames
      /\ MaxClientData \in Nat
  BY UpwardTypes, FrameTypes DEF TypeInv
<1>1. UNCHANGED <<up_got, to_peer, after, ctx, pc, finish, ended>>
  BY DEF Environment, ClientData, ClientPing, ClientPong, ClientCloses, ClientErrs,
         ClientGoes, ClientDies, SocketStalls, SocketDrains, UpstreamSends, UpstreamEnds,
         UpstreamTakes, bridge_vars, wslay_vars, dir_vars, ws_vars
<1>2. base' = base
  BY <1>1 DEF base
<1>3. CloseEndsData
  BY DEF Upward
<1>4. CASE ClientData
  <2> DEFINE f == Data(client_sent + 1)
  <2>1. client = "up" /\ client' = client /\ client_sent' = client_sent + 1
        /\ client_sent < MaxClientData /\ Grows(ws_in', ws_in, f)
    BY <1>4 DEF ClientData, Grows
  <2>2. f.op = "data" /\ f.op # "close" /\ f.n = client_sent + 1
    BY FrameOps
  <2>3. f \in ClientFrames
    BY <1>0, <2>1
  <2> HIDE DEF f
  <2>4. Places(ws_in', "close") = Places(ws_in, "close")
    BY <1>0, <2>1, <2>2, <2>3, PlacesAppend
  <2>5. CloseEndsData'
    BY <1>3, <2>1, <2>4 DEF CloseEndsData, Places
  <2>6. /\ Places(ws_in', "data") = Places(ws_in, "data") \union {Len(ws_in) + 1}
        /\ Cardinality(Places(ws_in', "data")) = Cardinality(Places(ws_in, "data")) + 1
        /\ Rank(Len(ws_in) + 1, Places(ws_in', "data")) = Cardinality(Places(ws_in, "data")) + 1
        /\ \A i \in Places(ws_in, "data") :
              /\ ws_in'[i] = ws_in[i]
              /\ Rank(i, Places(ws_in', "data")) = Rank(i, Places(ws_in, "data"))
        /\ ws_in'[Len(ws_in) + 1] = f
    <3>1. f \in ClientFrames /\ ws_in \in Seq(ClientFrames) /\ Grows(ws_in', ws_in, f) /\ f.op = "data"
      BY <1>0, <2>1, <2>2, <2>3
    <3> QED BY <3>1, PlacesAppend
  <2>7. ASSUME Unread PROVE Unread'
    <3> HIDE DEF base
    <3>1. client_sent' = base' + Cardinality(Places(ws_in', "data"))
      BY <1>0, <1>2, <2>1, <2>6, <2>7 DEF Unread
    <3>2. \A i \in Places(ws_in', "data") : ws_in'[i].n = base' + Rank(i, Places(ws_in', "data"))
      BY <1>0, <1>2, <2>1, <2>2, <2>6, <2>7 DEF Unread
    <3> QED BY <3>1, <3>2 DEF Unread, Places, Rank
  <2>8. client_sent' \in Nat /\ client_sent' >= client_sent
    BY <1>0, <2>1
  <2> QED BY <1>1, <2>1, <2>5, <2>7, <2>8, UpwardClient
<1>5. CASE ClientPing \/ ClientPong \/ ClientCloses \/ \E op \in {"bad", "garbled"} : ClientErrs(op)
  <2>1. PICK op \in {"ping", "pong"} \union Stops :
           /\ Grows(ws_in', ws_in, Frame(op))
           /\ client_sent' = client_sent
           /\ client = "up" /\ client' = IF op = "close" THEN "closing" ELSE client
    <3>1. CASE ClientPing \/ ClientPong
      BY <3>1 DEF ClientPing, ClientPong, Grows, client_vars
    <3>2. CASE ClientCloses
      BY <3>2 DEF ClientCloses, Grows, Stops
    <3>3. CASE \E op \in {"bad", "garbled"} : ClientErrs(op)
      BY <3>3 DEF ClientErrs, Grows, Stops
    <3> QED BY <1>5, <3>1, <3>2, <3>3
  <2> DEFINE f == Frame(op)
  <2>2. f.op = op /\ op # "data" /\ f \in ClientFrames
    BY <1>0, FrameOps DEF Stops
  <2>3. Grows(ws_in', ws_in, f)
    BY <2>1
  <2> HIDE DEF f
  <2>4. Places(ws_in', "data") = Places(ws_in, "data")
    BY <1>0, <2>2, <2>3, PlacesAppend
  <2>5. \A i \in Places(ws_in, "data") : ws_in'[i] = ws_in[i]
    BY <1>0, <2>2, <2>3 DEF Grows, Places
  <2>6. CloseEndsData'
    <3>1. CASE op = "close"
      <4>1. client' # "up"
        BY <2>1, <3>1
      <4>2. Places(ws_in', "close") = Places(ws_in, "close") \union {Len(ws_in) + 1}
        BY <1>0, <2>2, <2>3, <3>1, PlacesAppend
      <4>3. \A j \in Places(ws_in, "data") : j < Len(ws_in) + 1
        BY <1>0 DEF Places
      <4>4. \A i \in Places(ws_in', "close") :
               client' # "up" /\ \A j \in Places(ws_in', "data") : j < i
        BY <1>3, <2>4, <4>1, <4>2, <4>3 DEF CloseEndsData
      <4> QED BY <4>4 DEF CloseEndsData, Places
    <3>2. CASE op # "close"
      <4>1. Places(ws_in', "close") = Places(ws_in, "close")
        BY <1>0, <2>2, <2>3, <3>2, PlacesAppend
      <4>2. \A i \in Places(ws_in', "close") :
               client' # "up" /\ \A j \in Places(ws_in', "data") : j < i
        BY <1>3, <2>1, <2>4, <4>1 DEF CloseEndsData
      <4> QED BY <4>2 DEF CloseEndsData, Places
    <3> QED BY <3>1, <3>2
  <2>7. ASSUME Unread PROVE Unread'
    <3>1. client_sent' = base' + Cardinality(Places(ws_in', "data"))
      BY <1>2, <2>1, <2>4, <2>7 DEF Unread
    <3>2. \A i \in Places(ws_in', "data") : ws_in'[i].n = base' + Rank(i, Places(ws_in', "data"))
      BY <1>2, <2>4, <2>5, <2>7 DEF Unread
    <3> HIDE DEF base
    <3> QED BY <3>1, <3>2 DEF Unread, Places, Rank
  <2>8. client_sent' \in Nat /\ client_sent' >= client_sent
    BY <1>0, <2>1
  <2> QED BY <1>1, <2>1, <2>6, <2>7, <2>8, UpwardClient
<1>6. CASE /\ UNCHANGED <<ws_in, client_sent>>
           /\ client # "up" => client' # "up"
  <2>1. CloseEndsData'
    BY <1>3, <1>6 DEF CloseEndsData, Places
  <2>2. Unread => Unread'
    BY <1>2, <1>6 DEF Unread, Places, Rank
  <2>3. client_sent' \in Nat /\ client_sent' >= client_sent
    BY <1>0, <1>6
  <2> QED BY <1>1, <1>6, <2>1, <2>2, <2>3, UpwardClient
<1>7. CASE \/ ClientGoes \/ ClientDies \/ SocketStalls \/ SocketDrains \/ UpstreamSends
           \/ \E how \in {"eof", "reset"} : UpstreamEnds(how)
           \/ \E how \in {"yes", "full", "broken"} : UpstreamTakes(how)
  BY <1>6, <1>7 DEF ClientGoes, ClientDies, SocketStalls, SocketDrains, UpstreamSends,
         UpstreamEnds, UpstreamTakes, client_vars
<1> QED BY <1>4, <1>5, <1>7 DEF Environment

\* A read of n frames: what wslay takes of them, with m data frames, and what is left.
Batch(n, p, rest, m) ==
    /\ n \in 1..MaxBatch /\ n <= Len(ws_in)
    /\ p = parsed(SubSeq(ws_in, 1, n))
    /\ rest = SubSeq(ws_in, n + 1, Len(ws_in))
    /\ m = Cardinality(Places(p, "data"))

\* What a read of n frames decodes continues what was read before, and so does
\* what it leaves; with the client's Close nothing is left to decode.
LEMMA BatchNumbers ==
    ASSUME TypeInv, Upward, Pending, NEW n, NEW p, NEW rest, NEW m, Batch(n, p, rest, m)
    PROVE  /\ m \in Nat /\ base + m <= client_sent
           /\ Numbers(p) = [k \in 1..m |-> base + k]
           /\ "READ_DISABLED" \notin ctx \union recv_flags(p) =>
                /\ client_sent = (base + m) + Cardinality(Places(rest, "data"))
                /\ \A i \in Places(rest, "data") :
                      rest[i].n = (base + m) + Rank(i, Places(rest, "data"))
           /\ ws_finish(p) = "peer_close" => client # "up" /\ base + m = client_sent
<1> USE DEF Batch
<1> DEFINE b == SubSeq(ws_in, 1, n)
           N(s) == Cardinality(Places(s, "data"))
<1>0. /\ ws_in \in Seq(ClientFrames) /\ Len(ws_in) \in Nat /\ DOMAIN ws_in = 1..Len(ws_in)
      /\ client_sent \in Nat /\ base \in Nat /\ N(ws_in) \in Nat
      /\ n \in Nat /\ n >= 1
  BY UpwardTypes, BridgeAssumption
<1>1. /\ b \in Seq(ClientFrames) /\ Len(b) = n
      /\ \A i \in 1..n : b[i] = ws_in[i] /\ i \in DOMAIN ws_in
      /\ p \in Seq(ClientFrames) /\ Len(p) <= n /\ Len(p) \in Nat
      /\ \A i \in 1..Len(p) : p[i] = ws_in[i] /\ i \in DOMAIN ws_in
      /\ rest \in Seq(ClientFrames) /\ Len(rest) = Len(ws_in) - n
      /\ \A i \in 1..Len(rest) : rest[i] = ws_in[n + i] /\ n + i \in DOMAIN ws_in
  BY BatchOf
<1>2. m \in Nat
  BY <1>1, PlacesFinite
<1>3. /\ base <= client_sent
      /\ "READ_DISABLED" \notin ctx => Unread
  BY DEF Pending, Unread
<1>4. PICK q \in 0..Len(b) :
         /\ p = SubSeq(b, 1, q)
         /\ "READ_DISABLED" \in ctx => q = 0
         /\ "READ_DISABLED" \notin ctx =>
              \/ q = Len(b) /\ \A i \in DOMAIN b : b[i].op \notin Stops
              \/ /\ q \in DOMAIN b /\ b[q].op \in Stops
                 /\ \A i \in DOMAIN b : i < q => b[i].op \notin Stops
  BY <1>1, ParsedOf
<1>5. Len(p) = q /\ DOMAIN p = 1..q /\ DOMAIN b = 1..n /\ q \in Nat /\ q <= n
  <2>1. \A i \in 1..q : b[i] \in ClientFrames
    BY <1>1
  <2>2. Len(SubSeq(b, 1, q)) = IF 1 <= q THEN q - 1 + 1 ELSE 0
    BY <2>1, SubSeqProperties
  <2> QED BY <1>1, <1>4, <2>2
<1> HIDE DEF b
<1>6. CASE "READ_DISABLED" \in ctx
  <2>1. DOMAIN p = {}
    BY <1>4, <1>5, <1>6
  <2>2. Places(p, "data") = {} /\ "close" \notin Ops(p) /\ ws_finish(p) # "peer_close"
    BY <2>1 DEF Places, Ops, ws_finish
  <2>3. m = 0
    BY <2>2, FS_EmptySet
  <2>4. Numbers(p) = [k \in 1..m |-> base + k]
    <3>1. \A i \in Places(p, "data") : p[i].n = base + Rank(i, Places(p, "data"))
      BY <2>2
    <3>2. base \in Nat /\ p \in Seq(ClientFrames)
      BY <1>0, <1>1
    <3>3. Numbers(p) = [k \in 1..Cardinality(Places(p, "data")) |-> base + k]
      BY <3>1, <3>2, NumbersCount
    <3> QED BY <3>3
  <2> QED BY <1>0, <1>3, <1>6, <2>2, <2>3, <2>4
<1>7. CASE "READ_DISABLED" \notin ctx
  <2>1. Unread
    BY <1>3, <1>7
  <2> DEFINE left == SubSeq(ws_in, q + 1, Len(ws_in))
  <2>2. /\ left \in Seq(ClientFrames) /\ Len(left) = Len(ws_in) - q
        /\ \A i \in 1..Len(left) : left[i] = ws_in[q + i]
    <3>1. \A i \in (q + 1)..Len(ws_in) : ws_in[i] \in ClientFrames
      BY <1>0, <1>5
    <3>2. /\ left \in Seq(ClientFrames)
          /\ Len(left) = IF q + 1 <= Len(ws_in) THEN Len(ws_in) - (q + 1) + 1 ELSE 0
          /\ \A i \in 1 .. Len(ws_in) - (q + 1) + 1 : left[i] = ws_in[q + 1 + i - 1]
      BY <1>0, <1>5, <3>1, SubSeqProperties
    <3> DEFINE l == Len(ws_in)
    <3>3. l \in Nat /\ n <= l /\ n \in Nat /\ q \in Nat /\ q <= n
      BY <1>0, <1>5
    <3> HIDE DEF left, l
    <3>4. /\ q <= l
          /\ (IF q + 1 <= l THEN l - (q + 1) + 1 ELSE 0) = l - q
          /\ l - (q + 1) + 1 = l - q
          /\ \A i \in 1 .. l - q : q + 1 + i - 1 = q + i
      BY <3>3
    <3>5. Len(left) = l - q
      BY <3>2, <3>4, Zenon DEF l
    <3> QED BY <3>2, <3>4, <3>5, Zenon DEF l
  <2> HIDE DEF left
  <2>3. q \in Nat /\ q <= Len(ws_in) /\ Len(p) = q /\ \A i \in 1..q : p[i] = ws_in[i]
    <3>1. q <= Len(ws_in)
      <4> DEFINE l == Len(ws_in)
      <4>1. n <= l /\ l \in Nat /\ n \in Nat /\ q \in Nat /\ q <= n
        BY <1>0, <1>5
      <4> HIDE DEF l
      <4>2. q <= l
        BY <4>1
      <4> QED BY <4>2 DEF l
    <3>2. \A i \in 1..q : p[i] = ws_in[i]
      BY <1>1, <1>5
    <3> QED BY <1>5, <3>1, <3>2
  <2>4. /\ N(ws_in) = m + N(left)
        /\ \A i \in Places(p, "data") :
              i \in Places(ws_in, "data")
              /\ Rank(i, Places(p, "data")) = Rank(i, Places(ws_in, "data"))
    <3>1. /\ ws_in \in Seq(ClientFrames) /\ p \in Seq(ClientFrames) /\ left \in Seq(ClientFrames)
          /\ q \in Nat /\ q <= Len(ws_in) /\ Len(p) = q /\ Len(left) = Len(ws_in) - q
      BY <1>0, <1>1, <2>2, <2>3
    <3>2. (\A i \in 1..q : p[i] = ws_in[i]) /\ \A i \in 1..Len(left) : left[i] = ws_in[q + i]
      BY <2>2, <2>3
    <3>3. /\ N(ws_in) = N(p) + N(left)
          /\ \A i \in Places(p, "data") :
                i \in Places(ws_in, "data")
                /\ Rank(i, Places(p, "data")) = Rank(i, Places(ws_in, "data"))
      <4>1. Cut(ws_in, p, left, q, ClientFrames)
        BY <3>1, <3>2, Zenon DEF Cut
      <4> QED BY <4>1, PlacesCut
    <3> QED BY <3>3
  <2>5. N(left) \in Nat
    BY <2>2, PlacesFinite
  <2>6. base + m <= client_sent
    <3>1. client_sent = base + N(ws_in)
      BY <2>1 DEF Unread
    <3> HIDE DEF base, N
    <3> QED BY <1>0, <1>2, <2>4, <2>5, <3>1
  <2>7. Numbers(p) = [k \in 1..m |-> base + k]
    <3>1. \A i \in Places(p, "data") : p[i].n = base + Rank(i, Places(p, "data"))
      <4> TAKE i \in Places(p, "data")
      <4>1. i \in Places(ws_in, "data") /\ p[i] = ws_in[i]
        BY <1>1, <1>5, <2>4 DEF Places
      <4>2. ws_in[i].n = base + Rank(i, Places(ws_in, "data"))
        BY <2>1, <4>1 DEF Unread
      <4> QED BY <2>4, <4>1, <4>2
    <3>2. base \in Nat /\ p \in Seq(ClientFrames)
      BY <1>0, <1>1
    <3>3. Numbers(p) = [k \in 1..Cardinality(Places(p, "data")) |-> base + k]
      BY <3>1, <3>2, NumbersCount
    <3> QED BY <3>3
  <2>8. ASSUME "READ_DISABLED" \notin recv_flags(p)
        PROVE  /\ client_sent = (base + m) + N(rest)
               /\ \A i \in Places(rest, "data") :
                     rest[i].n = (base + m) + Rank(i, Places(rest, "data"))
    <3>1. Ops(p) \cap Stops = {}
      BY <2>8 DEF recv_flags, Stops
    <3>2. q = n
      <4>1. ASSUME q \in DOMAIN b, b[q].op \in Stops PROVE FALSE
        <5>1. q \in 1..n /\ q \in DOMAIN p /\ p[q] = b[q]
          BY <1>1, <1>5, <4>1
        <5>2. p[q].op \in Ops(p)
          BY <5>1 DEF Ops
        <5> QED BY <3>1, <4>1, <5>1, <5>2
      <4> QED BY <1>1, <1>4, <1>7, <4>1
    <3>3. /\ Len(p) = n /\ n <= Len(ws_in) /\ \A i \in 1..n : p[i] = ws_in[i]
          /\ Len(rest) = Len(ws_in) - n /\ \A i \in 1..Len(rest) : rest[i] = ws_in[n + i]
      BY <1>1, <2>3, <3>2
    <3>4. /\ N(ws_in) = m + N(rest)
          /\ \A i \in Places(rest, "data") :
                /\ n + i \in Places(ws_in, "data")
                /\ Rank(n + i, Places(ws_in, "data")) = m + Rank(i, Places(rest, "data"))
      <4>1. /\ ws_in \in Seq(ClientFrames) /\ p \in Seq(ClientFrames) /\ rest \in Seq(ClientFrames)
            /\ n \in Nat
        BY <1>0, <1>1
      <4>2. /\ N(ws_in) = N(p) + N(rest)
            /\ \A i \in Places(rest, "data") :
                  /\ n + i \in Places(ws_in, "data")
                  /\ Rank(n + i, Places(ws_in, "data")) = N(p) + Rank(i, Places(rest, "data"))
        <5>1. Cut(ws_in, p, rest, n, ClientFrames)
          BY <1>1, <3>3, <4>1, Zenon DEF Cut
        <5> QED BY <5>1, PlacesCut
      <4> QED BY <4>2
    <3>5. /\ N(rest) \in Nat /\ Places(rest, "data") \subseteq 1..Len(rest)
          /\ IsFiniteSet(Places(rest, "data"))
      BY <1>1, PlacesFinite
    <3>6. client_sent = (base + m) + N(rest)
      <4>1. client_sent = base + N(ws_in)
        BY <2>1 DEF Unread
      <4> HIDE DEF base, N
      <4> QED BY <1>0, <1>2, <3>4, <3>5, <4>1
    <3>7. ASSUME NEW i \in Places(rest, "data")
          PROVE  rest[i].n = (base + m) + Rank(i, Places(rest, "data"))
      <4>1. rest[i] = ws_in[n + i]
        BY <3>3, <3>5
      <4>2. ws_in[n + i].n = base + Rank(n + i, Places(ws_in, "data"))
        BY <2>1, <3>4 DEF Unread
      <4>3. Rank(i, Places(rest, "data")) \in Nat
        BY <3>5, RankFinite
      <4>4. rest[i].n = base + (m + Rank(i, Places(rest, "data")))
        BY <3>4, <4>1, <4>2
      <4> DEFINE v == rest[i].n
                 k == Rank(i, Places(rest, "data"))
      <4>5. k \in Nat /\ v = base + (m + k) /\ base \in Nat /\ m \in Nat
        BY <1>0, <1>2, <4>3, <4>4
      <4> SUFFICES v = (base + m) + k
        OBVIOUS
      <4> HIDE DEF base, v, k
      <4> QED BY <4>5
    <3> QED BY <3>6, <3>7
  <2>9. ASSUME ws_finish(p) = "peer_close" PROVE client # "up" /\ base + m = client_sent
    <3>1. PICK i \in DOMAIN p : p[i].op = "close"
      BY <2>9 DEF ws_finish, Ops
    <3>2. i \in Places(ws_in, "close") /\ i \in Nat
      BY <1>1, <1>5, <3>1 DEF Places
    <3>3. client # "up" /\ \A j \in Places(ws_in, "data") : j < i
      BY <3>2 DEF Upward, CloseEndsData
    <3>4. Places(left, "data") = {}
      <4> SUFFICES ASSUME NEW j \in Places(left, "data") PROVE FALSE
        OBVIOUS
      <4>1. j \in 1..Len(left) /\ left[j].op = "data"
        BY <2>2 DEF Places
      <4>2. q + j \in Places(ws_in, "data") /\ q + j > q
        <5> DEFINE l == Len(ws_in)
        <5>1. j \in 1..(l - q) /\ l \in Nat /\ q \in Nat /\ q <= l
          BY <1>0, <2>2, <2>3, <4>1
        <5> HIDE DEF l
        <5>2. q + j \in 1..l /\ q + j > q
          BY <5>1
        <5>3. q + j \in DOMAIN ws_in
          BY <1>0, <5>2 DEF l
        <5>4. ws_in[q + j].op = "data"
          BY <2>2, <4>1
        <5> QED BY <5>2, <5>3, <5>4 DEF Places
      <4>3. i <= q
        BY <1>5, <3>1
      <4> QED BY <1>5, <3>2, <3>3, <4>1, <4>2, <4>3
    <3>5. N(left) = 0
      BY <3>4, FS_EmptySet
    <3>6. client_sent = base + N(ws_in)
      BY <2>1 DEF Unread
    <3>7. base + m = client_sent
      <4> HIDE DEF base, N
      <4> QED BY <1>0, <1>2, <2>4, <3>5, <3>6
    <3> QED BY <3>3, <3>7
  <2> QED BY <1>2, <2>6, <2>7, <2>8, <2>9
<1> QED BY <1>6, <1>7

\* The finish and the place of the ws direction after it took frames.
LEMMA WsTakes ==
    ASSUME TypeInv, Upward, ended = "running", pc["ws"] # "writing", NEW fs,
           NEW fin \in EndReasons \union {"none"}, write_then("ws", fs, fin, "ready")
    PROVE  /\ Finishes'
           /\ ended' = "running" => finish'["ws"] = fin
           /\ ended' = "running" => pc'["ws"] # "to_peer"
           /\ ended' = "running" \/ ended' = fin
<1>1. /\ pc \in [Directions -> {"ready", "writing", "to_peer", "waiting"}]
      /\ finish \in [Directions -> EndReasons \union {"none"}]
      /\ "ws" \in Directions
  BY UpwardTypes
<1>2. finish["ws"] = "none" /\ \A d \in Directions \ {"ws"} : finish[d] # "peer_close"
  BY DEF Upward, Finishes
<1>3. CASE /\ finish' = [finish EXCEPT !["ws"] = fin]
           /\ pc' = [pc EXCEPT !["ws"] = "writing"] /\ ended' = ended
  BY <1>1, <1>2, <1>3 DEF Finishes
<1>4. CASE fin = "none" /\ pc' = [pc EXCEPT !["ws"] = "ready"] /\ UNCHANGED <<finish, ended>>
  BY <1>1, <1>2, <1>4 DEF Finishes
<1>5. CASE fin # "none" /\ ended' = fin /\ UNCHANGED dir_vars
  BY <1>1, <1>2, <1>5 DEF Finishes, dir_vars, EndReasons
<1> QED BY <1>3, <1>4, <1>5 DEF write_then, end

LEMMA WsReadUpward ==
    ASSUME TypeInv, Upward, NEW n \in 1..MaxBatch, WsRead(n) PROVE Upward'
<1> DEFINE p == parsed(SubSeq(ws_in, 1, n))
           rest == SubSeq(ws_in, n + 1, Len(ws_in))
           m == Cardinality(Places(p, "data"))
           data == Numbers(p)
           fin == ws_finish(p)
<1>1. /\ ended = "running" /\ pc["ws"] = "ready" /\ n <= Len(ws_in)
      /\ ws_in' = rest /\ ctx' = ctx \union recv_flags(p)
      /\ forward(data, replies(p), fin)
      /\ UNCHANGED <<up_got, client, client_sent>>
  BY DEF WsRead, client_vars
<1>2. /\ pc \in [Directions -> {"ready", "writing", "to_peer", "waiting"}]
      /\ finish \in [Directions -> EndReasons \union {"none"}]
      /\ "ws" \in Directions
      /\ base \in Nat /\ Len(up_got) \in Nat /\ client_sent \in Nat
  BY UpwardTypes
<1>3. finish["ws"] = "none" /\ Pending /\ to_peer = <<>>
  <2>1. finish["ws"] = "none"
    BY <1>1 DEF Upward, Finishes
  <2>2. Pending
    BY <1>1, <2>1 DEF Upward
  <2> QED BY <1>1, <2>1, <2>2 DEF Pending
<1>4. base = Len(up_got)
  BY <1>2, <1>3 DEF base
<1>5. /\ m \in Nat /\ base + m <= client_sent
      /\ data = [k \in 1..m |-> base + k]
      /\ "READ_DISABLED" \notin ctx \union recv_flags(p) =>
           /\ client_sent = (base + m) + Cardinality(Places(rest, "data"))
           /\ \A i \in Places(rest, "data") :
                 rest[i].n = (base + m) + Rank(i, Places(rest, "data"))
      /\ fin = "peer_close" => client # "up" /\ base + m = client_sent
  <2>1. Batch(n, p, rest, m)
    BY <1>1 DEF Batch
  <2> HIDE DEF p, rest, m
  <2> QED BY <1>3, <2>1, BatchNumbers
<1>6. fin \in EndReasons \union {"none"} /\ fin # "error"
  BY DEF ws_finish, EndReasons
<1>7. CloseEndsData'
  <2>1. /\ Len(rest) = Len(ws_in) - n /\ rest \in Seq(ClientFrames)
        /\ \A i \in 1..Len(rest) : rest[i] = ws_in[n + i] /\ n + i \in DOMAIN ws_in
    BY <1>1, BatchOf
  <2>2. \A op : \A i \in Places(rest, op) : i \in Nat /\ n + i \in Places(ws_in, op)
    BY <2>1 DEF Places
  <2>3. n \in Nat
    BY BridgeAssumption
  <2> HIDE DEF rest
  <2>4. \A i \in Places(rest, "close") :
           client # "up" /\ \A j \in Places(rest, "data") : j < i
    <3> TAKE i \in Places(rest, "close")
    <3>1. client # "up" /\ \A j \in Places(ws_in, "data") : j < n + i
      BY <2>2 DEF Upward, CloseEndsData
    <3>2. ASSUME NEW j \in Places(rest, "data") PROVE j < i
      BY <2>2, <2>3, <3>1
    <3> QED BY <3>1, <3>2
  <2> QED BY <1>1, <2>4 DEF CloseEndsData, Places
<1>8. Received'
  BY <1>1 DEF Upward, Received
<1>9. Len(data) = m /\ DOMAIN data = 1..m /\ \A k \in 1..m : data[k] = base + k
  <2> HIDE DEF data, m
  <2> QED BY <1>5
<1> HIDE DEF data, m, fin, p, rest
<1>10. CASE /\ data # <<>> /\ to_peer' = data
            /\ after' = [out |-> replies(p), finish |-> fin]
            /\ pc' = [pc EXCEPT !["ws"] = "to_peer"]
            /\ UNCHANGED <<out, finish, lock, ended>>
  <2>1. Finishes'
    BY <1>2, <1>3, <1>10 DEF Upward, Finishes
  <2>2. base' = base + m
    BY <1>1, <1>4, <1>9, <1>10 DEF base
  <2>3. \A k \in DOMAIN to_peer' : to_peer'[k] = Len(up_got') + k
    BY <1>1, <1>4, <1>9, <1>10
  <2>4. /\ "READ_DISABLED" \notin ctx' => Unread'
        /\ base' <= client_sent'
        /\ pc'["ws"] = "to_peer" /\ after'.finish = fin /\ finish'["ws"] = "none"
        /\ fin = "peer_close" => client' # "up" /\ base' = client_sent'
    <3>1. "READ_DISABLED" \notin ctx' =>
            /\ client_sent' = base' + Cardinality(Places(ws_in', "data"))
            /\ \A i \in Places(ws_in', "data") :
                  ws_in'[i].n = base' + Rank(i, Places(ws_in', "data"))
      BY <1>1, <1>5, <2>2
    <3>2. /\ base' <= client_sent'
          /\ fin = "peer_close" => client' # "up" /\ base' = client_sent'
      BY <1>1, <1>5, <2>2
    <3>3. pc'["ws"] = "to_peer" /\ after'.finish = fin /\ finish'["ws"] = "none"
      BY <1>2, <1>3, <1>10
    <3> HIDE DEF base
    <3> QED BY <3>1, <3>2, <3>3 DEF Unread, Places, Rank
  <2>5. Pending'
    <3> HIDE DEF base
    <3> QED BY <2>3, <2>4 DEF Pending, Unread, Places, Rank
  <2> QED BY <1>7, <1>8, <2>1, <2>5 DEF Upward
<1>11. CASE /\ data = <<>> /\ UNCHANGED ws_vars
            /\ write_then("ws", replies(p), fin, "ready")
  <2>1. m = 0
    <3>1. Len(<<>>) = 0
      OBVIOUS
    <3> QED BY <1>9, <1>11, <3>1
  <2>2. to_peer' = <<>> /\ base' = base
    BY <1>1, <1>3, <1>11 DEF base, ws_vars
  <2>3. /\ Finishes'
        /\ ended' = "running" => finish'["ws"] = fin /\ pc'["ws"] # "to_peer"
    BY <1>1, <1>6, <1>11, WsTakes
  <2>4. base + m = base
    BY <1>2, <2>1
  <2>5. ASSUME ended' = "running" PROVE Pending'
    <3>1. "READ_DISABLED" \notin ctx' =>
            /\ client_sent' = base' + Cardinality(Places(ws_in', "data"))
            /\ \A i \in Places(ws_in', "data") :
                  ws_in'[i].n = base' + Rank(i, Places(ws_in', "data"))
      BY <1>1, <1>5, <2>2, <2>4
    <3>2. /\ base' <= client_sent'
          /\ fin = "peer_close" => client' # "up" /\ Len(up_got') = client_sent'
      BY <1>1, <1>4, <1>5, <2>2, <2>4
    <3>3. \A k \in DOMAIN to_peer' : to_peer'[k] = Len(up_got') + k
      <4>1. DOMAIN to_peer' = {}
        BY <2>2
      <4> QED BY <4>1
    <3>4. finish'["ws"] = fin /\ pc'["ws"] # "to_peer"
      BY <2>3, <2>5
    <3> HIDE DEF base
    <3> QED BY <2>2, <3>1, <3>2, <3>3, <3>4 DEF Pending, Places, Rank
  <2> QED BY <1>7, <1>8, <2>3, <2>5 DEF Upward
<1> QED BY <1>1, <1>10, <1>11 DEF forward

LEMMA PeerWriteUpward ==
    ASSUME TypeInv, Upward, PeerWrite PROVE Upward'
<1>1. /\ ended = "running" /\ pc["ws"] = "to_peer"
      /\ Grows(up_got', up_got, Head(to_peer))
      /\ to_peer' = Tail(to_peer)
      /\ \/ Len(to_peer) > 1 /\ UNCHANGED <<pc, finish, ended>>
         \/ Len(to_peer) = 1 /\ write_then("ws", after.out, after.finish, "ready")
      /\ UNCHANGED <<client, client_sent, ws_in, ctx, after>>
  BY DEF PeerWrite, Grows, client_vars, wslay_vars, dir_vars
<1>2. /\ pc \in [Directions -> {"ready", "writing", "to_peer", "waiting"}]
      /\ finish \in [Directions -> EndReasons \union {"none"}]
      /\ "ws" \in Directions
      /\ base \in Nat /\ Len(up_got) \in Nat /\ client_sent \in Nat /\ Len(to_peer) \in Nat
      /\ to_peer \in Seq(1..MaxClientData) /\ up_got \in Seq(1..MaxClientData)
      /\ DOMAIN up_got = 1..Len(up_got)
  BY UpwardTypes
<1>3. finish["ws"] = "none" /\ Pending
  <2>1. finish["ws"] = "none"
    BY <1>1 DEF Upward, Finishes
  <2> QED BY <1>1, <2>1 DEF Upward
<1>4. to_peer # <<>>
  BY <1>1 DEF TypeInv, Holding
<1>5. /\ Len(to_peer) >= 1 /\ Head(to_peer) = to_peer[1] /\ 1 \in DOMAIN to_peer
      /\ Tail(to_peer) \in Seq(1..MaxClientData)
      /\ \A i \in DOMAIN Tail(to_peer) :
            i \in Nat /\ i + 1 \in DOMAIN to_peer /\ Tail(to_peer)[i] = to_peer[i + 1]
      /\ Len(to_peer) = 1 => Tail(to_peer) = <<>>
  BY <1>2, <1>4, TailOf
<1>6. Len(Tail(to_peer)) = Len(to_peer) - 1
  BY <1>2, <1>4
<1>7. /\ Len(up_got') = Len(up_got) + 1
      /\ DOMAIN up_got' = DOMAIN up_got \union {Len(up_got) + 1}
      /\ \A k \in DOMAIN up_got : up_got'[k] = up_got[k]
      /\ up_got'[Len(up_got) + 1] = Head(to_peer)
  BY <1>1, <1>2 DEF Grows
<1>8. Head(to_peer) = Len(up_got) + 1
  BY <1>3, <1>5 DEF Pending
<1> DEFINE t == Len(to_peer)
           g == Len(up_got)
<1>9. /\ t \in Nat /\ t >= 1 /\ g \in Nat /\ Len(to_peer') = t - 1 /\ Len(up_got') = g + 1
      /\ base = g + t /\ base' = Len(up_got') + Len(to_peer')
  BY <1>1, <1>2, <1>5, <1>6, <1>7 DEF base
<1> HIDE DEF t, g
<1>10. base' = base
  <2> HIDE DEF base
  <2> QED BY <1>9
<1>11. Len(up_got') <= client_sent'
  <2>1. base <= client_sent
    BY <1>3 DEF Pending
  <2> HIDE DEF base
  <2> QED BY <1>1, <1>2, <1>9, <2>1
<1>12. Received'
  <2>1. \A k \in DOMAIN up_got : up_got[k] = k
    BY DEF Upward, Received
  <2>2. \A k \in DOMAIN up_got' : up_got'[k] = k
    BY <1>7, <1>8, <2>1
  <2> QED BY <1>11, <2>2 DEF Received
<1>13. CloseEndsData'
  BY <1>1 DEF Upward, CloseEndsData, Places
<1>14. \A k \in DOMAIN to_peer' : to_peer'[k] = Len(up_got') + k
  <2> TAKE k \in DOMAIN to_peer'
  <2>1. k \in Nat /\ k + 1 \in DOMAIN to_peer /\ to_peer'[k] = to_peer[k + 1]
    BY <1>1, <1>5
  <2>2. to_peer[k + 1] = Len(up_got) + (k + 1)
    BY <1>3, <2>1 DEF Pending
  <2>3. to_peer'[k] = g + (k + 1) /\ Len(up_got') = g + 1 /\ g \in Nat
    BY <1>9, <2>1, <2>2 DEF g
  <2> QED BY <2>1, <2>3
<1>15. "READ_DISABLED" \notin ctx' =>
          /\ client_sent' = base' + Cardinality(Places(ws_in', "data"))
          /\ \A i \in Places(ws_in', "data") :
                ws_in'[i].n = base' + Rank(i, Places(ws_in', "data"))
  BY <1>1, <1>3, <1>10 DEF Pending
<1>16. base' <= client_sent'
  BY <1>1, <1>3, <1>10 DEF Pending
<1>17. after.finish = "peer_close" => client # "up" /\ base = client_sent
  BY <1>1, <1>3 DEF Pending
<1>18. CASE Len(to_peer) > 1 /\ UNCHANGED <<pc, finish, ended>>
  <2>1. Finishes'
    BY <1>18 DEF Upward, Finishes
  <2>2. pc'["ws"] = "to_peer" /\ finish'["ws"] = "none"
    BY <1>1, <1>3, <1>18
  <2>3. after'.finish = "peer_close" => client' # "up" /\ base' = client_sent'
    BY <1>1, <1>10, <1>17
  <2>4. Pending'
    <3> HIDE DEF base
    <3> QED BY <1>14, <1>15, <1>16, <2>2, <2>3 DEF Pending, Places, Rank
  <2> QED BY <1>12, <1>13, <2>1, <2>4 DEF Upward
<1>19. CASE Len(to_peer) = 1 /\ write_then("ws", after.out, after.finish, "ready")
  <2>1. to_peer' = <<>> /\ Len(up_got') = base'
    <3>1. to_peer' = <<>> /\ t = 1
      BY <1>1, <1>5, <1>19 DEF t
    <3> HIDE DEF base
    <3> QED BY <1>9, <1>10, <3>1
  <2>2. after.finish \in EndReasons \union {"none"}
    BY DEF TypeInv, TypeOK
  <2>3. /\ Finishes'
        /\ ended' = "running" => finish'["ws"] = after.finish /\ pc'["ws"] # "to_peer"
    BY <1>1, <1>19, <2>2, WsTakes
  <2>4. ASSUME ended' = "running" PROVE Pending'
    <3>1. finish'["ws"] = "peer_close" => client' # "up" /\ Len(up_got') = client_sent'
      BY <1>1, <1>10, <1>17, <2>1, <2>3, <2>4
    <3>2. pc'["ws"] # "to_peer"
      BY <2>3, <2>4
    <3> HIDE DEF base
    <3> QED BY <1>14, <1>15, <1>16, <2>1, <3>1, <3>2 DEF Pending, Places, Rank
  <2> QED BY <1>12, <1>13, <2>3, <2>4 DEF Upward
<1> QED BY <1>1, <1>18, <1>19

LEMMA PeerWriteFailsUpward ==
    ASSUME TypeInv, Upward, PeerWriteFails PROVE Upward'
<1>1. /\ ended = "running" /\ pc["ws"] # "writing"
      /\ write_then("ws", queue(Frame("error")), "error", "ready")
      /\ UNCHANGED <<up_got, client, client_sent, ws_in>>
  BY DEF PeerWriteFails, client_vars
<1>2. "error" \in EndReasons \union {"none"}
  BY DEF EndReasons
<1>3. Finishes' /\ (ended' = "running" => finish'["ws"] = "error")
  BY <1>1, <1>2, WsTakes
<1>4. Received' /\ CloseEndsData'
  BY <1>1 DEF Upward, Received, CloseEndsData, Places
<1> QED BY <1>3, <1>4 DEF Upward

LEMMA UpwardStep == TypeInv /\ Upward /\ [Next]_vars => Upward'
<1> SUFFICES ASSUME TypeInv, Upward, [Next]_vars PROVE Upward'
  OBVIOUS
<1>0. /\ {"peer", "control", "keepalive"} \subseteq Directions \ {"ws"}
      /\ {"none", "error", "normal", "timeout"} \subseteq (EndReasons \union {"none"}) \ {"peer_close"}
  BY DEF Directions, EndReasons
<1>1. CASE /\ UNCHANGED <<up_got, client_sent, client, ws_in, to_peer, after, ctx, finish>>
           /\ pc'["ws"] = pc["ws"] /\ (ended' = "running" => ended = "running")
  <2>1. \A d \in Directions \ {"ws"} : finish'[d] # "peer_close"
    BY <1>1 DEF Upward, Finishes
  <2>2. ctx \subseteq ctx' /\ finish'["ws"] = finish["ws"]
    BY <1>1
  <2> QED BY <1>1, <2>1, <2>2, UpwardKept
<1>2. CASE PeerRead
  <2>1. /\ ended = "running" /\ write_then("peer", queue(Data(up_read + 1)), "none", "ready")
        /\ UNCHANGED <<up_got, client_sent, client, ws_in, to_peer, after>> /\ ctx \subseteq ctx'
    BY <1>2 DEF PeerRead, client_vars, wslay_vars, ws_vars
  <2> QED BY <1>0, <2>1, UpwardTake
<1>3. CASE PeerReadEnds
  <2> DEFINE cf == close_for(upstream)
  <2>1. /\ ended = "running" /\ write_then("peer", queue(Frame(cf)), cf, "ready")
        /\ UNCHANGED <<up_got, client_sent, client, ws_in, to_peer, after>> /\ ctx \subseteq ctx'
    BY <1>3 DEF PeerReadEnds, client_vars, ws_vars
  <2>2. cf \in (EndReasons \union {"none"}) \ {"peer_close"}
    BY <1>0 DEF close_for
  <2> HIDE DEF cf
  <2> QED BY <1>0, <2>1, <2>2, UpwardTake
<1>4. CASE KeepalivePing
  <2>1. /\ ended = "running" /\ write_then("keepalive", queue(Frame("ping")), "none", "waiting")
        /\ UNCHANGED <<up_got, client_sent, client, ws_in, to_peer, after>> /\ ctx \subseteq ctx'
    BY <1>4 DEF KeepalivePing, client_vars, wslay_vars, ws_vars
  <2> QED BY <1>0, <2>1, UpwardTake
<1>5. CASE KeepaliveExpires
  <2>1. /\ ended = "running" /\ write_then("keepalive", queue(Frame("timeout")), "timeout", "ready")
        /\ UNCHANGED <<up_got, client_sent, client, ws_in, to_peer, after>> /\ ctx \subseteq ctx'
    BY <1>5 DEF KeepaliveExpires, client_vars, ws_vars
  <2> QED BY <1>0, <2>1, UpwardTake
<1>6. ASSUME NEW op \in {"ping", "pong", "control"}, Control(op) PROVE Upward'
  <2>1. /\ ended = "running" /\ write_then("control", queue(Frame(op)), "none", "ready")
        /\ UNCHANGED <<up_got, client_sent, client, ws_in, to_peer, after>> /\ ctx \subseteq ctx'
    BY <1>6 DEF Control, client_vars, ws_vars
  <2> QED BY <1>0, <2>1, UpwardTake
<1>7. CASE KeepaliveAnswered
  <2>1. pc'["ws"] = pc["ws"]
    BY <1>7, UpwardTypes DEF KeepaliveAnswered
  <2> QED BY <1>1, <1>7, <2>1 DEF KeepaliveAnswered, client_vars, wslay_vars, ws_vars
<1>8. CASE WsEof \/ Tick \/ \E d \in Directions : WriteFails(d)
  BY <1>1, <1>8 DEF WsEof, Tick, WriteFails, end, client_vars, wslay_vars, ws_vars, dir_vars
<1>9. CASE UNCHANGED vars
  BY <1>1, <1>9 DEF vars, client_vars, wslay_vars, ws_vars, dir_vars
<1> QED BY <1>2, <1>3, <1>4, <1>5, <1>6, <1>7, <1>8, <1>9, WriteFrameUpward, WsReadUpward,
       PeerWriteUpward, PeerWriteFailsUpward, EnvironmentUpward
    DEF Next, Bridge, WsToPeer, PeerToWs, Keepalive

-----------------------------------------------------------------------------
(* The bridge implements the byte tunnel *)

BridgeInv == TypeInv /\ Order /\ Downward /\ Upward

LEMMA BridgeInvariant == Spec => []BridgeInv
<1>1. Init => BridgeInv
  BY TypeInit, OrderInit, DownwardInit, UpwardInit DEF BridgeInv
<1>2. BridgeInv /\ [Next]_vars => BridgeInv'
  BY TypeStep, OrderStep, DownwardStep, UpwardStep DEF BridgeInv
<1> QED BY <1>1, <1>2, PTL DEF Spec

\* The state of the tunnel.
UpEnd ==
    IF ended = "running" THEN "open" ELSE IF ended = "peer_close" THEN "complete" ELSE "cut"
DownGot == Numbers(ws_out)
DownEnd ==
    IF closed_with("normal") THEN "complete"
    ELSE IF closed \/ ended # "running" THEN "cut" ELSE "open"

LEMMA TunnelStays ==
    /\ UNCHANGED <<client_sent, up_got, ended>> => UNCHANGED Tunnel!up
    /\ UNCHANGED <<up_sent, DownGot, DownEnd>> => UNCHANGED Tunnel!down
    /\ UNCHANGED <<up_sent, ws_out, ended>> => UNCHANGED Tunnel!down
<1>1. UNCHANGED <<client_sent, up_got, ended>> => UNCHANGED Tunnel!up
  BY DEF Tunnel!up
<1>2. UNCHANGED <<up_sent, DownGot, DownEnd>> => UNCHANGED Tunnel!down
  BY DEF Tunnel!down, DownGot, DownEnd
<1>3. UNCHANGED <<up_sent, ws_out, ended>> => UNCHANGED <<up_sent, DownGot, DownEnd>>
  BY DEF DownGot, DownEnd, Numbers, Places, Rank, closed, closed_with, Ops
<1> QED BY <1>1, <1>2, <1>3

\* The stream to the upstream ends, perhaps with one more delivery.
LEMMA TunnelEndsUp ==
    ASSUME ended = "running", ended' # "running", client_sent' = client_sent,
           \/ up_got' = up_got
           \/ Len(up_got) < client_sent /\ up_got' = Append(up_got, Len(up_got) + 1),
           ended' = "peer_close" => Len(up_got') = client_sent
    PROVE  Tunnel!EndsUp
<1>1. UpEnd = "open" /\ (UpEnd' = "cut" \/ (UpEnd' = "complete" /\ Len(up_got') = client_sent))
  <2>1. UpEnd = "open"
    BY DEF UpEnd
  <2>2. CASE ended' = "peer_close"
    <3>1. UpEnd' = "complete"
      BY <2>2 DEF UpEnd
    <3> QED BY <2>1, <2>2, <3>1
  <2>3. CASE ended' # "peer_close"
    <3>1. UpEnd' = "cut"
      BY <2>3 DEF UpEnd
    <3> QED BY <2>1, <3>1
  <2> QED BY <2>2, <2>3
<1>2. Tunnel!End(client_sent, up_got, UpEnd)
  BY <1>1 DEF Tunnel!End
<1> QED BY <1>2 DEF Tunnel!EndsUp, UpEnd

\* The stream to the client ends: with a Close, or because the bridge did.
LEMMA TunnelEndsDown ==
    ASSUME ended = "running", ~closed, up_sent' = up_sent, closed' \/ ended' # "running",
           \/ DownGot' = DownGot
           \/ Len(DownGot) < up_sent /\ DownGot' = Append(DownGot, Len(DownGot) + 1),
           closed_with("normal")' => Len(DownGot') = up_sent
    PROVE  Tunnel!EndsDown
<1>1. ~closed_with("normal")
  BY DEF closed_with, closed, CloseOps
<1>2. DownEnd = "open" /\ (DownEnd' = "cut" \/ (DownEnd' = "complete" /\ Len(DownGot') = up_sent))
  <2>1. DownEnd = "open"
    BY <1>1, Zenon DEF DownEnd
  <2>2. CASE closed_with("normal")'
    <3>1. DownEnd' = "complete"
      BY <2>2 DEF DownEnd
    <3> QED BY <2>1, <2>2, <3>1
  <2>3. CASE ~closed_with("normal")'
    <3>1. DownEnd' = "cut"
      BY <2>3, Zenon DEF DownEnd
    <3> QED BY <2>1, <3>1
  <2> QED BY <2>2, <2>3
<1>3. Tunnel!End(up_sent, DownGot, DownEnd)
  BY <1>2 DEF Tunnel!End
<1> QED BY <1>3 DEF Tunnel!EndsDown, DownEnd, DownGot

\* The bridge ends with a step that writes nothing to the client that matters.
LEMMA TunnelEnds ==
    ASSUME ended = "running", ended' # "running", UNCHANGED <<client_sent, up_sent, DownGot>>,
           \/ up_got' = up_got
           \/ Len(up_got) < client_sent /\ up_got' = Append(up_got, Len(up_got) + 1),
           ended' = "peer_close" => Len(up_got') = client_sent,
           closed' = closed, closed_with("normal")' = closed_with("normal")
    PROVE  Tunnel!Next
<1>1. Tunnel!EndsUp
  BY TunnelEndsUp
<1>2. CASE closed
  <2>1. DownEnd' = DownEnd
    BY <1>2 DEF DownEnd
  <2>2. UNCHANGED Tunnel!down
    BY <2>1, TunnelStays
  <2> QED BY <1>1, <2>2 DEF Tunnel!Next
<1>3. CASE ~closed
  <2>1. ~closed_with("normal")
    BY <1>3 DEF closed_with, closed, CloseOps
  <2>2. Tunnel!EndsDown
    BY <1>3, <2>1, TunnelEndsDown
  <2> QED BY <1>1, <2>2 DEF Tunnel!Next
<1> QED BY <1>2, <1>3

\* The bridge reports the client's Close only when all its data was written.
LEMMA PeerCloseComplete ==
    ASSUME TypeInv, Upward, ended = "running", ended' = "peer_close", Next
    PROVE  Len(up_got') = client_sent
<1>1. /\ \A d, fs, fin, next : write_then(d, fs, fin, next) =>
            ended' = ended \/ (ended' = fin /\ fs = <<>>)
  BY DEF write_then, end
<1>2. ASSUME NEW n \in 1..MaxBatch, WsRead(n) PROVE Len(up_got') = client_sent
  <2> DEFINE p == parsed(SubSeq(ws_in, 1, n))
             rest == SubSeq(ws_in, n + 1, Len(ws_in))
             m == Cardinality(Places(p, "data"))
             data == Numbers(p)
             fin == ws_finish(p)
             fs == replies(p)
  <2>1. /\ pc["ws"] = "ready" /\ n <= Len(ws_in) /\ up_got' = up_got
        /\ \/ ended' = ended
           \/ data = <<>> /\ write_then("ws", fs, fin, "ready")
    BY <1>2 DEF WsRead, forward
  <2>2. Batch(n, p, rest, m)
    BY <2>1 DEF Batch
  <2>3. finish["ws"] = "none"
    BY <2>1 DEF Upward, Finishes
  <2>4. Pending /\ to_peer = <<>>
    <3>1. Pending
      BY <2>3 DEF Upward
    <3> QED BY <2>1, <3>1 DEF Pending
  <2> HIDE DEF p, rest, m, fin, fs
  <2>5. data = <<>> /\ fin = "peer_close"
    BY <1>1, <2>1
  <2>6. /\ m \in Nat /\ base + m = client_sent /\ Numbers(p) = [k \in 1..m |-> base + k]
    BY <2>2, <2>4, <2>5, BatchNumbers DEF fin
  <2>7. m = 0
    <3>1. Len([k \in 1..m |-> base + k]) = m
      BY <2>6
    <3>2. Len(<<>>) = 0
      OBVIOUS
    <3> QED BY <2>5, <2>6, <3>1, <3>2
  <2>8. base = Len(up_got) /\ Len(up_got) \in Nat
    BY <2>4, UpwardTypes DEF base
  <2> QED BY <2>1, <2>6, <2>7, <2>8
<1>3. CASE PeerWrite
  <2>1. /\ pc["ws"] = "to_peer" /\ Grows(up_got', up_got, Head(to_peer))
        /\ \/ ended' = ended
           \/ Len(to_peer) = 1 /\ write_then("ws", after.out, after.finish, "ready")
    BY <1>3 DEF PeerWrite, Grows
  <2>2. finish["ws"] = "none"
    BY <2>1 DEF Upward, Finishes
  <2>3. Pending
    BY <2>2 DEF Upward
  <2>4. Len(to_peer) = 1 /\ after.finish = "peer_close"
    BY <1>1, <2>1
  <2>5. base = client_sent
    BY <2>1, <2>3, <2>4 DEF Pending
  <2>6. Len(up_got') = Len(up_got) + 1
    BY <2>1, UpwardTypes DEF Grows
  <2> QED BY <2>4, <2>5, <2>6 DEF base
<1>4. ASSUME NEW d \in Directions, WriteFrame(d) PROVE Len(up_got') = client_sent
  <2>1. up_got' = up_got /\ finish[d] = "peer_close"
    BY <1>4 DEF WriteFrame
  <2>2. d = "ws"
    BY <2>1 DEF Upward, Finishes
  <2>3. Pending
    BY <2>1, <2>2 DEF Upward
  <2> QED BY <2>1, <2>2, <2>3 DEF Pending
<1>5. CASE WsEof \/ PeerWriteFails \/ PeerToWs \/ Keepalive \/ Environment \/ Tick
  <2>1. ended' \in {"running", "abnormal", "error", "normal", "timeout"}
    <3>1. CASE WsEof \/ Tick \/ KeepaliveAnswered
      BY <3>1 DEF WsEof, Tick, KeepaliveAnswered, end
    <3>2. CASE PeerWriteFails \/ PeerRead \/ KeepalivePing \/ KeepaliveExpires
      BY <1>1, <3>2 DEF PeerWriteFails, PeerRead, KeepalivePing, KeepaliveExpires, write_then, end
    <3>3. CASE PeerReadEnds
      BY <1>1, <3>3 DEF PeerReadEnds, close_for
    <3>4. CASE Environment
      BY <3>4 DEF Environment, ClientData, ClientPing, ClientPong, ClientCloses, ClientErrs,
         ClientGoes, ClientDies, SocketStalls, SocketDrains, UpstreamSends, UpstreamEnds,
         UpstreamTakes, bridge_vars
    <3> QED BY <1>5, <3>1, <3>2, <3>3, <3>4 DEF PeerToWs, Keepalive
  <2> QED BY <2>1
<1>6. ASSUME NEW d \in Directions, WriteFails(d) PROVE FALSE
  BY <1>6 DEF WriteFails, end
<1>7. ASSUME NEW op \in {"ping", "pong", "control"}, Control(op) PROVE FALSE
  BY <1>7 DEF Control, write_then, end
<1> QED BY <1>2, <1>3, <1>4, <1>5, <1>6, <1>7 DEF Next, Bridge, WsToPeer

\* The client received the data numbered from 1.
LEMMA GivenNumbers ==
    ASSUME NEW S, NEW s \in Seq(S), NEW c, c = Cardinality(Places(s, "data")),
           \A i \in Places(s, "data") : s[i].n = Rank(i, Places(s, "data"))
    PROVE  Numbers(s) = [k \in 1..c |-> k] /\ Len(Numbers(s)) = c
<1>1. c \in Nat /\ IsFiniteSet(Places(s, "data"))
  BY PlacesFinite
<1>2. \A i \in Places(s, "data") : s[i].n = 0 + Rank(i, Places(s, "data"))
  <2> TAKE i \in Places(s, "data")
  <2> DEFINE k == Rank(i, Places(s, "data"))
  <2>1. k \in Nat /\ s[i].n = k
    BY <1>1, RankFinite
  <2> SUFFICES s[i].n = 0 + k
    OBVIOUS
  <2> HIDE DEF k
  <2> QED BY <2>1
<1>3. 0 \in Nat
  OBVIOUS
<1>4. Numbers(s) = [k \in 1..Cardinality(Places(s, "data")) |-> 0 + k]
  BY <1>2, <1>3, NumbersCount
<1>5. [k \in 1..c |-> 0 + k] = [k \in 1..c |-> k]
  OBVIOUS
<1>6. Len([k \in 1..c |-> k]) = c
  BY <1>1
<1> QED BY <1>4, <1>5, <1>6

LEMMA WriteFrameTunnel ==
    ASSUME BridgeInv, BridgeInv', NEW d \in Directions, WriteFrame(d), Next
    PROVE  [Tunnel!Next]_<<Tunnel!up, Tunnel!down>>
<1> DEFINE f == Head(out[d])
<1>0. /\ f \in Frames /\ f.op \in Ops(out[d])
      /\ f.op # "ping" => Grows(ws_out', ws_out, f)
      /\ f.op = "ping" => ws_out' = ws_out \/ Grows(ws_out', ws_out, f)
      /\ ws_out \in Seq(Frames)
  BY WriteFrameOut DEF BridgeInv, Grows
<1>1. /\ ended = "running" /\ UNCHANGED <<client_sent, up_sent, up_got>>
  BY DEF WriteFrame, client_vars, up_vars
<1>2. ended' = "peer_close" => Len(up_got') = client_sent
  BY <1>1, PeerCloseComplete DEF BridgeInv
<1> HIDE DEF f
<1>3. f \in Frames /\ ws_out \in Seq(Frames)
  BY <1>0
<1>4. ws_out' \in Seq(Frames')
  BY DEF BridgeInv, TypeInv, TypeOK
<1>5. /\ DownGot = [k \in 1..given |-> k] /\ Len(DownGot) = given
      /\ DownGot' = [k \in 1..given' |-> k] /\ Len(DownGot') = given'
  <2>1. \A i \in Places(ws_out, "data") : ws_out[i].n = Rank(i, Places(ws_out, "data"))
    BY DEF BridgeInv, Downward
  <2>2. \A i \in Places(ws_out', "data") : ws_out'[i].n = Rank(i, Places(ws_out', "data"))
    <3>1. Downward'
      BY DEF BridgeInv
    <3> QED BY <3>1 DEF Downward, Places, Rank
  <2>3. Numbers(ws_out) = [k \in 1..given |-> k] /\ Len(Numbers(ws_out)) = given
    BY <1>3, <2>1, GivenNumbers DEF given
  <2>4. given' = Cardinality(Places(ws_out', "data"))
    BY DEF given, Places
  <2>5. Numbers(ws_out') = [k \in 1..given' |-> k] /\ Len(Numbers(ws_out')) = given'
    BY <1>4, <2>2, <2>4, GivenNumbers
  <2>6. DownGot' = Numbers(ws_out')
    BY DEF DownGot, Numbers, Places, Rank
  <2> QED BY <2>3, <2>5, <2>6 DEF DownGot
<1>6. given \in Nat
  BY <1>3, PlacesFinite DEF given
<1>7. /\ closed <=> closing(ws_out)
      /\ closed' <=> closing(ws_out')
      /\ closed_with("normal") <=> "normal" \in Ops(ws_out)
      /\ closed_with("normal")' <=> "normal" \in Ops(ws_out')
  BY DEF closed, closing, closed_with, Ops
<1>8. closed => f.op = "pong"
  BY <1>0, <1>7 DEF BridgeInv, Order, pongs
<1>9. /\ Grows(ws_out', ws_out, f) => Ops(ws_out') = Ops(ws_out) \union {f.op}
  BY <1>3, OpsOf DEF Grows
<1>10. CASE f.op = "data"
  <2>1. /\ Ops(ws_out') = Ops(ws_out) \union {"data"} /\ ~closed
    BY <1>0, <1>8, <1>9, <1>10
  <2>2. ~closed' /\ ~closed_with("normal") /\ ~closed_with("normal")'
    BY <1>7, <2>1 DEF closing, CloseOps
  <2>3. given' = given + 1
    <3>1. Grows(ws_out', ws_out, f)
      BY <1>0, <1>10
    <3>2. Cardinality(Places(ws_out', "data")) = Cardinality(Places(ws_out, "data")) + 1
      BY <1>3, <1>10, <3>1, PlacesAppend
    <3> QED BY <3>2 DEF given, Places
  <2>4. given < up_sent
    <3>1. given' <= up_sent' /\ up_sent \in Nat
      <4>1. given' <= up_read' /\ up_read' <= up_sent'
        BY DEF BridgeInv, Downward
      <4>2. up_read' \in Nat /\ up_sent \in Nat
        <5>1. MaxUpstream \in Nat /\ MaxUpstream' \in Nat
          <6>1. MaxUpstream \in Nat
            BY FrameTypes DEF BridgeInv, TypeInv
          <6>2. MaxUpstream' = MaxUpstream
            BY ScenarioFixed
          <6> QED BY <6>1, <6>2
        <5> QED BY <5>1 DEF BridgeInv, TypeInv, TypeOK
      <4> DEFINE g == given'
      <4>3. g \in Nat
        BY <1>6, <2>3
      <4>4. g <= up_read' /\ up_read' <= up_sent'
        BY <4>1
      <4> HIDE DEF g
      <4>5. g <= up_sent'
        BY <1>1, <4>2, <4>3, <4>4
      <4> QED BY <4>2, <4>5 DEF g
    <3> HIDE DEF given
    <3> QED BY <1>1, <1>6, <2>3, <3>1
  <2>5. DownGot' = Append(DownGot, Len(DownGot) + 1) /\ Len(DownGot) < up_sent
    <3> DEFINE g == given
               s == [k \in 1..g |-> k]
    <3> HIDE DEF g
    <3>1. g \in Nat
      BY <1>6 DEF g
    <3>2. [k \in 1..(g + 1) |-> k] = Append(s, g + 1)
      BY <3>1
    <3>3. DownGot = s /\ Len(DownGot) = g /\ DownGot' = [k \in 1..(g + 1) |-> k]
      BY <1>5, <2>3 DEF g
    <3>4. Len(DownGot) < up_sent
      BY <2>4, <3>3 DEF g
    <3> HIDE DEF s
    <3>5. DownGot' = Append(DownGot, g + 1)
      BY <3>2, <3>3
    <3> QED BY <3>3, <3>4, <3>5
  <2>6. CASE ended' = "running"
    <3>1. UNCHANGED Tunnel!up
      BY <1>1, <2>6, TunnelStays
    <3>2. DownEnd = "open" /\ DownEnd' = "open"
      BY <1>1, <2>1, <2>2, <2>6, Zenon DEF DownEnd
    <3>3. Tunnel!Deliver(up_sent, DownGot, DownEnd)
      BY <1>1, <2>5, <3>2 DEF Tunnel!Deliver
    <3> QED BY <3>1, <3>3 DEF Tunnel!Next, DownGot, DownEnd
  <2>7. CASE ended' # "running"
    <3>1. Tunnel!EndsUp
      BY <1>1, <1>2, <2>7, TunnelEndsUp
    <3>2. Tunnel!EndsDown
      BY <1>1, <2>1, <2>2, <2>5, <2>7, TunnelEndsDown
    <3> QED BY <3>1, <3>2 DEF Tunnel!Next
  <2> QED BY <2>6, <2>7
<1>11. ASSUME f.op # "data" PROVE DownGot' = DownGot
  <2>1. Places(ws_out', "data") = Places(ws_out, "data")
    <3>1. CASE Grows(ws_out', ws_out, f)
      BY <1>3, <1>11, <3>1, PlacesAppend
    <3> QED BY <1>0, <3>1
  <2>2. given' = Cardinality(Places(ws_out', "data"))
    BY DEF given, Places
  <2>3. given' = given
    BY <2>1, <2>2 DEF given
  <2> QED BY <1>5, <2>3
<1>12. CASE f.op \in CloseOps
  <2>1. ~closed /\ f.op # "data" /\ Grows(ws_out', ws_out, f)
    BY <1>0, <1>8, <1>12 DEF CloseOps
  <2>2. closed'
    BY <1>7, <1>9, <1>12, <2>1 DEF closing
  <2>3. closed_with("normal")' => Len(DownGot') = up_sent
    <3>1. "normal" \in Ops(ws_out)' => given' = up_sent'
      BY DEF BridgeInv, Downward
    <3> QED BY <1>1, <1>5, <3>1 DEF closed_with
  <2>4. Tunnel!EndsDown
    BY <1>1, <1>11, <2>1, <2>2, <2>3, TunnelEndsDown
  <2>5. CASE ended' = "running"
    <3>1. UNCHANGED Tunnel!up
      BY <1>1, <2>5, TunnelStays
    <3> QED BY <2>4, <3>1 DEF Tunnel!Next
  <2>6. CASE ended' # "running"
    <3>1. Tunnel!EndsUp
      BY <1>1, <1>2, <2>6, TunnelEndsUp
    <3> QED BY <2>4, <3>1 DEF Tunnel!Next
  <2> QED BY <2>5, <2>6
<1>13. CASE f.op \notin CloseOps \union {"data"}
  <2>1. closed' = closed /\ closed_with("normal")' = closed_with("normal")
    <3>1. Ops(ws_out') = Ops(ws_out) \/ Ops(ws_out') = Ops(ws_out) \union {f.op}
      BY <1>0, <1>9
    <3>2. /\ closing(ws_out') <=> closing(ws_out)
          /\ "normal" \in Ops(ws_out') <=> "normal" \in Ops(ws_out)
      BY <1>13, <3>1 DEF closing, CloseOps
    <3>3. closed \in BOOLEAN /\ closed' \in BOOLEAN /\ closed_with("normal") \in BOOLEAN
          /\ closed_with("normal")' \in BOOLEAN
      BY DEF closed, closed_with
    <3> QED BY <1>7, <3>2, <3>3, Zenon
  <2>2. DownGot' = DownGot
    BY <1>11, <1>13
  <2>3. CASE ended' = "running"
    <3>1. DownEnd' = DownEnd
      BY <1>1, <2>1, <2>3 DEF DownEnd
    <3> QED BY <1>1, <2>2, <2>3, <3>1, TunnelStays
  <2>4. CASE ended' # "running"
    BY <1>1, <1>2, <2>1, <2>2, <2>4, TunnelEnds
  <2> QED BY <2>3, <2>4
<1> QED BY <1>10, <1>12, <1>13

LEMMA TunnelStep ==
    ASSUME BridgeInv, BridgeInv', [Next]_vars
    PROVE  [Tunnel!Next]_<<Tunnel!up, Tunnel!down>>
\* A step of the bridge that neither writes to the client nor upstream.
<1>1. ASSUME Next, ended = "running", UNCHANGED <<client_sent, up_sent, up_got, ws_out>>
      PROVE  [Tunnel!Next]_<<Tunnel!up, Tunnel!down>>
  <2>1. CASE ended' = ended
    BY <1>1, <2>1, TunnelStays
  <2>2. CASE ended' # ended
    <3>1. ended' = "peer_close" => Len(up_got') = client_sent
      BY <1>1, PeerCloseComplete DEF BridgeInv
    <3>2. DownGot' = DownGot /\ closed' = closed /\ closed_with("normal")' = closed_with("normal")
      BY <1>1 DEF DownGot, closed, closed_with, Numbers, Places, Rank, Ops
    <3> QED BY <1>1, <2>2, <3>1, <3>2, TunnelEnds
  <2> QED BY <2>1, <2>2
<1>2. CASE PeerWrite
  <2>1. /\ ended = "running" /\ pc["ws"] = "to_peer"
        /\ up_got' = Append(up_got, Head(to_peer)) /\ to_peer' = Tail(to_peer)
        /\ UNCHANGED <<client_sent, up_sent, ws_out>>
    BY <1>2 DEF PeerWrite, client_vars, socket_vars, up_vars
  <2>2. Pending
    BY <2>1 DEF BridgeInv, Upward, Finishes
  <2>3. to_peer # <<>> /\ to_peer \in Seq(1..MaxClientData) /\ client_sent \in Nat
        /\ Len(up_got) \in Nat /\ Len(to_peer) \in Nat /\ base \in Nat
    <3>1. to_peer # <<>>
      BY <2>1 DEF BridgeInv, TypeInv, Holding
    <3> QED BY <3>1, UpwardTypes DEF BridgeInv
  <2>4. Head(to_peer) = to_peer[1] /\ 1 \in DOMAIN to_peer /\ Len(to_peer) >= 1
    BY <2>3, TailOf
  <2>5. Head(to_peer) = Len(up_got) + 1
    BY <2>2, <2>4 DEF Pending
  <2>6. Len(up_got) < client_sent
    <3>1. base <= client_sent
      BY <2>2 DEF Pending
    <3> DEFINE g == Len(up_got)
               t == Len(to_peer)
    <3>2. base = g + t /\ g \in Nat /\ t \in Nat /\ t >= 1
      BY <2>3, <2>4 DEF base
    <3> SUFFICES g < client_sent
      OBVIOUS
    <3> HIDE DEF g, t, base
    <3> QED BY <2>3, <3>1, <3>2
  <2>7. up_got' = Append(up_got, Len(up_got) + 1)
    BY <2>1, <2>5
  <2>8. CASE ended' = "running"
    <3>1. UNCHANGED Tunnel!down
      BY <2>1, <2>8, TunnelStays
    <3>2. UpEnd = "open" /\ UpEnd' = "open"
      BY <2>1, <2>8 DEF UpEnd
    <3>3. Tunnel!Deliver(client_sent, up_got, UpEnd)
      BY <2>1, <2>6, <2>7, <3>2 DEF Tunnel!Deliver
    <3> QED BY <3>1, <3>3 DEF Tunnel!Next, UpEnd
  <2>9. CASE ended' # "running"
    <3>1. ended' = "peer_close" => Len(up_got') = client_sent
      <4>1. Next
        BY <1>2 DEF Next, Bridge, WsToPeer
      <4> QED BY <2>1, <4>1, PeerCloseComplete DEF BridgeInv
    <3>2. DownGot' = DownGot /\ closed' = closed /\ closed_with("normal")' = closed_with("normal")
      BY <2>1 DEF DownGot, closed, closed_with, Numbers, Places, Rank, Ops
    <3> QED BY <2>1, <2>6, <2>7, <2>9, <3>1, <3>2, TunnelEnds
  <2> QED BY <2>8, <2>9
<1>3. CASE Environment
  <2>1. ended = "running" /\ UNCHANGED <<up_got, ws_out, ended>>
    BY <1>3 DEF Environment, ClientData, ClientPing, ClientPong, ClientCloses, ClientErrs,
         ClientGoes, ClientDies, SocketStalls, SocketDrains, UpstreamSends, UpstreamEnds,
         UpstreamTakes, bridge_vars
  <2>2. CASE ClientData
    <3>1. client_sent' = client_sent + 1 /\ up_sent' = up_sent
      BY <2>2 DEF ClientData, up_vars
    <3>2. UpEnd = "open" /\ UpEnd' = "open"
      BY <2>1 DEF UpEnd
    <3>3. Tunnel!Send(client_sent, up_got, UpEnd)
      BY <2>1, <3>1, <3>2 DEF Tunnel!Send
    <3>4. UNCHANGED Tunnel!down
      BY <2>1, <3>1, TunnelStays
    <3> QED BY <3>3, <3>4 DEF Tunnel!Next, UpEnd
  <2>3. CASE UpstreamSends
    <3>1. up_sent' = up_sent + 1 /\ client_sent' = client_sent /\ upstream = "open"
      BY <2>3 DEF UpstreamSends, client_vars
    <3>2. ~closed_with("normal")
      BY <3>1 DEF BridgeInv, Downward, closed_with
    <3>3. DownEnd # "complete" /\ DownEnd' = DownEnd /\ DownGot' = DownGot
      <4>1. DownEnd # "complete"
        BY <3>2 DEF DownEnd
      <4>2. DownEnd' = DownEnd /\ DownGot' = DownGot
        BY <2>1 DEF DownEnd, DownGot, closed, closed_with, Numbers, Places, Rank, Ops
      <4> QED BY <4>1, <4>2
    <3>4. Tunnel!Send(up_sent, DownGot, DownEnd)
      BY <3>1, <3>3 DEF Tunnel!Send
    <3>5. UNCHANGED Tunnel!up
      BY <2>1, <3>1, TunnelStays
    <3> QED BY <3>4, <3>5 DEF Tunnel!Next, DownGot, DownEnd
  <2>4. CASE UNCHANGED <<client_sent, up_sent>>
    BY <2>1, <2>4, TunnelStays
  <2> QED BY <1>3, <2>2, <2>3, <2>4 DEF Environment, ClientPing, ClientPong, ClientCloses,
         ClientErrs, ClientGoes, ClientDies, SocketStalls, SocketDrains, UpstreamEnds,
         UpstreamTakes, client_vars, up_vars
<1>4. CASE Tick \/ Keepalive \/ PeerToWs
  <2>1. Next /\ ended = "running" /\ UNCHANGED <<client_sent, up_sent, up_got, ws_out>>
    BY <1>4 DEF Next, Bridge, Tick, Keepalive, PeerToWs, KeepalivePing, KeepaliveAnswered,
         KeepaliveExpires, PeerRead, PeerReadEnds, client_vars, up_vars, socket_vars
  <2> QED BY <1>1, <2>1
<1>5. CASE \/ \E n \in 1..MaxBatch : WsRead(n)
           \/ WsEof \/ PeerWriteFails
           \/ \E op \in {"ping", "pong", "control"} : Control(op)
           \/ \E d \in Directions : WriteFails(d)
  <2>1. ended = "running" /\ UNCHANGED <<client_sent, up_sent, up_got, ws_out>>
    BY <1>5 DEF WsRead, WsEof, PeerWriteFails, Control, WriteFails,
         client_vars, up_vars, socket_vars
  <2>2. Next
    BY <1>5 DEF Next, Bridge, WsToPeer
  <2> QED BY <1>1, <2>1, <2>2
<1>6. ASSUME NEW d \in Directions, WriteFrame(d) PROVE [Tunnel!Next]_<<Tunnel!up, Tunnel!down>>
  <2>1. Next
    BY <1>6 DEF Next, Bridge
  <2> QED BY <1>6, <2>1, WriteFrameTunnel
<1>7. CASE UNCHANGED vars
  <2>1. UNCHANGED <<client_sent, up_sent, up_got, ws_out, ended>>
    BY <1>7 DEF vars, client_vars, up_vars, socket_vars
  <2> QED BY <2>1, TunnelStays
<1> QED BY <1>2, <1>3, <1>4, <1>5, <1>6, <1>7 DEF Next, Bridge, WsToPeer

\* The bridge implements the byte tunnel, for every scenario, batch size and
\* keep-alive: each way the data arrives in order, once and without gaps whatever
\* the four directions interleave, none follows the end of its stream, and an end
\* that looks clean comes after all of the data (wslay.rs: bridge_with).
THEOREM ImplementsTunnelHolds == Spec => ImplementsTunnel
<1>1. Init => Tunnel!Init
  <2> SUFFICES ASSUME Init PROVE Tunnel!Init
    OBVIOUS
  <2>1. /\ ws_out = <<>> /\ up_got = <<>> /\ client_sent = 0 /\ up_sent = 0 /\ ended = "running"
    BY DEF Init
  <2>2. Numbers(ws_out) = <<>>
    <3>1. <<>> \in Seq(Frames)
      OBVIOUS
    <3>2. Cardinality(Places(<<>>, "data")) = 0 /\ Places(<<>>, "data") = {}
      BY PlacesEmpty
    <3>3. Numbers(<<>>) = [k \in 1..0 |-> k]
      BY <3>1, <3>2, GivenNumbers
    <3>4. [k \in 1..0 |-> k] = <<>>
      OBVIOUS
    <3> QED BY <2>1, <3>3, <3>4
  <2>3. Ops(ws_out) = {}
    BY <2>1, OpsSmall
  <2>4. UpEnd = "open" /\ DownEnd = "open"
    BY <2>1, <2>3 DEF UpEnd, DownEnd, closed, closed_with
  <2> QED BY <2>1, <2>2, <2>4 DEF Tunnel!Init, UpEnd, DownEnd
<1>2. BridgeInv /\ BridgeInv' /\ [Next]_vars => [Tunnel!Next]_<<Tunnel!up, Tunnel!down>>
  BY TunnelStep
<1> QED BY <1>1, <1>2, BridgeInvariant, PTL DEF Spec, ImplementsTunnel, Tunnel!Spec
=============================================================================

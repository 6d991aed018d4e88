---------------------------- MODULE DriverProofs ----------------------------
(***************************************************************************)
(* The driver for every sequence of frames and every way of cutting it     *)
(* into chunks: the buffer is bounded, what is queued is what the peer     *)
(* reads, and the last word of a connection is written.                    *)
(***************************************************************************)
EXTENDS Driver, Iteration, FiniteSetTheorems, SequenceTheorems, TLAPS

-----------------------------------------------------------------------------
(* Frames and the octets they take *)

\* A frame takes its header and its payload.
LEMMA FrameSize ==
  ASSUME NEW w \in WireFrames
  PROVE  /\ frame_size(w) \in Nat /\ w.length \in Nat /\ FRAME_HEADER_SIZE \in Nat
         /\ FRAME_HEADER_SIZE > 0 /\ frame_size(w) = FRAME_HEADER_SIZE + w.length
<1>1. FRAME_HEADER_SIZE \in Nat \ {0}
  BY DriverAssumption
<1>2. w.length \in Nat
  BY CodecAssumption DEF WireFrames, WireForms
<1> QED BY <1>1, <1>2 DEF frame_size

\* The octets of the first k frames are the sum of their sizes.
LEMMA OctetsSum ==
  ASSUME NEW fs \in Seq(WireFrames)
  PROVE  /\ octets(fs, 0) = 0
         /\ \A k \in 0..Len(fs) : octets(fs, k) \in Nat
         /\ \A k \in 1..Len(fs) : octets(fs, k) = octets(fs, k - 1) + frame_size(fs[k])
<1> DEFINE N == Len(fs)
           step == [p \in Nat \X (1..N) |-> p[1] + frame_size(fs[p[2]])]
           Is(f) == f = [n \in 0..N |-> IF n = 0 THEN 0 ELSE f[n - 1] + frame_size(fs[n])]
           sum == CHOOSE f : Is(f)
<1>1. N \in Nat /\ \A n \in 1..N : frame_size(fs[n]) \in Nat
  <2>1. N \in Nat /\ \A n \in 1..N : fs[n] \in WireFrames
    OBVIOUS
  <2> QED BY <2>1, FrameSize
<1>2. step \in [Nat \X (1..N) -> Nat]
  BY <1>1
<1>3. \E f : Is(f)
  <2>1. PICK f : Iterates(f, Nat, N, 0, step)
    <3> DEFINE S == Nat
               base == 0
    <3>1. base \in S /\ N \in Nat /\ step \in [S \X (1..N) -> S]
      BY <1>1, <1>2
    <3> HIDE DEF step, N, S, base
    <3>2. \E f : Iterates(f, S, N, base, step)
      BY <3>1, IterateExists
    <3> QED BY <3>2 DEF S, base
  <2>2. \A n \in 1..N : f[n] = f[n - 1] + frame_size(fs[n])
    <3> TAKE n \in 1..N
    <3>1. n - 1 \in 0..N
      BY <1>1
    <3>2. <<f[n - 1], n>> \in Nat \X (1..N)
      BY <2>1, <3>1 DEF Iterates
    <3>3. f[n] = step[<<f[n - 1], n>>]
      BY <2>1 DEF Iterates
    <3> QED BY <3>2, <3>3
  <2>3. Is(f)
    <3> HIDE DEF step
    <3>1. f[0] = 0 /\ f \in [0..N -> Nat]
      BY <2>1 DEF Iterates
    <3> QED BY <1>1, <2>2, <3>1
  <2> QED BY <2>3
<1>4. Is(sum)
  BY <1>3
<1>5. \A k : octets(fs, k) = sum[k]
  BY DEF octets
<1> HIDE DEF sum
<1>6. sum[0] = 0 /\ \A k \in 1..N : sum[k] = sum[k - 1] + frame_size(fs[k])
  BY <1>1, <1>4
<1> DEFINE G == {n \in 0..N : sum[n] \in Nat}
<1>7. 0 \in G /\ \A n \in 0..N : n + 1 \in 0..N /\ n \in G => n + 1 \in G
  BY <1>1, <1>6
<1>8. \A n \in 0..N : n \in G
  <2> HIDE DEF G
  <2> QED BY <1>1, <1>7, UpTo
<1> QED BY <1>5, <1>6, <1>8

\* More frames take more octets.
LEMMA OctetsGrow ==
  ASSUME NEW fs \in Seq(WireFrames), NEW j \in 0..Len(fs), NEW k \in 0..Len(fs), j <= k
  PROVE  octets(fs, j) <= octets(fs, k)
<1> DEFINE N == Len(fs)
           G == {n \in 0..N : j <= n => octets(fs, j) <= octets(fs, n)}
<1>1. N \in Nat /\ \A n \in 1..N : frame_size(fs[n]) \in Nat
  <2>1. N \in Nat /\ \A n \in 1..N : fs[n] \in WireFrames
    OBVIOUS
  <2> QED BY <2>1, FrameSize
<1>2. \A n \in 0..N : octets(fs, n) \in Nat
  BY OctetsSum
<1>3. 0 \in G
  BY <1>1, <1>2
<1>4. ASSUME NEW n \in 0..N, n + 1 \in 0..N, n \in G PROVE n + 1 \in G
  <2>1. octets(fs, n + 1) = octets(fs, n) + frame_size(fs[n + 1]) /\ frame_size(fs[n + 1]) \in Nat
    <3>1. n + 1 \in 1..N /\ (n + 1) - 1 = n
      BY <1>1, <1>4
    <3> QED BY <1>1, <3>1, OctetsSum
  <2> QED BY <1>1, <1>2, <1>4, <2>1
<1>5. \A n \in 0..N : n \in G
  <2> HIDE DEF G
  <2> QED BY <1>1, <1>3, <1>4, UpTo
<1> QED BY <1>5

\* complete finds the frames that are there in full, and no more are.
LEMMA CompleteIs ==
  ASSUME NEW fs \in Seq(WireFrames), NEW held \in Nat
  PROVE  /\ complete(fs, held) \in 0..Len(fs)
         /\ octets(fs, complete(fs, held)) <= held
         /\ \A k \in 0..Len(fs) : octets(fs, k) <= held => k <= complete(fs, held)
<1> DEFINE ks == {k \in 0..Len(fs) : octets(fs, k) <= held}
<1>1. Len(fs) \in Nat /\ 0 \in ks
  BY OctetsSum
<1>2. \E m \in ks : \A d \in ks : d <= m
  <2>1. ks \in SUBSET (0..Len(fs)) /\ ks # {}
    BY <1>1
  <2> HIDE DEF ks
  <2> QED BY <1>1, <2>1, GreatestUpTo
<1>3. complete(fs, held) = CHOOSE k \in ks : \A j \in ks : j <= k
  BY DEF complete
<1>4. complete(fs, held) \in ks /\ \A j \in ks : j <= complete(fs, held)
  <2> HIDE DEF ks
  <2> QED BY <1>2, <1>3
<1> QED BY <1>4

\* It is the only number of frames with that property.
LEMMA CompleteUnique ==
  ASSUME NEW fs \in Seq(WireFrames), NEW held \in Nat, NEW k \in 0..Len(fs),
         octets(fs, k) <= held, k < Len(fs) => held < octets(fs, k + 1)
  PROVE  complete(fs, held) = k
<1> DEFINE n == complete(fs, held)
<1>1. n \in 0..Len(fs) /\ octets(fs, n) <= held /\ k <= n
  BY CompleteIs
<1>2. SUFFICES ASSUME k < n PROVE FALSE
  BY <1>1
<1>3. k + 1 \in 0..Len(fs) /\ k + 1 <= n
  BY <1>1, <1>2
<1>4. octets(fs, k + 1) <= octets(fs, n)
  BY <1>1, <1>3, OctetsGrow
<1>5. octets(fs, k + 1) \in Nat /\ octets(fs, n) \in Nat
  BY <1>1, <1>3, OctetsSum
<1> QED BY <1>1, <1>3, <1>4, <1>5

\* The octets of frames behind the first r.
LEMMA OctetsOfRest ==
  ASSUME NEW fs \in Seq(WireFrames), NEW r \in 0..Len(fs)
  PROVE  LET rest == SubSeq(fs, r + 1, Len(fs)) IN
         /\ rest \in Seq(WireFrames) /\ Len(rest) = Len(fs) - r
         /\ \A k \in 1..Len(rest) : rest[k] = fs[r + k]
         /\ \A k \in 0..Len(rest) : octets(rest, k) = octets(fs, r + k) - octets(fs, r)
<1> DEFINE rest == SubSeq(fs, r + 1, Len(fs))
           N == Len(fs) - r
<1>1. Len(fs) \in Nat /\ N \in Nat
  OBVIOUS
<1>2. rest \in Seq(WireFrames) /\ Len(rest) = N /\ \A k \in 1..N : rest[k] = fs[r + k]
  <2>1. \A i \in r + 1..Len(fs) : fs[i] \in WireFrames
    BY <1>1
  <2>2. /\ rest \in Seq(WireFrames)
        /\ Len(rest) = IF r + 1 <= Len(fs) THEN Len(fs) - (r + 1) + 1 ELSE 0
        /\ \A i \in 1..Len(fs) - (r + 1) + 1 : rest[i] = fs[(r + 1) + i - 1]
    BY <2>1, <1>1, SubSeqProperties
  <2> QED BY <1>1, <2>2
<1> HIDE DEF rest
<1> DEFINE G == {k \in 0..N : octets(rest, k) = octets(fs, r + k) - octets(fs, r)}
<1>3. 0 \in G
  <2>1. octets(rest, 0) = 0 /\ octets(fs, r) \in Nat /\ r + 0 = r
    BY <1>2, OctetsSum
  <2> QED BY <1>1, <2>1
<1>4. ASSUME NEW k \in 0..N, k + 1 \in 0..N, k \in G PROVE k + 1 \in G
  <2>1. /\ k + 1 \in 1..Len(rest) /\ (k + 1) - 1 = k
        /\ r + (k + 1) \in 1..Len(fs) /\ (r + (k + 1)) - 1 = r + k
    BY <1>1, <1>2, <1>4
  <2>2. octets(rest, k + 1) = octets(rest, k) + frame_size(rest[k + 1])
    BY <1>2, <2>1, OctetsSum
  <2>3. octets(fs, r + (k + 1)) = octets(fs, r + k) + frame_size(fs[r + (k + 1)])
    BY <2>1, OctetsSum
  <2>4. rest[k + 1] = fs[r + (k + 1)] /\ fs[r + (k + 1)] \in WireFrames
    BY <1>2, <2>1, SMTT(30)
  <2>5. frame_size(fs[r + (k + 1)]) \in Nat
    BY <2>4, FrameSize
  <2>6. octets(fs, r) \in Nat /\ octets(fs, r + k) \in Nat
    BY <1>1, <2>1, OctetsSum
  <2> QED BY <1>1, <1>4, <2>2, <2>3, <2>4, <2>5, <2>6
<1>5. \A k \in 0..N : k \in G
  <2> HIDE DEF G
  <2> QED BY <1>1, <1>3, <1>4, UpTo
<1> QED BY <1>2, <1>5 DEF rest

-----------------------------------------------------------------------------
(* The frames of a known type *)

\* One frame more, which is kept unless it is of an unknown type.
LEMMA PresentSum ==
  ASSUME NEW S, NEW fs \in Seq(S)
  PROVE  /\ present(fs, 0) = <<>>
         /\ \A n \in 0..Len(fs) : present(fs, n) \in Seq(S)
         /\ \A n \in 1..Len(fs) :
              present(fs, n) = IF fs[n] = None THEN present(fs, n - 1) ELSE Append(present(fs, n - 1), fs[n])
<1> DEFINE N == Len(fs)
           T == Seq(S)
           base == <<>>
           add(p, n) == IF fs[n] = None THEN p ELSE Append(p, fs[n])
           step == [p \in T \X (1..N) |-> add(p[1], p[2])]
           Is(f) == f = [n \in 0..N |-> IF n = 0 THEN base ELSE add(f[n - 1], n)]
           kept == CHOOSE f : Is(f)
<1>1. N \in Nat /\ \A n \in 1..N : fs[n] \in S
  OBVIOUS
<1>2. base \in T /\ step \in [T \X (1..N) -> T]
  <2>1. \A p \in T, n \in 1..N : add(p, n) \in T
    BY <1>1
  <2>2. base \in T
    OBVIOUS
  <2> HIDE DEF add, T, base
  <2> QED BY <2>1, <2>2
<1>3. PICK f : Iterates(f, T, N, base, step)
  <2> HIDE DEF step, N, T, base
  <2> QED BY <1>1, <1>2, IterateExists
<1>4. f \in [0..N -> T] /\ f[0] = base
  BY <1>3 DEF Iterates
<1>5. \A n \in 1..N : f[n] = add(f[n - 1], n)
  <2> TAKE n \in 1..N
  <2>1. n - 1 \in 0..N
    BY <1>1
  <2>2. <<f[n - 1], n>> \in T \X (1..N)
    BY <1>4, <2>1
  <2>3. f[n] = step[<<f[n - 1], n>>]
    BY <1>3 DEF Iterates
  <2> HIDE DEF T, add
  <2> QED BY <2>2, <2>3
<1>6. Is(f)
  <2> HIDE DEF T, add, base
  <2> QED BY <1>1, <1>4, <1>5
<1>7. Is(kept)
  BY <1>6
<1>8. \A k : present(fs, k) = kept[k]
  BY DEF present
<1> HIDE DEF kept
<1>9. kept[0] = base /\ \A n \in 1..N : kept[n] = add(kept[n - 1], n)
  <2> HIDE DEF add, base
  <2> QED BY <1>1, <1>7
<1> DEFINE G == {n \in 0..N : kept[n] \in T}
<1>10. 0 \in G
  <2>1. kept[0] \in T
    <3> HIDE DEF T, base, add
    <3> QED BY <1>2, <1>9
  <2> HIDE DEF T
  <2> QED BY <1>1, <2>1
<1>11. ASSUME NEW n \in 0..N, n + 1 \in 0..N, n \in G PROVE n + 1 \in G
  <2>1. n + 1 \in 1..N /\ (n + 1) - 1 = n
    BY <1>1, <1>11
  <2>2. fs[n + 1] \in S /\ kept[n] \in Seq(S)
    BY <1>1, <1>11, <2>1
  <2>3. kept[n + 1] = add(kept[n], n + 1)
    BY <1>9, <2>1
  <2>4. kept[n + 1] \in Seq(S)
    BY <2>2, <2>3
  <2> QED BY <1>11, <2>4
<1>12. \A n \in 0..N : n \in G
  <2> HIDE DEF G
  <2> QED BY <1>1, <1>10, <1>11, UpTo
<1> QED BY <1>8, <1>9, <1>12

\* What is kept of gs is what is kept of fs behind the first r.
Continues(fs, gs, r) == \A k \in 0..Len(gs) : present(fs, r + k) = present(fs, r) \o present(gs, k)

LEMMA PresentOfRest ==
  ASSUME NEW S, NEW fs \in Seq(S), NEW gs \in Seq(S), NEW r \in 0..Len(fs), r + Len(gs) <= Len(fs),
         \A k \in 1..Len(gs) : gs[k] = fs[r + k]
  PROVE  Continues(fs, gs, r)
<1> DEFINE N == Len(gs)
           G == {k \in 0..N : present(fs, r + k) = present(fs, r) \o present(gs, k)}
<1>1. N \in Nat /\ Len(fs) \in Nat
  OBVIOUS
<1>2. present(fs, r) \in Seq(S)
  BY PresentSum
<1>3. 0 \in G
  <2>1. present(gs, 0) = <<>> /\ r + 0 = r
    BY PresentSum
  <2>2. present(fs, r) \o <<>> = present(fs, r)
    BY <1>2, ConcatEmptySeq
  <2>3. present(fs, r + 0) = present(fs, r) \o present(gs, 0)
    BY <2>1, <2>2
  <2> QED BY <1>1, <2>3
<1>4. ASSUME NEW k \in 0..N, k + 1 \in 0..N, k \in G PROVE k + 1 \in G
  <2> DEFINE a == present(fs, r)
             b == present(gs, k)
             x == gs[k + 1]
  <2>1. k + 1 \in 1..Len(gs) /\ (k + 1) - 1 = k /\ r + (k + 1) \in 1..Len(fs) /\ (r + (k + 1)) - 1 = r + k
    BY <1>1, <1>4
  <2>2. present(gs, k + 1) = IF x = None THEN b ELSE Append(b, x)
    BY <2>1, PresentSum
  <2>3. present(fs, r + (k + 1)) = IF fs[r + (k + 1)] = None THEN present(fs, r + k)
                                  ELSE Append(present(fs, r + k), fs[r + (k + 1)])
    BY <2>1, PresentSum
  <2>4. fs[r + (k + 1)] = x /\ x \in S
    BY <2>1, SMTT(30)
  <2>5. b \in Seq(S)
    BY <1>4, PresentSum
  <2>6. Append(a \o b, x) = a \o Append(b, x)
    <3>1. a \in Seq(S) /\ b \in Seq(S) /\ x \in S
      BY <1>2, <2>4, <2>5
    <3> HIDE DEF a, b, x
    <3> DEFINE p == Append(a \o b, x)
               q == a \o Append(b, x)
    <3>2. p \in Seq(S) /\ q \in Seq(S) /\ Len(p) = Len(q) /\ \A i \in 1..Len(p) : p[i] = q[i]
      <4>1. SUFFICES ASSUME NEW u \in Seq(S), NEW v \in Seq(S), NEW y \in S
                     PROVE  LET c == Append(u \o v, y)
                                d == u \o Append(v, y) IN
                            c \in Seq(S) /\ d \in Seq(S) /\ Len(c) = Len(d) /\ \A i \in 1..Len(c) : c[i] = d[i]
        BY <3>1
      <4> QED OBVIOUS
    <3> HIDE DEF p, q
    <3>3. p = q
      BY <3>2, SeqEqual
    <3> QED BY <3>3 DEF p, q
  <2>7. present(fs, r + k) = a \o b
    BY <1>4
  <2> HIDE DEF a, b, x
  <2> QED BY <1>4, <2>2, <2>3, <2>4, <2>6, <2>7 DEF a
<1>5. \A k \in 0..N : k \in G
  <2> HIDE DEF G
  <2> QED BY <1>1, <1>3, <1>4, UpTo
<1> QED BY <1>5 DEF Continues

\* What is kept are the frames themselves, of a known type.
LEMMA PresentFrom ==
  ASSUME NEW S, NEW fs \in Seq(S), NEW n \in 0..Len(fs)
  PROVE  \A i \in DOMAIN present(fs, n) :
            present(fs, n)[i] # None /\ \E k \in 1..n : present(fs, n)[i] = fs[k]
<1> DEFINE N == Len(fs)
           P(m) == \A i \in DOMAIN present(fs, m) :
                      present(fs, m)[i] # None /\ \E k \in 1..m : present(fs, m)[i] = fs[k]
           G == {m \in 0..N : P(m)}
<1>1. N \in Nat
  OBVIOUS
<1>2. 0 \in G
  BY <1>1, PresentSum
<1>3. ASSUME NEW m \in 0..N, m + 1 \in 0..N, m \in G PROVE m + 1 \in G
  <2> DEFINE a == present(fs, m)
             b == present(fs, m + 1)
             x == fs[m + 1]
  <2>1. m + 1 \in 1..N /\ (m + 1) - 1 = m
    BY <1>1, <1>3
  <2>2. b = IF x = None THEN a ELSE Append(a, x)
    BY <2>1, PresentSum
  <2>3. a \in Seq(S) /\ x \in S
    BY <2>1, PresentSum
  <2>4. \A i \in DOMAIN a : a[i] # None /\ \E k \in 1..m : a[i] = fs[k]
    BY <1>3
  <2> HIDE DEF a, b
  <2>5. \A i \in DOMAIN b : b[i] # None /\ \E k \in 1..m + 1 : b[i] = fs[k]
    <3> TAKE i \in DOMAIN b
    <3>1. CASE i \in DOMAIN a /\ b[i] = a[i]
      <4>1. PICK k \in 1..m : a[i] = fs[k]
        BY <2>4, <3>1
      <4>2. k \in 1..m + 1
        BY <2>1
      <4> QED BY <2>4, <3>1, <4>1, <4>2
    <3>2. CASE b[i] = x /\ x # None
      <4>1. m + 1 \in 1..m + 1
        BY <2>1
      <4> QED BY <3>2, <4>1
    <3>3. (i \in DOMAIN a /\ b[i] = a[i]) \/ (b[i] = x /\ x # None)
      BY <2>2, <2>3
    <3> QED BY <3>1, <3>2, <3>3
  <2> QED BY <1>3, <2>5 DEF b
<1>4. \A m \in 0..N : m \in G
  <2> HIDE DEF G
  <2> QED BY <1>1, <1>2, <1>3, UpTo
<1> QED BY <1>4

-----------------------------------------------------------------------------
(* The frames that the client writes, and their round trip through the codec *)

\* A remainder, and what it leaves alone.
LEMMA Remainder ==
  ASSUME NEW m \in Nat \ {0}, NEW v \in Nat
  PROVE  v % m \in 0..m - 1 /\ (v < m => v % m = v)
OBVIOUS

\* What fits is written as it is; what does not is cut to a word, a length or an octet.
LEMMA Written ==
  /\ \A v \in Ids : v \in Nat /\ word31(v) = <<0, v>> /\ v % HIGH_BIT = v
  /\ \A v \in Nat : word31(v) = <<0, v % HIGH_BIT>> /\ v % HIGH_BIT \in Ids
  /\ \A v \in Nat : word31(v) \in Words /\ word32(v) \in Words
  /\ word32(0) = <<0, 0>> /\ word32(1) = <<0, 1>>
  /\ \A n \in 0..MAX_LENGTH : u24(n) = n
  /\ \A n \in Nat : u24(n) \in 0..MAX_LENGTH
  /\ \A v \in 0..255 : octet(v) = <<0, v>> /\ octet(v) \in Words
<1>1. /\ HIGH_BIT \in Nat \ {0} /\ MAX_LENGTH + 1 \in Nat \ {0} /\ MAX_LENGTH \in Nat
      /\ 256 <= MAX_LENGTH /\ MAX_LENGTH < HIGH_BIT
  BY CodecAssumption
<1>2. \A v \in Ids : v \in Nat /\ v < HIGH_BIT
  BY <1>1 DEF Ids
<1>3. \A v \in Nat : v % HIGH_BIT \in Ids /\ (v < HIGH_BIT => v % HIGH_BIT = v)
  BY <1>1, Remainder DEF Ids
<1>4. \A n \in Nat : u24(n) \in 0..MAX_LENGTH /\ (n < MAX_LENGTH + 1 => u24(n) = n)
  <2> TAKE n \in Nat
  <2>1. n % (MAX_LENGTH + 1) \in 0..(MAX_LENGTH + 1) - 1 /\ (n < MAX_LENGTH + 1 => n % (MAX_LENGTH + 1) = n)
    BY <1>1, Remainder
  <2>2. (MAX_LENGTH + 1) - 1 = MAX_LENGTH
    BY <1>1
  <2> QED BY <2>1, <2>2 DEF u24
<1>5. \A v \in Nat : word31(v) \in Words
  BY <1>3 DEF word31, Words
<1>6. \A v \in Nat : word32(v) \in Words
  <2> TAKE v \in Nat
  <2>1. v \div HIGH_BIT \in Nat
    BY <1>1
  <2>2. (v \div HIGH_BIT) % 2 \in {0, 1}
    BY <2>1
  <2> QED BY <1>3, <2>2 DEF word32, Words
<1>7. word32(0) = <<0, 0>> /\ word32(1) = <<0, 1>>
  <2>1. 0 \div HIGH_BIT = 0 /\ 1 \div HIGH_BIT = 0
    BY <1>1
  <2>2. 0 % HIGH_BIT = 0 /\ 1 % HIGH_BIT = 1
    BY <1>1, <1>3
  <2> QED BY <2>1, <2>2 DEF word32
<1>8. \A v \in 0..255 : octet(v) = <<0, v>> /\ octet(v) \in Words
  BY <1>1 DEF octet, Words, Ids
<1>9. \A v \in Nat : word31(v) = <<0, v % HIGH_BIT>>
  BY DEF word31
<1>10. \A v \in Ids : v \in Nat /\ v % HIGH_BIT = v
  BY <1>2, <1>3
<1>11. \A v \in Ids : word31(v) = <<0, v>>
  BY <1>9, <1>10
<1>12. \A n \in 0..MAX_LENGTH : u24(n) = n
  <2> TAKE n \in 0..MAX_LENGTH
  <2>1. n \in Nat /\ n < MAX_LENGTH + 1
    BY <1>1
  <2> QED BY <1>4, <2>1
<1> QED BY <1>3, <1>4, <1>5, <1>6, <1>7, <1>8, <1>9, <1>10, <1>11, <1>12, Zenon

Lengths == 0..MAX_LENGTH

Priorities == [dependency : Ids, exclusive : BOOLEAN, weight : 1..256]

\* Values of the parameters, some of them absent.
Settings ==
    {v \in [SettingIds -> Words \cup BOOLEAN \cup {None}] :
        \A id \in SettingIds : v[id] = None \/ (IF id = 2 THEN v[id] \in BOOLEAN ELSE v[id] \in Words)}

\* The frames of the codec, in any form in which they can be written: identifiers and
\* increments of 31 bits, payloads whose length has 24.
DataFrames == [type : {"DATA"}, stream : Ids, data : Lengths, end_stream : BOOLEAN]
HeadersFrames ==
    {f \in [type : {"HEADERS"}, stream : Ids, data : Lengths, end_stream : BOOLEAN,
            end_headers : BOOLEAN, priority : Priorities \cup {None}] :
        f.priority # None => f.data + 5 <= MAX_LENGTH}
PriorityFrames == [type : {"PRIORITY"}, stream : Ids, priority : Priorities]
RstFrames == [type : {"RST_STREAM"}, stream : Ids, code : Words]
SettingsFrames ==
    [type : {"SETTINGS"}, ack : {FALSE}, settings : Settings]
        \cup [type : {"SETTINGS"}, ack : {TRUE}, settings : {NoSettings}]
PromiseFrames ==
    [type : {"PUSH_PROMISE"}, stream : Ids, promised : Ids, data : 0..MAX_LENGTH - 4, end_headers : BOOLEAN]
PingFrames == [type : {"PING"}, ack : BOOLEAN, opaque : Words]
GoawayFrames == [type : {"GOAWAY"}, last : Ids, code : Words, data : 0..MAX_LENGTH - 8]
WindowFrames == [type : {"WINDOW_UPDATE"}, stream : Ids, increment : Ids]
ContinuationFrames == [type : {"CONTINUATION"}, stream : Ids, data : Lengths, end_headers : BOOLEAN]

Frames ==
    DataFrames \cup HeadersFrames \cup PriorityFrames \cup RstFrames \cup SettingsFrames
        \cup PromiseFrames \cup PingFrames \cup GoawayFrames \cup WindowFrames \cup ContinuationFrames

\* The increment with which connect may ask for a larger window, which may need 32 bits.
Growths == [type : {"WINDOW_UPDATE"}, stream : {0}, increment : Nat]

\* How each type is written.
LEMMA Serialized ==
  ASSUME NEW f
  PROVE  /\ f.type = "DATA" => serialize_frame(f) =
                Wire(f.type, flag(f.end_stream, END_STREAM), f.stream, f.data, <<>>, <<>>)
         /\ f.type = "HEADERS" => serialize_frame(f) =
                LET p == f.priority # None IN
                Wire(f.type, flag(f.end_headers, END_HEADERS) \cup flag(f.end_stream, END_STREAM)
                                \cup flag(p, PRIORITY),
                     f.stream, f.data + (IF p THEN 5 ELSE 0),
                     IF p THEN priority_words(f.priority) ELSE <<>>, <<>>)
         /\ f.type = "PRIORITY" => serialize_frame(f) =
                Wire(f.type, {}, f.stream, 5, priority_words(f.priority), <<>>)
         /\ f.type = "RST_STREAM" => serialize_frame(f) = Wire(f.type, {}, f.stream, 4, <<f.code>>, <<>>)
         /\ f.type = "SETTINGS" => serialize_frame(f) =
                Wire(f.type, flag(f.ack, ACK), 0, 6 * Len(setting_pairs(f.settings)), <<>>,
                     setting_pairs(f.settings))
         /\ f.type = "PUSH_PROMISE" => serialize_frame(f) =
                Wire(f.type, flag(f.end_headers, END_HEADERS), f.stream, 4 + f.data,
                     <<word31(f.promised)>>, <<>>)
         /\ f.type = "PING" => serialize_frame(f) = Wire(f.type, flag(f.ack, ACK), 0, 8, <<f.opaque>>, <<>>)
         /\ f.type = "GOAWAY" => serialize_frame(f) =
                Wire(f.type, {}, 0, 8 + f.data, <<word31(f.last), f.code>>, <<>>)
         /\ f.type = "WINDOW_UPDATE" => serialize_frame(f) =
                Wire(f.type, {}, f.stream, 4, <<word31(f.increment)>>, <<>>)
         /\ f.type = "CONTINUATION" => serialize_frame(f) =
                Wire(f.type, flag(f.end_headers, END_HEADERS), f.stream, f.data, <<>>, <<>>)
BY Zenon DEF serialize_frame

\* How each type is read, if its length is right.
LEMMA Parsed ==
  ASSUME NEW w, length_ok(w), w.type \in {"DATA", "HEADERS", "PUSH_PROMISE"} => ~(fragment_length(w) < 0)
  PROVE  LET stream == mask31(w.stream)
             n == fragment_length(w) IN
         /\ w.type = "DATA" => parse_payload(w) =
                [type |-> w.type, stream |-> stream, data |-> n, end_stream |-> END_STREAM \in w.flags]
         /\ w.type = "HEADERS" => parse_payload(w) =
                [type |-> w.type, stream |-> stream, data |-> n,
                 end_stream |-> END_STREAM \in w.flags, end_headers |-> END_HEADERS \in w.flags,
                 priority |-> IF PRIORITY \in w.flags THEN read_priority(w.words) ELSE None]
         /\ w.type = "PRIORITY" => parse_payload(w) =
                [type |-> w.type, stream |-> stream, priority |-> read_priority(w.words)]
         /\ w.type = "RST_STREAM" => parse_payload(w) =
                [type |-> w.type, stream |-> stream, code |-> w.words[1]]
         /\ w.type = "SETTINGS" => parse_payload(w) =
                [type |-> w.type, ack |-> ACK \in w.flags, settings |-> read_settings(w.pairs)]
         /\ w.type = "PUSH_PROMISE" => parse_payload(w) =
                [type |-> w.type, stream |-> stream, promised |-> mask31(w.words[1]), data |-> n,
                 end_headers |-> END_HEADERS \in w.flags]
         /\ w.type = "PING" => parse_payload(w) =
                [type |-> w.type, ack |-> ACK \in w.flags, opaque |-> w.words[1]]
         /\ w.type = "GOAWAY" => parse_payload(w) =
                [type |-> w.type, last |-> mask31(w.words[1]), code |-> w.words[2], data |-> w.length - 8]
         /\ w.type = "WINDOW_UPDATE" => parse_payload(w) =
                [type |-> w.type, stream |-> stream, increment |-> mask31(w.words[1])]
         /\ w.type = "CONTINUATION" => parse_payload(w) =
                [type |-> w.type, stream |-> stream, data |-> w.length,
                 end_headers |-> END_HEADERS \in w.flags]
BY Zenon DEF parse_payload, Types

\* The flags that a frame was written with.
LEMMA FlagRead ==
  ASSUME NEW b \in BOOLEAN, NEW bit
  PROVE  (bit \in flag(b, bit)) = b /\ \A other : other \in flag(b, bit) => other = bit
BY DEF flag

\* The frames without a priority or parameters.
LEMMA SimpleRoundTrip ==
  ASSUME NEW f \in DataFrames \cup RstFrames \cup PromiseFrames \cup PingFrames \cup GoawayFrames
                     \cup WindowFrames \cup ContinuationFrames
  PROVE  parse_payload(serialize_frame(f)) = f
<1> DEFINE w == serialize_frame(f)
<1>0. 4 \in 0..MAX_LENGTH /\ 8 \in 0..MAX_LENGTH /\ 0 \in Ids
  BY CodecAssumption DEF Ids
<1>1. CASE f \in DataFrames
  <2>1. f.type = "DATA" /\ f.stream \in Ids /\ f.data \in 0..MAX_LENGTH /\ f.end_stream \in BOOLEAN
        /\ f = [type |-> f.type, stream |-> f.stream, data |-> f.data, end_stream |-> f.end_stream]
    BY <1>1 DEF DataFrames, Lengths
  <2>2. /\ w.type = "DATA" /\ w.stream = <<0, f.stream>> /\ w.length = f.data
        /\ w.flags = flag(f.end_stream, END_STREAM)
    <3>1. w = Wire(f.type, flag(f.end_stream, END_STREAM), f.stream, f.data, <<>>, <<>>)
      BY <2>1, Serialized
    <3> HIDE DEF w
    <3>9. word31(f.stream) = <<0, f.stream>> /\ u24(f.data) = f.data
      BY <2>1, <3>1, Written
    <3> QED BY <2>1, <3>1, <3>9 DEF Wire
  <2> HIDE DEF w
  <2>3. (END_STREAM \in w.flags) = f.end_stream /\ PADDED \notin w.flags
    BY <2>1, <2>2, FlagRead DEF END_STREAM, PADDED
  <2>4. length_ok(w) /\ fragment_length(w) = f.data /\ mask31(w.stream) = f.stream
    BY <2>1, <2>2, <2>3 DEF length_ok, fragment_length, mask31
  <2>5. parse_payload(w) = [type |-> w.type, stream |-> mask31(w.stream), data |-> fragment_length(w),
                            end_stream |-> END_STREAM \in w.flags]
    BY <2>1, <2>2, <2>4, Parsed
  <2>6. parse_payload(w) = f
    BY <2>1, <2>2, <2>3, <2>4, <2>5
  <2> QED BY <2>6 DEF w
<1>2. CASE f \in RstFrames
  <2>1. /\ f.type = "RST_STREAM" /\ f.stream \in Ids
        /\ f = [type |-> f.type, stream |-> f.stream, code |-> f.code]
    BY <1>2 DEF RstFrames
  <2>2. w.type = "RST_STREAM" /\ w.stream = <<0, f.stream>> /\ w.length = 4 /\ w.words = <<f.code>>
    <3>1. w = Wire(f.type, {}, f.stream, 4, <<f.code>>, <<>>)
      BY <2>1, Serialized
    <3> HIDE DEF w
    <3>9. word31(f.stream) = <<0, f.stream>> /\ u24(4) = 4
      BY <1>0, <2>1, <3>1, Written
    <3> QED BY <1>0, <2>1, <3>1, <3>9 DEF Wire
  <2> HIDE DEF w
  <2>3. length_ok(w) /\ mask31(w.stream) = f.stream
    BY <2>2 DEF length_ok, mask31
  <2>4. parse_payload(w) = [type |-> w.type, stream |-> mask31(w.stream), code |-> w.words[1]]
    BY <2>2, <2>3, Parsed
  <2>5. parse_payload(w) = f
    BY <2>1, <2>2, <2>3, <2>4
  <2> QED BY <2>5 DEF w
<1>3. CASE f \in PromiseFrames
  <2>1. /\ f.type = "PUSH_PROMISE" /\ f.data \in 0..MAX_LENGTH - 4 /\ f.end_headers \in BOOLEAN
        /\ f.stream \in Ids /\ f.promised \in Ids
        /\ f = [type |-> f.type, stream |-> f.stream, promised |-> f.promised, data |-> f.data,
                end_headers |-> f.end_headers]
    BY <1>3 DEF PromiseFrames
  <2>2. /\ w.type = "PUSH_PROMISE" /\ w.stream = <<0, f.stream>> /\ w.length = 4 + f.data
        /\ w.flags = flag(f.end_headers, END_HEADERS) /\ w.words = <<<<0, f.promised>>>>
    <3>1. 4 + f.data \in 0..MAX_LENGTH
      BY <2>1, CodecAssumption
    <3>2. w = Wire(f.type, flag(f.end_headers, END_HEADERS), f.stream, 4 + f.data,
                   <<word31(f.promised)>>, <<>>)
      BY <2>1, Serialized
    <3>3. word31(f.promised) = <<0, f.promised>>
      BY <2>1, Written
    <3> HIDE DEF w
    <3>9. word31(f.stream) = <<0, f.stream>> /\ u24(4 + f.data) = 4 + f.data
      BY <2>1, <3>1, <3>2, <3>3, Written
    <3> QED BY <2>1, <3>1, <3>2, <3>3, <3>9 DEF Wire
  <2> HIDE DEF w
  <2>3. (END_HEADERS \in w.flags) = f.end_headers /\ PADDED \notin w.flags
    BY <2>1, <2>2, FlagRead DEF END_HEADERS, PADDED
  <2>4. /\ length_ok(w) /\ fragment_length(w) = f.data /\ mask31(w.stream) = f.stream
        /\ mask31(w.words[1]) = f.promised
    BY <2>1, <2>2, <2>3 DEF length_ok, fragment_length, mask31
  <2>5. parse_payload(w) = [type |-> w.type, stream |-> mask31(w.stream), promised |-> mask31(w.words[1]),
                            data |-> fragment_length(w), end_headers |-> END_HEADERS \in w.flags]
    BY <2>1, <2>2, <2>4, Parsed
  <2>6. parse_payload(w) = f
    BY <2>1, <2>2, <2>3, <2>4, <2>5
  <2> QED BY <2>6 DEF w
<1>4. CASE f \in PingFrames
  <2>1. /\ f.type = "PING" /\ f.ack \in BOOLEAN
        /\ f = [type |-> f.type, ack |-> f.ack, opaque |-> f.opaque]
    BY <1>4 DEF PingFrames
  <2>2. w.type = "PING" /\ w.flags = flag(f.ack, ACK) /\ w.length = 8 /\ w.words = <<f.opaque>>
    <3>1. w = Wire(f.type, flag(f.ack, ACK), 0, 8, <<f.opaque>>, <<>>)
      BY <2>1, Serialized
    <3> HIDE DEF w
    <3>9. word31(0) = <<0, 0>> /\ u24(8) = 8
      BY <1>0, <2>1, <3>1, Written
    <3> QED BY <1>0, <2>1, <3>1, <3>9 DEF Wire
  <2> HIDE DEF w
  <2>3. (ACK \in w.flags) = f.ack /\ length_ok(w)
    BY <2>1, <2>2, FlagRead DEF length_ok
  <2>4. parse_payload(w) = [type |-> w.type, ack |-> ACK \in w.flags, opaque |-> w.words[1]]
    BY <2>2, <2>3, Parsed
  <2>5. parse_payload(w) = f
    BY <2>1, <2>2, <2>3, <2>4
  <2> QED BY <2>5 DEF w
<1>5. CASE f \in GoawayFrames
  <2>1. /\ f.type = "GOAWAY" /\ f.data \in 0..MAX_LENGTH - 8 /\ f.last \in Ids
        /\ f = [type |-> f.type, last |-> f.last, code |-> f.code, data |-> f.data]
    BY <1>5 DEF GoawayFrames
  <2>2. w.type = "GOAWAY" /\ w.length = 8 + f.data /\ w.words = <<<<0, f.last>>, f.code>>
    <3>1. 8 + f.data \in 0..MAX_LENGTH
      BY <2>1, CodecAssumption
    <3>2. w = Wire(f.type, {}, 0, 8 + f.data, <<word31(f.last), f.code>>, <<>>)
      BY <2>1, Serialized
    <3>3. word31(f.last) = <<0, f.last>>
      BY <2>1, Written
    <3> HIDE DEF w
    <3>9. word31(0) = <<0, 0>> /\ u24(8 + f.data) = 8 + f.data
      BY <1>0, <2>1, <3>1, <3>2, <3>3, Written
    <3> QED BY <1>0, <2>1, <3>1, <3>2, <3>3, <3>9 DEF Wire
  <2> HIDE DEF w
  <2>3. length_ok(w) /\ mask31(w.words[1]) = f.last /\ w.words[2] = f.code /\ w.length - 8 = f.data
    BY <2>1, <2>2 DEF length_ok, mask31
  <2>4. parse_payload(w) = [type |-> w.type, last |-> mask31(w.words[1]), code |-> w.words[2],
                            data |-> w.length - 8]
    BY <2>2, <2>3, Parsed
  <2>5. parse_payload(w) = f
    BY <2>1, <2>2, <2>3, <2>4
  <2> QED BY <2>5 DEF w
<1>6. CASE f \in WindowFrames
  <2>1. /\ f.type = "WINDOW_UPDATE" /\ f.stream \in Ids /\ f.increment \in Ids
        /\ f = [type |-> f.type, stream |-> f.stream, increment |-> f.increment]
    BY <1>6 DEF WindowFrames
  <2>2. /\ w.type = "WINDOW_UPDATE" /\ w.stream = <<0, f.stream>> /\ w.length = 4
        /\ w.words = <<<<0, f.increment>>>>
    <3>1. w = Wire(f.type, {}, f.stream, 4, <<word31(f.increment)>>, <<>>)
      BY <2>1, Serialized
    <3>2. word31(f.increment) = <<0, f.increment>>
      BY <2>1, Written
    <3> HIDE DEF w
    <3>9. word31(f.stream) = <<0, f.stream>> /\ u24(4) = 4
      BY <1>0, <2>1, <3>1, <3>2, Written
    <3> QED BY <1>0, <2>1, <3>1, <3>2, <3>9 DEF Wire
  <2> HIDE DEF w
  <2>3. length_ok(w) /\ mask31(w.stream) = f.stream /\ mask31(w.words[1]) = f.increment
    BY <2>2 DEF length_ok, mask31
  <2>4. parse_payload(w) = [type |-> w.type, stream |-> mask31(w.stream), increment |-> mask31(w.words[1])]
    BY <2>2, <2>3, Parsed
  <2>5. parse_payload(w) = f
    BY <2>1, <2>2, <2>3, <2>4
  <2> QED BY <2>5 DEF w
<1>7. CASE f \in ContinuationFrames
  <2>1. /\ f.type = "CONTINUATION" /\ f.stream \in Ids /\ f.data \in 0..MAX_LENGTH
        /\ f.end_headers \in BOOLEAN
        /\ f = [type |-> f.type, stream |-> f.stream, data |-> f.data, end_headers |-> f.end_headers]
    BY <1>7 DEF ContinuationFrames, Lengths
  <2>2. /\ w.type = "CONTINUATION" /\ w.stream = <<0, f.stream>> /\ w.length = f.data
        /\ w.flags = flag(f.end_headers, END_HEADERS)
    <3>1. w = Wire(f.type, flag(f.end_headers, END_HEADERS), f.stream, f.data, <<>>, <<>>)
      BY <2>1, Serialized
    <3> HIDE DEF w
    <3>9. word31(f.stream) = <<0, f.stream>> /\ u24(f.data) = f.data
      BY <2>1, <3>1, Written
    <3> QED BY <2>1, <3>1, <3>9 DEF Wire
  <2> HIDE DEF w
  <2>3. (END_HEADERS \in w.flags) = f.end_headers
    BY <2>1, <2>2, FlagRead
  <2>4. length_ok(w) /\ mask31(w.stream) = f.stream
    BY <2>1, <2>2 DEF length_ok, mask31
  <2>5. parse_payload(w) = [type |-> w.type, stream |-> mask31(w.stream), data |-> w.length,
                            end_headers |-> END_HEADERS \in w.flags]
    BY <2>2, <2>4, Parsed
  <2>6. parse_payload(w) = f
    BY <2>1, <2>2, <2>3, <2>4, <2>5
  <2> QED BY <2>6 DEF w
<1> QED BY <1>1, <1>2, <1>3, <1>4, <1>5, <1>6, <1>7

\* The value of a parameter as it is written.
setting_word(v, id) == IF id = 2 THEN word32(IF v[id] THEN 1 ELSE 0) ELSE v[id]

\* A pair is written for each parameter that is present, and no other.
LEMMA SettingPairs ==
  ASSUME NEW v \in Settings
  PROVE  /\ setting_pairs(v) \in Seq(SettingIds \X Words)
         /\ \A i \in DOMAIN setting_pairs(v) :
              \E id \in SettingIds : v[id] # None /\ setting_pairs(v)[i] = <<id, setting_word(v, id)>>
         /\ \A id \in SettingIds : v[id] # None =>
              \E i \in DOMAIN setting_pairs(v) : setting_pairs(v)[i] = <<id, setting_word(v, id)>>
         /\ v = NoSettings => Len(setting_pairs(v)) = 0
         /\ Len(setting_pairs(v)) <= 6
<1> DEFINE S == SettingIds \X Words
           pair(id) == <<id, setting_word(v, id)>>
           all == [id \in SettingIds |-> IF v[id] = None THEN <<>> ELSE <<pair(id)>>]
<1>1. \A id \in SettingIds : v[id] # None => pair(id) \in S
  <2> TAKE id \in SettingIds
  <2>1. v[id] = None \/ (IF id = 2 THEN v[id] \in BOOLEAN ELSE v[id] \in Words)
    BY DEF Settings
  <2>2. v[id] # None => setting_word(v, id) \in Words
    BY <2>1, Written DEF setting_word
  <2> QED BY <2>2
<1>2. \A id \in SettingIds : all[id] \in Seq(S)
  <2> TAKE id \in SettingIds
  <2>1. CASE v[id] = None
    BY <2>1
  <2>2. CASE v[id] # None
    <3>1. pair(id) \in S
      BY <1>1, <2>2
    <3> HIDE DEF S, pair
    <3> QED BY <2>2, <3>1
  <2> QED BY <2>1, <2>2
<1>3. all \in Seq(Seq(S)) /\ Len(all) = 6
  <2> DEFINE T == Seq(S)
  <2>1. DOMAIN all = 1..6 /\ \A id \in 1..6 : all[id] \in T
    BY <1>2 DEF SettingIds
  <2> HIDE DEF T
  <2>2. all = [i \in 1..6 |-> all[i]]
    BY DEF SettingIds
  <2> HIDE DEF all
  <2>3. all \in Seq(T) /\ Len(all) = 6
    BY <2>1, <2>2
  <2> QED BY <2>3 DEF T
<1>4. setting_pairs(v) = FlattenSeq(all)
  BY DEF setting_pairs, setting_word
<1>5. PICK f : /\ f \in [0..6 -> Seq(S)] /\ f[0] = <<>> /\ FlattenSeq(all) = f[6]
               /\ \A n \in 1..6 : f[n] = f[n - 1] \o all[n]
  <2>1. PICK f : Flattens(f, S, all)
    <3> HIDE DEF all, S
    <3>1. Len(all) > 0
      BY <1>3
    <3> QED BY <1>3, <3>1, FlattenSum
  <2> HIDE DEF all, S
  <2> QED BY <1>3, <2>1 DEF Flattens
<1> DEFINE P(n) == /\ \A i \in DOMAIN f[n] : \E id \in SettingIds : v[id] # None /\ f[n][i] = pair(id)
                   /\ \A id \in SettingIds : id <= n /\ v[id] # None => \E i \in DOMAIN f[n] : f[n][i] = pair(id)
                   /\ v = NoSettings => Len(f[n]) = 0
                   /\ Len(f[n]) <= n
           G == {n \in 0..6 : P(n)}
<1>6. 0 \in G
  BY <1>5 DEF SettingIds
<1>7. ASSUME NEW n \in 0..6, n + 1 \in 0..6, n \in G PROVE n + 1 \in G
  <2> DEFINE a == f[n]
             b == f[n + 1]
  <2>1. n + 1 \in 1..6 /\ n + 1 \in SettingIds /\ (n + 1) - 1 = n
    BY <1>7 DEF SettingIds
  <2>2. a \in Seq(S) /\ b \in Seq(S)
    BY <1>5, <1>7
  <2>3. b = a \o all[n + 1]
    BY <1>5, <2>1
  <2>4. P(n)
    BY <1>7
  <2>5. CASE v[n + 1] = None
    <3>1. all[n + 1] = <<>>
      BY <2>1, <2>5
    <3> HIDE DEF a, b, all
    <3>2. b = a
      BY <2>2, <2>3, <3>1
    <3>3. P(n + 1)
      <4>1. f[n + 1] = f[n]
        BY <3>2 DEF a, b
      <4>2. \A id \in SettingIds : id <= n + 1 /\ v[id] # None => id <= n
        BY <1>7, <2>5 DEF SettingIds
      <4>3. Len(f[n + 1]) <= n + 1
        <5>1. Len(f[n]) \in Nat /\ Len(f[n]) <= n
          BY <2>2, <2>4 DEF a
        <5> QED BY <4>1, <5>1
      <4> HIDE DEF pair
      <4> QED BY <2>4, <4>1, <4>2, <4>3
    <3> QED BY <1>7, <3>3
  <2>6. CASE v[n + 1] # None
    <3> DEFINE x == pair(n + 1)
    <3>1. all[n + 1] = <<x>> /\ x \in S
      BY <1>1, <2>1, <2>6
    <3> HIDE DEF all, S, x, a, b
    <3>2. Len(b) = Len(a) + 1 /\ b[Len(a) + 1] = x /\ \A i \in 1..Len(a) : b[i] = a[i]
      BY <2>2, <2>3, <3>1
    <3>3. DOMAIN a = 1..Len(a) /\ DOMAIN b = 1..Len(b) /\ Len(a) \in Nat
      BY <2>2
    <3>4. v # NoSettings
      BY <2>1, <2>6 DEF NoSettings
    <3>5. \A i \in DOMAIN b : \E id \in SettingIds : v[id] # None /\ b[i] = pair(id)
      <4> TAKE i \in DOMAIN b
      <4>1. CASE i = Len(a) + 1
        BY <2>1, <2>6, <3>2, <4>1 DEF x
      <4>2. CASE i # Len(a) + 1
        <5>1. i \in DOMAIN a /\ b[i] = a[i]
          BY <3>2, <3>3, <4>2
        <5> HIDE DEF pair
        <5> QED BY <2>4, <5>1 DEF a
      <4> QED BY <4>1, <4>2
    <3>6. ASSUME NEW id \in SettingIds, id <= n + 1, v[id] # None PROVE \E i \in DOMAIN b : b[i] = pair(id)
      <4>1. CASE id = n + 1
        <5>1. Len(a) + 1 \in DOMAIN b
          BY <3>2, <3>3
        <5>2. b[Len(a) + 1] = pair(id)
          BY <3>2, <4>1 DEF x
        <5> QED BY <5>1, <5>2
      <4>2. CASE id # n + 1
        <5>1. id <= n
          BY <3>6, <4>2 DEF SettingIds
        <5>2. PICK i \in DOMAIN a : a[i] = pair(id)
          <6> HIDE DEF pair
          <6> QED BY <2>4, <3>6, <5>1 DEF a
        <5>3. i \in DOMAIN b /\ b[i] = a[i]
          BY <3>2, <3>3
        <5> QED BY <5>2, <5>3
      <4> QED BY <4>1, <4>2
    <3>7. P(n + 1)
      <4>1. Len(a) <= n
        BY <2>4 DEF a
      <4>2. Len(b) <= n + 1
        BY <3>2, <3>3, <4>1
      <4> HIDE DEF pair
      <4> QED BY <3>4, <3>5, <3>6, <4>2 DEF b
    <3> QED BY <1>7, <3>7
  <2> QED BY <2>5, <2>6
<1>8. \A n \in 0..6 : n \in G
  <2> HIDE DEF G
  <2> QED BY <1>6, <1>7, UpTo
<1>9. P(6) /\ f[6] \in Seq(S)
  <2> HIDE DEF P, S
  <2> QED BY <1>5, <1>8
<1>10. \A id \in SettingIds : id <= 6
  BY DEF SettingIds
<1> QED BY <1>4, <1>5, <1>9, <1>10, ZenonT(60)

\* What was written for the parameters is read as them.
LEMMA SettingsRead ==
  ASSUME NEW v \in Settings
  PROVE  read_settings(setting_pairs(v)) = v
<1> DEFINE pairs == setting_pairs(v)
           at(id) == {i \in DOMAIN pairs : pairs[i][1] = id}
           last(id) == CHOOSE i \in at(id) : \A j \in at(id) : j <= i
<1>1. /\ pairs \in Seq(SettingIds \X Words)
      /\ \A i \in DOMAIN pairs : \E id \in SettingIds : v[id] # None /\ pairs[i] = <<id, setting_word(v, id)>>
      /\ \A id \in SettingIds : v[id] # None => \E i \in DOMAIN pairs : pairs[i] = <<id, setting_word(v, id)>>
  BY SettingPairs
<1> HIDE DEF pairs
<1>2. ASSUME NEW id \in SettingIds, v[id] = None PROVE at(id) = {}
  BY <1>1, <1>2
<1>3. ASSUME NEW id \in SettingIds, v[id] # None
      PROVE  at(id) # {} /\ pairs[last(id)][2] = setting_word(v, id)
  <2>1. at(id) # {}
    BY <1>1, <1>3
  <2>2. Len(pairs) \in Nat /\ at(id) \in SUBSET (0..Len(pairs))
    BY <1>1
  <2>3. \E m \in at(id) : \A d \in at(id) : d <= m
    <3> HIDE DEF at
    <3> QED BY <2>1, <2>2, GreatestUpTo
  <2>4. last(id) \in at(id)
    <3> HIDE DEF at
    <3> QED BY <2>3
  <2>5. last(id) \in DOMAIN pairs /\ pairs[last(id)][1] = id
    BY <2>4
  <2> HIDE DEF last
  <2>6. PICK e \in SettingIds : pairs[last(id)] = <<e, setting_word(v, e)>>
    BY <1>1, <2>5
  <2> QED BY <2>1, <2>5, <2>6
<1> DEFINE value(id) == pairs[last(id)][2]
<1>4. read_settings(pairs) =
         [id \in SettingIds |-> IF at(id) = {} THEN None ELSE IF id = 2 THEN value(id) # <<0, 0>> ELSE value(id)]
  BY DEF read_settings
<1>5. v \in [SettingIds -> Words \cup BOOLEAN \cup {None}]
  BY DEF Settings
<1> HIDE DEF at, value, last
<1>6. ASSUME NEW id \in SettingIds
      PROVE  (IF at(id) = {} THEN None ELSE IF id = 2 THEN value(id) # <<0, 0>> ELSE value(id)) = v[id]
  <2>1. CASE v[id] = None
    BY <1>2, <2>1
  <2>2. CASE v[id] # None
    <3>1. at(id) # {} /\ value(id) = setting_word(v, id)
      BY <1>3, <2>2 DEF value
    <3>2. id = 2 => v[id] \in BOOLEAN
      BY <2>2 DEF Settings
    <3>3. id = 2 => (value(id) # <<0, 0>>) = v[id]
      <4>1. word32(0) = <<0, 0>> /\ word32(1) = <<0, 1>>
        BY Written
      <4>2. id = 2 => value(id) = IF v[id] THEN <<0, 1>> ELSE <<0, 0>>
        BY <3>1, <4>1 DEF setting_word
      <4> HIDE DEF value
      <4> QED BY <3>2, <4>2
    <3> QED BY <3>1, <3>3 DEF setting_word
  <2> QED BY <2>1, <2>2
<1>7. read_settings(pairs) = [id \in SettingIds |-> v[id]]
  BY <1>4, <1>6
<1>8. v = [id \in SettingIds |-> v[id]]
  BY <1>5
<1> QED BY <1>7, <1>8 DEF pairs

\* What was written for a priority is read as it.
LEMMA PriorityRead ==
  ASSUME NEW p \in Priorities
  PROVE  read_priority(priority_words(p)) = p
<1>1. /\ p = [dependency |-> p.dependency, exclusive |-> p.exclusive, weight |-> p.weight]
      /\ p.exclusive \in BOOLEAN /\ p.weight \in 1..256 /\ p.dependency \in Ids
  BY DEF Priorities
<1> DEFINE ws == priority_words(p)
<1>2. ws[1] = <<IF p.exclusive THEN 1 ELSE 0, p.dependency>> /\ ws[2] = <<0, p.weight - 1>>
  <2>1. p.weight - 1 \in 0..255
    BY <1>1
  <2>2. p.dependency % HIGH_BIT = p.dependency /\ octet(p.weight - 1) = <<0, p.weight - 1>>
    BY <1>1, <2>1, Written
  <2> QED BY <2>2 DEF priority_words
<1> HIDE DEF ws
<1>3. mask31(ws[1]) = p.dependency /\ (ws[1][1] = 1) = p.exclusive /\ mask31(ws[2]) + 1 = p.weight
  BY <1>1, <1>2 DEF mask31
<1>4. read_priority(ws) = p
  BY <1>1, <1>3 DEF read_priority
<1> QED BY <1>4 DEF ws

\* The frames that fit.
LEMMA FramesRoundTrip ==
  ASSUME NEW f \in Frames
  PROVE  parse_payload(serialize_frame(f)) = f
<1> DEFINE w == serialize_frame(f)
<1>0. 5 \in 0..MAX_LENGTH /\ 0 \in Ids
  BY CodecAssumption DEF Ids
<1>1. CASE f \in HeadersFrames
  <2> DEFINE p == f.priority # None
             fl == flag(f.end_headers, END_HEADERS) \cup flag(f.end_stream, END_STREAM) \cup flag(p, PRIORITY)
  <2>1. /\ f.type = "HEADERS" /\ f.end_stream \in BOOLEAN /\ f.end_headers \in BOOLEAN
        /\ f.stream \in Ids /\ f.data \in 0..MAX_LENGTH /\ (p => f.data + 5 <= MAX_LENGTH)
        /\ f.priority \in Priorities \cup {None}
        /\ f = [type |-> f.type, stream |-> f.stream, data |-> f.data, end_stream |-> f.end_stream,
                end_headers |-> f.end_headers, priority |-> f.priority]
    BY <1>1 DEF HeadersFrames, Lengths
  <2>2. w = Wire(f.type, fl, f.stream, f.data + (IF p THEN 5 ELSE 0),
                 IF p THEN priority_words(f.priority) ELSE <<>>, <<>>)
    BY <2>1, Serialized
  <2>3. /\ w.type = "HEADERS" /\ w.stream = <<0, f.stream>> /\ w.length = f.data + (IF p THEN 5 ELSE 0)
        /\ w.flags = fl /\ (p => w.words = priority_words(f.priority))
    <3> HIDE DEF w, p, fl
    <3>1. f.data + (IF p THEN 5 ELSE 0) \in 0..MAX_LENGTH
      BY <2>1, CodecAssumption
    <3>9. word31(f.stream) = <<0, f.stream>> /\ u24(f.data + (IF p THEN 5 ELSE 0)) = f.data + (IF p THEN 5 ELSE 0)
      BY <2>1, <2>2, <3>1, Written
    <3> QED BY <2>1, <2>2, <3>1, <3>9 DEF Wire
  <2>4. /\ (END_HEADERS \in fl) = f.end_headers /\ (END_STREAM \in fl) = f.end_stream
        /\ (PRIORITY \in fl) = p /\ PADDED \notin fl
    <3> HIDE DEF p
    <3>1. p \in BOOLEAN
      BY DEF p
    <3> QED BY <2>1, <3>1 DEF flag, END_HEADERS, END_STREAM, PRIORITY, PADDED
  <2> HIDE DEF w, fl
  <2>5. length_ok(w) /\ mask31(w.stream) = f.stream
    BY <2>3 DEF length_ok, mask31
  <2>6. fragment_length(w) = f.data
    BY <2>1, <2>3, <2>4 DEF fragment_length
  <2>7. parse_payload(w) =
           [type |-> w.type, stream |-> mask31(w.stream), data |-> fragment_length(w),
            end_stream |-> END_STREAM \in w.flags, end_headers |-> END_HEADERS \in w.flags,
            priority |-> IF PRIORITY \in w.flags THEN read_priority(w.words) ELSE None]
    BY <2>1, <2>3, <2>5, <2>6, Parsed
  <2>8. (IF PRIORITY \in w.flags THEN read_priority(w.words) ELSE None) = f.priority
    BY <2>1, <2>3, <2>4, PriorityRead
  <2>9. parse_payload(w) = f
    BY <2>1, <2>3, <2>4, <2>5, <2>6, <2>7, <2>8
  <2> QED BY <2>9 DEF w
<1>2. CASE f \in PriorityFrames
  <2>1. /\ f.type = "PRIORITY" /\ f.priority \in Priorities /\ f.stream \in Ids
        /\ f = [type |-> f.type, stream |-> f.stream, priority |-> f.priority]
    BY <1>2 DEF PriorityFrames
  <2>2. /\ w.type = "PRIORITY" /\ w.stream = <<0, f.stream>> /\ w.length = 5
        /\ w.words = priority_words(f.priority)
    <3>1. w = Wire(f.type, {}, f.stream, 5, priority_words(f.priority), <<>>)
      BY <2>1, Serialized
    <3> HIDE DEF w
    <3>9. word31(f.stream) = <<0, f.stream>> /\ u24(5) = 5
      BY <1>0, <2>1, <3>1, Written
    <3> QED BY <1>0, <2>1, <3>1, <3>9 DEF Wire
  <2> HIDE DEF w
  <2>3. length_ok(w) /\ mask31(w.stream) = f.stream
    BY <2>2 DEF length_ok, mask31
  <2>4. parse_payload(w) = [type |-> w.type, stream |-> mask31(w.stream), priority |-> read_priority(w.words)]
    BY <2>2, <2>3, Parsed
  <2>5. parse_payload(w) = f
    BY <2>1, <2>2, <2>3, <2>4, PriorityRead
  <2> QED BY <2>5 DEF w
<1>3. CASE f \in SettingsFrames
  <2> DEFINE pairs == setting_pairs(f.settings)
  <2>1. NoSettings \in Settings
    BY DEF NoSettings, Settings, SettingIds
  <2>2. /\ f.type = "SETTINGS" /\ f.ack \in BOOLEAN /\ f.settings \in Settings
        /\ f.ack => f.settings = NoSettings
        /\ f = [type |-> f.type, ack |-> f.ack, settings |-> f.settings]
    BY <1>3, <2>1 DEF SettingsFrames
  <2>3. /\ Len(pairs) \in Nat /\ (f.ack => Len(pairs) = 0) /\ read_settings(pairs) = f.settings
        /\ Len(pairs) <= 6
    <3>1. /\ pairs \in Seq(SettingIds \X Words) /\ (f.settings = NoSettings => Len(pairs) = 0)
          /\ Len(pairs) <= 6
      BY <2>2, SettingPairs
    <3>2. read_settings(pairs) = f.settings
      BY <2>2, SettingsRead
    <3> QED BY <2>2, <3>1, <3>2
  <2> HIDE DEF pairs
  <2>4. w = Wire(f.type, flag(f.ack, ACK), 0, 6 * Len(pairs), <<>>, pairs)
    BY <2>2, Serialized DEF pairs
  <2> HIDE DEF w
  <2>5. /\ w.type = "SETTINGS" /\ w.length = 6 * Len(pairs) /\ w.flags = flag(f.ack, ACK)
        /\ w.pairs = pairs
    <3>1. 6 * Len(pairs) \in 0..MAX_LENGTH
      BY <2>3, CodecAssumption
    <3>9. word31(0) = <<0, 0>> /\ u24(6 * Len(pairs)) = 6 * Len(pairs)
      BY <1>0, <2>2, <2>4, <3>1, Written
    <3> QED BY <1>0, <2>2, <2>4, <3>1, <3>9 DEF Wire
  <2>6. (ACK \in w.flags) = f.ack
    BY <2>2, <2>5, FlagRead
  <2>7. length_ok(w)
    <3>1. (6 * Len(pairs)) % 6 = 0 /\ (f.ack => 6 * Len(pairs) = 0)
      BY <2>3
    <3>2. length_ok(w) = (w.length % 6 = 0 /\ (ACK \in w.flags => w.length = 0))
      BY <2>5 DEF length_ok
    <3> QED BY <2>5, <2>6, <3>1, <3>2
  <2>8. parse_payload(w) = [type |-> w.type, ack |-> ACK \in w.flags, settings |-> read_settings(w.pairs)]
    BY <2>5, <2>7, Parsed
  <2>9. parse_payload(w) = f
    BY <2>2, <2>3, <2>5, <2>6, <2>8
  <2> QED BY <2>9 DEF w
<1> QED BY <1>1, <1>2, <1>3, SimpleRoundTrip DEF Frames

\* Nothing of a frame is lost that 31-bit identifiers and increments and a 24-bit length
\* can say: however it is flagged and whatever its parameters and priority, it is read
\* back as it was meant.  A larger increment, as connect may queue, is read without its
\* high bit (serialize_frame, encode_body, parse_payload).
THEOREM CodecRoundTrip ==
  /\ \A f \in Frames : parse_payload(serialize_frame(f)) = f /\ Masked(f) = f
  /\ \A f \in Growths : parse_payload(serialize_frame(f)) = Masked(f)
<1>1. ASSUME NEW f \in Frames PROVE Masked(f) = f
  <2>1. CASE f \in WindowFrames
    <3>1. /\ f.type = "WINDOW_UPDATE" /\ f.increment % HIGH_BIT = f.increment
          /\ f = [type |-> f.type, stream |-> f.stream, increment |-> f.increment]
      BY <2>1, Written DEF WindowFrames
    <3> QED BY <3>1 DEF Masked
  <2>2. CASE f \notin WindowFrames
    <3>1. f.type # "WINDOW_UPDATE"
      BY <2>2 DEF Frames, DataFrames, HeadersFrames, PriorityFrames, RstFrames, SettingsFrames,
                  PromiseFrames, PingFrames, GoawayFrames, ContinuationFrames
    <3> QED BY <3>1 DEF Masked
  <2> QED BY <2>1, <2>2
<1>2. ASSUME NEW f \in Growths PROVE parse_payload(serialize_frame(f)) = Masked(f)
  <2> DEFINE w == serialize_frame(f)
             g == [type |-> "WINDOW_UPDATE", stream |-> 0, increment |-> f.increment % HIGH_BIT]
  <2>1. /\ f.type = "WINDOW_UPDATE" /\ f.stream = 0 /\ f.increment \in Nat
        /\ f = [type |-> "WINDOW_UPDATE", stream |-> 0, increment |-> f.increment]
    BY DEF Growths
  <2>2. Masked(f) = g
    BY <2>1 DEF Masked
  <2>3. 0 \in Ids /\ 4 \in 0..MAX_LENGTH
    BY CodecAssumption DEF Ids
  <2>4. /\ w.type = "WINDOW_UPDATE" /\ w.stream = <<0, 0>> /\ w.length = 4
        /\ w.words = <<<<0, f.increment % HIGH_BIT>>>>
    <3>1. w = Wire(f.type, {}, f.stream, 4, <<word31(f.increment)>>, <<>>)
      BY <2>1, Serialized
    <3>2. word31(f.increment) = <<0, f.increment % HIGH_BIT>>
      BY <2>1, Written
    <3> HIDE DEF w
    <3>9. word31(f.stream) = <<0, f.stream>> /\ u24(4) = 4
      BY <2>1, <2>3, <3>1, <3>2, Written
    <3> QED BY <2>1, <2>3, <3>1, <3>2, <3>9 DEF Wire
  <2> HIDE DEF w
  <2>5. length_ok(w) /\ mask31(w.stream) = 0 /\ mask31(w.words[1]) = f.increment % HIGH_BIT
    BY <2>4 DEF length_ok, mask31
  <2>6. parse_payload(w) = [type |-> w.type, stream |-> mask31(w.stream), increment |-> mask31(w.words[1])]
    BY <2>4, <2>5, Parsed
  <2> QED BY <2>2, <2>4, <2>5, <2>6 DEF w
<1> QED BY <1>1, <1>2, FramesRoundTrip

-----------------------------------------------------------------------------
(* What the peer sends, and what push makes of it *)

\* The words that a type has are there.
WordsThere(w) == w.type \in {"PING", "PUSH_PROMISE"} => Len(w.words) > 0

\* A frame that dispatch can work on.
PeerFrame(f) ==
    /\ f.type \in Types
    /\ f.type \in {"HEADERS", "PUSH_PROMISE", "CONTINUATION"} =>
          f.stream \in Ids /\ f.data \in Nat /\ f.end_headers \in BOOLEAN
    /\ f.type = "PUSH_PROMISE" => f.promised \in Ids
    /\ f.type = "DATA" => f.data \in Lengths
    /\ f.type = "WINDOW_UPDATE" => f.stream \in Ids
    /\ f.type = "PING" => f \in PingFrames

ParseErrors == {"FRAME_SIZE_ERROR", "PROTOCOL_ERROR"}

\* An error is one.
LEMMA ErrorIsOne ==
  ASSUME NEW c \in ParseErrors
  PROVE  Error(c) # None /\ IsError(Error(c)) /\ Error(c).error = c
<1>1. c \in DOMAIN ErrorCode
  BY DEF ParseErrors, ErrorCode
<1>2. Error(c) # None
  BY <1>1, NoneAssumption
<1> QED BY <1>2 DEF IsError, Error

\* The octets of a frame are a frame, an error or of an unknown type.
LEMMA ParsedTyped ==
  ASSUME NEW w \in WireFrames, WordsThere(w)
  PROVE  LET f == parse_payload(w) IN
         \/ f = None /\ ~IsError(f)
         \/ IsError(f) /\ f.error \in ParseErrors
         \/ ~IsError(f) /\ PeerFrame(f)
<1> DEFINE f == parse_payload(w)
           n == fragment_length(w)
<1>1. /\ w.stream \in Words /\ w.length \in Nat /\ w.pad \in Nat /\ w.flags \in SUBSET Nat
      /\ w.words \in Seq(Words) /\ w.length <= MAX_LENGTH
  BY CodecAssumption DEF WireFrames, WireForms
<1>2. n \in Int
  BY <1>1 DEF fragment_length
<1>3. \A c \in ParseErrors : IsError(Error(c)) /\ Error(c).error = c
  BY ErrorIsOne
<1>4. mask31(w.stream) \in Ids
  BY <1>1 DEF mask31, Words
<1>5. CASE w.type \notin Types
  <2>1. f = None
    BY <1>5 DEF parse_payload
  <2> QED BY <2>1 DEF IsError
<1>6. CASE w.type \in Types /\ ~length_ok(w)
  <2>1. f = Error("FRAME_SIZE_ERROR")
    BY <1>6 DEF parse_payload
  <2>2. IsError(f) /\ f.error \in ParseErrors
    <3>1. "FRAME_SIZE_ERROR" \in ParseErrors /\ "PROTOCOL_ERROR" \in ParseErrors
      BY DEF ParseErrors
    <3> HIDE DEF f
    <3> QED BY <1>3, <2>1, <3>1
  <2> QED BY <2>2
<1>7. CASE w.type \in {"DATA", "HEADERS", "PUSH_PROMISE"} /\ length_ok(w) /\ n < 0
  <2>1. f = Error("PROTOCOL_ERROR")
    BY <1>7, Zenon DEF parse_payload, Types
  <2>2. IsError(f) /\ f.error \in ParseErrors
    <3>1. "FRAME_SIZE_ERROR" \in ParseErrors /\ "PROTOCOL_ERROR" \in ParseErrors
      BY DEF ParseErrors
    <3> HIDE DEF f
    <3> QED BY <1>3, <2>1, <3>1
  <2> QED BY <2>2
<1>8. CASE w.type \in Types /\ length_ok(w) /\ (w.type \in {"DATA", "HEADERS", "PUSH_PROMISE"} => ~(n < 0))
  <2> HIDE DEF n
  <2>1. CASE w.type = "DATA"
    <3>1. f = [type |-> w.type, stream |-> mask31(w.stream), data |-> n, end_stream |-> END_STREAM \in w.flags]
      BY <1>8, <2>1, Parsed DEF n
    <3> HIDE DEF f
    <3>2. ~IsError(f)
      BY <3>1 DEF IsError
    <3>3. n \in Nat
      BY <1>2, <1>8, <2>1
    <3>4. n \in Lengths
      <4>1. n <= w.length
        BY <1>1, <2>1 DEF n, fragment_length
      <4> QED BY <1>1, <3>3, <4>1, CodecAssumption DEF Lengths
    <3>9. PeerFrame(f)
      BY <1>1, <1>4, <2>1, <3>1, <3>4 DEF PeerFrame, Types
    <3> QED BY <3>2, <3>9 DEF f
  <2>2. CASE w.type = "HEADERS"
    <3>1. f = [type |-> w.type, stream |-> mask31(w.stream), data |-> n,
             end_stream |-> END_STREAM \in w.flags, end_headers |-> END_HEADERS \in w.flags,
             priority |-> IF PRIORITY \in w.flags THEN read_priority(w.words) ELSE None]
      BY <1>8, <2>2, Parsed DEF n
    <3> HIDE DEF f
    <3>2. ~IsError(f)
      BY <3>1 DEF IsError
    <3>3. n \in Nat
      BY <1>2, <1>8, <2>2
    <3>9. PeerFrame(f)
      BY <1>1, <1>4, <2>2, <3>1, <3>3 DEF PeerFrame, Types
    <3> QED BY <3>2, <3>9 DEF f
  <2>3. CASE w.type = "PRIORITY"
    <3>1. f = [type |-> w.type, stream |-> mask31(w.stream), priority |-> read_priority(w.words)]
      BY <1>8, <2>3, Parsed DEF n
    <3> HIDE DEF f
    <3>2. ~IsError(f)
      BY <3>1 DEF IsError
    <3>9. PeerFrame(f)
      BY <1>1, <1>4, <2>3, <3>1 DEF PeerFrame, Types
    <3> QED BY <3>2, <3>9 DEF f
  <2>4. CASE w.type = "RST_STREAM"
    <3>1. f = [type |-> w.type, stream |-> mask31(w.stream), code |-> w.words[1]]
      BY <1>8, <2>4, Parsed DEF n
    <3> HIDE DEF f
    <3>2. ~IsError(f)
      BY <3>1 DEF IsError
    <3>9. PeerFrame(f)
      BY <1>1, <1>4, <2>4, <3>1 DEF PeerFrame, Types
    <3> QED BY <3>2, <3>9 DEF f
  <2>5. CASE w.type = "SETTINGS"
    <3>1. f = [type |-> w.type, ack |-> ACK \in w.flags, settings |-> read_settings(w.pairs)]
      BY <1>8, <2>5, Parsed DEF n
    <3> HIDE DEF f
    <3>2. ~IsError(f)
      BY <3>1 DEF IsError
    <3>9. PeerFrame(f)
      BY <1>1, <1>4, <2>5, <3>1 DEF PeerFrame, Types
    <3> QED BY <3>2, <3>9 DEF f
  <2>6. CASE w.type = "PUSH_PROMISE"
    <3>1. f = [type |-> w.type, stream |-> mask31(w.stream), promised |-> mask31(w.words[1]), data |-> n,
             end_headers |-> END_HEADERS \in w.flags]
      BY <1>8, <2>6, Parsed DEF n
    <3> HIDE DEF f
    <3>2. ~IsError(f)
      BY <3>1 DEF IsError
    <3>3. n \in Nat
      BY <1>2, <1>8, <2>6
    <3>4. mask31(w.words[1]) \in Ids
      <4>1. w.words[1] \in Words
        BY <1>1, <2>6 DEF WordsThere
      <4> QED BY <4>1 DEF Words, mask31
    <3>9. PeerFrame(f)
      BY <1>1, <1>4, <2>6, <3>1, <3>3, <3>4 DEF PeerFrame, Types
    <3> QED BY <3>2, <3>9 DEF f
  <2>7. CASE w.type = "PING"
    <3>1. f = [type |-> w.type, ack |-> ACK \in w.flags, opaque |-> w.words[1]]
      BY <1>8, <2>7, Parsed DEF n
    <3> HIDE DEF f
    <3>2. ~IsError(f)
      BY <3>1 DEF IsError
    <3>3. w.words[1] \in Words
      BY <1>1, <2>7 DEF WordsThere
    <3>4. f \in PingFrames
      <4> DEFINE o == w.words[1]
                 a == ACK \in w.flags
      <4>1. o \in Words /\ a \in BOOLEAN
        BY <3>3
      <4> HIDE DEF o, a
      <4> QED BY <2>7, <3>1, <4>1 DEF PingFrames, o, a
    <3>9. PeerFrame(f)
      BY <1>1, <1>4, <2>7, <3>1, <3>4 DEF PeerFrame, Types
    <3> QED BY <3>2, <3>9 DEF f
  <2>8. CASE w.type = "GOAWAY"
    <3>1. f = [type |-> w.type, last |-> mask31(w.words[1]), code |-> w.words[2], data |-> w.length - 8]
      BY <1>8, <2>8, Parsed DEF n
    <3> HIDE DEF f
    <3>2. ~IsError(f)
      BY <3>1 DEF IsError
    <3>9. PeerFrame(f)
      BY <1>1, <1>4, <2>8, <3>1 DEF PeerFrame, Types
    <3> QED BY <3>2, <3>9 DEF f
  <2>9. CASE w.type = "WINDOW_UPDATE"
    <3>1. f = [type |-> w.type, stream |-> mask31(w.stream), increment |-> mask31(w.words[1])]
      BY <1>8, <2>9, Parsed DEF n
    <3> HIDE DEF f
    <3>2. ~IsError(f)
      BY <3>1 DEF IsError
    <3>9. PeerFrame(f)
      BY <1>1, <1>4, <2>9, <3>1 DEF PeerFrame, Types
    <3> QED BY <3>2, <3>9 DEF f
  <2>10. CASE w.type = "CONTINUATION"
    <3>1. f = [type |-> w.type, stream |-> mask31(w.stream), data |-> w.length,
             end_headers |-> END_HEADERS \in w.flags]
      BY <1>8, <2>10, Parsed DEF n
    <3> HIDE DEF f
    <3>2. ~IsError(f)
      BY <3>1 DEF IsError
    <3>9. PeerFrame(f)
      BY <1>1, <1>4, <2>10, <3>1 DEF PeerFrame, Types
    <3> QED BY <3>2, <3>9 DEF f
  <2> QED BY <1>8, <2>1, <2>2, <2>3, <2>4, <2>5, <2>6, <2>7, <2>8, <2>9, <2>10 DEF Types
<1> QED BY <1>2, <1>5, <1>6, <1>7, <1>8 DEF Types

\* What push returned when it found no error: the frames that were complete, all of
\* them accepted, and less than a frame that it accepts left over.
Pushed(r, fs, held, max) ==
    LET n == complete(fs, held) IN
    /\ r.error = None /\ r.read = n /\ r.held = held - octets(fs, n)
    /\ r.frames = present([k \in 1..n |-> parse_payload(fs[k])], n)
    /\ \A k \in 1..n : fs[k].length <= max /\ ~IsError(parse_payload(fs[k]))
    /\ n < Len(fs) => /\ r.held < frame_size(fs[n + 1])
                      /\ fs[n + 1].length > max => r.held < FRAME_HEADER_SIZE

\* And when it found one.
Refused(r) == r.error \in ParseErrors /\ r.read = 0 /\ r.held = 0 /\ r.frames = <<>>

\* The error that a frame is refused with.
LEMMA ErrorAt ==
  ASSUME NEW fs \in Seq(WireFrames), NEW k \in 0..Len(fs), k < Len(fs), WordsThere(fs[k + 1]),
         NEW held \in Nat, NEW max \in Nat
  PROVE  LET w == fs[k + 1]
             e == error_at(fs, k, held, max)
             left == held - octets(fs, k) IN
         /\ e # None => e.error \in ParseErrors
         /\ e = None => /\ left >= FRAME_HEADER_SIZE => w.length <= max
                        /\ left >= frame_size(w) /\ w.length <= max => ~IsError(parse_payload(w))
<1> DEFINE w == fs[k + 1]
           f == parse_payload(w)
           left == held - octets(fs, k)
           e == error_at(fs, k, held, max)
<1>1. w \in WireFrames /\ octets(fs, k) \in Nat
  BY OctetsSum
<1>2. w.length \in Nat /\ frame_size(w) \in Nat /\ FRAME_HEADER_SIZE \in Nat /\ frame_size(w) >= FRAME_HEADER_SIZE
  <2> HIDE DEF w
  <2> QED BY <1>1, FrameSize
<1>3. IsError(f) => f # None /\ f.error \in ParseErrors
  <2> WordsThere(w)
    OBVIOUS
  <2> HIDE DEF w
  <2> QED BY <1>1, ParsedTyped DEF IsError
<1>4. e = (CASE left >= FRAME_HEADER_SIZE /\ w.length > max -> Error("FRAME_SIZE_ERROR")
            [] w.length <= max /\ left >= frame_size(w) /\ IsError(f) -> f
            [] OTHER -> None)
  BY DEF error_at
<1>5. left \in Int
  BY <1>1
<1>6. Error("FRAME_SIZE_ERROR") # None /\ Error("FRAME_SIZE_ERROR").error = "FRAME_SIZE_ERROR"
  <2>1. "FRAME_SIZE_ERROR" \in ParseErrors
    BY DEF ParseErrors
  <2> QED BY <2>1, ErrorIsOne
<1> HIDE DEF w, f, left, e
<1>7. CASE left >= FRAME_HEADER_SIZE /\ w.length > max
  <2>1. e = Error("FRAME_SIZE_ERROR")
    BY <1>2, <1>4, <1>5, <1>7
  <2> QED BY <1>6, <2>1 DEF ParseErrors, e, w, f, left
<1>8. CASE w.length <= max /\ left >= frame_size(w) /\ IsError(f)
  <2>1. e = f
    BY <1>2, <1>4, <1>5, <1>8
  <2> QED BY <1>3, <1>8, <2>1 DEF e
<1>9. CASE ~(left >= FRAME_HEADER_SIZE /\ w.length > max) /\ ~(w.length <= max /\ left >= frame_size(w) /\ IsError(f))
  <2>1. e = None
    BY <1>4, <1>9
  <2>2. left >= FRAME_HEADER_SIZE => w.length <= max
    BY <1>2, <1>5, <1>9
  <2> QED BY <1>9, <2>1, <2>2 DEF e, w, f, left
<1> QED BY <1>7, <1>8, <1>9

\* push, on frames of which no more than all is held.
LEMMA PushIs ==
  ASSUME NEW fs \in Seq(WireFrames), \A i \in 1..Len(fs) : WordsThere(fs[i]),
         NEW held \in Nat, held <= octets(fs, Len(fs)), NEW max \in Nat
  PROVE  Refused(push(fs, held, max)) \/ Pushed(push(fs, held, max), fs, held, max)
<1> DEFINE r == push(fs, held, max)
           n == complete(fs, held)
           looked == 0..(IF n < Len(fs) THEN n ELSE n - 1)
           err(k) == error_at(fs, k, held, max)
           bad == {k \in looked : err(k) # None}
           parsed == [k \in 1..n |-> parse_payload(fs[k])]
<1>1. Len(fs) \in Nat /\ n \in 0..Len(fs) /\ octets(fs, n) <= held
  BY CompleteIs
<1>2. \A k \in 0..Len(fs) : octets(fs, k) <= held => k <= n
  BY CompleteIs
<1>3. r = IF bad # {}
          THEN [error |-> err(CHOOSE k \in bad : \A j \in bad : k <= j).error,
                frames |-> <<>>, read |-> 0, held |-> 0]
          ELSE [error |-> None, frames |-> present(parsed, n),
                read |-> n, held |-> held - octets(fs, n)]
  BY DEF push
<1> HIDE DEF r, n
<1>4. \A k \in looked : k \in 0..Len(fs) /\ k < Len(fs)
  BY <1>1
<1>5. CASE bad # {}
  <2> DEFINE k == CHOOSE k \in bad : \A j \in bad : k <= j
  <2>1. k \in bad
    <3>1. bad \in SUBSET Nat
      BY <1>1
    <3> HIDE DEF bad
    <3> QED BY <1>5, <3>1, LeastNat
  <2>2. k \in looked /\ err(k) # None
    BY <2>1
  <2> HIDE DEF k, looked
  <2>3. k \in 0..Len(fs) /\ k < Len(fs) /\ k + 1 \in 1..Len(fs)
    BY <1>1, <1>4, <2>2
  <2>4. err(k).error \in ParseErrors
    BY <2>2, <2>3, ErrorAt
  <2> HIDE DEF bad, err
  <2>5. Refused(r)
    BY <1>3, <1>5, <2>4 DEF Refused, k
  <2> QED BY <2>5 DEF r
<1>6. CASE bad = {}
  <2>1. /\ r.error = None /\ r.frames = present(parsed, n) /\ r.read = n /\ r.held = held - octets(fs, n)
    <3> HIDE DEF bad, parsed, err
    <3> QED BY <1>3, <1>6
  <2>2. ASSUME NEW k \in looked
        PROVE  LET left == held - octets(fs, k) IN
               /\ left >= FRAME_HEADER_SIZE => fs[k + 1].length <= max
               /\ left >= frame_size(fs[k + 1]) /\ fs[k + 1].length <= max => ~IsError(parse_payload(fs[k + 1]))
    <3>1. err(k) = None
      BY <1>6
    <3> HIDE DEF looked
    <3>2. k \in 0..Len(fs) /\ k < Len(fs) /\ k + 1 \in 1..Len(fs)
      BY <1>1, <1>4, <2>2
    <3> QED BY <3>1, <3>2, ErrorAt
  <2>3. ASSUME NEW k \in 1..n PROVE fs[k].length <= max /\ ~IsError(parse_payload(fs[k]))
    <3>1. k - 1 \in looked /\ (k - 1) + 1 = k /\ k \in 1..Len(fs) /\ k \in 0..Len(fs)
      BY <1>1
    <3>2. octets(fs, k) = octets(fs, k - 1) + frame_size(fs[k]) /\ octets(fs, k - 1) \in Nat
      BY <1>1, <3>1, OctetsSum
    <3>3. octets(fs, k) <= octets(fs, n) /\ octets(fs, n) \in Nat
      BY <1>1, <3>1, OctetsGrow, OctetsSum
    <3>4. frame_size(fs[k]) \in Nat /\ frame_size(fs[k]) >= FRAME_HEADER_SIZE /\ FRAME_HEADER_SIZE \in Nat
      <4> DEFINE w == fs[k]
      <4>1. w \in WireFrames
        BY <3>1
      <4> HIDE DEF w
      <4>2. /\ frame_size(w) \in Nat /\ w.length \in Nat /\ FRAME_HEADER_SIZE \in Nat
            /\ frame_size(w) = FRAME_HEADER_SIZE + w.length
        BY <4>1, FrameSize
      <4>3. frame_size(w) >= FRAME_HEADER_SIZE
        BY <4>2
      <4> QED BY <4>2, <4>3 DEF w
    <3>5. held - octets(fs, k - 1) >= frame_size(fs[k])
      BY <1>1, <3>2, <3>3, <3>4
    <3>6. held - octets(fs, k - 1) >= FRAME_HEADER_SIZE
      BY <3>2, <3>4, <3>5
    <3> HIDE DEF looked
    <3> QED BY <2>2, <3>1, <3>5, <3>6
  <2>4. ASSUME n < Len(fs)
        PROVE  r.held < frame_size(fs[n + 1]) /\ (fs[n + 1].length > max => r.held < FRAME_HEADER_SIZE)
    <3>1. n \in looked /\ n + 1 \in 1..Len(fs) /\ n + 1 \in 0..Len(fs) /\ (n + 1) - 1 = n
      BY <1>1, <2>4
    <3>2. octets(fs, n + 1) = octets(fs, n) + frame_size(fs[n + 1]) /\ octets(fs, n) \in Nat
      BY <1>1, <3>1, OctetsSum
    <3>3. ~(octets(fs, n + 1) <= held)
      BY <1>1, <1>2, <3>1
    <3>4. frame_size(fs[n + 1]) \in Nat /\ FRAME_HEADER_SIZE \in Nat /\ fs[n + 1].length \in Nat
      <4>1. fs[n + 1] \in WireFrames
        BY <3>1
      <4> QED BY <4>1, FrameSize
    <3>5. r.held < frame_size(fs[n + 1])
      BY <2>1, <3>2, <3>3, <3>4
    <3>6. held - octets(fs, n) >= FRAME_HEADER_SIZE => fs[n + 1].length <= max
      <4> HIDE DEF looked
      <4> QED BY <2>2, <3>1
    <3> QED BY <2>1, <3>2, <3>4, <3>5, <3>6
  <2>5. Pushed(r, fs, held, max)
    BY <2>1, <2>3, <2>4 DEF Pushed, n
  <2> QED BY <2>5 DEF r
<1> QED BY <1>5, <1>6

-----------------------------------------------------------------------------
(* The state that a call works on *)

\* What may be queued, and what the outbound channel holds.
Queueable == Frames \cup Growths
Sendable == WireForms(Types) \cup {Preface}
serialized(f) == IF f = Preface THEN Preface ELSE serialize_frame(f)

Blocks == [stream : Nat, promised : Ids \cup {None}, size : Nat]
Conns ==
    [closed : BOOLEAN, going_away : BOOLEAN, block : Blocks \cup {None}, promised : Ids,
     max_frame_size : MAX_FRAME_SIZE_RANGE, next_stream_id : Nat, ping_counter : Nat]
Codes == DOMAIN ErrorCode
Meanings == {parse_payload(w) : w \in WireFrames}
States ==
    [conn : Conns, log : Seq(Meanings), out : Seq(Sendable), queued : Seq(Queueable \cup {Preface}),
     cause : Codes \cup {None, "GOAWAY", "EOF", "WRITE_ERROR"}, err : Codes \cup {None}]

\* What is written, in whole or in part, and what waits, is what was queued.
Linked(pre, waiting, q) ==
    /\ Len(pre) + Len(waiting) = Len(q)
    /\ \A i \in 1..Len(pre) : pre[i] = serialized(q[i])
    /\ \A i \in 1..Len(waiting) : waiting[i] = serialized(q[Len(pre) + i])

\* A frame that CONTINUATION must follow.
Opens(f) == f.type \in {"HEADERS", "CONTINUATION"} /\ ~f.end_headers

\* Only the third frame may be one that is not read back.
Placed(f, i) == f \in Queueable /\ (f \in Frames \/ i = 3)

\* The preface and SETTINGS first, and no header block open.
Framed(q) ==
    /\ Len(q) >= 2 /\ q[1] = Preface /\ q[2].type = "SETTINGS"
    /\ \A i \in 2..Len(q) : Placed(q[i], i) /\ (q[i].type = "CONTINUATION" <=> Opens(q[i - 1]))
    /\ ~Opens(q[Len(q)])

\* The reason for which the client ended the connection is the last thing it says.
Explained(s) ==
    s.cause \in Codes =>
        s.conn.closed /\ LET f == s.queued[Len(s.queued)] IN f.type = "GOAWAY" /\ f.code = code_word(s.cause)

Good(s, pre) == s \in States /\ Linked(pre, s.out, s.queued) /\ Framed(s.queued) /\ Explained(s)

\* The codes, and their words.
LEMMA CodesAre ==
  /\ Codes = {"NO_ERROR", "PROTOCOL_ERROR", "FLOW_CONTROL_ERROR", "FRAME_SIZE_ERROR",
              "REFUSED_STREAM", "ENHANCE_YOUR_CALM"}
  /\ \A c \in Codes : code_word(c) \in Words /\ c # None
<1>1. Codes = {"NO_ERROR", "PROTOCOL_ERROR", "FLOW_CONTROL_ERROR", "FRAME_SIZE_ERROR",
              "REFUSED_STREAM", "ENHANCE_YOUR_CALM"}
  BY DEF Codes, ErrorCode
<1>2. \A c \in Codes : ErrorCode[c] \in Nat
  BY <1>1 DEF ErrorCode
<1>3. \A c \in Codes : code_word(c) \in Words
  BY <1>2, Written DEF code_word
<1>4. \A c \in Codes : c # None
  BY NoneAssumption DEF Codes
<1> QED BY <1>1, <1>3, <1>4

\* A frame that is queued is written in a form of its type.
LEMMA SerializedTyped ==
  ASSUME NEW f \in Queueable
  PROVE  f # Preface /\ f.type \in Types /\ serialized(f) = serialize_frame(f)
         /\ serialize_frame(f) \in WireForms(Types) /\ serialize_frame(f).type = f.type
<1> DEFINE w == serialize_frame(f)
           Fl == SUBSET Nat
           Ws == Seq(Words)
           Ps == Seq(Nat \X Words)
<1>0. /\ \A v \in Ids : v \in Nat
      /\ \A n \in Lengths \cup (0..MAX_LENGTH - 4) \cup (0..MAX_LENGTH - 8) : n \in Nat
  BY CodecAssumption DEF Ids, Lengths
<1>1. \A t, fl, n, l, ws, ps :
        LET v == Wire(t, fl, n, l, ws, ps) IN
        /\ v = [type |-> v.type, flags |-> v.flags, stream |-> v.stream, length |-> v.length, pad |-> v.pad,
                words |-> v.words, pairs |-> v.pairs]
        /\ v.type = t /\ v.flags = fl /\ v.stream = word31(n) /\ v.length = u24(l) /\ v.pad = 0
        /\ v.words = ws /\ v.pairs = ps
  BY DEF Wire
<1>2. \A b : flag(b, END_STREAM) \in Fl /\ flag(b, END_HEADERS) \in Fl
             /\ flag(b, PRIORITY) \in Fl /\ flag(b, ACK) \in Fl
  BY DEF flag, END_STREAM, END_HEADERS, PRIORITY, ACK
<1>3. <<>> \in Ws /\ <<>> \in Ps /\ {} \in Fl
  OBVIOUS
<1>4. (\A n \in Nat : word31(n) \in Words) /\ (\A l \in Nat : u24(l) \in Lengths)
  BY Written DEF Lengths
<1>5. \A x \in Words : <<x>> \in Ws
  OBVIOUS
<1>6. \A x \in Words, y \in Words : <<x, y>> \in Ws
  OBVIOUS
<1>7. \A p \in Priorities : priority_words(p) \in Ws
  <2> TAKE p \in Priorities
  <2>1. p.dependency \in Ids /\ p.weight - 1 \in 0..255
    BY DEF Priorities
  <2>2. p.dependency % HIGH_BIT \in Ids /\ octet(p.weight - 1) \in Words
    BY <2>1, Written
  <2>3. <<IF p.exclusive THEN 1 ELSE 0, p.dependency % HIGH_BIT>> \in Words
    BY <2>2 DEF Words
  <2> QED BY <1>6, <2>2, <2>3 DEF priority_words
<1>8. ASSUME w.type \in Types, w.flags \in Fl, w.stream \in Words, w.length \in Lengths, w.words \in Ws, w.pairs \in Ps,
             \E t, fl, n, l, ws, ps : w = Wire(t, fl, n, l, ws, ps)
      PROVE  w \in WireForms(Types)
  <2>1. PICK t, fl, n, l, ws, ps : w = Wire(t, fl, n, l, ws, ps)
    BY <1>8
  <2> HIDE DEF w
  <2>2. /\ w = [type |-> w.type, flags |-> w.flags, stream |-> w.stream, length |-> w.length, pad |-> w.pad,
                words |-> w.words, pairs |-> w.pairs]
        /\ w.pad = 0
    BY <1>1, <2>1
  <2> HIDE DEF Fl, Ws, Ps
  <2>3. w.type \in Types /\ w.flags \in Fl /\ w.stream \in Words /\ w.length \in Lengths /\ w.words \in Ws /\ w.pairs \in Ps
    BY <1>8
  <2>4. w \in [type : Types, flags : Fl, stream : Words, length : Lengths, pad : Nat, words : Ws, pairs : Ps]
    BY <2>2, <2>3
  <2> QED BY <2>4 DEF WireForms, Fl, Ws, Ps, Lengths
<1> HIDE DEF Fl, Ws, Ps
<1>9. f.type \in Types /\ w \in WireForms(Types) /\ w.type = f.type
  <2>1. CASE f \in DataFrames
    <3>1. f.type = "DATA" /\ f.stream \in Nat /\ f.data \in Nat
      BY <2>1, <1>0 DEF DataFrames
    <3>2. w = Wire(f.type, flag(f.end_stream, END_STREAM), f.stream, f.data, <<>>, <<>>)
      BY <3>1, Serialized
    <3>3. w.type = "DATA" /\ w.flags \in Fl /\ w.stream \in Words /\ w.length \in Lengths /\ w.words \in Ws
          /\ w.pairs \in Ps
      BY <1>2, <1>1, <1>3, <1>4, <3>1, <3>2
    <3> HIDE DEF w
    <3> QED BY <1>8, <3>1, <3>2, <3>3 DEF Types
  <2>2. CASE f \in HeadersFrames
    <3> DEFINE p == f.priority # None
               fl == flag(f.end_headers, END_HEADERS) \cup flag(f.end_stream, END_STREAM) \cup flag(p, PRIORITY)
               l == f.data + (IF p THEN 5 ELSE 0)
               ws == IF p THEN priority_words(f.priority) ELSE <<>>
    <3>1. f.type = "HEADERS" /\ f.stream \in Nat /\ f.data \in Nat /\ f.priority \in Priorities \cup {None}
      BY <2>2, <1>0 DEF HeadersFrames
    <3>2. fl \in Fl /\ l \in Nat
      BY <1>2, <3>1 DEF Fl
    <3>3. ws \in Ws
      BY <1>3, <1>7, <3>1
    <3>4. w = Wire(f.type, fl, f.stream, l, ws, <<>>)
      BY <3>1, Serialized
    <3> HIDE DEF fl, l, ws, w
    <3> QED BY <1>1, <1>3, <1>4, <1>8, <3>1, <3>2, <3>3, <3>4 DEF Types
  <2>3. CASE f \in PriorityFrames
    <3>1. f.type = "PRIORITY" /\ f.stream \in Nat /\ f.priority \in Priorities
      BY <2>3, <1>0 DEF PriorityFrames
    <3>2. w = Wire(f.type, {}, f.stream, 5, priority_words(f.priority), <<>>)
      BY <3>1, Serialized
    <3>3. w.type = "PRIORITY" /\ w.flags \in Fl /\ w.stream \in Words /\ w.length \in Lengths /\ w.words \in Ws
          /\ w.pairs \in Ps
      BY <1>1, <1>3, <1>4, <1>7, <3>1, <3>2
    <3> HIDE DEF w
    <3> QED BY <1>8, <3>1, <3>2, <3>3 DEF Types
  <2>4. CASE f \in RstFrames
    <3>1. f.type = "RST_STREAM" /\ f.stream \in Nat /\ f.code \in Words
      BY <2>4, <1>0 DEF RstFrames
    <3>2. w = Wire(f.type, {}, f.stream, 4, <<f.code>>, <<>>)
      BY <3>1, Serialized
    <3>3. w.type = "RST_STREAM" /\ w.flags \in Fl /\ w.stream \in Words /\ w.length \in Lengths /\ w.words \in Ws
          /\ w.pairs \in Ps
      BY <1>1, <1>3, <1>4, <1>5, <3>1, <3>2
    <3> HIDE DEF w
    <3> QED BY <1>8, <3>1, <3>2, <3>3 DEF Types
  <2>5. CASE f \in SettingsFrames
    <3>1. NoSettings \in Settings
      BY DEF NoSettings, Settings, SettingIds
    <3>2. f.type = "SETTINGS" /\ f.settings \in Settings
      BY <2>5, <3>1 DEF SettingsFrames
    <3> DEFINE ps == setting_pairs(f.settings)
    <3>3. ps \in Seq(SettingIds \X Words)
      BY <3>2, SettingPairs
    <3> HIDE DEF ps
    <3>4. SettingIds \X Words \in SUBSET (Nat \X Words)
      BY DEF SettingIds
    <3>5. ps \in Ps /\ 6 * Len(ps) \in Nat
      <4> DEFINE A == SettingIds \X Words
                 B == Nat \X Words
      <4>1. ps \in Seq(A) /\ A \in SUBSET B
        BY <3>3, <3>4
      <4> HIDE DEF A, B
      <4>2. ps \in Seq(B) /\ 6 * Len(ps) \in Nat
        BY <4>1
      <4> QED BY <4>2 DEF B, Ps
    <3>6. w = Wire(f.type, flag(f.ack, ACK), 0, 6 * Len(ps), <<>>, ps)
      BY <3>2, Serialized DEF ps
    <3> HIDE DEF w
    <3> QED BY <1>1, <1>2, <1>3, <1>4, <1>8, <3>2, <3>5, <3>6 DEF Types
  <2>6. CASE f \in PromiseFrames
    <3>1. f.type = "PUSH_PROMISE" /\ f.stream \in Nat /\ f.promised \in Nat /\ f.data \in Nat
      BY <2>6, <1>0 DEF PromiseFrames
    <3>2. w = Wire(f.type, flag(f.end_headers, END_HEADERS), f.stream, 4 + f.data, <<word31(f.promised)>>, <<>>)
      BY <3>1, Serialized
    <3>3. w.type = "PUSH_PROMISE" /\ w.flags \in Fl /\ w.stream \in Words /\ w.length \in Lengths /\ w.words \in Ws
          /\ w.pairs \in Ps
      BY <1>2, <1>1, <1>3, <1>4, <1>5, <3>1, <3>2
    <3> HIDE DEF w
    <3> QED BY <1>8, <3>1, <3>2, <3>3 DEF Types
  <2>7. CASE f \in PingFrames
    <3>1. f.type = "PING" /\ f.opaque \in Words
      BY <2>7 DEF PingFrames
    <3>2. w = Wire(f.type, flag(f.ack, ACK), 0, 8, <<f.opaque>>, <<>>)
      BY <3>1, Serialized
    <3>3. w.type = "PING" /\ w.flags \in Fl /\ w.stream \in Words /\ w.length \in Lengths /\ w.words \in Ws
          /\ w.pairs \in Ps
      BY <1>2, <1>1, <1>3, <1>4, <1>5, <3>1, <3>2
    <3> HIDE DEF w
    <3> QED BY <1>8, <3>1, <3>2, <3>3 DEF Types
  <2>8. CASE f \in GoawayFrames
    <3>1. f.type = "GOAWAY" /\ f.last \in Nat /\ f.code \in Words /\ f.data \in Nat
      BY <2>8, <1>0 DEF GoawayFrames
    <3>2. w = Wire(f.type, {}, 0, 8 + f.data, <<word31(f.last), f.code>>, <<>>)
      BY <3>1, Serialized
    <3>3. w.type = "GOAWAY" /\ w.flags \in Fl /\ w.stream \in Words /\ w.length \in Lengths /\ w.words \in Ws
          /\ w.pairs \in Ps
      BY <1>1, <1>3, <1>4, <1>6, <3>1, <3>2
    <3> HIDE DEF w
    <3> QED BY <1>8, <3>1, <3>2, <3>3 DEF Types
  <2>9. CASE f \in WindowFrames \cup Growths
    <3>1. f.type = "WINDOW_UPDATE" /\ f.stream \in Nat /\ f.increment \in Nat
      BY <2>9, <1>0 DEF WindowFrames, Growths
    <3>2. w = Wire(f.type, {}, f.stream, 4, <<word31(f.increment)>>, <<>>)
      BY <3>1, Serialized
    <3>3. w.type = "WINDOW_UPDATE" /\ w.flags \in Fl /\ w.stream \in Words /\ w.length \in Lengths /\ w.words \in Ws
          /\ w.pairs \in Ps
      BY <1>1, <1>3, <1>4, <1>5, <3>1, <3>2
    <3> HIDE DEF w
    <3> QED BY <1>8, <3>1, <3>2, <3>3 DEF Types
  <2>10. CASE f \in ContinuationFrames
    <3>1. f.type = "CONTINUATION" /\ f.stream \in Nat /\ f.data \in Nat
      BY <2>10, <1>0 DEF ContinuationFrames
    <3>2. w = Wire(f.type, flag(f.end_headers, END_HEADERS), f.stream, f.data, <<>>, <<>>)
      BY <3>1, Serialized
    <3>3. w.type = "CONTINUATION" /\ w.flags \in Fl /\ w.stream \in Words /\ w.length \in Lengths /\ w.words \in Ws
          /\ w.pairs \in Ps
      BY <1>2, <1>1, <1>3, <1>4, <3>1, <3>2
    <3> HIDE DEF w
    <3> QED BY <1>8, <3>1, <3>2, <3>3 DEF Types
  <2> QED BY <2>1, <2>2, <2>3, <2>4, <2>5, <2>6, <2>7, <2>8, <2>9, <2>10 DEF Frames, Queueable
<1>10. f # Preface
  BY <1>9 DEF Preface, Types
<1> QED BY <1>9, <1>10 DEF serialized

\* Another connection state, which may be closed and is not opened again.
LEMMA GoodConn ==
  ASSUME NEW s, NEW pre, Good(s, pre), NEW c \in Conns, s.conn.closed => c.closed
  PROVE  LET t == [s EXCEPT !.conn = c] IN
         /\ Good(t, pre) /\ t.conn = c /\ t.log = s.log /\ t.err = s.err
<1> DEFINE t == [s EXCEPT !.conn = c]
<1>1. s \in States
  BY DEF Good
<1>2. t \in States /\ t.conn = c /\ t.log = s.log /\ t.err = s.err /\ t.out = s.out /\ t.queued = s.queued
      /\ t.cause = s.cause
  BY <1>1 DEF States
<1> HIDE DEF t
<1>3. Good(t, pre)
  BY <1>2 DEF Good, Explained
<1> QED BY <1>2, <1>3 DEF t

\* A frame more in the log.
LEMMA GoodLog ==
  ASSUME NEW s, NEW pre, Good(s, pre), NEW f \in Meanings
  PROVE  LET t == [s EXCEPT !.log = Append(@, f)] IN
         /\ Good(t, pre) /\ t.conn = s.conn /\ t.log = Append(s.log, f) /\ t.err = s.err
<1> DEFINE t == [s EXCEPT !.log = Append(@, f)]
<1>1. s \in States
  BY DEF Good
<1>2. Append(s.log, f) \in Seq(Meanings)
  <2>1. s.log \in Seq(Meanings)
    BY <1>1 DEF States
  <2> QED BY <2>1
<1>3. t \in States /\ t.conn = s.conn /\ t.log = Append(s.log, f) /\ t.err = s.err /\ t.out = s.out
      /\ t.queued = s.queued /\ t.cause = s.cause
  BY <1>1, <1>2 DEF States
<1> HIDE DEF t
<1>4. Good(t, pre)
  BY <1>3 DEF Good, Explained
<1> QED BY <1>3, <1>4 DEF t

\* An error.
LEMMA GoodFail ==
  ASSUME NEW s, NEW pre, Good(s, pre), NEW code \in Codes
  PROVE  LET t == fail(s, code) IN
         /\ Good(t, pre) /\ t.conn = s.conn /\ t.log = s.log /\ t.err = code
<1> DEFINE t == fail(s, code)
<1>1. s \in States
  BY DEF Good
<1>2. t \in States /\ t.conn = s.conn /\ t.log = s.log /\ t.err = code /\ t.out = s.out
      /\ t.queued = s.queued /\ t.cause = s.cause
  BY <1>1 DEF States, fail
<1> HIDE DEF t
<1>3. Good(t, pre)
  BY <1>2 DEF Good, Explained
<1> QED BY <1>2, <1>3 DEF t

\* A frame that is queued, of a type that is no part of a header block.
LEMMA GoodSend ==
  ASSUME NEW s, NEW pre, Good(s, pre), pre \in Seq(Sendable),
         NEW f \in Frames, f.type \notin {"HEADERS", "CONTINUATION"}
  PROVE  LET t == send_frame(s, f) IN
         /\ Good(t, pre) /\ t.conn = s.conn /\ t.log = s.log /\ t.err = s.err /\ t.cause = s.cause
         /\ ~s.conn.closed => t.queued[Len(t.queued)] = f
<1> DEFINE t == send_frame(s, f)
           w == serialize_frame(f)
<1>0. f \in Queueable
  BY DEF Queueable
<1>1. s \in States /\ s.out \in Seq(Sendable) /\ s.queued \in Seq(Queueable \cup {Preface})
  BY DEF Good, States
<1>2. CASE s.conn.closed
  BY <1>2 DEF send_frame
<1>3. CASE ~s.conn.closed
  <2>1. t = [s EXCEPT !.out = Append(@, w), !.queued = Append(@, f)]
    BY <1>3 DEF send_frame
  <2>2. w \in Sendable /\ serialized(f) = w
    BY <1>0, SerializedTyped DEF Sendable
  <2> HIDE DEF w
  <2>3. Append(s.out, w) \in Seq(Sendable) /\ Append(s.queued, f) \in Seq(Queueable \cup {Preface})
    <3> DEFINE Q == Queueable \cup {Preface}
    <3>1. f \in Q /\ s.queued \in Seq(Q)
      BY <1>0, <1>1
    <3> HIDE DEF Q
    <3>2. Append(s.queued, f) \in Seq(Q)
      BY <3>1
    <3> QED BY <1>1, <2>2, <3>2 DEF Q
  <2>4. /\ t \in States /\ t.conn = s.conn /\ t.log = s.log /\ t.err = s.err /\ t.cause = s.cause
        /\ t.out = Append(s.out, w) /\ t.queued = Append(s.queued, f)
    <3> DEFINE a == Append(s.out, w)
               b == Append(s.queued, f)
    <3>1. a \in Seq(Sendable) /\ b \in Seq(Queueable \cup {Preface})
      BY <2>3
    <3> HIDE DEF a, b
    <3>2. t = [s EXCEPT !.out = a, !.queued = b]
      BY <1>1, <2>1 DEF States, a, b
    <3> HIDE DEF t
    <3>3. /\ t \in States /\ t.conn = s.conn /\ t.log = s.log /\ t.err = s.err /\ t.cause = s.cause
          /\ t.out = a /\ t.queued = b
      BY <1>1, <3>1, <3>2 DEF States
    <3> QED BY <3>3 DEF a, b
  <2> HIDE DEF t
  <2> DEFINE n == Len(s.queued)
             q == Append(s.queued, f)
             o == Append(s.out, w)
  <2>5. n \in Nat /\ Len(q) = n + 1 /\ q[n + 1] = f /\ \A i \in 1..n : q[i] = s.queued[i]
    BY <1>1
  <2>6. /\ Len(s.out) \in Nat /\ Len(o) = Len(s.out) + 1 /\ o[Len(s.out) + 1] = w
        /\ \A i \in 1..Len(s.out) : o[i] = s.out[i]
    BY <1>1, <2>2
  <2>7. Linked(pre, s.out, s.queued) /\ Framed(s.queued)
    BY DEF Good
  <2> HIDE DEF n, q, o
  <2>8. Linked(pre, o, q)
    <3>1. Len(pre) \in Nat /\ Len(pre) + Len(s.out) = n
      BY <2>7 DEF Linked, n
    <3>2. Len(pre) + Len(o) = Len(q)
      <4>1. \A a, b, c \in Nat : a + b = c => a + (b + 1) = c + 1
        OBVIOUS
      <4>2. n \in Nat /\ Len(q) = n + 1 /\ Len(s.out) \in Nat /\ Len(o) = Len(s.out) + 1
        BY <2>5, <2>6
      <4> QED BY <3>1, <4>1, <4>2
    <3>3. \A i \in 1..Len(pre) : pre[i] = serialized(q[i])
      BY <2>5, <2>6, <2>7, <3>1 DEF Linked
    <3>4. ASSUME NEW i \in 1..Len(o) PROVE o[i] = serialized(q[Len(pre) + i])
      <4>1. CASE i = Len(s.out) + 1
        BY <2>2, <2>5, <2>6, <3>1, <4>1
      <4>2. CASE i # Len(s.out) + 1
        <5>1. i \in 1..Len(s.out) /\ Len(pre) + i \in 1..n
          BY <2>5, <2>6, <3>1, <4>2
        <5> QED BY <2>5, <2>6, <2>7, <5>1 DEF Linked
      <4> QED BY <4>1, <4>2
    <3> QED BY <3>2, <3>3, <3>4 DEF Linked
  <2>9. Framed(q)
    <3>1. n >= 2 /\ q[1] = Preface /\ q[2].type = "SETTINGS" /\ Len(q) >= 2
      BY <2>5, <2>7 DEF Framed, n
    <3>2. ~Opens(f) /\ f.type # "CONTINUATION"
      BY DEF Opens
    <3>3. ASSUME NEW i \in 2..Len(q)
          PROVE  Placed(q[i], i) /\ (q[i].type = "CONTINUATION" <=> Opens(q[i - 1]))
      <4>1. CASE i = n + 1
        <5>1. i - 1 = n /\ q[n] = s.queued[n] /\ q[i] = f /\ ~Opens(s.queued[n])
          BY <2>5, <2>7, <3>1, <4>1 DEF Framed, n
        <5> QED BY <1>0, <3>2, <5>1 DEF Placed
      <4>2. CASE i # n + 1
        <5>1. i \in 2..n /\ i \in 1..n /\ i - 1 \in 1..n
          BY <2>5, <3>1, <4>2
        <5>2. q[i] = s.queued[i] /\ q[i - 1] = s.queued[i - 1]
          BY <2>5, <5>1
        <5>3. Placed(s.queued[i], i) /\ (s.queued[i].type = "CONTINUATION" <=> Opens(s.queued[i - 1]))
          BY <2>7, <5>1 DEF Framed, n
        <5> QED BY <5>2, <5>3
      <4> QED BY <4>1, <4>2
    <3>4. ~Opens(q[Len(q)])
      BY <2>5, <3>2
    <3> QED BY <3>1, <3>3, <3>4 DEF Framed
  <2>10. Explained(t)
    BY <1>3, <2>4 DEF Explained, Good
  <2>11. Good(t, pre)
    BY <2>4, <2>8, <2>9, <2>10 DEF Good, q, o
  <2>12. t.queued[Len(t.queued)] = f
    BY <2>4, <2>5 DEF q
  <2> QED BY <2>4, <2>11, <2>12 DEF t
<1> QED BY <1>2, <1>3

\* The connection is closed: by the peer or the transport, or after a GOAWAY.
LEMMA GoodDestroy ==
  ASSUME NEW s, NEW pre, Good(s, pre), NEW why \in Codes \cup {"GOAWAY", "EOF", "WRITE_ERROR"},
         ~s.conn.closed /\ why \in Codes =>
            LET f == s.queued[Len(s.queued)] IN f.type = "GOAWAY" /\ f.code = code_word(why)
  PROVE  LET t == destroy(s, why) IN
         /\ Good(t, pre) /\ t.conn.closed /\ t.log = s.log /\ t.err = s.err
         /\ t.out = s.out /\ t.queued = s.queued
<1> DEFINE t == destroy(s, why)
           c == [s.conn EXCEPT !.closed = TRUE]
<1>1. s \in States /\ s.conn \in Conns
  BY DEF Good, States
<1>2. CASE s.conn.closed
  BY <1>2 DEF destroy
<1>3. CASE ~s.conn.closed
  <2>1. t = [s EXCEPT !.conn.closed = TRUE, !.cause = why]
    BY <1>3 DEF destroy
  <2>2. c \in Conns /\ c.closed
    BY <1>1 DEF Conns
  <2>3. t = [s EXCEPT !.conn = c, !.cause = why]
    BY <1>1, <2>1 DEF States
  <2> HIDE DEF c, t
  <2>4. /\ t \in States /\ t.conn = c /\ t.log = s.log /\ t.err = s.err /\ t.out = s.out
        /\ t.queued = s.queued /\ t.cause = why
    BY <1>1, <2>2, <2>3 DEF States
  <2>5. Explained(t)
    BY <1>3, <2>2, <2>4 DEF Explained
  <2>6. Good(t, pre)
    BY <2>4, <2>5 DEF Good
  <2> QED BY <2>2, <2>4, <2>6 DEF t
<1> QED BY <1>2, <1>3

\* A GOAWAY can be queued.
LEMMA GoawayFrame ==
  ASSUME NEW s \in States, NEW code \in Codes
  PROVE  LET f == goaway(s, code) IN f \in Frames /\ f.type = "GOAWAY" /\ f.code = code_word(code)
<1>1. s.conn.promised \in Ids /\ code_word(code) \in Words /\ 0 \in 0..MAX_LENGTH - 8
  BY CodesAre, CodecAssumption DEF States, Conns
<1> QED BY <1>1 DEF goaway, Frames, GoawayFrames

\* A GOAWAY with the reason, and the connection is closed.
LEMMA GoodConnectionError ==
  ASSUME NEW s, NEW pre, Good(s, pre), pre \in Seq(Sendable), NEW code \in Codes
  PROVE  LET t == connection_error(s, code) IN
         Good(t, pre) /\ t.conn.closed /\ t.log = s.log
<1> DEFINE f == goaway(s, code)
           u == send_frame(s, f)
           t == destroy(u, code)
<1>1. f \in Frames /\ f.type = "GOAWAY" /\ f.code = code_word(code)
  BY GoawayFrame DEF Good
<1> HIDE DEF f
<1>2. /\ Good(u, pre) /\ u.conn = s.conn /\ u.log = s.log
      /\ ~s.conn.closed => u.queued[Len(u.queued)] = f
  BY <1>1, GoodSend
<1> HIDE DEF u
<1>3. Good(t, pre) /\ t.conn.closed /\ t.log = u.log
  BY <1>1, <1>2, GoodDestroy
<1> QED BY <1>2, <1>3 DEF connection_error, f, u, t

\* A stream that is refused or reset.
LEMMA GoodReset ==
  ASSUME NEW s, NEW pre, Good(s, pre), pre \in Seq(Sendable), NEW id \in Ids, NEW code \in Codes
  PROVE  LET t == reset_stream(s, id, code) IN
         /\ Good(t, pre) /\ t.conn = s.conn /\ t.log = s.log /\ t.err = s.err
<1> DEFINE f == [type |-> "RST_STREAM", stream |-> id, code |-> code_word(code)]
<1>1. f \in RstFrames /\ f.type = "RST_STREAM"
  BY CodesAre DEF RstFrames
<1>2. f \in Frames /\ f.type \notin {"HEADERS", "CONTINUATION"}
  BY <1>1 DEF Frames
<1>3. reset_stream(s, id, code) = send_frame(s, f)
  BY DEF reset_stream
<1> HIDE DEF f
<1> QED BY <1>2, <1>3, GoodSend

\* The peer's SETTINGS: an error, or perhaps another size of frames.
LEMMA GoodSettings ==
  ASSUME NEW s, NEW pre, Good(s, pre), NEW v
  PROVE  LET t == apply_remote_settings(s, v) IN Good(t, pre) /\ t.log = s.log
<1> DEFINE c == [s.conn EXCEPT !.max_frame_size = v[5][2]]
<1>1. CASE apply_remote_settings(s, v) \in {fail(s, "FLOW_CONTROL_ERROR"), fail(s, "PROTOCOL_ERROR")}
  <2>1. "FLOW_CONTROL_ERROR" \in Codes /\ "PROTOCOL_ERROR" \in Codes
    BY CodesAre
  <2> QED BY <1>1, <2>1, GoodFail
<1>2. CASE apply_remote_settings(s, v) = s
  BY <1>2
<1>3. CASE /\ v[5][2] \in MAX_FRAME_SIZE_RANGE
           /\ apply_remote_settings(s, v) = [s EXCEPT !.conn.max_frame_size = v[5][2]]
  <2>1. s \in States /\ s.conn \in Conns
    BY DEF Good, States
  <2>2. c \in Conns /\ c.closed = s.conn.closed
    BY <1>3, <2>1 DEF Conns
  <2>3. apply_remote_settings(s, v) = [s EXCEPT !.conn = c]
    BY <1>3, <2>1 DEF States
  <2> HIDE DEF c
  <2> QED BY <2>2, <2>3, GoodConn
<1>4. \/ apply_remote_settings(s, v) \in {fail(s, "FLOW_CONTROL_ERROR"), fail(s, "PROTOCOL_ERROR")}
      \/ apply_remote_settings(s, v) = s
      \/ /\ v[5][2] \in MAX_FRAME_SIZE_RANGE
         /\ apply_remote_settings(s, v) = [s EXCEPT !.conn.max_frame_size = v[5][2]]
  BY Zenon DEF apply_remote_settings
<1> QED BY <1>1, <1>2, <1>3, <1>4

\* A header block begun, continued or completed.
LEMMA GoodBlock ==
  ASSUME NEW s, NEW pre, Good(s, pre), pre \in Seq(Sendable), NEW b \in Blocks, NEW end
  PROVE  LET t == header_block(s, b, end) IN Good(t, pre) /\ t.log = s.log
<1> DEFINE u == [s EXCEPT !.conn.block = b]
           c == [s.conn EXCEPT !.block = b]
<1>1. s \in States /\ s.conn \in Conns
  BY DEF Good, States
<1>2. c \in Conns /\ c.closed = s.conn.closed /\ c.block = b
  BY <1>1 DEF Conns
<1>3. u = [s EXCEPT !.conn = c]
  BY <1>1 DEF States
<1> HIDE DEF c, u
<1>4. Good(u, pre) /\ u.log = s.log /\ u.conn = c
  BY <1>2, <1>3, GoodConn
<1>5. CASE header_block(s, b, end) = fail(u, "ENHANCE_YOUR_CALM")
  <2>1. "ENHANCE_YOUR_CALM" \in Codes
    BY CodesAre
  <2> QED BY <1>4, <1>5, <2>1, GoodFail
<1>6. CASE header_block(s, b, end) = u
  BY <1>4, <1>6
<1>7. CASE header_block(s, b, end) = complete_header_block(u)
  <2> DEFINE p == b.promised
             d == [c EXCEPT !.block = None]
             e == [d EXCEPT !.promised = IF p > @ THEN p ELSE @]
             v == [u EXCEPT !.conn.block = None]
             x == [v EXCEPT !.conn.promised = IF p > @ THEN p ELSE @]
  <2>1. u \in States /\ u.conn.block = b
    BY <1>2, <1>4 DEF Good
  <2>2. d \in Conns /\ d.closed = c.closed
    BY <1>2 DEF Conns
  <2>3. v = [u EXCEPT !.conn = d]
    BY <1>4, <2>1 DEF States
  <2>4. complete_header_block(u) = IF p = None THEN v ELSE reset_stream(x, p, "REFUSED_STREAM")
    BY <2>1 DEF complete_header_block
  <2> HIDE DEF d, v
  <2>5. Good(v, pre) /\ v.log = u.log /\ v.conn = d
    BY <1>4, <2>2, <2>3, GoodConn
  <2>6. CASE p = None
    <3> HIDE DEF p, x
    <3> QED BY <1>4, <1>7, <2>4, <2>5, <2>6
  <2>7. CASE p # None
    <3>1. p \in Ids
      BY <2>7 DEF Blocks
    <3>2. e \in Conns /\ e.closed = d.closed
      BY <2>2, <3>1 DEF Conns
    <3>3. v \in States
      BY <2>5 DEF Good
    <3>4. x = [v EXCEPT !.conn = e]
      BY <2>5, <3>3 DEF States
    <3> HIDE DEF e, x, p
    <3>5. Good(x, pre) /\ x.log = v.log
      BY <2>5, <3>2, <3>4, GoodConn
    <3>6. "REFUSED_STREAM" \in Codes
      BY CodesAre
    <3>7. LET t == reset_stream(x, p, "REFUSED_STREAM") IN Good(t, pre) /\ t.log = x.log
      BY <3>1, <3>5, <3>6, GoodReset
    <3> QED BY <1>4, <1>7, <2>4, <2>5, <2>7, <3>5, <3>7
  <2> QED BY <2>6, <2>7
<1> QED BY <1>5, <1>6, <1>7, Zenon DEF header_block, u

\* Every frame of the peer leaves a good state.
LEMMA GoodHandle ==
  ASSUME NEW s, NEW pre, Good(s, pre), pre \in Seq(Sendable), NEW f, PeerFrame(f)
  PROVE  LET t == handle(s, f) IN Good(t, pre) /\ t.log = s.log
<1> DEFINE t == handle(s, f)
<1>1. s \in States /\ s.conn \in Conns
  BY DEF Good, States
<1>2. "PROTOCOL_ERROR" \in Codes
  BY CodesAre
<1>3. CASE f.type = "SETTINGS" /\ ~f.ack
  <2> DEFINE u == apply_remote_settings(s, f.settings)
             ok == [type |-> "SETTINGS", ack |-> TRUE, settings |-> NoSettings]
  <2>1. t = IF u.err # None THEN u ELSE send_frame(u, ok)
    BY <1>3, Zenon DEF handle
  <2>2. Good(u, pre) /\ u.log = s.log
    BY GoodSettings
  <2>3. ok \in Frames /\ ok.type \notin {"HEADERS", "CONTINUATION"}
    BY DEF Frames, SettingsFrames
  <2> HIDE DEF u, ok, t
  <2>4. LET v == send_frame(u, ok) IN Good(v, pre) /\ v.log = u.log
    BY <2>2, <2>3, GoodSend
  <2>5. Good(t, pre) /\ t.log = s.log
    BY <2>1, <2>2, <2>4
  <2> QED BY <2>5 DEF t
<1>4. CASE f.type = "HEADERS"
  <2> DEFINE b == [stream |-> f.stream, promised |-> None, size |-> f.data]
  <2>1. f.stream \in Nat /\ f.data \in Nat
    BY <1>4, CodecAssumption DEF PeerFrame, Ids, Lengths
  <2>2. b \in Blocks
    BY <2>1 DEF Blocks
  <2>3. t = header_block(s, b, f.end_headers)
    BY <1>4, Zenon DEF handle
  <2> HIDE DEF b, t
  <2>4. Good(t, pre) /\ t.log = s.log
    BY <2>2, <2>3, GoodBlock
  <2> QED BY <2>4 DEF t
<1>5. CASE f.type = "PUSH_PROMISE"
  <2> DEFINE b == [stream |-> f.stream, promised |-> f.promised, size |-> f.data]
  <2>1. f.stream \in Nat /\ f.promised \in Ids /\ f.data \in Nat
    BY <1>5, CodecAssumption DEF PeerFrame, Ids, Lengths
  <2>2. b \in Blocks
    BY <2>1 DEF Blocks
  <2>3. t = header_block(s, b, f.end_headers)
    BY <1>5, Zenon DEF handle
  <2> HIDE DEF b, t
  <2>4. Good(t, pre) /\ t.log = s.log
    BY <2>2, <2>3, GoodBlock
  <2> QED BY <2>4 DEF t
<1>6. CASE f.type = "CONTINUATION"
  <2> DEFINE b == [s.conn.block EXCEPT !.size = @ + f.data]
  <2>1. t = IF s.conn.block # None /\ s.conn.block.stream = f.stream
            THEN header_block(s, b, f.end_headers) ELSE fail(s, "PROTOCOL_ERROR")
    BY <1>6, Zenon DEF handle
  <2>2. CASE s.conn.block # None
    <3>1. s.conn.block \in Blocks /\ f.data \in Nat
      BY <1>1, <1>6, <2>2, CodecAssumption DEF Conns, PeerFrame, Lengths
    <3>2. b \in Blocks
      BY <3>1 DEF Blocks
    <3> HIDE DEF b, t
    <3>3. Good(t, pre) /\ t.log = s.log
      BY <1>2, <2>1, <3>2, GoodBlock, GoodFail
    <3> QED BY <3>3 DEF t
  <2>3. CASE s.conn.block = None
    <3> HIDE DEF b, t
    <3>1. Good(t, pre) /\ t.log = s.log
      BY <1>2, <2>1, <2>3, GoodFail
    <3> QED BY <3>1 DEF t
  <2> QED BY <2>2, <2>3
<1>7. CASE f.type = "DATA" /\ f.data > 0
  <2> DEFINE g == [type |-> "WINDOW_UPDATE", stream |-> 0, increment |-> f.data]
  <2>0. f.data \in Ids /\ 0 \in Ids
    BY <1>7, CodecAssumption DEF PeerFrame, Ids, Lengths
  <2>1. g \in WindowFrames /\ g.type = "WINDOW_UPDATE"
    BY <2>0 DEF WindowFrames
  <2>2. g \in Frames /\ g.type \notin {"HEADERS", "CONTINUATION"}
    BY <2>1 DEF Frames
  <2>3. t = send_frame(s, g)
    BY <1>7, Zenon DEF handle
  <2> HIDE DEF g, t
  <2>4. Good(t, pre) /\ t.log = s.log
    BY <2>2, <2>3, GoodSend
  <2> QED BY <2>4 DEF t
<1>8. CASE f.type = "WINDOW_UPDATE" /\ f.increment = 0
  <2>1. t = IF f.stream = 0 THEN fail(s, "PROTOCOL_ERROR") ELSE reset_stream(s, f.stream, "PROTOCOL_ERROR")
    BY <1>8, Zenon DEF handle
  <2>2. f.stream \in Ids
    BY <1>8 DEF PeerFrame
  <2> HIDE DEF t
  <2>3. Good(t, pre) /\ t.log = s.log
    BY <1>2, <2>1, <2>2, GoodFail, GoodReset
  <2> QED BY <2>3 DEF t
<1>9. CASE f.type = "PING" /\ ~f.ack
  <2> DEFINE g == [f EXCEPT !.ack = TRUE]
  <2>1. f \in PingFrames
    BY <1>9 DEF PeerFrame
  <2>2. g \in PingFrames /\ g.type = "PING"
    BY <2>1 DEF PingFrames
  <2>3. g \in Frames /\ g.type \notin {"HEADERS", "CONTINUATION"}
    BY <2>2 DEF Frames
  <2>4. t = send_frame(s, g)
    BY <1>9, Zenon DEF handle
  <2> HIDE DEF g, t
  <2>5. Good(t, pre) /\ t.log = s.log
    BY <2>3, <2>4, GoodSend
  <2> QED BY <2>5 DEF t
<1>10. CASE f.type = "GOAWAY"
  <2> DEFINE c == [s.conn EXCEPT !.going_away = TRUE]
             u == [s EXCEPT !.conn.going_away = TRUE]
  <2>1. c \in Conns /\ c.closed = s.conn.closed
    BY <1>1 DEF Conns
  <2>2. u = [s EXCEPT !.conn = c]
    BY <1>1 DEF States
  <2>3. t = IF f.code # word32(0) THEN destroy(u, "GOAWAY") ELSE u
    BY <1>10, Zenon DEF handle
  <2> HIDE DEF c, u, t
  <2>4. Good(u, pre) /\ u.log = s.log
    BY <2>1, <2>2, GoodConn
  <2>5. "GOAWAY" \in Codes \cup {"GOAWAY", "EOF", "WRITE_ERROR"} /\ "GOAWAY" \notin Codes
    BY CodesAre
  <2>6. LET v == destroy(u, "GOAWAY") IN Good(v, pre) /\ v.log = u.log
    BY <2>4, <2>5, GoodDestroy
  <2>7. Good(t, pre) /\ t.log = s.log
    BY <2>3, <2>4, <2>6
  <2> QED BY <2>7 DEF t
<1>11. CASE /\ ~(f.type = "SETTINGS" /\ ~f.ack) /\ f.type # "HEADERS" /\ f.type # "PUSH_PROMISE"
            /\ f.type # "CONTINUATION" /\ ~(f.type = "DATA" /\ f.data > 0)
            /\ ~(f.type = "WINDOW_UPDATE" /\ f.increment = 0) /\ ~(f.type = "PING" /\ ~f.ack)
            /\ f.type # "GOAWAY"
  <2>1. t = s
    BY <1>11, Zenon DEF handle
  <2> QED BY <2>1
<1> QED BY <1>3, <1>4, <1>5, <1>6, <1>7, <1>8, <1>9, <1>10, <1>11

\* dispatch logs the frame and handles it, unless an earlier one failed.
LEMMA GoodDispatch ==
  ASSUME NEW s, NEW pre, Good(s, pre), pre \in Seq(Sendable), NEW f \in Meanings, PeerFrame(f)
  PROVE  LET t == dispatch(s, f) IN
         /\ Good(t, pre)
         /\ t.log = IF s.err = None THEN Append(s.log, f) ELSE s.log
         /\ t.err = None => s.err = None
<1> DEFINE u == [s EXCEPT !.log = Append(@, f)]
           t == dispatch(s, f)
<1>1. Good(u, pre) /\ u.log = Append(s.log, f) /\ u.err = s.err
  BY GoodLog
<1>2. CASE s.err # None
  <2>1. t = s
    BY <1>2 DEF dispatch
  <2> QED BY <1>2, <2>1
<1>3. CASE s.err = None
  <2>1. t \in {fail(u, "PROTOCOL_ERROR"), handle(u, f)}
    BY <1>3, Zenon DEF dispatch
  <2>2. "PROTOCOL_ERROR" \in Codes
    BY CodesAre
  <2> HIDE DEF u, t
  <2>3. Good(t, pre) /\ t.log = u.log
    BY <1>1, <2>1, <2>2, GoodFail, GoodHandle
  <2> QED BY <1>1, <1>3, <2>3 DEF t
<1> QED BY <1>2, <1>3

\* The log is l0 and the first j of fs.
Logged(l, l0, fs, j) ==
    /\ Len(l) = Len(l0) + j
    /\ \A i \in 1..Len(l0) : l[i] = l0[i]
    /\ \A i \in 1..j : l[Len(l0) + i] = fs[i]

\* One more is logged.
LEMMA LoggedAppend ==
  ASSUME NEW S, NEW l \in Seq(S), NEW l0 \in Seq(S), NEW fs \in Seq(S), NEW j \in 0..Len(fs), j < Len(fs),
         Logged(l, l0, fs, j)
  PROVE  Logged(Append(l, fs[j + 1]), l0, fs, j + 1)
<1> DEFINE m == Append(l, fs[j + 1])
<1>1. fs[j + 1] \in S /\ Len(l) \in Nat /\ Len(l0) \in Nat /\ Len(l) = Len(l0) + j
  BY DEF Logged
<1>2. Len(m) = Len(l) + 1 /\ m[Len(l) + 1] = fs[j + 1] /\ \A i \in 1..Len(l) : m[i] = l[i]
  BY <1>1
<1> HIDE DEF m
<1>3. Len(m) = Len(l0) + (j + 1)
  BY <1>1, <1>2
<1>4. \A i \in 1..Len(l0) : m[i] = l0[i]
  BY <1>1, <1>2 DEF Logged
<1>5. ASSUME NEW i \in 1..j + 1 PROVE m[Len(l0) + i] = fs[i]
  <2>1. CASE i = j + 1
    BY <1>1, <1>2, <2>1
  <2>2. CASE i # j + 1
    <3>1. i \in 1..j /\ Len(l0) + i \in 1..Len(l)
      BY <1>1, <2>2
    <3> QED BY <1>2, <3>1 DEF Logged
  <2> QED BY <2>1, <2>2
<1> QED BY <1>3, <1>4, <1>5 DEF Logged, m

\* The loop of on_bytes: the frames are logged up to the one that fails.
LEMMA GoodDispatchAll ==
  ASSUME NEW s, NEW pre, Good(s, pre), pre \in Seq(Sendable), s.err = None,
         NEW fs \in Seq(Meanings), \A i \in 1..Len(fs) : PeerFrame(fs[i])
  PROVE  LET t == dispatch_all(s, fs) IN
         /\ Good(t, pre)
         /\ \E j \in 0..Len(fs) : Logged(t.log, s.log, fs, j) /\ (t.err = None => j = Len(fs))
<1> DEFINE N == Len(fs)
           S == {u \in States : Good(u, pre)}
           step == [p \in S \X (1..N) |-> dispatch(p[1], fs[p[2]])]
           Is(f) == f = [n \in 0..N |-> IF n = 0 THEN s ELSE dispatch(f[n - 1], fs[n])]
           t == CHOOSE f : Is(f)
<1>1. N \in Nat /\ \A n \in 1..N : fs[n] \in Meanings /\ PeerFrame(fs[n])
  OBVIOUS
<1>2. \A u : u \in S <=> Good(u, pre)
  BY DEF Good
<1> HIDE DEF S
<1>3. \A u \in S, n \in 1..N : dispatch(u, fs[n]) \in S
  BY <1>1, <1>2, GoodDispatch
<1>4. s \in S /\ step \in [S \X (1..N) -> S]
  BY <1>2, <1>3
<1>5. PICK f : Iterates(f, S, N, s, step)
  <2> HIDE DEF step, N
  <2> QED BY <1>1, <1>4, IterateExists
<1>6. f \in [0..N -> S] /\ f[0] = s
  BY <1>5 DEF Iterates
<1>7. \A n \in 1..N : f[n] = dispatch(f[n - 1], fs[n])
  <2> TAKE n \in 1..N
  <2>1. n - 1 \in 0..N
    BY <1>1
  <2>2. <<f[n - 1], n>> \in S \X (1..N)
    BY <1>6, <2>1
  <2>3. f[n] = step[<<f[n - 1], n>>]
    BY <1>5 DEF Iterates
  <2> QED BY <2>2, <2>3
<1>8. Is(f)
  BY <1>1, <1>6, <1>7
<1>9. Is(t)
  BY <1>8
<1>10. dispatch_all(s, fs) = t[N]
  BY DEF dispatch_all
<1> HIDE DEF t
<1>11. t[0] = s /\ \A n \in 1..N : t[n] = dispatch(t[n - 1], fs[n])
  BY <1>1, <1>9
<1> DEFINE P(n) == /\ t[n] \in S
                   /\ \E j \in 0..n : Logged(t[n].log, s.log, fs, j) /\ (t[n].err = None => j = n)
           G == {n \in 0..N : P(n)}
<1>12. 0 \in G
  <2>1. s.log \in Seq(Meanings)
    BY DEF Good, States
  <2>2. Len(s.log) \in Nat /\ Len(s.log) = Len(s.log) + 0
    BY <2>1
  <2>3. Logged(s.log, s.log, fs, 0)
    BY <2>2 DEF Logged
  <2>4. P(0)
    BY <1>4, <1>11, <2>3
  <2> QED BY <1>1, <2>4
<1>13. ASSUME NEW n \in 0..N, n + 1 \in 0..N, n \in G PROVE n + 1 \in G
  <2> DEFINE u == t[n]
             v == t[n + 1]
             x == fs[n + 1]
  <2>1. n + 1 \in 1..N /\ (n + 1) - 1 = n /\ n < Len(fs) /\ n \in 0..Len(fs)
    BY <1>1, <1>13
  <2>2. x \in Meanings /\ PeerFrame(x) /\ v = dispatch(u, x)
    BY <1>1, <1>11, <2>1
  <2>3. Good(u, pre)
    BY <1>2, <1>13
  <2>4. PICK j \in 0..n : Logged(u.log, s.log, fs, j) /\ (u.err = None => j = n)
    BY <1>13
  <2>5. u.log \in Seq(Meanings) /\ s.log \in Seq(Meanings)
    BY <2>3 DEF Good, States
  <2> HIDE DEF u, v, x
  <2>6. Good(v, pre) /\ v.log = (IF u.err = None THEN Append(u.log, x) ELSE u.log) /\ (v.err = None => u.err = None)
    BY <2>2, <2>3, GoodDispatch
  <2>7. \E k \in 0..n + 1 : Logged(v.log, s.log, fs, k) /\ (v.err = None => k = n + 1)
    <3>1. CASE u.err = None
      <4>1. Logged(u.log, s.log, fs, n)
        BY <2>4, <3>1
      <4>2. Logged(Append(u.log, fs[n + 1]), s.log, fs, n + 1)
        BY <2>1, <2>5, <4>1, LoggedAppend
      <4>3. v.log = Append(u.log, fs[n + 1])
        BY <2>6, <3>1 DEF x
      <4>4. Logged(v.log, s.log, fs, n + 1)
        BY <4>2, <4>3
      <4>5. n + 1 \in 0..n + 1
        BY <2>1
      <4> QED BY <4>4, <4>5
    <3>2. CASE u.err # None
      <4>1. Logged(v.log, s.log, fs, j) /\ v.err # None
        BY <2>4, <2>6, <3>2
      <4>2. j \in 0..n + 1
        BY <2>1
      <4> QED BY <4>1, <4>2
    <3> QED BY <3>1, <3>2
  <2>8. P(n + 1)
    BY <1>2, <2>6, <2>7 DEF v
  <2> HIDE DEF P
  <2> QED BY <1>13, <2>8
<1>14. \A n \in 0..N : n \in G
  <2> HIDE DEF G
  <2> QED BY <1>1, <1>12, <1>13, UpTo
<1>15. P(N)
  <2> HIDE DEF P
  <2> QED BY <1>1, <1>14
<1> QED BY <1>2, <1>10, <1>15

-----------------------------------------------------------------------------
(* The header block of a request *)

\* The pieces that n octets make, none longer than max.
LEMMA PieceCount ==
  ASSUME NEW n \in Nat \ {0}, NEW max \in Nat \ {0}
  PROVE  LET N == (n + max - 1) \div max IN
         /\ N \in Nat /\ N >= 1 /\ n <= N * max
         /\ \A k \in 1..N : k < N => k * max < n
<1> DEFINE a == n + max - 1
           N == a \div max
<1>1. a \in Nat /\ a >= max
  OBVIOUS
<1>2. N \in Nat /\ N * max <= a /\ a < N * max + max
  <2> HIDE DEF a
  <2> QED BY <1>1
<1> HIDE DEF N
<1>3. n <= N * max
  BY <1>2
<1>4. N >= 1
  <2> SUFFICES ASSUME N = 0 PROVE FALSE
    BY <1>2
  <2>1. N * max = 0
    OBVIOUS
  <2> QED BY <1>3, <2>1
<1>5. ASSUME NEW k \in 1..N, k < N PROVE k * max < n
  <2>1. k + 1 <= N /\ (k + 1) * max <= N * max /\ (k + 1) * max = k * max + max
    BY <1>2, <1>5
  <2>2. k * max \in Nat /\ N * max \in Nat
    BY <1>2
  <2> QED BY <1>2, <2>1, <2>2
<1> QED BY <1>2, <1>3, <1>4, <1>5 DEF N

\* A HEADERS frame, CONTINUATIONs, and only the last ends the block.
OneBlock(fs) ==
    /\ fs \in Seq(Frames) /\ Len(fs) >= 1
    /\ \A k \in 1..Len(fs) : (fs[k].type = "CONTINUATION" <=> k # 1) /\ (Opens(fs[k]) <=> k # Len(fs))

LEMMA PiecesAre ==
  ASSUME NEW id \in Ids, NEW n \in Nat \ {0}, NEW max \in 1..MAX_LENGTH
  PROVE  OneBlock(pieces(id, n, max))
<1> DEFINE N == (n + max - 1) \div max
           fs == pieces(id, n, max)
           size(k) == IF k * max <= n THEN max ELSE n - (k - 1) * max
           first(k) == [type |-> "HEADERS", stream |-> id, data |-> size(k), end_stream |-> TRUE,
                        end_headers |-> n <= max, priority |-> None]
           more(k) == [type |-> "CONTINUATION", stream |-> id, data |-> size(k), end_headers |-> k * max >= n]
<1>0. max \in Nat \ {0} /\ max <= MAX_LENGTH /\ MAX_LENGTH \in Nat
  BY CodecAssumption
<1>1. N \in Nat /\ N >= 1 /\ n <= N * max /\ \A k \in 1..N : k < N => k * max < n
  BY <1>0, PieceCount
<1>2. fs = [k \in 1..N |-> IF k = 1 THEN first(k) ELSE more(k)]
  BY DEF pieces
<1> HIDE DEF N, fs
<1>3. ASSUME NEW k \in 1..N
      PROVE  size(k) \in Lengths /\ (k * max >= n <=> k = N) /\ (k = 1 => (n <= max <=> k = N))
  <2>1. k * max \in Int /\ (k < N => k * max < n) /\ (k = N => n <= k * max)
    BY <1>0, <1>1
  <2>2. (k * max >= n) <=> k = N
    BY <1>1, <2>1
  <2>3. k = 1 => k * max = max
    OBVIOUS
  <2>0. k * max = (k - 1) * max + max /\ (k - 1) * max \in Int
    BY <1>0, <1>1
  <2>4. size(k) \in Lengths
    <3>1. CASE k = 1
      <4>1. (k - 1) * max = 0
        BY <1>0, <3>1
      <4> QED BY <1>0, <2>0, <4>1 DEF Lengths
    <3>2. CASE k # 1
      <4>1. k - 1 \in 1..N /\ k - 1 < N
        BY <1>1, <3>2
      <4>2. (k - 1) * max < n /\ (k - 1) * max \in Int
        BY <1>0, <1>1, <4>1
      <4> QED BY <1>0, <2>0, <2>1, <4>2 DEF Lengths
    <3> QED BY <3>1, <3>2
  <2> QED BY <1>1, <2>1, <2>2, <2>3, <2>4
<1> HIDE DEF size
<1>4. ASSUME NEW k \in 1..N
      PROVE  fs[k] \in Frames /\ (fs[k].type = "CONTINUATION" <=> k # 1) /\ (Opens(fs[k]) <=> k # N)
  <2>1. CASE k = 1
    <3>1. fs[k] = first(k)
      BY <1>2, <2>1
    <3>2. first(k) \in HeadersFrames /\ first(k).type = "HEADERS" /\ first(k).end_headers = (n <= max)
      BY <1>3 DEF HeadersFrames
    <3> HIDE DEF first
    <3>3. first(k) \in Frames /\ first(k).type # "CONTINUATION"
      BY <3>2 DEF Frames
    <3>4. Opens(first(k)) <=> k # N
      BY <1>3, <2>1, <3>2 DEF Opens
    <3> QED BY <2>1, <3>1, <3>3, <3>4
  <2>2. CASE k # 1
    <3>1. fs[k] = more(k)
      BY <1>2, <2>2
    <3>2. more(k) \in ContinuationFrames /\ more(k).type = "CONTINUATION" /\ more(k).end_headers = (k * max >= n)
      BY <1>3 DEF ContinuationFrames
    <3> HIDE DEF more
    <3>3. more(k) \in Frames
      BY <3>2 DEF Frames
    <3>4. Opens(more(k)) <=> k # N
      BY <1>3, <3>2 DEF Opens
    <3> QED BY <2>2, <3>1, <3>2, <3>3, <3>4
  <2> QED BY <2>1, <2>2
<1>5. fs \in Seq(Frames) /\ Len(fs) = N
  <2>1. fs = [k \in 1..N |-> fs[k]]
    BY <1>2
  <2>2. \A k \in 1..N : fs[k] \in Frames
    BY <1>4
  <2> QED BY <1>1, <2>1, <2>2
<1>6. OneBlock(fs)
  BY <1>1, <1>4, <1>5 DEF OneBlock
<1> QED BY <1>6 DEF fs

\* The pieces of a block are queued one behind the other.
LEMMA GoodSendBlock ==
  ASSUME NEW s, NEW pre, Good(s, pre), pre \in Seq(Sendable), ~s.conn.closed, NEW fs, OneBlock(fs)
  PROVE  LET t == send_frames(s, fs) IN
         Good(t, pre) /\ t.conn = s.conn /\ t.log = s.log
<1> DEFINE t == send_frames(s, fs)
           ws == [i \in DOMAIN fs |-> serialize_frame(fs[i])]
           q == s.queued \o fs
           o == s.out \o ws
           Q == Queueable \cup {Preface}
           n == Len(s.queued)
           m == Len(fs)
           k == Len(s.out)
<1>1. s \in States /\ s.out \in Seq(Sendable) /\ s.queued \in Seq(Q) /\ n \in Nat /\ k \in Nat
  BY DEF Good, States
<1>2. fs \in Seq(Frames) /\ m \in Nat /\ m >= 1 /\ DOMAIN fs = 1..m /\ \A i \in 1..m : fs[i] \in Frames
  BY DEF OneBlock
<1>3. fs \in Seq(Q)
  <2>1. Frames \in SUBSET Q
    BY DEF Queueable
  <2> HIDE DEF Q
  <2> QED BY <1>2, <2>1
<1>4. /\ ws \in Seq(Sendable) /\ Len(ws) = m
      /\ \A i \in 1..m : ws[i] = serialized(fs[i])
  <2>1. ws = [i \in 1..m |-> serialize_frame(fs[i])]
    BY <1>2
  <2>2. \A i \in 1..m : serialize_frame(fs[i]) \in Sendable /\ serialize_frame(fs[i]) = serialized(fs[i])
    BY <1>2, SerializedTyped DEF Sendable, Queueable
  <2> HIDE DEF ws, m
  <2> QED BY <1>2, <2>1, <2>2
<1> HIDE DEF ws, Q
<1>5. /\ q \in Seq(Q) /\ Len(q) = n + m /\ \A i \in 1..n : q[i] = s.queued[i]
      /\ \A i \in 1..m : q[n + i] = fs[i]
  BY <1>1, <1>2, <1>3
<1>6. /\ o \in Seq(Sendable) /\ Len(o) = k + m /\ \A i \in 1..k : o[i] = s.out[i]
      /\ \A i \in 1..m : o[k + i] = ws[i]
  <2>1. SUFFICES ASSUME NEW a \in Seq(Sendable), NEW b \in Seq(Sendable)
                 PROVE  /\ a \o b \in Seq(Sendable) /\ Len(a \o b) = Len(a) + Len(b)
                        /\ \A i \in 1..Len(a) : (a \o b)[i] = a[i]
                        /\ \A i \in 1..Len(b) : (a \o b)[Len(a) + i] = b[i]
    <3> HIDE DEF m
    <3> QED BY <1>1, <1>4
  <2> QED OBVIOUS
<1>7. t = [s EXCEPT !.out = o, !.queued = q]
  BY <1>1 DEF send_frames, States, ws
<1> HIDE DEF q, o, t, m
<1>8. /\ t \in States /\ t.conn = s.conn /\ t.log = s.log /\ t.err = s.err /\ t.cause = s.cause
      /\ t.out = o /\ t.queued = q
  BY <1>1, <1>5, <1>6, <1>7 DEF States, Q
<1>9. Linked(pre, s.out, s.queued) /\ Framed(s.queued)
  BY DEF Good
<1>10. Linked(pre, o, q)
  <2>1. Len(pre) \in Nat /\ Len(pre) + k = n
    BY <1>9 DEF Linked
  <2>0. n \in Nat /\ k \in Nat /\ m \in Nat /\ Len(o) = k + m /\ Len(q) = n + m
    BY <1>1, <1>2, <1>5, <1>6
  <2>2. Len(pre) + Len(o) = Len(q)
    <3> HIDE DEF n, k
    <3> QED BY <2>0, <2>1
  <2>3. \A i \in 1..Len(pre) : pre[i] = serialized(q[i])
    BY <1>1, <1>5, <1>9, <2>1 DEF Linked
  <2>4. ASSUME NEW i \in 1..Len(o) PROVE o[i] = serialized(q[Len(pre) + i])
    <3>1. CASE i <= k
      <4>1. i \in 1..k /\ Len(pre) + i \in 1..n
        BY <1>1, <2>1, <3>1
      <4> QED BY <1>5, <1>6, <1>9, <4>1 DEF Linked
    <3>2. CASE ~(i <= k)
      <4> DEFINE j == i - k
      <4>1. j \in 1..m /\ i = k + j /\ Len(pre) + i = n + j
        <5> HIDE DEF n, k
        <5>1. i \in 1..k + m
          BY <2>0
        <5> QED BY <2>0, <2>1, <3>2, <5>1
      <4> HIDE DEF j
      <4> QED BY <1>4, <1>5, <1>6, <4>1, SMTT(30)
    <3> QED BY <3>1, <3>2
  <2> QED BY <2>2, <2>3, <2>4 DEF Linked
<1>11. Framed(q)
  <2>1. n >= 2 /\ q[1] = Preface /\ q[2].type = "SETTINGS" /\ Len(q) >= 2
    <3>1. n >= 2 /\ s.queued[1] = Preface /\ s.queued[2].type = "SETTINGS"
      BY <1>9 DEF Framed
    <3> HIDE DEF n
    <3>2. 1 \in 1..n /\ 2 \in 1..n
      BY <1>1, <3>1
    <3>3. Len(q) >= 2
      BY <1>1, <1>2, <1>5, <3>1
    <3> QED BY <1>5, <3>1, <3>2, <3>3
  <2>2. ASSUME NEW i \in 2..Len(q)
        PROVE  Placed(q[i], i) /\ (q[i].type = "CONTINUATION" <=> Opens(q[i - 1]))
    <3>1. CASE i <= n
      <4>1. i \in 2..n /\ i \in 1..n /\ i - 1 \in 1..n
        BY <1>1, <3>1
      <4>2. q[i] = s.queued[i] /\ q[i - 1] = s.queued[i - 1]
        BY <1>5, <4>1
      <4>3. Placed(s.queued[i], i) /\ (s.queued[i].type = "CONTINUATION" <=> Opens(s.queued[i - 1]))
        BY <1>9, <4>1 DEF Framed
      <4> QED BY <4>2, <4>3
    <3>2. CASE i = n + 1
      <4>1. 1 \in 1..m /\ n \in 1..n /\ i - 1 = n
        BY <1>1, <1>2, <2>1, <3>2
      <4>2. q[i] = fs[1] /\ q[i - 1] = s.queued[n]
        BY <1>5, <3>2, <4>1
      <4>3. fs[1].type # "CONTINUATION" /\ fs[1] \in Frames
        BY <1>2, <4>1 DEF OneBlock, m
      <4>4. ~Opens(s.queued[n])
        BY <1>9 DEF Framed
      <4> QED BY <4>2, <4>3, <4>4 DEF Placed, Queueable
    <3>3. CASE i > n + 1
      <4> DEFINE j == i - n
      <4>1. j \in 1..m /\ j - 1 \in 1..m /\ i = n + j /\ i - 1 = n + (j - 1) /\ j # 1 /\ j - 1 # m
        BY <1>1, <1>2, <1>5, <3>3
      <4> HIDE DEF j
      <4>2. q[i] = fs[j] /\ q[i - 1] = fs[j - 1]
        BY <1>5, <4>1
      <4>3. fs[j] \in Frames /\ fs[j].type = "CONTINUATION" /\ Opens(fs[j - 1])
        BY <1>2, <4>1 DEF OneBlock, m
      <4> QED BY <4>2, <4>3 DEF Placed, Queueable
    <3> QED BY <1>1, <3>1, <3>2, <3>3
  <2>3. ~Opens(q[Len(q)])
    <3>1. m \in 1..m
      BY <1>2
    <3>2. q[Len(q)] = fs[m]
      BY <1>5, <3>1
    <3> QED BY <3>1, <3>2 DEF OneBlock, m
  <2> QED BY <2>1, <2>2, <2>3 DEF Framed
<1>12. Explained(t)
  BY <1>8 DEF Explained, Good
<1>13. Good(t, pre)
  BY <1>8, <1>10, <1>11, <1>12 DEF Good
<1> QED BY <1>8, <1>13 DEF t

-----------------------------------------------------------------------------
(* The inductive invariant *)

\* The frames as the codec reads them.
ReadAs == [i \in DOMAIN wire |-> parse_payload(wire[i].octets)]

\* The first n are frames that the decoder accepts.
Accepted(n) ==
    \A k \in 1..n : Octets[k].length <= options.max_frame_size /\ ~IsError(parse_payload(Octets[k]))

FromScenario == \E sc \in Scenarios : options = sc.options /\ wire = sc.wire

\* As long as the connection is read, the decoder has all that has arrived and not
\* been taken, and that is less than a frame, or than a header if the frame is too long.
Position ==
    LET r == decoder.read IN
    /\ decoder.held + unread = octets(Octets, Len(wire)) - octets(Octets, r)
    /\ Accepted(r)
    /\ r < Len(wire) => /\ decoder.held < frame_size(Octets[r + 1])
                        /\ Octets[r + 1].length > options.max_frame_size => decoder.held < FRAME_HEADER_SIZE

DecoderInv ==
    /\ unread \in Nat /\ decoder \in [read : 0..Len(wire), held : Nat]
    /\ decoder.held < FRAME_HEADER_SIZE + options.max_frame_size
    /\ reading => Position

\* The log is a part of what was accepted, and all of it as long as there is a reader.
IsPart(l, d) ==
    LET p == present(ReadAs, d) IN Len(l) <= Len(p) /\ \A i \in 1..Len(l) : l[i] = p[i]
LogInv ==
    /\ reading => log = present(ReadAs, decoder.read)
    /\ \E d \in 0..Len(wire) : Accepted(d) /\ IsPart(log, d)

\* What the transport has taken or is taking.
Given == written \o (IF writing = None THEN <<>> ELSE <<writing>>)

QueueInv ==
    /\ written \in Seq(Sendable) /\ writing \in Sendable \cup {None}
    /\ State \in States /\ Framed(queued) /\ Explained(State)
    /\ driver # "failed" => Linked(Given, out, queued)
    /\ Len(written) <= Len(queued) /\ \A i \in 1..Len(written) : written[i] = serialized(queued[i])

DriverInv ==
    /\ driver \in {"running", "ended", "failed"} /\ reading \in BOOLEAN
    /\ driver # "running" => conn.closed
    /\ driver = "ended" => out = <<>> /\ writing = None
    /\ ~conn.closed => reading

Inv == FromScenario /\ DecoderInv /\ LogInv /\ QueueInv /\ DriverInv

\* What the peer sends, of any scenario, is a sequence of frames.
LEMMA WireTyped ==
  ASSUME FromScenario
  PROVE  /\ Len(wire) \in Nat /\ DOMAIN wire = 1..Len(wire)
         /\ Octets \in Seq(WireFrames) /\ Len(Octets) = Len(wire)
         /\ \A i \in 1..Len(wire) : WordsThere(Octets[i])
         /\ ReadAs \in Seq(Meanings) /\ Len(ReadAs) = Len(wire)
         /\ \A i \in 1..Len(wire) : ReadAs[i] = parse_payload(Octets[i])
         /\ options \in [header_table_size : Nat, enable_push : BOOLEAN, initial_window_size : Nat,
                         max_frame_size : Nat, connection_window_size : Nat]
<1>1. PICK sc \in Scenarios : options = sc.options /\ wire = sc.wire
  BY DEF FromScenario
<1>2. /\ options \in [header_table_size : Nat, enable_push : BOOLEAN, initial_window_size : Nat,
                      max_frame_size : Nat, connection_window_size : Nat]
      /\ wire \in Seq(Range(wire))
      /\ \A i \in DOMAIN wire : wire[i].octets \in WireFrames /\ WordsThere(wire[i].octets)
  BY <1>1, ScenarioAssumption DEF WordsThere
<1>3. Len(wire) \in Nat /\ DOMAIN wire = 1..Len(wire)
  BY <1>2
<1>4. Octets = [i \in 1..Len(wire) |-> wire[i].octets]
  BY <1>3 DEF Octets
<1>5. Octets \in Seq(WireFrames) /\ Len(Octets) = Len(wire) /\ \A i \in 1..Len(wire) : Octets[i] = wire[i].octets
  BY <1>2, <1>3, <1>4
<1>6. ReadAs = [i \in 1..Len(wire) |-> parse_payload(wire[i].octets)]
  BY <1>3 DEF ReadAs
<1>7. \A i \in 1..Len(wire) : parse_payload(wire[i].octets) \in Meanings
  BY <1>2, <1>3 DEF Meanings
<1>8. ReadAs \in Seq(Meanings) /\ Len(ReadAs) = Len(wire)
  BY <1>3, <1>6, <1>7
<1>9. \A i \in 1..Len(wire) : ReadAs[i] = parse_payload(Octets[i])
  BY <1>5, <1>6
<1> QED BY <1>2, <1>3, <1>5, <1>8, <1>9

\* The state of a driver that has not failed is a good one.
LEMMA StateIsGood ==
  ASSUME QueueInv, driver # "failed"
  PROVE  /\ Good(State, Given) /\ Given \in Seq(Sendable) /\ State.err = None
         /\ State.conn = conn /\ State.log = log
<1>1. Given \in Seq(Sendable)
  <2>1. CASE writing = None
    <3>1. Given = written \o <<>>
      BY <2>1 DEF Given
    <3> QED BY <3>1 DEF QueueInv
  <2>2. CASE writing # None
    <3>1. Given = written \o <<writing>> /\ writing \in Sendable /\ written \in Seq(Sendable)
      BY <2>2 DEF Given, QueueInv
    <3> QED BY <3>1
  <2> QED BY <2>1, <2>2
<1>2. State.out = out /\ State.queued = queued /\ State.err = None /\ State.conn = conn /\ State.log = log
  BY DEF State
<1>3. Good(State, Given)
  BY <1>2 DEF Good, QueueInv
<1> QED BY <1>1, <1>2, <1>3

\* A call that leaves a good state keeps the invariant of the queue.
LEMMA QueueKept ==
  ASSUME QueueInv, driver # "failed", NEW t, Good(t, Given), Becomes(t), written' = written,
         writing' = writing \/ (writing' = None /\ driver' = "failed")
  PROVE  QueueInv'
<1>1. /\ t \in States /\ Linked(Given, t.out, t.queued) /\ Framed(t.queued) /\ Explained(t)
  BY DEF Good
<1>2. out' = t.out /\ queued' = t.queued /\ conn' = t.conn /\ log' = t.log /\ cause' = t.cause
  BY DEF Becomes
<1>3. State' = [conn |-> t.conn, log |-> t.log, out |-> t.out, queued |-> t.queued, cause |-> t.cause, err |-> None]
  BY <1>2 DEF State
<1>4. State' \in States /\ Explained(State')
  BY <1>1, <1>3 DEF States, Explained
<1>5. driver' # "failed" => Linked(Given', out', queued')
  BY <1>1, <1>2 DEF Given
<1>6. /\ Len(written') <= Len(queued') /\ \A i \in 1..Len(written') : written'[i] = serialized(queued'[i])
  <2>1. /\ Len(Given) + Len(t.out) = Len(t.queued) /\ Len(Given) \in Nat /\ Len(t.out) \in Nat
        /\ \A i \in 1..Len(Given) : Given[i] = serialized(t.queued[i])
    <3>1. t.out \in Seq(Sendable) /\ Given \in Seq(Sendable)
      BY <1>1, StateIsGood DEF States
    <3> QED BY <1>1, <3>1 DEF Linked
  <2>2. Len(written) \in Nat /\ Len(written) <= Len(Given) /\ \A i \in 1..Len(written) : Given[i] = written[i]
    <3>1. written \in Seq(Sendable) /\ writing \in Sendable \cup {None}
      BY DEF QueueInv
    <3>2. CASE writing = None
      <4>1. Given = written \o <<>>
        BY <3>2 DEF Given
      <4> QED BY <3>1, <4>1
    <3>3. CASE writing # None
      <4>1. Given = written \o <<writing>>
        BY <3>3 DEF Given
      <4> QED BY <3>1, <4>1
    <3> QED BY <3>2, <3>3
  <2>3. written' = written /\ queued' = t.queued
    BY <1>2
  <2>4. Len(written) <= Len(t.queued) /\ \A i \in 1..Len(written) : written[i] = serialized(t.queued[i])
    BY <2>1, <2>2
  <2> QED BY <2>3, <2>4
<1>7. written' \in Seq(Sendable) /\ writing' \in Sendable \cup {None}
  BY DEF QueueInv
<1> QED BY <1>1, <1>2, <1>4, <1>5, <1>6, <1>7 DEF QueueInv

\* What connect queues is a sequence of frames.
LEMMA OpeningFrames ==
  ASSUME FromScenario
  PROVE  LET fs == Opening(options) IN
         /\ fs \in Seq(Queueable) /\ Len(fs) \in {1, 2} /\ fs[1] \in Frames /\ fs[1].type = "SETTINGS"
         /\ \A i \in 1..Len(fs) : fs[i].type \notin {"HEADERS", "CONTINUATION"}
<1> DEFINE o == options
           grow == o.connection_window_size - SPEC_INITIAL_WINDOW
           v == <<word32(o.header_table_size), o.enable_push, None,
                  word32(o.initial_window_size), word32(o.max_frame_size), None>>
           f == [type |-> "SETTINGS", ack |-> FALSE, settings |-> v]
           g == [type |-> "WINDOW_UPDATE", stream |-> 0, increment |-> grow]
<1>1. /\ o.header_table_size \in Nat /\ o.enable_push \in BOOLEAN /\ o.initial_window_size \in Nat
      /\ o.max_frame_size \in Nat /\ o.connection_window_size \in Nat
  BY WireTyped
<1>2. SPEC_INITIAL_WINDOW \in Nat
  BY DriverAssumption
<1>3. v \in Settings
  <2>1. \A n \in Nat : word32(n) \in Words
    BY Written
  <2>2. /\ word32(o.header_table_size) \in Words /\ word32(o.initial_window_size) \in Words
        /\ word32(o.max_frame_size) \in Words
    BY <1>1, <2>1
  <2> QED BY <1>1, <2>2 DEF Settings, SettingIds
<1> HIDE DEF v
<1>4. f \in Frames /\ f.type = "SETTINGS"
  <2>1. f \in SettingsFrames
    BY <1>3 DEF SettingsFrames
  <2> QED BY <2>1 DEF Frames
<1>5. grow > 0 => g \in Growths /\ g.type = "WINDOW_UPDATE"
  BY <1>1, <1>2 DEF Growths
<1>6. Opening(options) = <<f>> \o IF grow > 0 THEN <<g>> ELSE <<>>
  BY DEF Opening, v
<1> HIDE DEF f, g, grow
<1>7. CASE grow > 0
  <2> DEFINE p == <<f>> \o <<g>>
             q == <<f, g>>
  <2>0. f \in Queueable /\ g \in Queueable
    BY <1>4, <1>5, <1>7 DEF Queueable
  <2>1. /\ p \in Seq(Queueable) /\ q \in Seq(Queueable) /\ Len(p) = Len(q)
        /\ \A i \in 1..Len(p) : p[i] = q[i]
    BY <2>0
  <2>2. Opening(options) = p
    BY <1>6, <1>7
  <2>3. Opening(options) = <<f, g>>
    <3> HIDE DEF p, q
    <3>1. p = q
      BY <2>1, SeqEqual
    <3> QED BY <2>2, <3>1 DEF q
  <2> QED BY <1>4, <1>5, <1>7, <2>0, <2>3
<1>8. CASE ~(grow > 0)
  <2>1. Opening(options) = <<f>>
    BY <1>6, <1>8
  <2>2. f \in Queueable
    BY <1>4 DEF Queueable
  <2> QED BY <1>4, <2>1, <2>2
<1> QED BY <1>7, <1>8

\* connect establishes the invariant.
LEMMA InitInv ==
  ASSUME Init
  PROVE  Inv
<1>1. FromScenario
  BY DEF Init, FromScenario
<1> DEFINE N == Len(wire)
           fs == Opening(options)
           Q == Queueable \cup {Preface}
<1>2. /\ N \in Nat /\ Octets \in Seq(WireFrames) /\ Len(Octets) = N /\ ReadAs \in Seq(Meanings)
      /\ options.max_frame_size \in Nat
  BY <1>1, WireTyped
<1>3. decoder.read = 0 /\ decoder.held = 0 /\ decoder \in [read : 0..N, held : Nat]
  BY <1>2 DEF Init
<1>4. FRAME_HEADER_SIZE \in Nat /\ FRAME_HEADER_SIZE > 0
  BY DriverAssumption
<1>5. octets(Octets, 0) = 0 /\ octets(Octets, N) \in Nat /\ unread = octets(Octets, N)
  BY <1>2, OctetsSum DEF Init
<1>6. Accepted(0)
  BY DEF Accepted
<1>7. Position
  <2>1. 0 < N => frame_size(Octets[1]) \in Nat /\ 0 < frame_size(Octets[1])
    <3>1. 0 < N => Octets[1] \in WireFrames
      BY <1>2
    <3> QED BY <3>1, FrameSize
  <2> QED BY <1>2, <1>3, <1>4, <1>5, <1>6, <2>1 DEF Position
<1>8. DecoderInv
  BY <1>2, <1>3, <1>4, <1>5, <1>7 DEF DecoderInv
<1>9. LogInv
  <2>1. present(ReadAs, 0) = <<>> /\ log = <<>>
    BY <1>2, PresentSum DEF Init
  <2>2. IsPart(log, 0) /\ 0 \in 0..N
    BY <1>2, <2>1 DEF IsPart
  <2> QED BY <1>3, <1>6, <2>1, <2>2 DEF LogInv
<1>10. /\ fs \in Seq(Queueable) /\ Len(fs) \in {1, 2} /\ fs[1] \in Frames /\ fs[1].type = "SETTINGS"
       /\ \A i \in 1..Len(fs) : fs[i] \in Queueable /\ fs[i].type \notin {"HEADERS", "CONTINUATION"}
  BY <1>1, OpeningFrames
<1>11. /\ queued \in Seq(Q) /\ Len(queued) = 1 + Len(fs) /\ queued[1] = Preface
       /\ \A i \in 1..Len(fs) : queued[i + 1] = fs[i]
  <2>1. Queueable \in SUBSET Q /\ Preface \in Q
    OBVIOUS
  <2>2. queued = <<Preface>> \o fs
    BY DEF Init
  <2> HIDE DEF Q, fs
  <2> QED BY <1>10, <2>1, <2>2
<1> HIDE DEF fs
<1>12. \A i \in 2..Len(queued) : /\ queued[i] \in Queueable /\ (queued[i] \in Frames \/ i = 3)
                                 /\ queued[i].type \notin {"HEADERS", "CONTINUATION"}
  <2> TAKE i \in 2..Len(queued)
  <2>1. i - 1 \in 1..Len(fs) /\ (i - 1) + 1 = i /\ (i - 1 = 1 \/ i = 3)
    BY <1>10, <1>11
  <2> QED BY <1>10, <1>11, <2>1
<1>13. Len(queued) \in Nat /\ Len(queued) >= 2 /\ DOMAIN queued = 1..Len(queued)
  BY <1>10, <1>11
<1>14. Framed(queued)
  <2>1. queued[2].type = "SETTINGS"
    BY <1>10, <1>11
  <2>2. ~Opens(Preface)
    BY DEF Opens, Preface
  <2>3. \A i \in 1..Len(queued) : ~Opens(queued[i])
    BY <1>11, <1>12, <1>13, <2>2 DEF Opens
  <2>4. \A i \in 2..Len(queued) : Placed(queued[i], i) /\ (queued[i].type = "CONTINUATION" <=> Opens(queued[i - 1]))
    BY <1>12, <1>13, <2>3 DEF Placed
  <2> QED BY <1>11, <1>13, <2>1, <2>3, <2>4 DEF Framed
<1>15. /\ out \in Seq(Sendable) /\ Len(out) = Len(queued)
       /\ \A i \in 1..Len(queued) : out[i] = serialized(queued[i])
  <2>1. out = [i \in 1..Len(queued) |-> IF i = 1 THEN Preface ELSE serialize_frame(queued[i])]
    BY <1>13 DEF Init
  <2>2. ASSUME NEW i \in 1..Len(queued) PROVE out[i] \in Sendable /\ out[i] = serialized(queued[i])
    <3>1. CASE i = 1
      BY <1>11, <2>1, <3>1 DEF Sendable, serialized
    <3>2. CASE i # 1
      <4>1. queued[i] \in Queueable /\ out[i] = serialize_frame(queued[i])
        BY <1>12, <1>13, <2>1, <3>2
      <4> QED BY <4>1, SerializedTyped DEF Sendable
    <3> QED BY <3>1, <3>2
  <2>3. out = [i \in 1..Len(queued) |-> out[i]]
    BY <2>1
  <2> QED BY <1>13, <2>2, <2>3
<1>16. State \in States /\ Explained(State)
  <2>1. /\ conn = [closed |-> FALSE, going_away |-> FALSE, block |-> None, promised |-> 0,
                   max_frame_size |-> DEFAULT_MAX_FRAME_SIZE, next_stream_id |-> 1, ping_counter |-> 0]
        /\ log = <<>> /\ cause = None
    BY DEF Init
  <2>2. conn \in Conns
    BY <2>1, CodecAssumption, DriverAssumption DEF Conns, Ids
  <2>3. None \notin Codes
    BY CodesAre
  <2>4. log \in Seq(Meanings)
    BY <2>1
  <2> QED BY <1>11, <1>15, <2>1, <2>2, <2>3, <2>4 DEF State, States, Explained
<1>17. QueueInv
  <2>1. written = <<>> /\ writing = None
    BY DEF Init
  <2>2. Given = <<>>
    BY <2>1 DEF Given
  <2>3. Linked(Given, out, queued)
    BY <1>13, <1>15, <2>2 DEF Linked
  <2>4. written \in Seq(Sendable) /\ Len(written) = 0
    BY <2>1
  <2> QED BY <1>13, <1>14, <1>16, <2>1, <2>3, <2>4 DEF QueueInv
<1>18. DriverInv
  BY DEF Init, DriverInv
<1> QED BY <1>1, <1>8, <1>9, <1>17, <1>18 DEF Inv

\* A step that reads nothing leaves the decoder and the log as they are.
LEMMA ReaderKept ==
  ASSUME FromScenario, DecoderInv, LogInv, UNCHANGED <<options, wire, unread, decoder, log>>,
         reading' => reading
  PROVE  FromScenario' /\ DecoderInv' /\ LogInv'
<1>1. FromScenario'
  BY DEF FromScenario
<1>2. Octets' = Octets /\ ReadAs' = ReadAs
  BY DEF Octets, ReadAs
<1>3. Position => Position'
  BY <1>2 DEF Position, Accepted
<1>4. DecoderInv'
  BY <1>3 DEF DecoderInv
<1>5. LogInv'
  BY <1>2 DEF LogInv, IsPart, Accepted
<1> QED BY <1>1, <1>4, <1>5

\* A call of the application, on a connection that is open.
LEMMA CallInv ==
  ASSUME Inv, ~conn.closed, NEW t, Good(t, Given), t.log = log, Call(t)
  PROVE  FromScenario' /\ DecoderInv' /\ LogInv' /\ QueueInv' /\ DriverInv'
<1>1. driver = "running" /\ reading
  BY DEF Inv, DriverInv
<1>2. Becomes(t) /\ UNCHANGED <<options, wire, unread, decoder, writing, written, driver, reading>>
  BY DEF Call
<1>3. QueueInv'
  BY <1>1, <1>2, QueueKept DEF Inv
<1>4. log' = log
  BY <1>2 DEF Becomes
<1>5. FromScenario' /\ DecoderInv' /\ LogInv'
  BY <1>2, <1>4, ReaderKept DEF Inv
<1>6. DriverInv'
  BY <1>1, <1>2 DEF Inv, DriverInv
<1> QED BY <1>3, <1>5, <1>6

\* ping
LEMMA PingInv ==
  ASSUME Inv, Ping
  PROVE  Inv'
<1> DEFINE c == [conn EXCEPT !.ping_counter = @ + 1]
           s == [State EXCEPT !.conn = c]
           f == [type |-> "PING", ack |-> FALSE, opaque |-> word32(s.conn.ping_counter)]
           t == send_frame(s, f)
<1>1. ~conn.closed /\ driver # "failed"
  BY DEF Ping, Inv, DriverInv
<1>2. /\ Good(State, Given) /\ Given \in Seq(Sendable) /\ State.conn = conn /\ State.log = log
  BY <1>1, StateIsGood DEF Inv
<1>3. conn \in Conns
  BY <1>2 DEF Good, States
<1>4. c \in Conns /\ c.closed = conn.closed /\ c.ping_counter \in Nat
  BY <1>3 DEF Conns
<1>5. Call(t)
  <2>1. State \in States
    BY <1>2 DEF Good
  <2>2. s = [State EXCEPT !.conn.ping_counter = @ + 1]
    BY <1>2, <2>1 DEF States
  <2> HIDE DEF s
  <2> QED BY <2>2 DEF Ping
<1> HIDE DEF c
<1>6. Good(s, Given) /\ s.conn = c /\ s.log = log
  <2>1. State.conn.closed => c.closed
    BY <1>2, <1>4
  <2> QED BY <1>2, <1>4, <2>1, GoodConn
<1>7. f \in Frames /\ f.type = "PING"
  <2>1. f \in PingFrames
    BY <1>4, <1>6, Written DEF PingFrames
  <2> QED BY <2>1 DEF Frames
<1> HIDE DEF s, f
<1>8. Good(t, Given) /\ t.log = s.log
  BY <1>2, <1>6, <1>7, GoodSend
<1> HIDE DEF t
<1> QED BY <1>1, <1>5, <1>6, <1>8, CallInv DEF Inv

\* close
LEMMA CloseInv ==
  ASSUME Inv, Close
  PROVE  Inv'
<1> DEFINE f == goaway(State, "NO_ERROR")
           u == send_frame(State, f)
           t == destroy(u, "NO_ERROR")
<1>1. ~conn.closed /\ driver # "failed" /\ Call(t)
  BY DEF Close, Inv, DriverInv
<1>2. /\ Good(State, Given) /\ Given \in Seq(Sendable) /\ State.log = log
  BY <1>1, StateIsGood DEF Inv
<1>3. t = connection_error(State, "NO_ERROR") /\ "NO_ERROR" \in Codes
  BY CodesAre DEF connection_error
<1> HIDE DEF t
<1>4. Good(t, Given) /\ t.log = log
  BY <1>2, <1>3, GoodConnectionError
<1> QED BY <1>1, <1>4, CallInv DEF Inv

\* request
LEMMA RequestInv ==
  ASSUME Inv, NEW n \in BlockSizes, Request(n)
  PROVE  Inv'
<1> DEFINE c == [conn EXCEPT !.next_stream_id = @ + 2]
           s == [State EXCEPT !.conn = c]
           fs == pieces(conn.next_stream_id, n, conn.max_frame_size)
           t == send_frames(s, fs)
<1>1. ~conn.closed /\ driver # "failed"
  BY DEF Request, Inv, DriverInv
<1>2. /\ Good(State, Given) /\ Given \in Seq(Sendable) /\ State.conn = conn /\ State.log = log
  BY <1>1, StateIsGood DEF Inv
<1>3. conn \in Conns
  BY <1>2 DEF Good, States
<1>4. c \in Conns /\ c.closed = conn.closed
  BY <1>3 DEF Conns
<1>5. Call(t)
  <2>1. State \in States
    BY <1>2 DEF Good
  <2>2. s = [State EXCEPT !.conn.next_stream_id = @ + 2]
    BY <1>2, <2>1 DEF States
  <2> HIDE DEF s, fs
  <2> QED BY <2>2 DEF Request, fs
<1>6. OneBlock(fs)
  <2>1. conn.next_stream_id \in Nat /\ conn.max_frame_size \in MAX_FRAME_SIZE_RANGE
    BY <1>3 DEF Conns
  <2>2. n \in Nat \ {0} /\ conn.max_frame_size \in 1..MAX_LENGTH
    BY <2>1, DriverAssumption
  <2>3. conn.next_stream_id <= MaxStreamId
    BY DEF Request
  <2>4. conn.next_stream_id \in Ids
    BY <2>1, <2>3, CodecAssumption, DriverAssumption DEF Ids
  <2> QED BY <2>2, <2>4, PiecesAre
<1> HIDE DEF c, fs
<1>7. Good(s, Given) /\ s.conn = c /\ s.log = log
  <2>1. State.conn.closed => c.closed
    BY <1>2, <1>4
  <2> QED BY <1>2, <1>4, <2>1, GoodConn
<1> HIDE DEF s
<1>8. Good(t, Given) /\ t.log = s.log
  BY <1>1, <1>2, <1>4, <1>6, <1>7, GoodSendBlock
<1> HIDE DEF t
<1> QED BY <1>1, <1>5, <1>7, <1>8, CallInv DEF Inv

\* The transport ends, or fails: the connection is closed and nothing is said.
LEMMA ReadEofInv ==
  ASSUME Inv, ReadEof
  PROVE  Inv'
<1> DEFINE t == destroy(State, "EOF")
<1>1. driver = "running" /\ Becomes(t) /\ reading' = FALSE
      /\ UNCHANGED <<options, wire, unread, decoder, writing, written, driver>>
  BY DEF ReadEof, Running
<1>2. Good(State, Given) /\ State.log = log
  BY <1>1, StateIsGood DEF Inv
<1>3. Good(t, Given) /\ t.conn.closed /\ t.log = log
  <2>1. "EOF" \notin Codes
    BY CodesAre
  <2> QED BY <1>2, <2>1, GoodDestroy
<1> HIDE DEF t
<1>4. QueueInv'
  BY <1>1, <1>3, QueueKept DEF Inv
<1>5. log' = log /\ conn'.closed
  BY <1>1, <1>3 DEF Becomes
<1>6. FromScenario' /\ DecoderInv' /\ LogInv'
  BY <1>1, <1>5, ReaderKept DEF Inv
<1>7. DriverInv'
  BY <1>1, <1>5 DEF DriverInv
<1> QED BY <1>4, <1>6, <1>7 DEF Inv

LEMMA WriteFailsInv ==
  ASSUME Inv, WriteFails
  PROVE  Inv'
<1> DEFINE t == destroy(State, "WRITE_ERROR")
<1>1. /\ driver = "running" /\ Becomes(t) /\ driver' = "failed" /\ writing' = None
      /\ UNCHANGED <<options, wire, unread, decoder, written, reading>>
  BY DEF WriteFails, Running
<1>2. Good(State, Given) /\ State.log = log
  BY <1>1, StateIsGood DEF Inv
<1>3. Good(t, Given) /\ t.conn.closed /\ t.log = log
  <2>1. "WRITE_ERROR" \notin Codes
    BY CodesAre
  <2> QED BY <1>2, <2>1, GoodDestroy
<1> HIDE DEF t
<1>4. QueueInv'
  BY <1>1, <1>3, QueueKept DEF Inv
<1>5. log' = log /\ conn'.closed
  BY <1>1, <1>3 DEF Becomes
<1>6. FromScenario' /\ DecoderInv' /\ LogInv'
  BY <1>1, <1>5, ReaderKept DEF Inv
<1>7. DriverInv'
  BY <1>1, <1>5 DEF Inv, DriverInv
<1> QED BY <1>4, <1>6, <1>7 DEF Inv

\* What the write loop does to the queue, given that it moves one frame on.
LEMMA WriterInv ==
  ASSUME Inv, driver = "running", UNCHANGED <<options, wire, unread, decoder, conn, log, queued, reading, cause>>,
         out' \in Seq(Sendable), written' \in Seq(Sendable), writing' \in Sendable \cup {None},
         Linked(Given', out', queued),
         \/ driver' = "running"
         \/ driver' = "ended" /\ conn.closed /\ out' = <<>> /\ writing' = None,
         Len(written') <= Len(queued), \A i \in 1..Len(written') : written'[i] = serialized(queued[i])
  PROVE  Inv'
<1>1. FromScenario' /\ DecoderInv' /\ LogInv'
  BY ReaderKept DEF Inv
<1>2. State' \in States /\ Explained(State')
  <2>1. State \in States /\ Explained(State)
    BY DEF Inv, QueueInv
  <2>2. State' = [State EXCEPT !.out = out']
    BY DEF State
  <2>3. State' \in States
    BY <2>1, <2>2 DEF States
  <2>4. State'.cause = State.cause /\ State'.conn = State.conn /\ State'.queued = State.queued
    BY <2>1, <2>2 DEF States
  <2> QED BY <2>1, <2>3, <2>4 DEF Explained
<1>3. QueueInv'
  BY <1>2 DEF QueueInv, Inv
<1>4. DriverInv'
  BY DEF Inv, DriverInv
<1> QED BY <1>1, <1>3, <1>4 DEF Inv

\* What is given to the transport, and the part of it that is written.
LEMMA GivenIs ==
  ASSUME QueueInv
  PROVE  /\ writing = None => Given = written
         /\ writing # None => /\ Given = Append(written, writing) /\ writing \in Sendable
<1>1. written \in Seq(Sendable) /\ writing \in Sendable \cup {None}
  BY DEF QueueInv
<1>2. CASE writing = None
  BY <1>1, <1>2, ConcatEmptySeq DEF Given
<1>3. CASE writing # None
  <2>1. Given = written \o <<writing>>
    BY <1>3 DEF Given
  <2> QED BY <1>1, <1>3, <2>1, AppendIsConcat
<1> QED BY <1>2, <1>3

LEMMA TakeFrameInv ==
  ASSUME Inv, TakeFrame
  PROVE  Inv'
<1> DEFINE x == Head(out)
           o == Tail(out)
           n == Len(written)
<1>1. /\ driver = "running" /\ writing = None /\ out # <<>> /\ writing' = x /\ out' = o
      /\ UNCHANGED <<options, wire, unread, decoder, conn, log, written, driver, queued, reading, cause>>
  BY DEF TakeFrame, Running
<1>2. out \in Seq(Sendable) /\ written \in Seq(Sendable)
  BY DEF Inv, QueueInv, State, States
<1>3. /\ x \in Sendable /\ o \in Seq(Sendable) /\ Len(out) \in Nat /\ Len(out) = Len(o) + 1 /\ Len(o) \in Nat
      /\ x = out[1] /\ \A i \in 1..Len(o) : o[i] = out[i + 1]
  BY <1>1, <1>2
<1> HIDE DEF x, o
<1>4. x # None
  BY <1>3, NoneAssumption DEF Sendable
<1>5. Given' = Append(written, x)
  <2>1. Given' = written \o <<x>>
    BY <1>1, <1>4 DEF Given
  <2> QED BY <1>2, <1>3, <2>1, AppendIsConcat
<1>6. Linked(written, out, queued)
  <2>1. Given = written
    BY <1>1, GivenIs DEF Inv
  <2> QED BY <1>1, <2>1 DEF Inv, QueueInv
<1> DEFINE g == Append(written, x)
<1>7. n \in Nat /\ Len(g) = n + 1 /\ g[n + 1] = x /\ \A i \in 1..n : g[i] = written[i]
  BY <1>2, <1>3
<1> HIDE DEF g, n
<1>8. Linked(g, o, queued)
  <2>1. /\ n + Len(out) = Len(queued)
        /\ \A i \in 1..n : written[i] = serialized(queued[i])
        /\ \A i \in 1..Len(out) : out[i] = serialized(queued[n + i])
    BY <1>6 DEF Linked, n
  <2>2. Len(g) + Len(o) = Len(queued)
    BY <1>3, <1>7, <2>1
  <2>3. ASSUME NEW i \in 1..Len(g) PROVE g[i] = serialized(queued[i])
    <3>1. CASE i = n + 1
      <4>1. 1 \in 1..Len(out)
        BY <1>3
      <4> QED BY <1>3, <1>7, <2>1, <3>1, <4>1
    <3>2. CASE i # n + 1
      <4>1. i \in 1..n
        BY <1>7, <3>2
      <4> QED BY <1>7, <2>1, <4>1
    <3> QED BY <3>1, <3>2
  <2>4. ASSUME NEW i \in 1..Len(o) PROVE o[i] = serialized(queued[Len(g) + i])
    <3>1. i + 1 \in 1..Len(out) /\ n + (i + 1) = Len(g) + i
      BY <1>3, <1>7
    <3> QED BY <1>3, <2>1, <3>1
  <2> QED BY <2>2, <2>3, <2>4 DEF Linked
<1>9. Linked(Given', out', queued)
  BY <1>1, <1>5, <1>8 DEF g
<1>10. Len(written) <= Len(queued) /\ \A i \in 1..Len(written) : written[i] = serialized(queued[i])
  BY DEF Inv, QueueInv
<1> QED BY <1>1, <1>2, <1>3, <1>9, <1>10, WriterInv

LEMMA WriteDoneInv ==
  ASSUME Inv, WriteDone
  PROVE  Inv'
<1> DEFINE g == Append(written, writing)
<1>1. /\ driver = "running" /\ writing # None /\ written' = g /\ writing' = None
      /\ UNCHANGED <<options, wire, unread, decoder, conn, log, out, driver, queued, reading, cause>>
  BY DEF WriteDone, Running
<1>2. out \in Seq(Sendable) /\ written \in Seq(Sendable) /\ writing \in Sendable /\ queued \in Seq(Queueable \cup {Preface})
  BY <1>1 DEF Inv, QueueInv, State, States
<1>3. g \in Seq(Sendable)
  BY <1>2
<1>4. Given = g
  BY <1>1, GivenIs DEF Inv
<1> HIDE DEF g
<1>5. Given' = g
  BY <1>1, <1>3, ConcatEmptySeq DEF Given
<1>6. Linked(g, out, queued)
  BY <1>1, <1>4 DEF Inv, QueueInv
<1>7. Len(g) <= Len(queued) /\ \A i \in 1..Len(g) : g[i] = serialized(queued[i])
  <2>1. Len(g) \in Nat /\ Len(out) \in Nat /\ Len(queued) \in Nat
    BY <1>2, <1>3
  <2> QED BY <1>6, <2>1 DEF Linked
<1> QED BY <1>1, <1>2, <1>3, <1>5, <1>6, <1>7, WriterInv

LEMMA DriverEndsInv ==
  ASSUME Inv, DriverEnds
  PROVE  Inv'
<1>1. /\ driver = "running" /\ conn.closed /\ out = <<>> /\ writing = None /\ driver' = "ended"
      /\ UNCHANGED <<options, wire, unread, decoder, conn, log, out, writing, written, queued, reading, cause>>
  BY DEF DriverEnds, Running, may_end
<1>2. /\ out \in Seq(Sendable) /\ written \in Seq(Sendable) /\ Linked(Given, out, queued)
      /\ Len(written) <= Len(queued) /\ \A i \in 1..Len(written) : written[i] = serialized(queued[i])
  BY <1>1 DEF Inv, QueueInv, State, States
<1>3. Given' = Given
  BY <1>1 DEF Given
<1> QED BY <1>1, <1>2, <1>3, WriterInv

LEMMA StutterInv ==
  ASSUME Inv, UNCHANGED vars
  PROVE  Inv'
<1>1. /\ UNCHANGED <<options, wire, unread, decoder, log, conn, out, writing, written, driver>>
      /\ UNCHANGED <<queued, reading, cause>>
  BY DEF vars, write_vars
<1>2. FromScenario' /\ DecoderInv' /\ LogInv'
  BY <1>1, ReaderKept DEF Inv
<1>3. Given' = Given /\ State' = State
  BY <1>1 DEF Given, State
<1>4. QueueInv'
  BY <1>1, <1>3 DEF Inv, QueueInv
<1>5. DriverInv'
  BY <1>1 DEF Inv, DriverInv
<1> QED BY <1>2, <1>4, <1>5 DEF Inv

\* What a chunk of n octets gives, in terms of all that the peer sends: the frames up to e
\* are taken.
Took(r, n, e) ==
    /\ r.error = None /\ decoder.read + r.read = e /\ r.held \in Nat
    /\ r.held + (unread - n) = octets(Octets, Len(wire)) - octets(Octets, e)
    /\ r.held < FRAME_HEADER_SIZE + options.max_frame_size
    /\ Accepted(e)
    /\ e < Len(wire) => /\ r.held < frame_size(Octets[e + 1])
                        /\ Octets[e + 1].length > options.max_frame_size => r.held < FRAME_HEADER_SIZE
    /\ r.frames \in Seq(Meanings) /\ \A i \in 1..Len(r.frames) : PeerFrame(r.frames[i])
    /\ Logged(present(ReadAs, e), present(ReadAs, decoder.read), r.frames, Len(r.frames))

Chunk(n) == push(SubSeq(Octets, decoder.read + 1, Len(wire)), decoder.held + n, options.max_frame_size)

LEMMA ChunkIs ==
  ASSUME Inv, reading, NEW n \in Nat, n <= unread
  PROVE  Refused(Chunk(n)) \/ \E e \in 0..Len(wire) : Took(Chunk(n), n, e)
<1> DEFINE N == Len(wire)
           d == decoder.read
           fs == SubSeq(Octets, d + 1, Len(Octets))
           held == decoder.held + n
           max == options.max_frame_size
           r == Chunk(n)
           m == complete(fs, held)
           e == d + m
           H == FRAME_HEADER_SIZE
           at(k) == octets(Octets, k)
<1>1. /\ N \in Nat /\ Octets \in Seq(WireFrames) /\ Len(Octets) = N
      /\ \A i \in 1..N : WordsThere(Octets[i]) /\ Octets[i] \in WireFrames
      /\ ReadAs \in Seq(Meanings) /\ Len(ReadAs) = N /\ \A i \in 1..N : ReadAs[i] = parse_payload(Octets[i])
      /\ max \in Nat
  BY WireTyped DEF Inv
<1>2. /\ d \in 0..N /\ decoder.held \in Nat /\ unread \in Nat /\ held \in Nat /\ Position
  BY DEF Inv, DecoderInv
<1>3. decoder.held + unread = at(N) - at(d) /\ Accepted(d)
  BY <1>2 DEF Position
<1>4. \A k \in 0..N : at(k) \in Nat
  BY <1>1, OctetsSum
<1>5. /\ fs \in Seq(WireFrames) /\ Len(fs) = N - d /\ \A k \in 1..N - d : fs[k] = Octets[d + k]
      /\ \A k \in 0..N - d : octets(fs, k) = at(d + k) - at(d)
  <2>1. d \in 0..Len(Octets)
    BY <1>1, <1>2
  <2> HIDE DEF d
  <2>2. /\ fs \in Seq(WireFrames) /\ Len(fs) = Len(Octets) - d /\ \A k \in 1..Len(fs) : fs[k] = Octets[d + k]
        /\ \A k \in 0..Len(fs) : octets(fs, k) = octets(Octets, d + k) - octets(Octets, d)
    BY <1>1, <2>1, OctetsOfRest
  <2> HIDE DEF fs
  <2> QED BY <1>1, <2>2
<1>6. r = push(fs, held, max)
  BY <1>1 DEF Chunk
<1> HIDE DEF fs, r, d, N, at, held, max
<1>7. held <= octets(fs, Len(fs))
  <2>1. N - d \in 0..N - d /\ d + (N - d) = N
    BY <1>1, <1>2
  <2>2. octets(fs, Len(fs)) = at(N) - at(d)
    BY <1>5, <2>1
  <2>3. held = decoder.held + n /\ at(N) \in Nat /\ at(d) \in Nat
    BY <1>1, <1>2, <1>4 DEF held
  <2> QED BY <1>2, <1>3, <2>2, <2>3
<1>8. \A i \in 1..Len(fs) : WordsThere(fs[i])
  <2> TAKE i \in 1..Len(fs)
  <2>1. i \in 1..N - d /\ d + i \in 1..N
    BY <1>1, <1>2, <1>5
  <2> QED BY <1>1, <1>5, <2>1
<1>9. Refused(r) \/ Pushed(r, fs, held, max)
  BY <1>1, <1>2, <1>5, <1>6, <1>7, <1>8, PushIs
<1>10. ASSUME Pushed(r, fs, held, max) PROVE e \in 0..N /\ Took(r, n, e)
  <2>1. m \in 0..Len(fs) /\ octets(fs, m) <= held /\ Len(fs) = N - d
    BY <1>2, <1>5, CompleteIs
  <2>2. /\ r.error = None /\ r.read = m /\ r.held = held - octets(fs, m)
        /\ r.frames = present([k \in 1..m |-> parse_payload(fs[k])], m)
        /\ \A k \in 1..m : fs[k].length <= max /\ ~IsError(parse_payload(fs[k]))
        /\ m < Len(fs) => /\ r.held < frame_size(fs[m + 1])
                          /\ fs[m + 1].length > max => r.held < H
    BY <1>10 DEF Pushed
  <2> HIDE DEF m
  <2>3. e \in 0..N /\ m \in 0..N - d /\ at(e) \in Nat /\ at(d) \in Nat /\ at(N) \in Nat
    BY <1>1, <1>2, <1>4, <2>1
  <2>4. r.held \in Nat /\ r.held + (unread - n) = at(N) - at(e)
    <3>1. octets(fs, m) = at(e) - at(d)
      BY <1>5, <2>3
    <3>2. r.held = (decoder.held + n) - (at(e) - at(d)) /\ at(e) - at(d) <= decoder.held + n
      BY <2>1, <2>2, <3>1 DEF held
    <3> HIDE DEF e
    <3> QED BY <1>2, <1>3, <2>3, <3>2
  <2>5. Accepted(e)
    <3>1. ASSUME NEW k \in 1..e
          PROVE  Octets[k].length <= max /\ ~IsError(parse_payload(Octets[k]))
      <4>1. CASE k <= d
        <5>1. k \in 1..d
          BY <1>2, <2>3, <4>1
        <5> QED BY <1>3, <5>1 DEF Accepted, max
      <4>2. CASE k > d
        <5>1. k - d \in 1..m /\ k - d \in 1..N - d /\ d + (k - d) = k
          BY <1>1, <1>2, <2>3, <4>2
        <5>2. fs[k - d] = Octets[k]
          BY <1>5, <5>1
        <5> QED BY <2>2, <5>1, <5>2
      <4> QED BY <1>2, <2>3, <4>1, <4>2
    <3> QED BY <3>1 DEF Accepted, max
  <2>6. ASSUME e < N
        PROVE  /\ r.held < frame_size(Octets[e + 1])
               /\ Octets[e + 1].length > max => r.held < H
    <3>1. m < Len(fs) /\ m + 1 \in 1..N - d /\ d + (m + 1) = e + 1
      BY <1>1, <1>2, <2>1, <2>3, <2>6
    <3>2. fs[m + 1] = Octets[e + 1]
      BY <1>5, <3>1
    <3> QED BY <2>2, <3>1, <3>2
  <2>7. r.held < H + max
    <3>1. H \in Nat /\ H > 0
      BY DriverAssumption
    <3>2. CASE e < N
      <4>1. e + 1 \in 1..N
        BY <1>1, <2>3, <3>2
      <4>2. Octets[e + 1] \in WireFrames
        BY <1>1, <4>1
      <4>3. /\ Octets[e + 1].length \in Nat
            /\ frame_size(Octets[e + 1]) = H + Octets[e + 1].length
        BY <4>2, FrameSize
      <4> QED BY <1>1, <2>4, <2>6, <3>1, <3>2, <4>3
    <3>3. CASE ~(e < N)
      <4>1. e = N
        BY <1>1, <2>3, <3>3
      <4>2. r.held + (unread - n) = 0
        BY <2>3, <2>4, <4>1
      <4>3. r.held = 0
        BY <1>2, <2>4, <4>2
      <4> QED BY <1>1, <3>1, <4>3
    <3> QED BY <3>2, <3>3
  <2> DEFINE gs == [k \in 1..m |-> parse_payload(fs[k])]
  <2>8. /\ gs \in Seq(Meanings) /\ Len(gs) = m /\ \A k \in 1..m : gs[k] = ReadAs[d + k]
        /\ \A k \in 1..m : gs[k] = parse_payload(Octets[d + k])
    <3>1. ASSUME NEW k \in 1..m PROVE gs[k] = ReadAs[d + k] /\ gs[k] = parse_payload(Octets[d + k]) /\ gs[k] \in Meanings
      <4>1. k \in 1..N - d /\ d + k \in 1..N
        BY <1>1, <1>2, <2>3
      <4>2. gs[k] = parse_payload(fs[k])
        OBVIOUS
      <4>3. gs[k] = parse_payload(Octets[d + k])
        BY <1>5, <4>1, <4>2
      <4> QED BY <1>1, <4>1, <4>3 DEF Meanings
    <3>2. m \in Nat
      BY <2>3
    <3> QED BY <3>1, <3>2
  <2>9. r.frames = present(gs, m)
    BY <2>2
  <2> HIDE DEF gs
  <2>10. r.frames \in Seq(Meanings)
    <3>1. m \in 0..Len(gs)
      BY <2>3, <2>8
    <3>2. present(gs, m) \in Seq(Meanings)
      BY <2>8, <3>1, PresentSum
    <3> QED BY <2>9, <3>2
  <2>11. ASSUME NEW i \in 1..Len(r.frames) PROVE PeerFrame(r.frames[i])
    <3>1. i \in DOMAIN r.frames /\ m \in 0..Len(gs)
      BY <2>3, <2>8, <2>10
    <3>2. r.frames[i] # None /\ \E k \in 1..m : r.frames[i] = gs[k]
      BY <2>8, <2>9, <3>1, PresentFrom
    <3>3. PICK k \in 1..m : r.frames[i] = gs[k]
      BY <3>2
    <3>4. d + k \in 1..N /\ d + k \in 1..e
      BY <1>1, <1>2, <2>3
    <3>5. ~IsError(parse_payload(Octets[d + k]))
      BY <2>5, <3>4 DEF Accepted
    <3>6. Octets[d + k] \in WireFrames /\ WordsThere(Octets[d + k])
      BY <1>1, <3>4
    <3> QED BY <2>8, <3>2, <3>3, <3>5, <3>6, ParsedTyped
  <2>12. Logged(present(ReadAs, e), present(ReadAs, d), r.frames, Len(r.frames))
    <3> DEFINE a == present(ReadAs, d)
               b == r.frames
               c == present(ReadAs, e)
    <3>1. a \in Seq(Meanings) /\ b \in Seq(Meanings)
      BY <1>1, <1>2, <2>10, PresentSum
    <3>2. c = a \o b
      <4>1. d \in 0..Len(ReadAs) /\ d + Len(gs) <= Len(ReadAs) /\ m \in 0..Len(gs)
        BY <1>1, <1>2, <2>3, <2>8
      <4>2. \A k \in 1..Len(gs) : gs[k] = ReadAs[d + k]
        BY <2>8
      <4>3. Continues(ReadAs, gs, d)
        BY <1>1, <2>8, <4>1, <4>2, PresentOfRest
      <4> QED BY <2>9, <4>1, <4>3 DEF Continues
    <3> HIDE DEF a, b, c
    <3>3. Len(c) = Len(a) + Len(b) /\ (\A i \in 1..Len(a) : c[i] = a[i]) /\ \A i \in 1..Len(b) : c[Len(a) + i] = b[i]
      BY <3>1, <3>2
    <3> QED BY <3>3 DEF Logged, a, b, c
  <2> QED BY <2>2, <2>3, <2>4, <2>5, <2>6, <2>7, <2>10, <2>11, <2>12 DEF Took, N, d, max, at
<1> QED BY <1>9, <1>10 DEF N, r

\* The first j of the frames that are logged are a part of all of them.
LEMMA LoggedPart ==
  ASSUME NEW S, NEW l \in Seq(S), NEW p \in Seq(S), NEW l0 \in Seq(S), NEW fs \in Seq(S), NEW j \in 0..Len(fs),
         Logged(l, l0, fs, j), Logged(p, l0, fs, Len(fs))
  PROVE  /\ Len(l) <= Len(p) /\ \A i \in 1..Len(l) : l[i] = p[i]
         /\ j = Len(fs) => l = p
<1>1. Len(l0) \in Nat /\ Len(fs) \in Nat /\ Len(l) = Len(l0) + j /\ Len(p) = Len(l0) + Len(fs)
  BY DEF Logged
<1>2. ASSUME NEW i \in 1..Len(l) PROVE l[i] = p[i]
  <2>1. CASE i \in 1..Len(l0)
    BY <2>1 DEF Logged
  <2>2. CASE i \notin 1..Len(l0)
    <3>1. i - Len(l0) \in 1..j /\ i - Len(l0) \in 1..Len(fs) /\ Len(l0) + (i - Len(l0)) = i
      BY <1>1, <2>2
    <3>2. l[i] = fs[i - Len(l0)] /\ p[i] = fs[i - Len(l0)]
      BY <3>1 DEF Logged
    <3> QED BY <3>2
  <2> QED BY <2>1, <2>2
<1>3. Len(l) <= Len(p)
  BY <1>1
<1>4. j = Len(fs) => l = p
  BY <1>1, <1>2, SeqEqual
<1> QED BY <1>2, <1>3, <1>4

\* A chunk that is refused closes the connection.
LEMMA RefusedInv ==
  ASSUME Inv, NEW n \in Nat, n # 0, ReadChunk(n), Refused(Chunk(n))
  PROVE  Inv'
<1> DEFINE r == Chunk(n)
           t == on_bytes(State, r)
<1>1. /\ driver = "running" /\ reading /\ n <= unread /\ unread' = unread - n
      /\ decoder' = [read |-> decoder.read + r.read, held |-> r.held]
      /\ Becomes(t) /\ reading' = ~t.conn.closed
      /\ UNCHANGED <<options, wire, writing, written, driver>>
  BY DEF ReadChunk, Running, Chunk
<1>2. /\ Good(State, Given) /\ Given \in Seq(Sendable) /\ State.log = log
  BY <1>1, StateIsGood DEF Inv
<1>3. r.error \in ParseErrors /\ r.read = 0 /\ r.held = 0
  BY DEF Refused
<1>4. r.error \in Codes /\ r.error # None
  BY <1>3, CodesAre DEF ParseErrors
<1>5. t = connection_error(State, r.error)
  BY <1>4, Zenon DEF on_bytes
<1> HIDE DEF r, t
<1>6. Good(t, Given) /\ t.conn.closed /\ t.log = log
  BY <1>2, <1>4, <1>5, GoodConnectionError
<1>7. QueueInv'
  BY <1>1, <1>6, QueueKept DEF Inv
<1>8. log' = log /\ conn'.closed /\ reading' = FALSE
  BY <1>1, <1>6 DEF Becomes
<1>9. FromScenario'
  BY <1>1 DEF Inv, FromScenario
<1>10. Octets' = Octets /\ ReadAs' = ReadAs
  BY <1>1 DEF Octets, ReadAs
<1>11. LogInv'
  BY <1>1, <1>8, <1>10 DEF Inv, LogInv, IsPart, Accepted
<1>12. DecoderInv'
  <2>1. decoder.read \in 0..Len(wire) /\ unread \in Nat
    BY DEF Inv, DecoderInv
  <2>2. options.max_frame_size \in Nat /\ Len(wire) \in Nat
    BY WireTyped DEF Inv
  <2>3. FRAME_HEADER_SIZE \in Nat /\ FRAME_HEADER_SIZE > 0
    BY DriverAssumption
  <2>4. decoder' = [read |-> decoder.read, held |-> 0]
    BY <1>1, <1>3, <2>1, <2>2 DEF r
  <2>5. decoder' \in [read : 0..Len(wire), held : Nat] /\ decoder'.held = 0 /\ unread - n \in Nat
    BY <1>1, <2>1, <2>4
  <2> QED BY <1>1, <1>8, <2>2, <2>3, <2>5 DEF DecoderInv
<1>13. DriverInv'
  BY <1>1, <1>8 DEF DriverInv
<1> QED BY <1>7, <1>9, <1>11, <1>12, <1>13 DEF Inv

\* The frames of a chunk are dispatched, and the connection is closed if one of them fails.
LEMMA TookInv ==
  ASSUME Inv, NEW n \in Nat, n # 0, ReadChunk(n), NEW e \in 0..Len(wire), Took(Chunk(n), n, e)
  PROVE  Inv'
<1> DEFINE r == Chunk(n)
           u == dispatch_all(State, r.frames)
           t == on_bytes(State, r)
<1>1. /\ driver = "running" /\ reading /\ n <= unread /\ unread' = unread - n
      /\ decoder' = [read |-> decoder.read + r.read, held |-> r.held]
      /\ Becomes(t) /\ reading' = ~t.conn.closed
      /\ UNCHANGED <<options, wire, writing, written, driver>>
  BY DEF ReadChunk, Running, Chunk
<1>2. /\ Good(State, Given) /\ Given \in Seq(Sendable) /\ State.log = log /\ State.err = None
  BY <1>1, StateIsGood DEF Inv
<1>3. r.error = None /\ r.frames \in Seq(Meanings) /\ \A i \in 1..Len(r.frames) : PeerFrame(r.frames[i])
  BY DEF Took
<1>4. t = IF u.err # None THEN connection_error(u, u.err) ELSE u
  BY <1>3, Zenon DEF on_bytes
<1> HIDE DEF r, u, t
<1>5. Good(u, Given) /\ \E j \in 0..Len(r.frames) : Logged(u.log, log, r.frames, j) /\ (u.err = None => j = Len(r.frames))
  BY <1>2, <1>3, GoodDispatchAll DEF u
<1>6. PICK j \in 0..Len(r.frames) : Logged(u.log, log, r.frames, j) /\ (u.err = None => j = Len(r.frames))
  BY <1>5
<1>7. Good(t, Given) /\ t.log = u.log /\ (u.err # None => t.conn.closed)
  <2>1. CASE u.err = None
    BY <1>4, <1>5, <2>1
  <2>2. CASE u.err # None
    <3>1. u.err \in Codes
      BY <1>5, <2>2 DEF Good, States
    <3> QED BY <1>2, <1>4, <1>5, <2>2, <3>1, GoodConnectionError
  <2> QED BY <2>1, <2>2
<1>8. QueueInv'
  BY <1>1, <1>7, QueueKept DEF Inv
<1>9. log' = u.log /\ conn' = t.conn /\ reading' = ~conn'.closed
  BY <1>1, <1>7 DEF Becomes
<1>10. FromScenario'
  BY <1>1 DEF Inv, FromScenario
<1>11. Octets' = Octets /\ ReadAs' = ReadAs
  BY <1>1 DEF Octets, ReadAs
<1>12. decoder' = [read |-> e, held |-> r.held] /\ decoder'.read = e /\ decoder'.held = r.held
  BY <1>1 DEF Took, r
<1>13. Position'
  BY <1>1, <1>11, <1>12 DEF Position, Took, Accepted, r
<1>14. DecoderInv'
  <2>1. unread - n \in Nat
    BY <1>1 DEF Inv, DecoderInv
  <2>2. r.held \in Nat /\ r.held < FRAME_HEADER_SIZE + options.max_frame_size
    BY DEF Took, r
  <2> QED BY <1>1, <1>12, <1>13, <2>1, <2>2 DEF DecoderInv
<1>15. LogInv'
  <2> DEFINE p == present(ReadAs, e)
             l == u.log
  <2>1. log = present(ReadAs, decoder.read)
    BY <1>1 DEF Inv, LogInv
  <2>2. l \in Seq(Meanings) /\ log \in Seq(Meanings)
    BY <1>2, <1>5 DEF Good, States
  <2>3. p \in Seq(Meanings)
    <3>1. ReadAs \in Seq(Meanings) /\ Len(ReadAs) = Len(wire)
      BY WireTyped DEF Inv
    <3> QED BY <3>1, PresentSum
  <2>4. Logged(p, log, r.frames, Len(r.frames)) /\ Accepted(e)
    BY <2>1 DEF Took, r
  <2> HIDE DEF p, l
  <2>5. /\ Len(l) <= Len(p) /\ \A i \in 1..Len(l) : l[i] = p[i]
        /\ j = Len(r.frames) => l = p
    BY <1>3, <1>6, <2>2, <2>3, <2>4, LoggedPart DEF l
  <2>6. reading' => log' = p
    BY <1>6, <1>7, <1>9, <2>5 DEF l
  <2>7. IsPart(l, e)
    BY <2>5 DEF IsPart, p
  <2> QED BY <1>1, <1>9, <1>11, <1>12, <2>4, <2>6, <2>7 DEF LogInv, IsPart, Accepted, p, l
<1>16. DriverInv'
  BY <1>1, <1>9 DEF DriverInv
<1> QED BY <1>8, <1>10, <1>14, <1>15, <1>16 DEF Inv

LEMMA ReadChunkInv ==
  ASSUME Inv, NEW n \in Nat, ReadChunk(n)
  PROVE  Inv'
<1>1. CASE n = 0
  <2>1. /\ driver = "running" /\ reading /\ unread' = unread - n /\ decoder' = decoder
        /\ Becomes(State) /\ reading' = ~State.conn.closed
        /\ UNCHANGED <<options, wire, writing, written, driver>>
    BY <1>1 DEF ReadChunk, Running
  <2>2. /\ Good(State, Given) /\ State.log = log /\ State.conn = conn
    BY <2>1, StateIsGood DEF Inv
  <2>3. QueueInv'
    BY <2>1, <2>2, QueueKept DEF Inv
  <2>4. log' = log /\ conn' = conn
    BY <2>1, <2>2 DEF Becomes
  <2>5. unread' = unread
    BY <1>1, <2>1 DEF Inv, DecoderInv
  <2>6. FromScenario' /\ DecoderInv' /\ LogInv'
    BY <2>1, <2>4, <2>5, ReaderKept DEF Inv
  <2>7. DriverInv'
    BY <2>1, <2>2, <2>4 DEF DriverInv
  <2> QED BY <2>3, <2>6, <2>7 DEF Inv
<1>2. CASE n # 0
  <2>1. reading /\ n <= unread
    BY DEF ReadChunk
  <2> QED BY <1>2, <2>1, ChunkIs, RefusedInv, TookInv
<1> QED BY <1>1, <1>2

-----------------------------------------------------------------------------
(* The theorems *)

\* Whatever the peer sends, the transport does and the application asks for, the
\* decoder, the log, the channel and the transport stay in step (drive, on_bytes,
\* push, send_frame, destroy).
THEOREM InvHolds == Spec => []Inv
<1>1. Init => Inv
  BY InitInv
<1>2. Inv /\ [Next]_vars => Inv'
  <2> SUFFICES ASSUME Inv, [Next]_vars PROVE Inv'
    OBVIOUS
  <2>1. ASSUME NEW n \in ChunkSizes \cup {unread}, ReadChunk(n) PROVE Inv'
    <3>1. n \in Nat
      BY DriverAssumption DEF Inv, DecoderInv
    <3> QED BY <2>1, <3>1, ReadChunkInv
  <2>2. CASE ReadEof
    BY <2>2, ReadEofInv
  <2>3. CASE TakeFrame
    BY <2>3, TakeFrameInv
  <2>4. CASE WriteDone
    BY <2>4, WriteDoneInv
  <2>5. CASE DriverEnds
    BY <2>5, DriverEndsInv
  <2>6. CASE WriteFails
    BY <2>6, WriteFailsInv
  <2>7. CASE Ping
    BY <2>7, PingInv
  <2>8. CASE Close
    BY <2>8, CloseInv
  <2>9. ASSUME NEW n \in BlockSizes, Request(n) PROVE Inv'
    BY <2>9, RequestInv
  <2>10. CASE UNCHANGED vars
    BY <2>10, StutterInv
  <2> QED BY <2>1, <2>2, <2>3, <2>4, <2>5, <2>6, <2>7, <2>8, <2>9, <2>10 DEF Next, Write
<1> QED BY <1>1, <1>2, PTL DEF Spec

\* However large a length the peer announces, the decoder holds less than a header and
\* the largest payload that the client accepts (push).
THEOREM BufferBoundedHolds == Spec => []BufferBounded
<1>1. Inv => BufferBounded
  <2> SUFFICES ASSUME Inv PROVE BufferBounded
    OBVIOUS
  <2>1. /\ unread \in Nat /\ decoder.read \in 0..Len(wire) /\ decoder.held \in Nat
        /\ decoder.held < FRAME_HEADER_SIZE + options.max_frame_size
    BY DEF Inv, DecoderInv
  <2>2. /\ conn \in Conns /\ cause \in Codes \cup {None, "GOAWAY", "EOF", "WRITE_ERROR"}
    BY DEF Inv, QueueInv, State, States
  <2>3. conn.max_frame_size \in MAX_FRAME_SIZE_RANGE /\ (conn.block # None => conn.block.size \in Nat)
    BY <2>2 DEF Conns, Blocks
  <2> QED BY <2>1, <2>2, <2>3 DEF BufferBounded, TypeOK, Inv, DriverInv, Codes
<1> QED BY <1>1, InvHolds, PTL

\* A frame that is queued is read back from the form it is written in; the third may lose
\* the high bit of its increment.
LEMMA ReadBack ==
  ASSUME QueueInv, NEW i \in 2..Len(queued)
  PROVE  /\ parse_payload(serialized(queued[i])) = Masked(queued[i])
         /\ Masked(queued[i]) = queued[i] \/ i = 3
         /\ serialized(queued[i]).type = queued[i].type
<1> DEFINE f == queued[i]
<1>0. Placed(f, i)
  BY DEF QueueInv, Framed
<1>1. f \in Queueable /\ (f \in Frames \/ i = 3)
  BY <1>0 DEF Placed
<1> HIDE DEF f
<1>2. serialized(f) = serialize_frame(f) /\ serialized(f).type = f.type
  BY <1>1, SerializedTyped
<1>3. /\ f \in Frames => parse_payload(serialize_frame(f)) = f /\ Masked(f) = f
      /\ f \in Growths => parse_payload(serialize_frame(f)) = Masked(f)
  BY CodecRoundTrip
<1> QED BY <1>1, <1>2, <1>3 DEF Queueable, f

\* Unless the transport fails, what it has taken and will take is what was queued, in
\* order, each frame read by the peer as it was meant, but for the high bit of the
\* increment in the third; the preface and SETTINGS come first and nothing is put between
\* the frames of a header block (send_frame, serialize_frame, send_headers, the write
\* loop).
THEOREM PeerReadsAsQueuedHolds == Spec => []PeerReadsAsQueued
<1>1. Inv => PeerReadsAsQueued
  <2> SUFFICES ASSUME Inv PROVE PeerReadsAsQueued
    OBVIOUS
  <2>1. QueueInv /\ Framed(queued)
    BY DEF Inv, QueueInv
  <2>2. /\ out \in Seq(Sendable) /\ written \in Seq(Sendable) /\ queued \in Seq(Queueable \cup {Preface})
    BY <2>1 DEF QueueInv, State, States
  <2>3. ASSUME driver # "failed"
        PROVE  /\ Len(Outbound) = Len(queued)
               /\ \A i \in 1..Len(queued) : Outbound[i] = serialized(queued[i])
    <3> DEFINE g == Given
               n == Len(g)
               k == Len(out)
               o == g \o out
    <3>1. Linked(g, out, queued) /\ g \in Seq(Sendable)
      BY <2>1, <2>3, StateIsGood DEF QueueInv
    <3>2. Outbound = o
      BY DEF Outbound, Given
    <3> HIDE DEF g
    <3>3. /\ n \in Nat /\ k \in Nat /\ Len(o) = n + k /\ (\A i \in 1..n : o[i] = g[i])
          /\ \A i \in 1..k : o[n + i] = out[i]
      <4>1. SUFFICES ASSUME NEW a \in Seq(Sendable), NEW b \in Seq(Sendable)
                     PROVE  /\ Len(a) \in Nat /\ Len(b) \in Nat /\ Len(a \o b) = Len(a) + Len(b)
                            /\ \A i \in 1..Len(a) : (a \o b)[i] = a[i]
                            /\ \A i \in 1..Len(b) : (a \o b)[Len(a) + i] = b[i]
        BY <2>2, <3>1
      <4> QED OBVIOUS
    <3> HIDE DEF n, k, o
    <3>4. n + k = Len(queued) /\ (\A i \in 1..n : g[i] = serialized(queued[i]))
          /\ \A i \in 1..k : out[i] = serialized(queued[n + i])
      BY <3>1 DEF Linked, n, k
    <3>5. ASSUME NEW i \in 1..Len(queued) PROVE o[i] = serialized(queued[i])
      <4>1. CASE i \in 1..n
        BY <3>3, <3>4, <4>1
      <4>2. CASE i \notin 1..n
        <5>1. i - n \in 1..k /\ n + (i - n) = i
          BY <3>3, <3>4, <4>2
        <5> QED BY <3>3, <3>4, <5>1
      <4> QED BY <4>1, <4>2
    <3> QED BY <3>2, <3>3, <3>4, <3>5
  <2>4. Len(queued) \in Nat /\ \A i \in 2..Len(queued) : i \in 1..Len(queued)
    BY <2>2
  <2>5. driver # "failed" => /\ Len(Outbound) = Len(queued)
                             /\ \A i \in 2..Len(queued) :
                                   /\ parse_payload(Outbound[i]) = Masked(queued[i])
                                   /\ Masked(queued[i]) = queued[i] \/ i = 3
    BY <2>1, <2>3, <2>4, ReadBack
  <2>6. Len(written) >= 2 => written[1] = Preface /\ written[2].type = "SETTINGS"
    <3> SUFFICES ASSUME Len(written) >= 2 PROVE written[1] = Preface /\ written[2].type = "SETTINGS"
      OBVIOUS
    <3>1. Len(written) \in Nat /\ 1 \in 1..Len(written) /\ 2 \in 1..Len(written) /\ 2 \in 2..Len(queued)
      BY <2>1, <2>2, <2>4 DEF Framed
    <3>2. written[1] = serialized(queued[1]) /\ written[2] = serialized(queued[2])
      BY <2>1, <3>1 DEF QueueInv
    <3>3. serialized(Preface) = Preface
      BY DEF serialized
    <3> QED BY <2>1, <3>1, <3>2, <3>3, ReadBack DEF Framed
  <2>7. \A i \in 2..Len(queued) :
          (queued[i].type = "CONTINUATION") <=>
              /\ queued[i - 1].type \in {"HEADERS", "CONTINUATION"}
              /\ ~queued[i - 1].end_headers
    BY <2>1 DEF Framed, Opens
  <2> QED BY <2>5, <2>6, <2>7 DEF PeerReadsAsQueued
<1> QED BY <1>1, InvHolds, PTL

\* A driver that ended has written all that was queued, and if the client ended the
\* connection the last of it tells the peer why (connection_error, close, destroy, the
\* write loop).
THEOREM GoawayIsWrittenHolds == Spec => []GoawayIsWritten
<1>1. Inv => GoawayIsWritten
  <2> SUFFICES ASSUME Inv, driver = "ended"
               PROVE  /\ Len(written) = Len(queued)
                      /\ cause \in DOMAIN ErrorCode =>
                          LET f == parse_payload(Last(written)) IN f.type = "GOAWAY" /\ f.code = code_word(cause)
    BY DEF GoawayIsWritten
  <2>1. QueueInv /\ out = <<>> /\ writing = None /\ Framed(queued) /\ Linked(Given, out, queued) /\ Explained(State)
    BY DEF Inv, QueueInv, DriverInv
  <2>2. Given = written /\ written \in Seq(Sendable) /\ queued \in Seq(Queueable \cup {Preface})
    BY <2>1, GivenIs DEF QueueInv, State, States
  <2>3. Len(written) = Len(queued) /\ Len(queued) \in Nat /\ Len(queued) >= 2
    BY <2>1, <2>2 DEF Linked, Framed
  <2>4. ASSUME cause \in DOMAIN ErrorCode
        PROVE  LET f == parse_payload(Last(written)) IN f.type = "GOAWAY" /\ f.code = code_word(cause)
    <3> DEFINE n == Len(queued)
               g == queued[n]
    <3>1. g.type = "GOAWAY" /\ g.code = code_word(cause)
      BY <2>1, <2>4 DEF Explained, State, Codes
    <3>2. n \in 2..n /\ n \in 1..Len(written)
      BY <2>3
    <3>3. Last(written) = serialized(queued[n])
      BY <2>1, <2>3, <3>2 DEF QueueInv, Last
    <3>4. parse_payload(serialized(queued[n])) = queued[n]
      <4>1. Masked(g) = g
        BY <3>1 DEF Masked
      <4> HIDE DEF n
      <4>2. n \in 2..Len(queued)
        BY <3>2 DEF n
      <4> QED BY <2>1, <4>1, <4>2, ReadBack
    <3> QED BY <3>1, <3>3, <3>4
  <2> QED BY <2>3, <2>4
<1> QED BY <1>1, InvHolds, PTL

-----------------------------------------------------------------------------
(* What the peer meant *)

\* What a frame by itself means: an error, if it is longer than the client accepts;
\* nothing, if it is a PRIORITY of the wrong length; or what parse_payload reads.
meaning(w, max_frame_size) ==
    IF w.length > max_frame_size THEN Error("FRAME_SIZE_ERROR")
    ELSE IF w.type = "PRIORITY" /\ w.length # 5 THEN None
    ELSE parse_payload(w)

\* The peer means that by its frames.
MeantAsRead ==
    \A sc \in Scenarios : \A i \in DOMAIN sc.wire :
        sc.wire[i].meant = meaning(sc.wire[i].octets, sc.options.max_frame_size)

\* A frame that is accepted means what is read.
LEMMA MeaningIs ==
  ASSUME NEW w \in WireFrames, NEW max \in Nat
  PROVE  LET ok == w.length <= max /\ ~IsError(parse_payload(w))
             m == meaning(w, max) IN
         /\ ok => m = parse_payload(w) /\ ~IsError(m)
         /\ m \in {Error("FRAME_SIZE_ERROR"), None, parse_payload(w)}
<1>1. w.length \in Nat
  BY FrameSize
<1>2. CASE w.type = "PRIORITY" /\ w.length # 5
  <2>1. "FRAME_SIZE_ERROR" \in ParseErrors
    BY DEF ParseErrors
  <2>2. parse_payload(w) = Error("FRAME_SIZE_ERROR")
    BY <1>2, Zenon DEF parse_payload, length_ok, Types
  <2>3. IsError(parse_payload(w))
    BY <2>1, <2>2, ErrorIsOne
  <2> QED BY <1>1, <1>2, <2>2, <2>3 DEF meaning
<1>3. CASE ~(w.type = "PRIORITY" /\ w.length # 5)
  BY <1>1, <1>3 DEF meaning
<1> QED BY <1>2, <1>3

\* Sequences that agree on the first n keep the same of them.
LEMMA PresentSame ==
  ASSUME NEW S, NEW fs \in Seq(S), NEW gs \in Seq(S), Len(fs) = Len(gs), NEW n \in 0..Len(fs),
         \A i \in 1..n : fs[i] = gs[i]
  PROVE  present(fs, n) = present(gs, n)
<1> DEFINE G == {k \in 0..n : present(fs, k) = present(gs, k)}
<1>1. n \in Nat /\ Len(fs) \in Nat /\ n <= Len(fs)
  OBVIOUS
<1>2. 0 \in G
  <2>1. present(fs, 0) = present(gs, 0)
    BY PresentSum
  <2> QED BY <1>1, <2>1
<1>3. ASSUME NEW k \in 0..n, k + 1 \in 0..n, k \in G PROVE k + 1 \in G
  <2>1. k + 1 \in 1..Len(fs) /\ k + 1 \in 1..Len(gs) /\ (k + 1) - 1 = k /\ k + 1 \in 1..n
    BY <1>1, <1>3
  <2>2. present(fs, k + 1) = IF fs[k + 1] = None THEN present(fs, k) ELSE Append(present(fs, k), fs[k + 1])
    BY <2>1, PresentSum
  <2>3. present(gs, k + 1) = IF gs[k + 1] = None THEN present(gs, k) ELSE Append(present(gs, k), gs[k + 1])
    BY <2>1, PresentSum
  <2>4. fs[k + 1] = gs[k + 1] /\ present(fs, k) = present(gs, k)
    BY <1>3, <2>1
  <2> QED BY <1>3, <2>2, <2>3, <2>4
<1>4. \A k \in 0..n : k \in G
  <2> HIDE DEF G
  <2> QED BY <1>1, <1>2, <1>3, UpTo
<1>5. n \in G
  BY <1>1, <1>4
<1> QED BY <1>5

\* More frames keep what fewer keep.
LEMMA PresentPart ==
  ASSUME NEW S, NEW fs \in Seq(S), NEW d \in 0..Len(fs), NEW e \in 0..Len(fs), d <= e
  PROVE  LET p == present(fs, d)
             q == present(fs, e) IN
         Len(p) <= Len(q) /\ \A i \in 1..Len(p) : p[i] = q[i]
<1> DEFINE N == Len(fs)
           p == present(fs, d)
           Part(q) == Len(p) <= Len(q) /\ \A i \in 1..Len(p) : p[i] = q[i]
           G == {k \in 0..N : d <= k => Part(present(fs, k))}
<1>1. N \in Nat /\ p \in Seq(S) /\ d \in 0..N
  BY PresentSum
<1>2. Part(p)
  BY <1>1
<1>3. 0 \in G
  <2>1. d <= 0 => d = 0
    BY <1>1
  <2>2. d <= 0 => Part(present(fs, 0))
    BY <1>2, <2>1
  <2> HIDE DEF Part
  <2> QED BY <1>1, <2>2
<1>4. ASSUME NEW k \in 0..N, k + 1 \in 0..N, k \in G PROVE k + 1 \in G
  <2>1. k + 1 \in 1..Len(fs) /\ (k + 1) - 1 = k
    BY <1>1, <1>4
  <2> DEFINE q == present(fs, k)
             r == present(fs, k + 1)
             x == fs[k + 1]
  <2>2. r = IF x = None THEN q ELSE Append(q, x)
    BY <2>1, PresentSum
  <2>3. q \in Seq(S) /\ x \in S
    BY <2>1, PresentSum
  <2>4. CASE d <= k
    <3>1. Part(q)
      BY <1>4, <2>4
    <3> HIDE DEF p, q, r, x
    <3>2. Part(r)
      BY <1>1, <2>2, <2>3, <3>1 DEF p
    <3> HIDE DEF Part
    <3> QED BY <1>4, <3>2 DEF r
  <2>5. CASE d = k + 1
    BY <1>2, <1>4, <2>5
  <2>6. CASE ~(d <= k + 1)
    BY <1>4, <2>6
  <2>7. d <= k \/ d = k + 1 \/ ~(d <= k + 1)
    BY <1>1
  <2> QED BY <2>4, <2>5, <2>6, <2>7
<1>5. \A k \in 0..N : k \in G
  <2> HIDE DEF G
  <2> QED BY <1>1, <1>3, <1>4, UpTo
<1>6. Part(present(fs, e))
  BY <1>5
<1> QED BY <1>6

\* What may be meant by a frame.
PeerMeanings == Meanings \cup {Error("FRAME_SIZE_ERROR"), None}

\* Up to the first frame that is not accepted, what is read is what was meant.
LEMMA FirstBadIs ==
  ASSUME MeantAsRead, FromScenario
  PROVE  /\ FirstBad \in 1..Len(wire) + 1 /\ Meant(Len(wire)) \in Seq(PeerMeanings)
         /\ \A n \in 0..Len(wire) : Accepted(n) =>
               LET p == present(ReadAs, n)
                   q == Meant(Len(wire)) IN
               /\ n < FirstBad /\ Meant(n) = p
               /\ Len(p) <= Len(q) /\ \A i \in 1..Len(p) : p[i] = q[i]
<1> DEFINE N == Len(wire)
           max == options.max_frame_size
           M == [i \in DOMAIN wire |-> wire[i].meant]
           S == PeerMeanings
           bad == {i \in DOMAIN wire : IsError(wire[i].meant)} \cup {N + 1}
           Ok(i) == Octets[i].length <= max /\ ~IsError(parse_payload(Octets[i]))
<1>1. /\ N \in Nat /\ DOMAIN wire = 1..N /\ Octets \in Seq(WireFrames) /\ Len(Octets) = N
      /\ ReadAs \in Seq(Meanings) /\ Len(ReadAs) = N /\ max \in Nat
      /\ \A i \in 1..N : ReadAs[i] = parse_payload(Octets[i]) /\ Octets[i] \in WireFrames
  BY WireTyped
<1>2. \A i \in 1..N : wire[i].meant = meaning(Octets[i], max)
  <2>1. PICK sc \in Scenarios : options = sc.options /\ wire = sc.wire
    BY DEF FromScenario
  <2>2. \A i \in DOMAIN wire : wire[i].meant = meaning(wire[i].octets, max)
    BY <2>1 DEF MeantAsRead
  <2>3. \A i \in 1..N : Octets[i] = wire[i].octets
    BY <1>1 DEF Octets
  <2> HIDE DEF max
  <2> QED BY <1>1, <2>2, <2>3
<1>3. ASSUME NEW i \in 1..N
      PROVE  /\ Ok(i) => wire[i].meant = ReadAs[i] /\ ~IsError(wire[i].meant)
             /\ wire[i].meant \in {Error("FRAME_SIZE_ERROR"), None, ReadAs[i]}
  <2> DEFINE w == Octets[i]
  <2>1. w \in WireFrames /\ ReadAs[i] = parse_payload(w) /\ wire[i].meant = meaning(w, max)
    BY <1>1, <1>2
  <2> HIDE DEF w, max
  <2> QED BY <1>1, <2>1, MeaningIs DEF w
<1>5. M \in Seq(S) /\ ReadAs \in Seq(S) /\ Len(M) = N /\ \A i \in 1..N : M[i] = wire[i].meant
  <2>1. Meanings \in SUBSET S /\ {Error("FRAME_SIZE_ERROR"), None} \in SUBSET S
    BY DEF PeerMeanings
  <2>2. \A i \in 1..N : ReadAs[i] \in S
    BY <1>1, <2>1
  <2>3. \A i \in 1..N : wire[i].meant \in S
    BY <1>3, <2>1, <2>2
  <2>4. M = [i \in 1..N |-> wire[i].meant]
    BY <1>1
  <2> HIDE DEF S, M
  <2>5. ReadAs \in Seq(S)
    BY <1>1, <2>1
  <2> QED BY <1>1, <2>3, <2>4, <2>5
<1> DEFINE b == CHOOSE i \in bad : \A j \in bad : i <= j
<1>6. FirstBad = b
  BY DEF FirstBad
<1>7. b \in bad /\ \A j \in bad : b <= j
  <2>1. bad \in SUBSET Nat /\ bad # {}
    BY <1>1
  <2> HIDE DEF bad
  <2> QED BY <2>1, LeastNat
<1> HIDE DEF b
<1>8. b \in 1..N + 1
  BY <1>1, <1>7
<1>10. \A n \in 0..N : Accepted(n) <=> \A i \in 1..n : Ok(i)
  BY DEF Accepted
<1>11. ASSUME NEW n \in 0..N, Accepted(n) PROVE n < b
  <2> SUFFICES ASSUME ~(n < b) PROVE FALSE
    OBVIOUS
  <2>1. b \in 1..n /\ b \in 1..N
    BY <1>1, <1>8
  <2>2. Ok(b)
    BY <1>10, <1>11, <2>1
  <2>3. b # N + 1
    BY <1>1, <2>1
  <2>4. IsError(wire[b].meant)
    BY <1>7, <2>3
  <2> HIDE DEF Ok
  <2> QED BY <1>3, <2>1, <2>2, <2>4
<1>12. ASSUME NEW n \in 0..N, Accepted(n) PROVE present(M, n) = present(ReadAs, n)
  <2>1. \A i \in 1..n : i \in 1..N
    BY <1>1
  <2>2. \A i \in 1..n : Ok(i)
    BY <1>10, <1>12
  <2> HIDE DEF Ok, M, S
  <2>3. \A i \in 1..n : M[i] = ReadAs[i]
    BY <1>3, <1>5, <2>1, <2>2
  <2> QED BY <1>1, <1>5, <2>3, PresentSame
<1>13. \A n : Meant(n) = present(M, IF n < b THEN n ELSE b - 1)
  BY <1>6 DEF Meant
<1> HIDE DEF M, Ok, S
<1>14. b - 1 \in 0..N /\ Meant(N) = present(M, b - 1) /\ Meant(N) \in Seq(S)
  <2>1. b - 1 \in 0..N /\ (N < b => N = b - 1)
    BY <1>1, <1>8
  <2>2. Meant(N) = present(M, b - 1)
    BY <1>13, <2>1
  <2> QED BY <1>5, <2>1, <2>2, PresentSum
<1>15. ASSUME NEW n \in 0..N, Accepted(n)
       PROVE  LET p == present(ReadAs, n)
                  q == Meant(N) IN
              /\ n < b /\ Meant(n) = p
              /\ Len(p) <= Len(q) /\ \A i \in 1..Len(p) : p[i] = q[i]
  <2>1. n < b /\ n <= b - 1 /\ present(M, n) = present(ReadAs, n)
    BY <1>8, <1>11, <1>12, <1>15
  <2>2. Meant(n) = present(M, n)
    BY <1>13, <2>1
  <2>3. LET p == present(M, n)
            q == present(M, b - 1) IN
        Len(p) <= Len(q) /\ \A i \in 1..Len(p) : p[i] = q[i]
    BY <1>5, <1>14, <2>1, PresentPart
  <2> QED BY <1>14, <2>1, <2>2, <2>3
<1> QED BY <1>6, <1>8, <1>14, <1>15 DEF N, S

\* However the octets are cut into chunks, and whatever else happens meanwhile, what is
\* dispatched is a first part of what the peer meant: while the connection is open, all
\* that has arrived; and it is not open once a frame that is a connection error is there,
\* or the header of one that is too long (push, parse_payload, on_bytes).
THEOREM DispatchedAsMeantHolds ==
  ASSUME MeantAsRead
  PROVE  Spec => []DispatchedAsMeant
<1>1. Inv => DispatchedAsMeant
  <2> SUFFICES ASSUME Inv PROVE DispatchedAsMeant
    OBVIOUS
  <2> DEFINE N == Len(wire)
             b == FirstBad
             at(k) == octets(Octets, k)
             max == options.max_frame_size
             H == FRAME_HEADER_SIZE
             d == decoder.read
             n == complete(Octets, Arrived)
  <2>1. /\ N \in Nat /\ DOMAIN wire = 1..N /\ Octets \in Seq(WireFrames) /\ Len(Octets) = N
        /\ ReadAs \in Seq(Meanings) /\ Len(ReadAs) = N
        /\ \A i \in 1..N : Octets[i] \in WireFrames
    BY WireTyped DEF Inv
  <2>2. /\ b \in 1..N + 1
        /\ \A k \in 0..N : Accepted(k) => k < b /\ Meant(k) = present(ReadAs, k)
    BY FirstBadIs DEF Inv
  <2>3. IsPrefix(log, Meant(N))
    <3> DEFINE q == Meant(N)
    <3>1. PICK c \in 0..N : Accepted(c) /\ IsPart(log, c)
      BY DEF Inv, LogInv
    <3>2. /\ q \in Seq(PeerMeanings)
          /\ Len(present(ReadAs, c)) <= Len(q) /\ \A i \in 1..Len(present(ReadAs, c)) : present(ReadAs, c)[i] = q[i]
      BY <3>1, FirstBadIs DEF Inv
    <3>3. log \in Seq(PeerMeanings) /\ present(ReadAs, c) \in Seq(Meanings)
      <4>1. log \in Seq(Meanings)
        BY DEF Inv, QueueInv, State, States
      <4>2. Meanings \in SUBSET PeerMeanings
        BY DEF PeerMeanings
      <4> QED BY <2>1, <3>1, <4>1, <4>2, PresentSum
    <3>5. Len(log) <= Len(q) /\ \A i \in 1..Len(log) : log[i] = q[i]
      <4> DEFINE p == present(ReadAs, c)
      <4>1. Len(log) <= Len(p) /\ \A i \in 1..Len(log) : log[i] = p[i]
        BY <3>1 DEF IsPart
      <4>2. Len(p) \in Nat /\ Len(log) \in Nat /\ Len(q) \in Nat
        BY <3>2, <3>3
      <4> HIDE DEF p, q
      <4> QED BY <3>2, <4>1, <4>2 DEF p
    <3> HIDE DEF q
    <3>6. SubSeq(log, 1, Len(log)) = SubSeq(q, 1, Len(log))
      <4> DEFINE u == SubSeq(log, 1, Len(log))
                 v == SubSeq(q, 1, Len(log))
      <4>1. /\ u \in Seq(PeerMeanings) /\ v \in Seq(PeerMeanings) /\ Len(u) = Len(v)
            /\ \A i \in 1..Len(u) : u[i] = v[i]
        BY <3>2, <3>3, <3>5
      <4> HIDE DEF u, v
      <4>2. u = v
        BY <4>1, SeqEqual
      <4> QED BY <4>2 DEF u, v
    <3> QED BY <3>5, <3>6 DEF IsPrefix, q
  <2>4. ASSUME ~conn.closed
        PROVE  /\ n < b /\ log = Meant(n)
               /\ b \in DOMAIN wire /\ Octets[b].length > max => Arrived < at(b - 1) + H
               /\ decoder.held = Arrived - at(n)
    <3>1. reading /\ Position /\ log = present(ReadAs, d)
      BY <2>4 DEF Inv, DriverInv, DecoderInv, LogInv
    <3>2. d \in 0..N /\ decoder.held \in Nat /\ unread \in Nat
      BY DEF Inv, DecoderInv
    <3>3. /\ decoder.held + unread = at(N) - at(d) /\ Accepted(d)
          /\ d < N => /\ decoder.held < frame_size(Octets[d + 1])
                      /\ Octets[d + 1].length > max => decoder.held < H
      BY <3>1 DEF Position
    <3>4. \A k \in 0..N : at(k) \in Nat
      BY <2>1, OctetsSum
    <3>5. at(N) \in Nat /\ at(d) \in Nat
      BY <2>1, <3>2, <3>4
    <3>6. Arrived = decoder.held + at(d)
      <4>1. Arrived = at(N) - unread
        BY DEF Arrived
      <4> HIDE DEF at, d, N
      <4> QED BY <3>2, <3>3, <3>5, <4>1
    <3>7. d < N => at(d + 1) = at(d) + frame_size(Octets[d + 1]) /\ frame_size(Octets[d + 1]) \in Nat
      <4> SUFFICES ASSUME d < N
                   PROVE  at(d + 1) = at(d) + frame_size(Octets[d + 1]) /\ frame_size(Octets[d + 1]) \in Nat
        OBVIOUS
      <4>1. d + 1 \in 1..N /\ (d + 1) - 1 = d
        BY <2>1, <3>2
      <4>2. Octets[d + 1] \in WireFrames
        BY <2>1, <4>1
      <4> QED BY <2>1, <4>1, <4>2, OctetsSum, FrameSize
    <3>8. n = d
      <4>1. Arrived \in Nat /\ at(d) <= Arrived /\ (d < N => Arrived < at(d + 1))
        <5> HIDE DEF at, d, N
        <5> QED BY <3>2, <3>3, <3>5, <3>6, <3>7
      <4> HIDE DEF d
      <4> QED BY <2>1, <3>2, <4>1, CompleteUnique
    <3> HIDE DEF n, b
    <3>9. n < b /\ log = Meant(n)
      BY <2>2, <3>1, <3>2, <3>3, <3>8
    <3>10. decoder.held = Arrived - at(n)
      <4> HIDE DEF at, d, N
      <4> QED BY <3>2, <3>5, <3>6, <3>8
    <3>11. ASSUME b \in DOMAIN wire, Octets[b].length > max PROVE Arrived < at(b - 1) + H
      <4>1. b \in 1..N /\ b - 1 \in 0..N /\ d <= b - 1 /\ H \in Nat /\ H > 0
        BY <2>1, <2>2, <3>2, <3>8, <3>9, <3>11, DriverAssumption
      <4>2. at(b - 1) \in Nat
        BY <3>4, <4>1
      <4>3. CASE d = b - 1
        <5>1. d < N /\ d + 1 = b
          BY <3>2, <4>1, <4>3
        <5>2. decoder.held < H
          BY <3>3, <3>11, <5>1
        <5> HIDE DEF at, d
        <5> QED BY <3>2, <3>5, <3>6, <4>1, <4>3, <5>2
      <4>4. CASE d # b - 1
        <5>1. d < N /\ d + 1 \in 0..N /\ d + 1 <= b - 1
          BY <2>1, <3>2, <4>1, <4>4
        <5>2. at(d + 1) <= at(b - 1)
          BY <2>1, <4>1, <5>1, OctetsGrow
        <5>3. Arrived < at(d + 1) /\ at(d + 1) \in Nat
          <6>1. at(d + 1) \in Nat
            BY <3>4, <5>1
          <6> HIDE DEF at, d, N
          <6> QED BY <3>2, <3>3, <3>5, <3>6, <3>7, <5>1, <6>1
        <5> HIDE DEF at
        <5> QED BY <3>2, <3>5, <3>6, <4>1, <4>2, <5>2, <5>3
      <4> QED BY <4>3, <4>4
    <3> QED BY <3>9, <3>10, <3>11 DEF b, n
  <2> QED BY <2>3, <2>4 DEF DispatchedAsMeant
<1> QED BY <1>1, InvHolds, PTL
=============================================================================

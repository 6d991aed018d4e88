----------------------------- MODULE Iteration ------------------------------
(***************************************************************************)
(* Induction and recursion, stated for sets and functions in place of      *)
(* operators: what the proofs about recursive functions rest on.           *)
(***************************************************************************)
EXTENDS Integers, Sequences, SequencesExt, NaturalsInduction, WellFoundedInduction, TLAPS

\* A nonempty set of naturals has a least element.
LEMMA LeastNat ==
  ASSUME NEW S \in SUBSET Nat, S # {}
  PROVE  \E m \in S : \A d \in S : m <= d
<1>1. PICK m \in S : \A d \in S : ~(<<d, m>> \in OpToRel(<, Nat))
  BY WFMin, NatLessThanWellFounded, Zenon
<1>2. ASSUME NEW d \in S PROVE m <= d
  <2>1. ~(<<d, m>> \in OpToRel(<, Nat))
    BY <1>1
  <2>2. d < m => <<d, m>> \in OpToRel(<, Nat)
    BY DEF OpToRel
  <2>3. ~(d < m)
    BY <2>1, <2>2, Zenon
  <2> QED BY <2>3
<1> QED BY <1>2

\* A set that has 0 and, with each number below N, the next one, has all up to N.
LEMMA UpTo ==
  ASSUME NEW N \in Nat, NEW G, 0 \in G, \A n \in 0..N : n + 1 \in 0..N /\ n \in G => n + 1 \in G
  PROVE  \A n \in 0..N : n \in G
<1> DEFINE B == {n \in 0..N : n \notin G}
<1>1. SUFFICES ASSUME B # {} PROVE FALSE
  OBVIOUS
<1>2. PICK m \in B : \A d \in B : m <= d
  <2>1. B \in SUBSET Nat
    OBVIOUS
  <2> HIDE DEF B
  <2> QED BY <1>1, <2>1, LeastNat
<1>3. m # 0 /\ m - 1 \in 0..N /\ m - 1 \notin B
  BY <1>2
<1>4. m - 1 \in G /\ (m - 1) + 1 = m
  BY <1>3
<1> QED BY <1>2, <1>3, <1>4

\* A nonempty set of numbers up to N has a greatest element.
LEMMA GreatestUpTo ==
  ASSUME NEW N \in Nat, NEW S \in SUBSET (0..N), S # {}
  PROVE  \E m \in S : \A d \in S : d <= m
<1> DEFINE T == {n \in 0..N : \A d \in S : d <= n}
<1>1. N \in T
  OBVIOUS
<1>2. PICK m \in T : \A d \in T : m <= d
  <2>1. T \in SUBSET Nat
    OBVIOUS
  <2> HIDE DEF T
  <2> QED BY <1>1, <2>1, LeastNat
<1>3. m \in S
  <2> SUFFICES ASSUME m \notin S PROVE FALSE
    OBVIOUS
  <2>1. PICK e \in S : TRUE
    OBVIOUS
  <2>2. m # 0 /\ \A d \in S : d <= m - 1
    BY <1>2, <2>1
  <2>3. m - 1 \in T
    BY <1>2, <2>2
  <2> QED BY <1>2, <2>3
<1> QED BY <1>2, <1>3

\* f is a step within S, repeated N times from base.
Iterates(f, S, N, base, step) ==
    /\ f \in [0..N -> S] /\ f[0] = base
    /\ \A n \in 1..N : f[n] = step[<<f[n - 1], n>>]

\* A step can be repeated: the recursive function exists.
LEMMA IterateExists ==
  ASSUME NEW S, NEW N \in Nat, NEW base \in S, NEW step \in [S \X (1..N) -> S]
  PROVE  \E f : Iterates(f, S, N, base, step)
<1> DEFINE Is(f, m) == /\ f \in [0..m -> S] /\ f[0] = base
                       /\ \A n \in 1..m : f[n] = step[<<f[n - 1], n>>]
           G == {m \in 0..N : \E f : Is(f, m)}
<1>1. 0 \in G
  <2>1. Is([n \in 0..0 |-> base], 0)
    OBVIOUS
  <2>2. 0 \in 0..N
    OBVIOUS
  <2> HIDE DEF Is
  <2> QED BY <2>1, <2>2
<1>2. ASSUME NEW m \in 0..N, m + 1 \in 0..N, m \in G PROVE m + 1 \in G
  <2>1. PICK f : Is(f, m)
    BY <1>2
  <2> DEFINE g == [n \in 0..m + 1 |-> IF n = m + 1 THEN step[<<f[m], m + 1>>] ELSE f[n]]
  <2>2. f[m] \in S /\ m + 1 \in 1..N
    BY <1>2, <2>1
  <2>3. step[<<f[m], m + 1>>] \in S
    BY <2>2
  <2>4. g \in [0..m + 1 -> S] /\ g[0] = base
    BY <1>2, <2>1, <2>3
  <2>5. \A n \in 1..m + 1 : g[n] = step[<<g[n - 1], n>>]
    <3> TAKE n \in 1..m + 1
    <3>1. CASE n = m + 1
      <4>1. g[n] = step[<<f[m], m + 1>>] /\ g[m] = f[m] /\ n - 1 = m
        BY <1>2, <3>1
      <4> HIDE DEF g
      <4> QED BY <3>1, <4>1
    <3>2. CASE n # m + 1
      <4>1. n \in 1..m /\ n - 1 \in 0..m
        BY <1>2, <3>2
      <4>2. g[n] = f[n] /\ g[n - 1] = f[n - 1]
        BY <1>2, <4>1
      <4> HIDE DEF g
      <4> QED BY <2>1, <4>1, <4>2
    <3> QED BY <3>1, <3>2
  <2>6. Is(g, m + 1)
    BY <2>4, <2>5
  <2> HIDE DEF Is
  <2> QED BY <1>2, <2>6
<1>3. N \in G
  <2> HIDE DEF G
  <2> QED BY <1>1, <1>2, UpTo
<1> QED BY <1>3 DEF Iterates

\* f[n] is the concatenation of the first n, and FlattenSeq that of all.
Flattens(f, S, ss) ==
    /\ FlattenSeq(ss) = f[Len(ss)]
    /\ f \in [0..Len(ss) -> Seq(S)] /\ f[0] = <<>>
    /\ \A n \in 1..Len(ss) : f[n] = f[n - 1] \o ss[n]

\* FlattenSeq concatenates from the left.
LEMMA FlattenSum ==
  ASSUME NEW S, NEW ss \in Seq(Seq(S))
  PROVE  \E f : Flattens(f, S, ss)
<1> DEFINE N == Len(ss)
           T == Seq(S)
           base == <<>>
           join(p, n) == p \o ss[n]
           step == [p \in T \X (1..N) |-> join(p[1], p[2])]
           Is(g) == g = [n \in 1..N |-> IF n = 1 THEN ss[n] ELSE join(g[n - 1], n)]
           flatten == CHOOSE g : Is(g)
<1>0. CASE Len(ss) = 0
  <2>1. Flattens([n \in 0..0 |-> <<>>], S, ss)
    BY <1>0 DEF Flattens, FlattenSeq
  <2> QED BY <2>1
<1> SUFFICES ASSUME Len(ss) > 0 PROVE \E f : Flattens(f, S, ss)
  BY <1>0
<1>1. N \in Nat /\ N > 0 /\ \A n \in 1..N : ss[n] \in T
  OBVIOUS
<1>2. base \in T /\ \A p \in T, n \in 1..N : join(p, n) \in T
  BY <1>1
<1>3. PICK f : Iterates(f, T, N, base, step)
  <2>1. step \in [T \X (1..N) -> T]
    <3> HIDE DEF join, T
    <3> QED BY <1>2
  <2> HIDE DEF step, N, T, base
  <2> QED BY <1>1, <1>2, <2>1, IterateExists
<1>4. f \in [0..N -> T] /\ f[0] = base
  BY <1>3 DEF Iterates
<1>5. \A n \in 1..N : f[n] = join(f[n - 1], n)
  <2> TAKE n \in 1..N
  <2>1. n - 1 \in 0..N
    BY <1>1
  <2>2. <<f[n - 1], n>> \in T \X (1..N)
    BY <1>4, <2>1
  <2>3. f[n] = step[<<f[n - 1], n>>]
    BY <1>3 DEF Iterates
  <2> HIDE DEF T, join
  <2> QED BY <2>2, <2>3
<1>6. join(base, 1) = ss[1]
  <2>1. ss[1] \in Seq(S)
    BY <1>1
  <2> QED BY <2>1
<1>7. Is([n \in 1..N |-> f[n]])
  <2> HIDE DEF T, join, base
  <2> QED BY <1>1, <1>4, <1>5, <1>6, SMTT(30)
<1>8. Is(flatten)
  BY <1>7
<1>9. FlattenSeq(ss) = flatten[N]
  BY <1>1 DEF FlattenSeq
<1> DEFINE G == {n \in 0..N : n > 0 => flatten[n] = f[n]}
<1> HIDE DEF flatten, join, base, T
<1>10. 0 \in G
  BY <1>1
<1>11. ASSUME NEW n \in 0..N, n + 1 \in 0..N, n \in G PROVE n + 1 \in G
  <2>1. n + 1 \in 1..N /\ (n + 1) - 1 = n
    BY <1>1, <1>11
  <2>2. f[n + 1] = join(f[n], n + 1)
    BY <1>5, <2>1
  <2>3. flatten[n + 1] = IF n + 1 = 1 THEN ss[n + 1] ELSE join(flatten[n], n + 1)
    BY <1>8, <2>1
  <2>4. CASE n = 0
    <3>1. n + 1 = 1
      BY <2>4
    <3>2. flatten[n + 1] = f[n + 1]
      BY <1>4, <1>6, <2>2, <2>3, <2>4, <3>1
    <3> QED BY <1>11, <3>2
  <2>5. CASE n # 0
    <3>1. n + 1 # 1 /\ n > 0
      BY <2>5
    <3>2. flatten[n + 1] = f[n + 1]
      BY <1>11, <2>2, <2>3, <3>1
    <3> QED BY <1>11, <3>2
  <2> QED BY <2>4, <2>5
<1>12. \A n \in 0..N : n \in G
  <2> HIDE DEF G
  <2> QED BY <1>1, <1>10, <1>11, UpTo
<1>13. flatten[N] = f[N]
  BY <1>1, <1>12
<1> QED BY <1>4, <1>5, <1>9, <1>13 DEF join, base, T, Flattens

LEMMA FlattenTyped ==
  ASSUME NEW S, NEW ss \in Seq(Seq(S))
  PROVE  FlattenSeq(ss) \in Seq(S)
<1>1. PICK f : Flattens(f, S, ss)
  BY FlattenSum
<1>2. Len(ss) \in 0..Len(ss)
  OBVIOUS
<1> QED BY <1>1, <1>2 DEF Flattens

\* One more sequence is one more concatenation.
LEMMA FlattenAppend ==
  ASSUME NEW S, NEW ss \in Seq(Seq(S)), NEW x \in Seq(S)
  PROVE  FlattenSeq(Append(ss, x)) = FlattenSeq(ss) \o x
<1> DEFINE T == Seq(S)
           N == Len(ss)
           tt == Append(ss, x)
<1>1. N \in Nat /\ tt \in Seq(T) /\ Len(tt) = N + 1 /\ tt[N + 1] = x /\ \A n \in 1..N : tt[n] = ss[n]
  <2>1. x \in T /\ ss \in Seq(T)
    OBVIOUS
  <2> HIDE DEF T
  <2> QED BY <2>1
<1>2. PICK f : Flattens(f, S, ss)
  BY FlattenSum
<1>3. PICK g : Flattens(g, S, tt)
  <2>1. tt \in Seq(Seq(S))
    BY <1>1
  <2> HIDE DEF tt
  <2> QED BY <2>1, FlattenSum
<1> DEFINE G == {n \in 0..N : g[n] = f[n]}
<1> HIDE DEF tt, T
<1>4. f[0] = <<>> /\ g[0] = <<>> /\ FlattenSeq(ss) = f[N] /\ FlattenSeq(tt) = g[N + 1]
  BY <1>1, <1>2, <1>3 DEF Flattens
<1>5. \A n \in 1..N : f[n] = f[n - 1] \o ss[n]
  BY <1>2 DEF Flattens
<1>6. \A n \in 1..N + 1 : g[n] = g[n - 1] \o tt[n]
  BY <1>1, <1>3 DEF Flattens
<1> HIDE DEF N
<1>7. 0 \in G
  BY <1>1, <1>4
<1>8. ASSUME NEW n \in 0..N, n + 1 \in 0..N, n \in G PROVE n + 1 \in G
  <2>1. n + 1 \in 1..N /\ n + 1 \in 1..N + 1 /\ (n + 1) - 1 = n
    BY <1>1, <1>8
  <2>2. f[n + 1] = f[n] \o ss[n + 1]
    BY <1>5, <2>1
  <2>3. g[n + 1] = g[n] \o ss[n + 1]
    BY <1>1, <1>6, <2>1
  <2> QED BY <1>8, <2>2, <2>3
<1>9. \A n \in 0..N : n \in G
  <2> HIDE DEF G
  <2> QED BY <1>1, <1>7, <1>8, UpTo
<1>10. g[N] = f[N] /\ N + 1 \in 1..N + 1 /\ (N + 1) - 1 = N
  BY <1>1, <1>9
<1>11. g[N + 1] = g[N] \o x
  BY <1>1, <1>6, <1>10
<1> QED BY <1>4, <1>10, <1>11 DEF tt
=============================================================================
